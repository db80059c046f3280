---------------------------- MODULE TokenObject ----------------------------
(***************************************************************************)
(* Token objects: issuers of one asset each, the right to use a digital    *)
(* asset.  A token object keeps the issuer's ledger and, beside it, the    *)
(* owner of the contract object, the only identity its methods obey; every *)
(* transfer and every claim has to move both.  They live beside issuers of *)
(* other assets, under the same escrow agents.                             *)
(***************************************************************************)
EXTENDS Issuer

CONSTANTS
  Tokens,    \* the issuers that are token objects
  Minter     \* the creator of the token objects

ASSUME TokenAssumption == Tokens \subseteq Issuers /\ Minter \in Parties /\ IntMax >= 1

VARIABLE owner      \* the owner in the base contract's metadata

tokenVars == <<issuerVars, owner>>

TokenTypeOK == IssuerTypeOK /\ owner \in [Tokens -> Parties]

TokenInit == IssuerInit /\ owner = [t \in Tokens |-> Minter]

-----------------------------------------------------------------------------
(* The contract methods. *)

\* Invoked by the creator: stores the authority and issues the one asset.
InitializeToken(t) ==
  /\ t \notin initialized
  /\ initialized' = initialized \cup {t}
  /\ entries' = [entries EXCEPT ![t] = {Minter}]
  /\ balance' = [balance EXCEPT ![t][Minter] = 1]
  /\ supply' = [supply EXCEPT ![t] = 1]
  /\ UNCHANGED <<escrowed, nextId, redeemed, forfeited, attested, signed, owner>>

\* Mutant of TransferToken: the old balance is decremented, not overwritten.
TransferTokenBlindly(t, q) ==
  /\ t \in initialized
  /\ owner' = [owner EXCEPT ![t] = q]
  /\ entries' = [entries EXCEPT ![t] = @ \cup {q}]
  /\ balance' = [balance EXCEPT ![t][owner[t]] = @ - 1, ![t][q] = 1]
  /\ UNCHANGED <<initialized, escrowed, nextId, supply, redeemed, forfeited, attested, signed>>

\* Mutant of TransferToken: the ledger is forgotten.
TransferOwnership(t, q) ==
  /\ t \in initialized
  /\ owner' = [owner EXCEPT ![t] = q]
  /\ UNCHANGED issuerVars

\* Invoked by the owner.  The entries are overwritten, whatever they hold.
TransferToken(t, q) ==
  /\ t \in initialized
  /\ owner' = [owner EXCEPT ![t] = q]
  /\ entries' = [entries EXCEPT ![t] = @ \cup {q}]
  /\ balance' = [balance EXCEPT ![t][owner[t]] = 0, ![t][q] = 1]
  /\ UNCHANGED <<initialized, escrowed, nextId, supply, redeemed, forfeited, attested, signed>>

\* The next three are the issuer's methods, for the owner only.
EscrowToken(t, g) == Escrow(t, owner[t], g, 1) /\ UNCHANGED owner

AttestToken(t, g) == EscrowAttestation(t, owner[t], g) /\ UNCHANGED owner

ReleaseToken(t, s) == Release(t, owner[t], s) /\ UNCHANGED owner

\* Invoked by anybody with the agent's claim: takes the old owner's escrow and
\* makes the invoker the owner, whoever the owner is.  Whatever count it presents,
\* its entry is overwritten with 1.
ClaimToken(t, p, s, count) ==
  /\ t \in initialized
  /\ \E a \in escrowed[t] :
       /\ Claimable(a, p, s, count)
       /\ escrowed' = [escrowed EXCEPT ![t] = @ \ {a}]
  /\ entries' = [entries EXCEPT ![t] = @ \cup {p}]
  /\ balance' = [balance EXCEPT ![t][p] = 1]
  /\ owner' = [owner EXCEPT ![t] = p]
  /\ redeemed' = [redeemed EXCEPT ![t] = @ \cup {s}]
  /\ UNCHANGED <<initialized, nextId, supply, forfeited, attested, signed>>

TokenStep(t) ==
  \/ InitializeToken(t)
  \/ \E q \in Parties : TransferToken(t, q)
  \/ \E g \in Agents : EscrowToken(t, g) \/ AttestToken(t, g)
  \/ \E s \in signed : ReleaseToken(t, s)
  \/ \E p \in Parties, s \in signed, count \in Counts : ClaimToken(t, p, s, count)

\* Issuers and token objects share their escrow agents, which sign for both alike.
TokenNext ==
  \/ \E t \in Tokens : TokenStep(t)
  \/ \E i \in Issuers \ Tokens : LedgerStep(i) /\ UNCHANGED owner
  \/ \E i \in Issuers, p \in Parties : \E a \in attested[i] :
       /\ AgentSigns(ReleaseOf(a)) \/ AgentSigns(ClaimOf(a, p))
       /\ UNCHANGED owner

TokenSpec == TokenInit /\ [][TokenNext]_tokenVars

-----------------------------------------------------------------------------
(* Properties. *)

\* The two records of ownership agree: the owner the methods obey is an owner the
\* ledger knows, with an asset in its balance or in an escrow of its own.  A
\* claim may make anyone the owner while others hold stale escrows.
OwnerInPossession ==
  \A t \in initialized \cap Tokens :
    \/ balance[t][owner[t]] > 0
    \/ \E a \in escrowed[t] : a.owner = owner[t]

\* The issuers among them create nothing and lose nothing but what a claimer gives
\* up itself, whatever happens to tokens.  For tokens it would not hold: a token in
\* escrow can be transferred, and is two then.
IssuersConserve == \A i \in Issuers \ Tokens : Conserved(i)

\* Ownership changes hands by the owner's own transfer, which leaves the old
\* owner nothing in its balance, or by a claim its escrow agent signed for the
\* new owner, which takes exactly one asset out of escrow.
OwnershipHandedOver ==
  [][\A t \in Tokens : owner'[t] # owner[t] =>
       \/ balance'[t][owner[t]] = 0 /\ escrowed'[t] = escrowed[t]
       \/ \E s \in redeemed'[t] \ redeemed[t] :
            /\ s \in signed /\ s.op = "claim" /\ s.to = owner'[t]
            /\ escrowed'[t] = escrowed[t] \ {s.asset}]_tokenVars

-----------------------------------------------------------------------------
(* The inductive invariant behind OwnerInPossession. *)

\* Escrows of a token are of one asset each, and at most as many as identifiers were
\* drawn; what a balance exceeds one by was released from an escrow.  Nobody but its
\* creator owns a token object before it is initialized.
PossessionOf(t) ==
  /\ \A a \in escrowed[t] : a.count = 1
  /\ IsFiniteSet(escrowed[t]) /\ Cardinality(escrowed[t]) <= nextId
  /\ \A p \in Parties : balance[t][p] + Cardinality(escrowed[t]) <= nextId + 1
  /\ t \notin initialized => owner[t] = Minter
  /\ t \in initialized =>
       balance[t][owner[t]] > 0 \/ \E a \in escrowed[t] : a.owner = owner[t]

Possession == nextId <= MaxEscrows /\ \A t \in Tokens : PossessionOf(t)
=============================================================================
