------------------------------- MODULE Issuer -------------------------------
(***************************************************************************)
(* The issuer contract objects: balance sheets whose assets can be put in  *)
(* escrow to an agent and leave escrow only by a statement that agent      *)
(* signed.  One action is one invocation of a contract method: the method  *)
(* runs to completion on one state, and a failed method changes nothing.   *)
(*                                                                         *)
(* Signatures are modelled by membership: attested holds every escrow      *)
(* attestation an issuer ever signed, signed every release and claim an    *)
(* agent ever signed.  Both only grow and are never consumed, so a client  *)
(* may deliver a statement late, twice, or in any order.  The count that   *)
(* goes with a statement is not part of what is signed: whoever presents   *)
(* the statement fills it in.                                              *)
(***************************************************************************)
EXTENDS Naturals, FiniteSetsExt

CONSTANTS
  Issuers,      \* issuer contract objects
  Types,        \* asset type identifiers
  TypeOf,       \* the asset type each issuer issues
  Parties,      \* identities that own assets
  Agents,       \* identities that act as escrow agents
  Word,         \* number of values of a uint32_t
  IntMax,       \* largest int, the type a method reads a count into
  MaxEscrows    \* bound: how many escrow identifiers may be drawn

ASSUME IssuerAssumption ==
  /\ TypeOf \in [Issuers -> Types]
  /\ Word \in Nat /\ IntMax \in Nat /\ IntMax < Word
  /\ MaxEscrows \in Nat

VARIABLES
  initialized,  \* issuers whose authority has been stored
  entries,      \* identities with an entry in each issuer's ledger store
  balance,      \* LedgerEntry.asset_.count_, per issuer and identity
  escrowed,     \* the escrow_list_s of all of an issuer's entries
  attested,     \* escrow attestations each issuer has signed
  signed,       \* releases and claims the agents have signed
  nextId,       \* the next fresh escrow identifier
  supply,       \* history: the total each issuer has issued
  redeemed,     \* history: the statements each issuer has honoured
  forfeited     \* history: the claims among them that credited nothing

ledgerVars == <<initialized, entries, balance, escrowed, nextId, supply, redeemed, forfeited>>
issuerVars == <<ledgerVars, attested, signed>>

Counts == 0 .. Word - 1

Asset == [owner: Parties, type: Types, agent: Agents, count: Counts, id: Nat]

Statement == [op: {"release", "claim"}, asset: Asset, to: Parties]

ReleaseOf(a) == [op |-> "release", asset |-> a, to |-> a.owner]

ClaimOf(a, p) == [op |-> "claim", asset |-> a, to |-> p]

IssuerTypeOK ==
  /\ initialized \subseteq Issuers
  /\ entries \in [Issuers -> SUBSET Parties]
  /\ balance \in [Issuers -> [Parties -> Counts]]
  /\ escrowed \in [Issuers -> SUBSET Asset]
  /\ attested \in [Issuers -> SUBSET Asset]
  /\ signed \subseteq Statement
  /\ nextId \in Nat
  /\ supply \in [Issuers -> Nat]
  /\ redeemed \in [Issuers -> SUBSET Statement]
  /\ forfeited \in [Issuers -> SUBSET Statement]

IssuerInit ==
  /\ initialized = {}
  /\ entries = [i \in Issuers |-> {}]
  /\ balance = [i \in Issuers |-> [p \in Parties |-> 0]]
  /\ escrowed = [i \in Issuers |-> {}]
  /\ attested = [i \in Issuers |-> {}]
  /\ signed = {}
  /\ nextId = 0
  /\ supply = [i \in Issuers |-> 0]
  /\ redeemed = [i \in Issuers |-> {}]
  /\ forfeited = [i \in Issuers |-> {}]

-----------------------------------------------------------------------------
(* The ledger entry operations the methods are built from. *)

\* uint32_t addition
Plus(m, n) == (m + n) % Word

\* Mutant of IsEscrowed: an owner may escrow to one agent several times.
NeverEscrowed(i, p, g) == FALSE

IsEscrowed(i, p, g) == \E a \in escrowed[i] : a.owner = p /\ a.agent = g

\* The asset an escrow creates: a copy of the owner's asset with the escrowed
\* count, the agent, and a random identifier no earlier escrow has drawn.
EscrowAsset(i, p, g, n) ==
  [owner |-> p, type |-> TypeOf[i], agent |-> g, count |-> n, id |-> nextId]

\* Mutant of Verified: the signature does not cover the escrow identifier.
VerifiedWithoutId(s, op, a, p) ==
  s \in signed /\ s.op = op /\ s.to = p /\ s.asset = [a EXCEPT !.id = s.asset.id]

\* Mutant of Verified: the signature does not cover the party a claim names.
VerifiedForAnyone(s, op, a, p) ==
  s \in signed /\ s.op = op /\ s.asset = a

\* The agent's signature over the serialized asset, which includes the escrow
\* identifier, and over the party a claim names.
Verified(s, op, a, p) ==
  s \in signed /\ s.op = op /\ s.asset = a /\ s.to = p

\* Partial releases and claims are not supported; a request for 0 means all.
FullCount(count, a) == count = 0 \/ count = a.count

-----------------------------------------------------------------------------
(* The contract methods. *)

\* The issuer stores the authority a vetting organization gave it.
InitializeIssuer(i) ==
  /\ i \notin initialized
  /\ initialized' = initialized \cup {i}
  /\ UNCHANGED <<entries, balance, escrowed, nextId, supply, redeemed, forfeited, attested, signed>>

\* Invoked by the issuer's owner.
Issue(i, p, count) ==
  /\ i \in initialized
  /\ p \notin entries[i]
  /\ count > 0
  /\ entries' = [entries EXCEPT ![i] = @ \cup {p}]
  /\ balance' = [balance EXCEPT ![i][p] = count]
  /\ supply' = [supply EXCEPT ![i] = @ + count]
  /\ UNCHANGED <<initialized, escrowed, nextId, redeemed, forfeited, attested, signed>>

\* Mutant of Transfer: no case for a transfer to oneself, whose two copies of the
\* one entry are then both changed and saved.
TransferToAnyone(i, p, q, count) ==
  /\ i \in initialized
  /\ count > 0
  /\ p \in entries[i]
  /\ count <= balance[i][p]
  /\ entries' = [entries EXCEPT ![i] = @ \cup {q}]
  /\ balance' = [balance EXCEPT ![i][p] = @ - count,
                               ![i][q] = Plus(balance[i][q], count)]
  /\ UNCHANGED <<initialized, escrowed, nextId, supply, redeemed, forfeited, attested, signed>>

\* A transfer to oneself succeeds and changes nothing.
Transfer(i, p, q, count) ==
  /\ i \in initialized
  /\ p # q
  /\ count > 0
  /\ p \in entries[i]
  /\ count <= balance[i][p]
  /\ entries' = [entries EXCEPT ![i] = @ \cup {q}]
  /\ balance' = [balance EXCEPT ![i][p] = @ - count, ![i][q] = Plus(@, count)]
  /\ UNCHANGED <<initialized, escrowed, nextId, supply, redeemed, forfeited, attested, signed>>

\* A count of 0 escrows the whole balance.
EscrowCount(i, p, count) == IF count = 0 THEN balance[i][p] ELSE count

Escrowable(i, p, g, count) ==
  /\ i \in initialized
  /\ p \in entries[i]
  /\ ~ IsEscrowed(i, p, g)
  /\ EscrowCount(i, p, count) <= balance[i][p]
  /\ nextId < MaxEscrows

Escrow(i, p, g, count) ==
  LET n == EscrowCount(i, p, count) IN
  /\ Escrowable(i, p, g, count)
  /\ balance' = [balance EXCEPT ![i][p] = @ - n]
  /\ escrowed' = [escrowed EXCEPT ![i] = @ \cup {EscrowAsset(i, p, g, n)}]
  /\ nextId' = nextId + 1
  /\ UNCHANGED <<initialized, entries, supply, redeemed, forfeited, attested, signed>>

\* Read-only: the issuer signs the asset its owner has escrowed to the agent.
EscrowAttestation(i, p, g) ==
  /\ i \in initialized
  /\ \E a \in escrowed[i] :
       /\ a.owner = p /\ a.agent = g
       /\ attested' = [attested EXCEPT ![i] = @ \cup {a}]
  /\ UNCHANGED <<ledgerVars, signed>>

Releasable(a, p, s) ==
  /\ a.owner = p /\ a.agent = s.asset.agent
  /\ Verified(s, "release", a, p)

\* The invoker's own escrow to the agent that signed s goes back to its balance.
\* The request has to come with the asset's very count.
Release(i, p, s) ==
  /\ i \in initialized
  /\ \E a \in escrowed[i] :
       /\ Releasable(a, p, s)
       /\ balance' = [balance EXCEPT ![i][p] = Plus(@, a.count)]
       /\ escrowed' = [escrowed EXCEPT ![i] = @ \ {a}]
  /\ redeemed' = [redeemed EXCEPT ![i] = @ \cup {s}]
  /\ UNCHANGED <<initialized, entries, nextId, supply, forfeited, attested, signed>>

Claimable(a, p, s, count) ==
  /\ a.owner = s.asset.owner /\ a.agent = s.asset.agent
  /\ Verified(s, "claim", a, p)
  /\ FullCount(count, a)

\* The invoker takes over the escrow of the owner the request names.  It is
\* credited the count it presents, which may be the 0 that stands for all.
Claim(i, p, s, count) ==
  /\ i \in initialized
  /\ \E a \in escrowed[i] :
       /\ Claimable(a, p, s, count)
       /\ escrowed' = [escrowed EXCEPT ![i] = @ \ {a}]
  /\ entries' = [entries EXCEPT ![i] = @ \cup {p}]
  /\ balance' = [balance EXCEPT ![i][p] = Plus(@, count)]
  /\ redeemed' = [redeemed EXCEPT ![i] = @ \cup {s}]
  /\ forfeited' = IF count = s.asset.count THEN forfeited
                  ELSE [forfeited EXCEPT ![i] = @ \cup {s}]
  /\ UNCHANGED <<initialized, nextId, supply, attested, signed>>

LedgerStep(i) ==
  \/ InitializeIssuer(i)
  \/ \E p \in Parties, count \in 0 .. IntMax : Issue(i, p, count)
  \/ \E p, q \in Parties, count \in 0 .. IntMax : Transfer(i, p, q, count)
  \/ \E p \in Parties, g \in Agents, count \in 0 .. IntMax : Escrow(i, p, g, count)
  \/ \E p \in Parties, g \in Agents : EscrowAttestation(i, p, g)
  \/ \E p \in Parties, s \in signed : Release(i, p, s)
  \/ \E p \in Parties, s \in signed, count \in Counts : Claim(i, p, s, count)

-----------------------------------------------------------------------------
(* An escrow agent is simply a signing authority.  On its own it may sign   *)
(* anything about an asset an issuer has attested to be escrowed to it,     *)
(* several contradictory statements included.                               *)

AgentSigns(s) ==
  /\ signed' = signed \cup {s}
  /\ UNCHANGED <<ledgerVars, attested>>

IssuerNext ==
  \/ \E i \in Issuers : LedgerStep(i)
  \/ \E i \in Issuers, p \in Parties : \E a \in attested[i] :
       AgentSigns(ReleaseOf(a)) \/ AgentSigns(ClaimOf(a, p))

IssuerSpec == IssuerInit /\ [][IssuerNext]_issuerVars

-----------------------------------------------------------------------------
(* Properties. *)

\* An owner has at most one escrow per agent at an issuer, so that the agent's
\* identity in a request designates one asset, and no two escrows anywhere
\* share an identifier.  asset_is_escrowed and the random identifier of
\* Asset::escrow are there to establish it.
EscrowUnique ==
  \A i, j \in Issuers : \A a \in escrowed[i], b \in escrowed[j] :
    \/ a.id = b.id
    \/ i = j /\ a.owner = b.owner /\ a.agent = b.agent
    => i = j /\ a = b

\* However late, often or contradictory the statements of an agent arrive, an
\* escrow is settled once: two honoured statements are never about the same
\* escrow identifier, at one issuer or at two.
OneOutcome ==
  \A i, j \in Issuers : \A s \in redeemed[i], t \in redeemed[j] :
    s.asset.id = t.asset.id => i = j /\ s = t

\* An escrow attestation stays true until the agent it names decides: the
\* attested asset is still escrowed, or the issuer has honoured a statement the
\* agent signed about this very asset.  An exchange that accepted the
\* attestation relies on it.
HeldUntilSigned ==
  \A i \in Issuers : \A a \in attested[i] :
    a \in escrowed[i] \/ \E s \in redeemed[i] \cap signed : s.asset = a

\* The sum of the values of f, which are counts: its units, counted one by one.
Units(f) == {u \in (DOMAIN f) \X Counts : u[2] < f[u[1]]}
Total(f) == Cardinality(Units(f))

EscrowCounts(i) == [a \in escrowed[i] |-> a.count]
Holdings(i) == Total(balance[i]) + Total(EscrowCounts(i))
ForfeitedCounts(i) == [s \in forfeited[i] |-> s.asset.count]
Accountable(i) == Holdings(i) + Total(ForfeitedCounts(i))

\* Everything an issuer has issued is in a balance, in an escrow, or was given up
\* by a claimer that was paid 0 because it claimed 0, the count that stands for
\* all.  Balances are uint32_t and nothing bounds the total issued, so the count
\* is exact only while the total fits a word and holds modulo the word beyond that.
Conserved(i) ==
  /\ Accountable(i) % Word = supply[i] % Word
  /\ supply[i] < Word => Accountable(i) = supply[i]

\* A step that takes an asset out of escrow honours a statement its agent signed
\* and gives the whole asset to the party the statement names: the owner for a
\* release, the new owner for a claim.  Only a claim can give nothing instead, and
\* only to the party it names.  Nobody is paid in part and no other balance moves.
PaidToNamed ==
  [][\A i \in Issuers : \A a \in escrowed[i] \ escrowed'[i] :
       \E s \in signed :
         /\ s.asset = a
         /\ \/ balance'[i] = [balance[i] EXCEPT ![s.to] = Plus(@, a.count)]
            \/ /\ s = ClaimOf(a, s.to) /\ s \in forfeited'[i]
               /\ balance'[i] = balance[i]]_issuerVars

-----------------------------------------------------------------------------
(* The inductive invariant behind EscrowUnique, OneOutcome, HeldUntilSigned  *)
(* and PaidToNamed.                                                          *)

\* Identifiers are drawn in order: whatever refers to an escrow refers to an
\* identifier already drawn.
IdsDrawn ==
  \A i \in Issuers :
    /\ \A a \in escrowed[i] \cup attested[i] : a.id < nextId
    /\ \A s \in redeemed[i] : s.asset.id < nextId

\* A settled escrow identifier is never in escrow again.
SettledGone ==
  \A i, j \in Issuers : \A s \in redeemed[i], a \in escrowed[j] :
    s.asset.id # a.id

\* Issuers honour only what was signed.
StatementsSigned ==
  \A i \in Issuers : forfeited[i] \subseteq redeemed[i] /\ redeemed[i] \subseteq signed

\* The custody of escrowed assets: every identifier is in escrow once, or was
\* settled once by a statement its agent signed.
Custody ==
  /\ IdsDrawn
  /\ EscrowUnique
  /\ SettledGone
  /\ StatementsSigned
  /\ OneOutcome
  /\ HeldUntilSigned

-----------------------------------------------------------------------------
(* The inductive invariant behind Conserved.                                 *)

\* Units are finitely many, nobody without an entry has any, in its balance or in
\* escrow, and what was issued and is neither there nor given up any more was lost
\* a word at a time, by balances that wrapped.
Accounted(i) ==
  /\ IsFiniteSet(Units(balance[i])) /\ IsFiniteSet(Units(EscrowCounts(i)))
  /\ IsFiniteSet(Units(ForfeitedCounts(i)))
  /\ \A p \in Parties \ entries[i] : balance[i][p] = 0
  /\ \A a \in escrowed[i] : a.owner \in entries[i]
  /\ Accountable(i) <= supply[i] /\ (supply[i] - Accountable(i)) % Word = 0
=============================================================================
