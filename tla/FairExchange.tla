---------------------------- MODULE FairExchange ----------------------------
(***************************************************************************)
(* The exchange contract objects composed with the issuers that hold the   *)
(* assets they arbitrate.  Every escrow agent is an exchange object, so    *)
(* the only releases and claims ever signed are the ones its methods sign. *)
(*                                                                         *)
(* Every method that reads without writing (the claim and release          *)
(* attestations) signs in the state it reads.  Every invocation is taken   *)
(* to be committed; module Authority has what uncommitted states may do.    *)
(***************************************************************************)
EXTENDS Issuer

CONSTANTS
  Creator,      \* the identity that created each exchange object
  Requests,     \* the asset requests a creator may submit
  Authorities,  \* keys of vetting organizations and of the issuers they approve
  ChainOf,      \* the keys in each issuer's authority chain, its root included
  Unspecified,  \* "" in a request: any owner, or any issuer, will do
  NoRequest,    \* "" in exchange_state
  NoAsset,
  NoParty

Exchanges == Agents

Request ==
  [type: Types, count: Counts,
   owner: Parties \cup {Unspecified}, authority: Authorities \cup {Unspecified}]

ASSUME ExchangeAssumption ==
  /\ Creator \in [Exchanges -> Parties]
  /\ Requests \subseteq Request
  /\ ChainOf \in [Issuers -> SUBSET Authorities]
  /\ Unspecified \notin Parties \cup Authorities
  /\ NoRequest \notin Request
  /\ NoAsset \notin Asset
  /\ NoParty \notin Parties

VARIABLES
  state,            \* current_state
  request,          \* asset_request
  offered,          \* offered_asset
  exchanged,        \* exchanged_asset
  exchangedOwner    \* exchanged_asset_owner

exchangeVars == <<state, request, offered, exchanged, exchangedOwner>>
vars == <<issuerVars, exchangeVars>>

States == {"START", "OFFERED", "COMPLETED", "CANCELLED"}

TypeOK ==
  /\ IssuerTypeOK
  /\ state \in [Exchanges -> States]
  /\ request \in [Exchanges -> Request \cup {NoRequest}]
  /\ offered \in [Exchanges -> Asset \cup {NoAsset}]
  /\ exchanged \in [Exchanges -> Asset \cup {NoAsset}]
  /\ exchangedOwner \in [Exchanges -> Parties \cup {NoParty}]

ExchangeInit ==
  /\ state = [x \in Exchanges |-> "START"]
  /\ request = [x \in Exchanges |-> NoRequest]
  /\ offered = [x \in Exchanges |-> NoAsset]
  /\ exchanged = [x \in Exchanges |-> NoAsset]
  /\ exchangedOwner = [x \in Exchanges |-> NoParty]

Init == IssuerInit /\ ExchangeInit

-----------------------------------------------------------------------------
(* The exchange object's methods. *)

\* AuthoritativeAsset::validate: issuer i signed the asset.
Authoritative(i, a) == i \in Issuers /\ a \in attested[i]

\* Mutant of Matches: the requested issuer is not looked up in the chain.
MatchesUnvetted(r, i, a) ==
  /\ a.type = r.type
  /\ a.count >= r.count
  /\ r.owner # Unspecified => a.owner = r.owner

\* AssetRequest::check_for_match: the owner and the issuer are optional checks.
Matches(r, i, a) ==
  /\ a.type = r.type
  /\ a.count >= r.count
  /\ r.owner # Unspecified => a.owner = r.owner
  /\ r.authority # Unspecified => r.authority \in ChainOf[i]

\* Mutant of Settled: a completed exchange releases nothing.
CancelledOnly(x) == state[x] = "CANCELLED"

\* No further escrow can be accepted.
Settled(x) == state[x] \in {"COMPLETED", "CANCELLED"}

Offerable(x, r, i, a) ==
  /\ state[x] = "START"
  /\ r.count > 0
  /\ a.owner = Creator[x]
  /\ Authoritative(i, a)
  /\ a.agent = x

\* The creator offers an asset it has escrowed to the exchange.
Initialize(x, r, i, a) ==
  /\ Offerable(x, r, i, a)
  /\ request' = [request EXCEPT ![x] = r]
  /\ offered' = [offered EXCEPT ![x] = a]
  /\ state' = [state EXCEPT ![x] = "OFFERED"]
  /\ UNCHANGED <<issuerVars, exchanged, exchangedOwner>>

\* Mutant of CancelExchange: the state is not checked to be exactly OFFERED.
CancelLate(x) ==
  /\ state[x] \in {"OFFERED", "COMPLETED"}
  /\ state' = [state EXCEPT ![x] = "CANCELLED"]
  /\ UNCHANGED <<issuerVars, request, offered, exchanged, exchangedOwner>>

\* Invoked by the creator.
CancelExchange(x) ==
  /\ state[x] = "OFFERED"
  /\ state' = [state EXCEPT ![x] = "CANCELLED"]
  /\ UNCHANGED <<issuerVars, request, offered, exchanged, exchangedOwner>>

\* Invoked by the creator; signs the release of the offered asset.
CancelExchangeAttestation(x) ==
  /\ state[x] = "CANCELLED"
  /\ AgentSigns(ReleaseOf(offered[x]))
  /\ UNCHANGED exchangeVars

Exchangeable(x, p, i, a) ==
  /\ state[x] = "OFFERED"
  /\ p # Creator[x]
  /\ a.owner = p
  /\ Authoritative(i, a)
  /\ a.agent = x
  /\ Matches(request[x], i, a)

\* Party p submits an asset it has escrowed to the exchange.
ExchangeAsset(x, p, i, a) ==
  /\ Exchangeable(x, p, i, a)
  /\ exchanged' = [exchanged EXCEPT ![x] = a]
  /\ exchangedOwner' = [exchangedOwner EXCEPT ![x] = p]
  /\ state' = [state EXCEPT ![x] = "COMPLETED"]
  /\ UNCHANGED <<issuerVars, request, offered>>

\* Mutant of ClaimExchangedAsset: the claim is signed for the old owner.
ClaimForOldOwner(x) ==
  /\ state[x] = "COMPLETED"
  /\ AgentSigns(ClaimOf(exchanged[x], exchangedOwner[x]))
  /\ UNCHANGED exchangeVars

\* Invoked by the creator; signs the claim of the asset it asked for.
ClaimExchangedAsset(x) ==
  /\ state[x] = "COMPLETED"
  /\ AgentSigns(ClaimOf(exchanged[x], Creator[x]))
  /\ UNCHANGED exchangeVars

\* Mutant of ClaimOfferedAsset: the invoker's identity is not checked.
ClaimOfferedByAnyone(x, p) ==
  /\ state[x] = "COMPLETED"
  /\ AgentSigns(ClaimOf(offered[x], p))
  /\ UNCHANGED exchangeVars

\* Invoked by the counterparty; signs the claim of the asset on offer.
ClaimOfferedAsset(x, p) ==
  /\ state[x] = "COMPLETED"
  /\ exchangedOwner[x] = p
  /\ AgentSigns(ClaimOf(offered[x], p))
  /\ UNCHANGED exchangeVars

\* Anybody else gets a release for an asset it escrowed to the exchange in vain.
ReleaseAsset(x, p, i, a) ==
  /\ Settled(x)
  /\ p # Creator[x]
  /\ p # exchangedOwner[x]
  /\ Authoritative(i, a)
  /\ a.agent = x
  /\ a.owner = p
  /\ AgentSigns(ReleaseOf(a))
  /\ UNCHANGED exchangeVars

ExchangeStep(x) ==
  \/ \E r \in Requests, i \in Issuers : \E a \in attested[i] : Initialize(x, r, i, a)
  \/ CancelExchange(x)
  \/ CancelExchangeAttestation(x)
  \/ \E p \in Parties, i \in Issuers : \E a \in attested[i] : ExchangeAsset(x, p, i, a)
  \/ ClaimExchangedAsset(x)
  \/ \E p \in Parties : ClaimOfferedAsset(x, p)
  \/ \E p \in Parties, i \in Issuers : \E a \in attested[i] : ReleaseAsset(x, p, i, a)

Next ==
  \/ \E i \in Issuers : LedgerStep(i) /\ UNCHANGED exchangeVars
  \/ \E x \in Exchanges : ExchangeStep(x)

Spec == Init /\ [][Next]_vars

-----------------------------------------------------------------------------
(* The refinement mapping to the swap each exchange object arbitrates. *)

InEscrow(a) == \E i \in Issuers : a \in escrowed[i]
Honoured(s) == \E i \in Issuers : s \in redeemed[i]
Forfeited(s) == \E i \in Issuers : s \in forfeited[i]

\* Where an asset the exchange accepted is now; p is whom the swap owes it to.
PlaceOf(a, p) ==
  IF a = NoAsset THEN "none"
  ELSE IF InEscrow(a) THEN "held"
  ELSE IF p # NoParty /\ Forfeited(ClaimOf(a, p)) THEN "forfeited"
  ELSE IF p # NoParty /\ Honoured(ClaimOf(a, p)) THEN "delivered"
  ELSE IF Honoured(ReleaseOf(a)) THEN "returned"
  ELSE "lost"

OfferPlace(x) == PlaceOf(offered[x], exchangedOwner[x])
PaymentPlace(x) == PlaceOf(exchanged[x], Creator[x])

PhaseOf ==
  [START |-> "open", OFFERED |-> "offered",
   COMPLETED |-> "matched", CANCELLED |-> "cancelled"]

Swap == INSTANCE FairSwap WITH
  Swaps <- Exchanges,
  phase <- [x \in Exchanges |-> PhaseOf[state[x]]],
  offer <- [x \in Exchanges |-> OfferPlace(x)],
  payment <- [x \in Exchanges |-> PaymentPlace(x)]

-----------------------------------------------------------------------------
(* Properties. *)

\* "A fair exchange contract coordinates the exchange of ownership to guarantee
\* that both sides receive their assets (or neither does)": for every exchange
\* object the issuers' ledgers and the object's state together behave as the
\* abstract swap.  An accepted asset stays in escrow until the exchange's state
\* settles whose it is, reaches that party and no other, and is never lost except
\* to a claim of that party's own that asks for no particular count.
SwapRefined == Swap!Spec

\* The exchange never signs two statements that dispose of one asset
\* differently: a release of the offer and a claim on it, or the claims of two
\* parties.  Its read-only methods can be invoked any number of times, by
\* anyone, before and after each other.
OneDisposition ==
  \A s, t \in signed : s.asset = t.asset => s = t

\* What the creator is owed in a completed swap is what it asked for, wherever
\* the assets went since: somebody else's asset of the requested type, count and
\* owner, still held for the creator or already claimed by it at an issuer whose
\* authority chain contains the requested key.
PaymentAsRequested ==
  \A x \in Exchanges : state[x] = "COMPLETED" =>
    LET r == request[x]  a == exchanged[x] IN
    /\ a.owner # Creator[x]
    /\ a.type = r.type /\ a.count >= r.count /\ a.count > 0
    /\ r.owner \in {Unspecified, a.owner}
    /\ \E i \in Issuers :
         /\ a \in escrowed[i] \/ ClaimOf(a, Creator[x]) \in redeemed[i]
         /\ r.authority \in ChainOf[i] \cup {Unspecified}

-----------------------------------------------------------------------------
(* Nothing obliges a party to escrow, offer or answer.  Once an exchange is   *)
(* settled, every party it owes something to fetches its attestation, now or  *)
(* later, and presents it to the issuer with the count the exchange filled in; *)
(* none of these calls can be refused.                                        *)

LedgerCall(A) == A /\ UNCHANGED exchangeVars

Fairness ==
  /\ \A x \in Exchanges :
       /\ WF_vars(ClaimExchangedAsset(x))
       /\ WF_vars(CancelExchangeAttestation(x))
       /\ \A p \in Parties :
            /\ WF_vars(ClaimOfferedAsset(x, p))
            /\ WF_vars(\E i \in Issuers : \E a \in attested[i] : ReleaseAsset(x, p, i, a))
  /\ \A i \in Issuers, p \in Parties :
       /\ \A x \in Exchanges : WF_vars(LedgerCall(EscrowAttestation(i, p, x)))
       /\ WF_vars(LedgerCall(\E s \in signed : Release(i, p, s)))
       /\ WF_vars(LedgerCall(\E s \in signed : Claim(i, p, s, s.asset.count)))

LiveSpec == Spec /\ Fairness

\* A completed exchange delivers both assets, unless the party an asset is owed to
\* forfeits it, and a cancelled one gives the offer back: no order of the other
\* parties' calls leaves an accepted asset in escrow.
SwapSettles ==
  \A x \in Exchanges :
    /\ state[x] = "COMPLETED"
         ~> OfferPlace(x) \in Swap!Taken /\ PaymentPlace(x) \in Swap!Taken
    /\ state[x] = "CANCELLED" ~> OfferPlace(x) = "returned"

\* An asset escrowed to a settled exchange by a party the swap did not involve
\* leaves escrow.  (The creator and the counterparty have no such method for
\* further assets: release_asset refuses them.)
BystandersReleased ==
  \A x \in Exchanges, i \in Issuers, p \in Parties, n \in 0 .. MaxEscrows - 1 :
    LET Waiting == \E a \in escrowed[i] : a.id = n /\ a.agent = x /\ a.owner = p
    IN  /\ state[x] \in {"COMPLETED", "CANCELLED"}
        /\ p \notin {Creator[x], exchangedOwner[x]}
        /\ Waiting
        ~> ~ Waiting

-----------------------------------------------------------------------------
(* The inductive invariant behind SwapRefined, OneDisposition and           *)
(* PaymentAsRequested.                                                      *)

Attested(a) == \E i \in Issuers : a \in attested[i]

\* What exchange_state records in each state of the object.
Recorded ==
  \A x \in Exchanges :
    /\ state[x] = "START" => offered[x] = NoAsset
    /\ state[x] # "START" =>
         /\ offered[x] \in Asset /\ Attested(offered[x])
         /\ offered[x].agent = x /\ offered[x].owner = Creator[x]
         /\ request[x] \in Request /\ request[x].count > 0
    /\ state[x] # "COMPLETED" =>
         exchanged[x] = NoAsset /\ exchangedOwner[x] = NoParty
    /\ state[x] = "COMPLETED" =>
         /\ exchanged[x] \in Asset
         /\ \E i \in Issuers :
              exchanged[x] \in attested[i] /\ Matches(request[x], i, exchanged[x])
         /\ exchanged[x].agent = x /\ exchanged[x].owner = exchangedOwner[x]
         /\ exchangedOwner[x] \in Parties \ {Creator[x]}

\* Which statements an exchange object may have signed, given its state now.
Justified(s) ==
  LET x == s.asset.agent IN
  \/ state[x] = "CANCELLED" /\ s = ReleaseOf(offered[x])
  \/ state[x] = "COMPLETED" /\ s = ClaimOf(offered[x], exchangedOwner[x])
  \/ state[x] = "COMPLETED" /\ s = ClaimOf(exchanged[x], Creator[x])
  \/ /\ state[x] \in {"COMPLETED", "CANCELLED"}
     /\ s = ReleaseOf(s.asset)
     /\ s.asset.owner \notin {Creator[x], exchangedOwner[x]}

Arbitration == Recorded /\ \A s \in signed : Justified(s)
=============================================================================
