----------------------------- MODULE OrderClient -----------------------------
(***************************************************************************)
(* The commands of the exchange and issuer plugins.  A command is a        *)
(* sequence of contract invocations, each a transaction of its own, made   *)
(* by one client process that keeps the signed statement an invocation     *)
(* returned until the next one needs it.  It can stop between any two of   *)
(* them: an invocation is refused, a service fails or its answer is lost,  *)
(* or the process ends.  Nothing is rolled back.  What a client knows of   *)
(* an order is in its context, which a notebook writes to a file only when *)
(* its create command has returned.                                        *)
(***************************************************************************)
EXTENDS FairExchange

CONSTANTS
  OfferIssuer, OfferCount,      \* the order context of each party: offer.*
  RequestIssuer, RequestCount,  \* request.*
  RequestUser,                  \* request.user_identity
  KeyOf,                        \* each issuer's verifying key
  NoOrder, NoPaper,
  MaxFailures                   \* bound: spontaneous failures and restarts

\* What the creator asks for, with the key of the request's issuer as the
\* authority.
RequestOf(p) ==
  [type |-> TypeOf[RequestIssuer[p]], count |-> RequestCount[p],
   owner |-> RequestUser[p], authority |-> KeyOf[RequestIssuer[p]]]

ASSUME OrderAssumption ==
  /\ OfferIssuer \in [Parties -> Issuers] /\ RequestIssuer \in [Parties -> Issuers]
  /\ OfferCount \in [Parties -> 0 .. IntMax] /\ RequestCount \in [Parties -> Counts]
  /\ RequestUser \in [Parties -> Parties \cup {Unspecified}]
  /\ KeyOf \in [Issuers -> Authorities]
  /\ \A p \in Parties : RequestOf(p) \in Requests
  /\ NoOrder \notin Exchanges
  /\ NoPaper \notin Asset \cup Statement
  /\ MaxFailures \in Nat

VARIABLES
  created,   \* exchange objects that have been created
  order,     \* save_file in each party's order context: the object it stands for
  stored,    \* the same in the context file
  pc,        \* the invocation each party's command makes next
  paper,     \* the attestation or statement the command holds
  ledger,    \* the issuer the command talks to
  failures   \* failures so far

clientVars == <<created, order, stored, pc, paper, ledger, failures>>
allVars == <<vars, clientVars>>

Invocations ==
  {"offer_escrow", "offer_attestation", "initialize", "save",
   "match_attestation", "exchange", "cancel_attestation", "release", "claim"}

OrderTypeOK ==
  /\ created \subseteq Exchanges
  /\ order \in [Parties -> created \cup {NoOrder}]
  /\ stored \in [Parties -> created \cup {NoOrder}]
  /\ pc \in [Parties -> Invocations \cup {"idle"}]
  /\ paper \in [Parties -> Asset \cup Statement \cup {NoPaper}]
  /\ ledger \in [Parties -> Issuers]
  /\ failures \in 0 .. MaxFailures

ClientInit ==
  /\ created = {}
  /\ order = [p \in Parties |-> NoOrder]
  /\ stored = [p \in Parties |-> NoOrder]
  /\ pc = [p \in Parties |-> "idle"]
  /\ paper = [p \in Parties |-> NoPaper]
  /\ ledger \in [Parties -> Issuers]
  /\ failures = 0

OrderInit == Init /\ ClientInit

Idle(p) == pc[p] = "idle"

\* The next invocation of p's command, with what the command holds and talks to.
Then(p, step, held, i) ==
  /\ pc' = [pc EXCEPT ![p] = step]
  /\ paper' = [paper EXCEPT ![p] = held]
  /\ ledger' = [ledger EXCEPT ![p] = i]
  /\ UNCHANGED <<created, order, stored, failures>>

-----------------------------------------------------------------------------
(* create_order *)

\* A new exchange object, unless the context already has one.
CreateOrder(p, x) ==
  /\ Idle(p) /\ order[p] = NoOrder
  /\ Creator[x] = p /\ x \notin created
  /\ created' = created \cup {x}
  /\ order' = [order EXCEPT ![p] = x]
  /\ pc' = [pc EXCEPT ![p] = "offer_escrow"]
  /\ ledger' = [ledger EXCEPT ![p] = OfferIssuer[p]]
  /\ UNCHANGED <<vars, stored, paper, failures>>

\* op_escrow is two transactions: the escrow, and the attestation it returns.
OfferEscrow(p) ==
  /\ pc[p] = "offer_escrow"
  /\ Escrow(ledger[p], p, order[p], OfferCount[p])
  /\ Then(p, "offer_attestation", paper[p], ledger[p])
  /\ UNCHANGED exchangeVars

\* Mutant of OpEscrowAttestation: any attestation the owner ever got will do.
AnyAttestation(p) ==
  /\ pc[p] \in {"offer_attestation", "match_attestation"}
  /\ EscrowAttestation(ledger[p], p, order[p])
  /\ \E i \in Issuers : \E a \in attested'[i] :
       /\ a.owner = p
       /\ Then(p, IF pc[p] = "offer_attestation" THEN "initialize" ELSE "exchange", a, ledger[p])
  /\ UNCHANGED exchangeVars

OpEscrowAttestation(p) ==
  /\ pc[p] \in {"offer_attestation", "match_attestation"}
  /\ EscrowAttestation(ledger[p], p, order[p])
  /\ \E a \in escrowed[ledger[p]] :
       /\ a.owner = p /\ a.agent = order[p]
       /\ Then(p, IF pc[p] = "offer_attestation" THEN "initialize" ELSE "exchange", a, ledger[p])
  /\ UNCHANGED exchangeVars

OpInitialize(p) ==
  /\ pc[p] = "initialize"
  /\ Initialize(order[p], RequestOf(p), ledger[p], paper[p])
  /\ Then(p, "save", NoPaper, ledger[p])

\* Mutant of SaveOrder: the file is written when the order is made, too.
SaveOrderAnyhow(p) ==
  /\ pc[p] \in {"offer_escrow", "save"}
  /\ pc' = [pc EXCEPT ![p] = IF @ = "save" THEN "idle" ELSE @]
  /\ stored' = [stored EXCEPT ![p] = order[p]]
  /\ UNCHANGED <<vars, created, order, paper, ledger, failures>>

\* The notebook saves the context once the command has returned.
SaveOrder(p) ==
  /\ pc[p] = "save"
  /\ pc' = [pc EXCEPT ![p] = "idle"]
  /\ stored' = [stored EXCEPT ![p] = order[p]]
  /\ UNCHANGED <<vars, created, order, paper, ledger, failures>>

\* The creator's notebook exports the order, another party's imports it.
ImportOrder(p, x) ==
  /\ Idle(p) /\ order[p] = NoOrder
  /\ order[Creator[x]] = x /\ Idle(Creator[x])
  /\ order' = [order EXCEPT ![p] = x]
  /\ stored' = [stored EXCEPT ![p] = x]
  /\ UNCHANGED <<vars, created, pc, paper, ledger, failures>>

-----------------------------------------------------------------------------
(* match_order, cancel, claim_offer, claim_payment.  A command whose first    *)
(* invocation is refused has changed nothing, so it starts with that step.   *)

\* The party may name another issuer and another count than the order's.
MatchOrder(p, i, count) ==
  /\ Idle(p) /\ order[p] # NoOrder
  /\ Escrow(i, p, order[p], count)
  /\ Then(p, "match_attestation", NoPaper, i)
  /\ UNCHANGED exchangeVars

OpExchange(p) ==
  /\ pc[p] = "exchange"
  /\ ExchangeAsset(order[p], p, ledger[p], paper[p])
  /\ Then(p, "idle", NoPaper, ledger[p])

\* op_cancel_exchange is two transactions as well.
CancelOrder(p) ==
  /\ Idle(p) /\ order[p] # NoOrder
  /\ Creator[order[p]] = p
  /\ CancelExchange(order[p])
  /\ Then(p, "cancel_attestation", NoPaper, OfferIssuer[p])

OpCancelAttestation(p) ==
  /\ pc[p] = "cancel_attestation"
  /\ CancelExchangeAttestation(order[p])
  /\ Then(p, "release", ReleaseOf(offered[order[p]]), ledger[p])

\* Mutant of OpRelease: the release is sent to the issuer of the request.
ReleaseAtRequestIssuer(p) ==
  /\ pc[p] = "release"
  /\ Release(RequestIssuer[p], p, paper[p])
  /\ Then(p, "idle", NoPaper, ledger[p])
  /\ UNCHANGED exchangeVars

OpRelease(p) ==
  /\ pc[p] = "release"
  /\ Release(ledger[p], p, paper[p])
  /\ Then(p, "idle", NoPaper, ledger[p])
  /\ UNCHANGED exchangeVars

\* The issuer is the one in the order's offer context.
ClaimOffer(p) ==
  /\ Idle(p) /\ order[p] # NoOrder
  /\ ClaimOfferedAsset(order[p], p)
  /\ Then(p, "claim", ClaimOf(offered[order[p]], p), OfferIssuer[Creator[order[p]]])

\* Mutant of ClaimPayment: the claim goes to the issuer of the offer.
ClaimPaymentAtOfferIssuer(p) ==
  /\ Idle(p) /\ order[p] # NoOrder
  /\ Creator[order[p]] = p
  /\ ClaimExchangedAsset(order[p])
  /\ Then(p, "claim", ClaimOf(exchanged[order[p]], p), OfferIssuer[p])

\* The issuer is the one in the order's request context.
ClaimPayment(p) ==
  /\ Idle(p) /\ order[p] # NoOrder
  /\ Creator[order[p]] = p
  /\ ClaimExchangedAsset(order[p])
  /\ Then(p, "claim", ClaimOf(exchanged[order[p]], p), RequestIssuer[p])

\* Mutant of OpClaim: the count of the claim is left at the constructor's default.
OpClaimUnspecified(p) ==
  /\ pc[p] = "claim"
  /\ Claim(ledger[p], p, paper[p], 0)
  /\ Then(p, "idle", NoPaper, ledger[p])
  /\ UNCHANGED exchangeVars

\* The claim comes with the count the exchange object has put beside its signature.
OpClaim(p) ==
  /\ pc[p] = "claim"
  /\ Claim(ledger[p], p, paper[p], paper[p].asset.count)
  /\ Then(p, "idle", NoPaper, ledger[p])
  /\ UNCHANGED exchangeVars

\* The release command has no body.
ReleaseOrder(p) ==
  /\ Idle(p)
  /\ UNCHANGED allVars

-----------------------------------------------------------------------------
(* The issuer commands that are one invocation. *)

IssueAssets(p, i, count) ==
  Issue(i, p, count) /\ UNCHANGED <<exchangeVars, clientVars>>

TransferAssets(p, q, i, count) ==
  /\ Idle(p)
  /\ Transfer(i, p, q, count)
  /\ UNCHANGED <<exchangeVars, clientVars>>

-----------------------------------------------------------------------------
(* What stops a command. *)

\* The next invocation of a command under way.
Proceed(p) ==
  \/ OfferEscrow(p) \/ OpEscrowAttestation(p) \/ OpInitialize(p) \/ SaveOrder(p)
  \/ OpExchange(p)
  \/ OpCancelAttestation(p) \/ OpRelease(p)
  \/ OpClaim(p)

Stop(p) ==
  /\ ~ Idle(p)
  /\ pc' = [pc EXCEPT ![p] = "idle"]
  /\ paper' = [paper EXCEPT ![p] = NoPaper]
  /\ UNCHANGED <<vars, created, order, stored, ledger>>

\* Whether the contract accepts the invocation p's command makes next.
Accepted(p) ==
  \/ pc[p] = "offer_escrow" /\ Escrowable(ledger[p], p, order[p], OfferCount[p])
  \/ /\ pc[p] \in {"offer_attestation", "match_attestation"}
     /\ ledger[p] \in initialized /\ IsEscrowed(ledger[p], p, order[p])
  \/ pc[p] = "initialize" /\ Offerable(order[p], RequestOf(p), ledger[p], paper[p])
  \/ pc[p] = "save"
  \/ pc[p] = "exchange" /\ Exchangeable(order[p], p, ledger[p], paper[p])
  \/ pc[p] = "cancel_attestation" /\ state[order[p]] = "CANCELLED"
  \/ pc[p] \in {"release", "claim"} /\ ledger[p] \in initialized
     /\ \E a \in escrowed[ledger[p]] :
          IF pc[p] = "release" THEN Releasable(a, p, paper[p])
          ELSE Claimable(a, p, paper[p], paper[p].asset.count)

\* The contract refuses the invocation; the command raises the error.
Refused(p) == ~ Accepted(p) /\ Stop(p) /\ UNCHANGED failures

\* A service fails, an answer is lost, or the user interrupts the command.
Fail(p) == failures < MaxFailures /\ Stop(p) /\ failures' = failures + 1

\* The client process ends; the next one reads the context file.
Restart(p) ==
  /\ failures < MaxFailures
  /\ failures' = failures + 1
  /\ order' = [order EXCEPT ![p] = stored[p]]
  /\ pc' = [pc EXCEPT ![p] = "idle"]
  /\ paper' = [paper EXCEPT ![p] = NoPaper]
  /\ UNCHANGED <<vars, created, stored, ledger>>

Command(p) ==
  \/ \E x \in Exchanges : CreateOrder(p, x) \/ ImportOrder(p, x)
  \/ \E i \in Issuers, count \in 0 .. IntMax : MatchOrder(p, i, count)
  \/ CancelOrder(p) \/ ClaimOffer(p) \/ ClaimPayment(p) \/ ReleaseOrder(p)
  \/ \E i \in Issuers, count \in 0 .. IntMax : IssueAssets(p, i, count)
  \/ \E q \in Parties, i \in Issuers, count \in 0 .. IntMax : TransferAssets(p, q, i, count)

\* The issuers' own commands authorize them (module SetupClient).
OrderNext ==
  \/ \E i \in Issuers : InitializeIssuer(i) /\ UNCHANGED <<exchangeVars, clientVars>>
  \/ \E p \in Parties : Command(p) \/ Proceed(p) \/ Refused(p) \/ Fail(p) \/ Restart(p)

OrderSpec == OrderInit /\ [][OrderNext]_allVars

-----------------------------------------------------------------------------
(* Properties. *)

\* An asset in escrow to x that x does not know and no command is bringing to it.
Stray(i, a) ==
  /\ a \in escrowed[i]
  /\ a # offered[a.agent] /\ a # exchanged[a.agent]
  /\ order[a.owner] = a.agent => Idle(a.owner)

\* The order that a is in escrow to would turn it down.
Unwanted(i, a) ==
  \/ state[a.agent] # "OFFERED"
  \/ a.owner = Creator[a.agent]
  \/ ~ Matches(request[a.agent], i, a)

\* Undisturbed, create_order and match_order leave an asset in escrow only when
\* the exchange object turned it down: the order was settled or never opened by
\* then, or the asset is the creator's own or not what the order asks for.  An
\* asset a standing order would take is never left lying about.
StrayOnlyIfRefused ==
  failures = 0 =>
    \A i \in Issuers : \A a \in escrowed[i] : Stray(i, a) => Unwanted(i, a)

\* What a command under way holds is still good: an attested asset of its
\* party is in escrow to the party's order at the issuer the command talks to,
\* whatever the other parties do between its invocations.
PaperHolds ==
  \A p \in Parties :
    pc[p] \in {"initialize", "exchange"} =>
      /\ paper[p] \in escrowed[ledger[p]] \cap attested[ledger[p]]
      /\ paper[p].owner = p /\ paper[p].agent = order[p]

\* A failed create_order leaves its order in the context, where the other
\* commands take it for a good one, but never in the creator's context file.
FiledIsInitialized ==
  \A x \in Exchanges : stored[Creator[x]] = x => state[x] # "START"

-----------------------------------------------------------------------------
(* Commands that have begun go on or stop; whoever is owed an asset repeats   *)
(* the command that fetches it, and a creator the one that cancels.           *)

OrderFairness ==
  \A p \in Parties :
    /\ WF_allVars(Proceed(p))
    /\ WF_allVars(Refused(p))
    /\ SF_allVars(ClaimOffer(p))
    /\ SF_allVars(ClaimPayment(p))
    /\ SF_allVars(CancelOrder(p))
    /\ WF_allVars(ReleaseOrder(p))

KnownTo(x, p) == p \in Parties /\ order[p] = x

\* The two claim commands can be repeated from the start whatever interrupted
\* them: a completed exchange whose parties still know it is delivered, and they
\* forfeit nothing.
ClaimsComplete ==
  \A x \in Exchanges :
    /\ state[x] = "COMPLETED" ~> OfferPlace(x) = "delivered" \/ ~ KnownTo(x, exchangedOwner[x])
    /\ state[x] = "COMPLETED" ~> PaymentPlace(x) = "delivered" \/ ~ KnownTo(x, Creator[x])

\* An undisturbed cancel command brings the offer back.
CancelCompletes ==
  \A x \in Exchanges :
    state[x] = "CANCELLED" ~> OfferPlace(x) = "returned" \/ failures > 0

-----------------------------------------------------------------------------
(* The inductive invariant behind PaperHolds and FiledIsInitialized, next to *)
(* the one of the exchange objects and the issuers.                          *)

\* An asset in escrow to p's order that the order has not accepted.
OnHand(p, a) ==
  /\ a \in escrowed[ledger[p]]
  /\ a.owner = p /\ a.agent = order[p]
  /\ a \notin {offered[order[p]], exchanged[order[p]]}

\* What p's command has to go on with when its next invocation comes.
Ready(p) ==
  /\ pc[p] # "idle" => order[p] # NoOrder
  /\ pc[p] \in {"offer_escrow", "offer_attestation", "initialize"} =>
       Creator[order[p]] = p /\ state[order[p]] = "START"
  /\ pc[p] = "save" => state[order[p]] # "START"
  /\ pc[p] \in {"offer_attestation", "match_attestation"} =>
       \E a \in escrowed[ledger[p]] : OnHand(p, a)
  /\ pc[p] \in {"initialize", "exchange"} =>
       OnHand(p, paper[p]) /\ paper[p] \in attested[ledger[p]]
  /\ pc[p] \in {"release", "claim"} => paper[p] \in signed

\* No command asks for the release of an asset the order did not accept, so an
\* asset that was not accepted does not leave escrow.
SignedAccepted ==
  \A s \in signed : s.asset \in {offered[s.asset.agent], exchanged[s.asset.agent]}

\* An exchange object is initialized after it was created.
CreatedFirst == \A x \in Exchanges \ created : state[x] = "START"

OrderInv ==
  /\ OrderTypeOK
  /\ CreatedFirst
  /\ \A p \in Parties : Ready(p)
  /\ SignedAccepted
  /\ FiledIsInitialized

-----------------------------------------------------------------------------
(* The inductive invariant behind StrayOnlyIfRefused: while nothing has      *)
(* failed, no client has lost its order.                                     *)

\* Whoever has an asset in escrow still has the order it escrowed it for.
OwnersKnow ==
  \A i \in Issuers : \A a \in escrowed[i] : order[a.owner] = a.agent

\* An order is passed on when its create_order has ended: the order is open by
\* then, or never will be.
SharedAfterwards ==
  \A p \in Parties, x \in Exchanges : order[p] = x /\ p # Creator[x] =>
    /\ order[Creator[x]] = x
    /\ pc[Creator[x]] \notin {"offer_escrow", "offer_attestation", "initialize"}

\* The command of a's owner is on its way to the order with a.
OnItsWay(i, a) ==
  LET p == a.owner IN
  /\ ledger[p] = i
  /\ \/ pc[p] \in {"offer_attestation", "match_attestation"}
     \/ pc[p] \in {"initialize", "exchange"} /\ paper[p] = a

Tended ==
  \A i \in Issuers : \A a \in escrowed[i] :
    a \in {offered[a.agent], exchanged[a.agent]} \/ OnItsWay(i, a) \/ Unwanted(i, a)

OpenLedgers == \A i \in Issuers : escrowed[i] # {} => i \in initialized

StrayInv ==
  /\ OpenLedgers
  /\ failures = 0 => OwnersKnow /\ SharedAfterwards /\ Tended
=============================================================================
