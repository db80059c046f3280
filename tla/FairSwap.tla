------------------------------ MODULE FairSwap ------------------------------
(***************************************************************************)
(* What a fair exchange promises, without contracts, signatures or ledgers: *)
(* two assets are put in trust, and then either both change hands or        *)
(* neither does.  Each swap has two legs, the asset its creator offers and  *)
(* the asset a counterparty pays with.  The party a leg is owed to may      *)
(* forfeit it, as its own affair.                                           *)
(***************************************************************************)
CONSTANT Swaps

VARIABLES
  phase,    \* "open", "offered", "matched" or "cancelled"
  offer,    \* where the offered asset is
  payment   \* where the asset given in exchange is

swapVars == <<phase, offer, payment>>

Phase == {"open", "offered", "matched", "cancelled"}
Place == {"none", "held", "returned", "delivered", "forfeited"}

Init ==
  /\ phase = [x \in Swaps |-> "open"]
  /\ offer = [x \in Swaps |-> "none"]
  /\ payment = [x \in Swaps |-> "none"]

\* The offered asset is in trust from the moment the offer stands.
MakeOffer(x) ==
  /\ phase[x] = "open"
  /\ phase' = [phase EXCEPT ![x] = "offered"]
  /\ offer' = [offer EXCEPT ![x] = "held"]
  /\ UNCHANGED payment

\* So is the payment, from the moment the offer is taken.
Match(x) ==
  /\ phase[x] = "offered"
  /\ phase' = [phase EXCEPT ![x] = "matched"]
  /\ payment' = [payment EXCEPT ![x] = "held"]
  /\ UNCHANGED offer

Cancel(x) ==
  /\ phase[x] = "offered"
  /\ phase' = [phase EXCEPT ![x] = "cancelled"]
  /\ UNCHANGED <<offer, payment>>

\* Only a cancelled offer goes back to its creator.
Return(x) ==
  /\ phase[x] = "cancelled" /\ offer[x] = "held"
  /\ offer' = [offer EXCEPT ![x] = "returned"]
  /\ UNCHANGED <<phase, payment>>

\* Only a matched swap delivers, each leg on its own and once.
Taken == {"delivered", "forfeited"}

DeliverOffer(x) ==
  /\ phase[x] = "matched" /\ offer[x] = "held"
  /\ \E place \in Taken : offer' = [offer EXCEPT ![x] = place]
  /\ UNCHANGED <<phase, payment>>

DeliverPayment(x) ==
  /\ phase[x] = "matched" /\ payment[x] = "held"
  /\ \E place \in Taken : payment' = [payment EXCEPT ![x] = place]
  /\ UNCHANGED <<phase, offer>>

Next ==
  \E x \in Swaps :
    \/ MakeOffer(x) \/ Match(x) \/ Cancel(x)
    \/ Return(x) \/ DeliverOffer(x) \/ DeliverPayment(x)

Spec == Init /\ [][Next]_swapVars
=============================================================================
