--------------------------- MODULE MCFairExchange ---------------------------
EXTENDS FairExchange, TLC

CONSTANTS blue, red, alice, bob, carol, x1, blueBank, redBank, vetter, stranger

\* Alice offers blue for red.  The red issuer's chain has one vetting organization;
\* she asks for it, or for another, or for nobody's asset but bob's.
MCTypeOf == [i \in Issuers |-> IF i = blueBank THEN blue ELSE red]
MCCreator == [x \in Exchanges |-> alice]
MCChainOf == [i \in Issuers |-> {vetter}]
MCRequests ==
  {[type |-> red, count |-> 1, owner |-> Unspecified, authority |-> vetter],
   [type |-> red, count |-> 1, owner |-> Unspecified, authority |-> stranger],
   [type |-> red, count |-> 1, owner |-> bob, authority |-> Unspecified]}

\* Her offer is in escrow, still to be submitted, and bob and carol, with a red
\* asset each, may both try to take it.  Everyone has an entry, as it does once it
\* has received and passed on an asset, so nothing more is issued.
AliceOffer == [owner |-> alice, type |-> blue, agent |-> x1, count |-> 1, id |-> 0]
OnlyFor(i, v, w) == [j \in Issuers |-> IF j = i THEN v ELSE w]

MCEscrowedInit ==
  /\ initialized = Issuers
  /\ balance = [i \in Issuers |->
                  [p \in Parties |-> IF p # alice /\ i = redBank THEN 1 ELSE 0]]
  /\ entries = [i \in Issuers |-> Parties]
  /\ supply = [i \in Issuers |-> IF i = blueBank THEN 1 ELSE Cardinality(Parties) - 1]
  /\ escrowed = OnlyFor(blueBank, {AliceOffer}, {})
  /\ attested = OnlyFor(blueBank, {AliceOffer}, {})
  /\ signed = {}
  /\ nextId = 1
  /\ redeemed = [i \in Issuers |-> {}]
  /\ forfeited = [i \in Issuers |-> {}]
  /\ ExchangeInit

MCLiveSpec == MCEscrowedInit /\ [][Next]_vars /\ Fairness
=============================================================================
