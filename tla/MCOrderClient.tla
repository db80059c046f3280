---------------------------- MODULE MCOrderClient ----------------------------
EXTENDS OrderClient, TLC

CONSTANTS blue, red, alice, bob, carol, x1, x2, blueBank, redBank, vetter,
          blueKey, redKey

\* Alice offers blue for red, bob red for blue; each trusts the other's issuer.
MCTypeOf == [i \in Issuers |-> IF i = blueBank THEN blue ELSE red]
MCCreator == [x \in Exchanges |-> alice]
MCKeyOf == [i \in Issuers |-> IF i = blueBank THEN blueKey ELSE redKey]
MCChainOf == [i \in Issuers |-> {vetter, MCKeyOf[i]}]
MCOfferIssuer == [p \in Parties |-> IF p = alice THEN blueBank ELSE redBank]
MCRequestIssuer == [p \in Parties |-> IF p = alice THEN redBank ELSE blueBank]
MCOne == [p \in Parties |-> 1]
MCAnyone == [p \in Parties |-> Unspecified]
MCRequests == {RequestOf(p) : p \in Parties}

\* Alice holds a blue asset.  The issuer of red is yet to be authorized.
MCInit ==
  /\ initialized = {blueBank}
  /\ balance = [i \in Issuers |->
                  [p \in Parties |-> IF p = alice /\ i = blueBank THEN 1 ELSE 0]]
  /\ entries = [i \in Issuers |-> IF i = blueBank THEN Parties ELSE {}]
  /\ supply = [i \in Issuers |-> IF i = blueBank THEN 1 ELSE 0]
  /\ escrowed = [i \in Issuers |-> {}]
  /\ attested = [i \in Issuers |-> {}]
  /\ signed = {}
  /\ nextId = 0
  /\ redeemed = [i \in Issuers |-> {}]
  /\ forfeited = [i \in Issuers |-> {}]
  /\ ExchangeInit
  /\ ClientInit
  /\ ledger = [p \in Parties |-> blueBank]

MCSpec == MCInit /\ [][OrderNext]_allVars /\ OrderFairness
=============================================================================
