------------------------------- MODULE MCWallet -------------------------------
EXTENDS Wallet, TLC

CONSTANTS ann, ben, annKey, benKey, oldKey, newKey, gold, silver, h1, identity

\* Ann has issued gold, to herself; Ben issues silver.  Among Ann's key files is one
\* that shadows Ben's: an old key of his, which he still has.  Ben's private keys are
\* not where his notebooks look for them, unless he uploads one.
MCTypeOf == [i \in Issuers |-> i]
MCCreator == [i \in Issuers |-> IF i = silver THEN ben ELSE ann]
MCMaxImports == [u \in Users |-> IF u = ann THEN 2 ELSE 1]
MCFirstKeys == [u \in Users |-> IF u = ann THEN {annKey} ELSE {benKey, oldKey}]

\* Both generate and upload keys for Ben, who calls his asset otherwise than 'identity'.
MCTyped ==
  [u \in Users |->
     [names |-> {"ben"}, handles |-> IF u = ann THEN Handles ELSE {h1}]]

Everyone == ("ann" :> annKey) @@ ("ben" :> benKey)
MCFirstFiles ==
  [u \in Users |->
     [kind \in Kinds |->
        ("${keys}" :> IF kind = "public" THEN Everyone
                      ELSE IF u = ann THEN "ann" :> annKey ELSE <<>>)
        @@ ("./keys" :> IF u = ann /\ kind = "public" THEN "ben" :> oldKey ELSE <<>>)]]

MCLedgers ==
  /\ initialized = Issuers
  /\ balance = [i \in Issuers |->
                  [p \in Parties |-> IF p = annKey /\ i = gold THEN 1 ELSE 0]]
  /\ entries = [i \in Issuers |-> IF i = gold THEN Parties ELSE Parties \ {benKey}]
  /\ supply = [i \in Issuers |-> IF i = gold THEN 1 ELSE 0]
  /\ escrowed = [i \in Issuers |-> {}]
  /\ attested = [i \in Issuers |-> {}]
  /\ signed = {}
  /\ nextId = 0
  /\ redeemed = [i \in Issuers |-> {}]
  /\ forfeited = [i \in Issuers |-> {}]

\* Bound: a key file is made, or something fails, but not both.
MCInit == MCLedgers /\ WalletInit /\ keyings + failures = 1

MCSpec == MCInit /\ [][WalletNext]_vars
=============================================================================
