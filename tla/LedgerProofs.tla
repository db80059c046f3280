---------------------------- MODULE LedgerProofs ----------------------------
(***************************************************************************)
(* Proofs about what is built on the issuers' ledgers: token objects,      *)
(* beside any number of issuers and under any agents, most of whose        *)
(* methods are the issuer's; and the wallets of any number of users, with  *)
(* any key files, over issuers in any state.                               *)
(***************************************************************************)
EXTENDS TokenObject, Wallet, IssuerProofs

LEMMA OneIsACount == 1 \in 0 .. IntMax /\ 1 \in Counts /\ 0 \in Counts
BY TokenAssumption, IssuerAssumption DEF Counts

\* What the methods of a token object come to.
LEMMA TokenStepCases ==
  ASSUME NEW t \in Tokens, TokenTypeOK, TokenStep(t)
  PROVE  \/ InitializeToken(t)
         \/ \E q \in Parties : TransferToken(t, q)
         \/ LedgerStep(t) /\ UNCHANGED owner
         \/ \E p \in Parties, s \in signed, c \in Counts : ClaimToken(t, p, s, c)
<1>1. owner[t] \in Parties  BY DEF TokenTypeOK
<1>2. CASE \E g \in Agents : EscrowToken(t, g)
  BY <1>1, <1>2, OneIsACount DEF EscrowToken, LedgerStep
<1>3. CASE \E g \in Agents : AttestToken(t, g)
  BY <1>1, <1>3 DEF AttestToken, LedgerStep
<1>4. CASE \E s \in signed : ReleaseToken(t, s)
  BY <1>1, <1>4 DEF ReleaseToken, LedgerStep
<1>. QED  BY <1>2, <1>3, <1>4 DEF TokenStep

-----------------------------------------------------------------------------
(* Types. *)

LEMMA TokenStepType ==
  ASSUME NEW t \in Tokens, TokenTypeOK, TokenStep(t)
  PROVE  TokenTypeOK'
<1>. USE TokenAssumption, OneIsACount DEF TokenTypeOK
<1>1. CASE InitializeToken(t)  BY <1>1 DEF InitializeToken, IssuerTypeOK
<1>2. ASSUME NEW q \in Parties, TransferToken(t, q)
      PROVE  TokenTypeOK'
  BY <1>2 DEF TransferToken, IssuerTypeOK
<1>3. CASE LedgerStep(t) /\ UNCHANGED owner
  BY <1>3, LedgerStepType
<1>4. ASSUME NEW p \in Parties, NEW s \in signed, NEW c \in Counts, ClaimToken(t, p, s, c)
      PROVE  TokenTypeOK'
  BY <1>4 DEF ClaimToken, IssuerTypeOK
<1>. QED  BY <1>1, <1>2, <1>3, <1>4, TokenStepCases

LEMMA TokenNextType == TokenTypeOK /\ [TokenNext]_tokenVars => TokenTypeOK'
<1>. SUFFICES ASSUME TokenTypeOK, [TokenNext]_tokenVars PROVE TokenTypeOK'
  OBVIOUS
<1>1. CASE \E t \in Tokens : TokenStep(t)  BY <1>1, TokenStepType
<1>2. CASE \E i \in Issuers \ Tokens : LedgerStep(i) /\ UNCHANGED owner
  BY <1>2, LedgerStepType DEF TokenTypeOK
<1>3. CASE \E i \in Issuers, p \in Parties : \E a \in attested[i] :
             /\ AgentSigns(ReleaseOf(a)) \/ AgentSigns(ClaimOf(a, p))
             /\ UNCHANGED owner
  <2>1. PICK p \in Parties, a \in Asset :
               /\ AgentSigns(ReleaseOf(a)) \/ AgentSigns(ClaimOf(a, p))
               /\ UNCHANGED owner
    BY <1>3 DEF TokenTypeOK, IssuerTypeOK
  <2>. QED  BY <2>1, StatementType, AgentSignsType DEF TokenTypeOK
<1>4. CASE UNCHANGED tokenVars
  BY <1>4 DEF tokenVars, TokenTypeOK, IssuerTypeOK, issuerVars, ledgerVars
<1>. QED  BY <1>1, <1>2, <1>3, <1>4 DEF TokenNext

LEMMA TokenInitType == TokenInit => TokenTypeOK
BY IssuerInitType, TokenAssumption DEF TokenInit, TokenTypeOK

\* Token objects keep the types of the ledgers, and an owner each.
THEOREM TokenTypeCorrect == TokenSpec => []TokenTypeOK
BY TokenInitType, TokenNextType, PTL DEF TokenSpec

-----------------------------------------------------------------------------
(* Custody, which holds of issuers and token objects under the same agents. *)

LEMMA ClaimTokenSettles ==
  ASSUME NEW t \in Tokens, TokenTypeOK, NEW p \in Parties, NEW s \in signed,
         NEW c \in Counts, ClaimToken(t, p, s, c)
  PROVE  /\ \E a \in Asset : Settles(t, a, s)
         /\ s \in Statement /\ s.asset \in escrowed[t]
         /\ s.op = "claim" /\ s.to = p
         /\ escrowed' = [escrowed EXCEPT ![t] = @ \ {s.asset}]
BY TokenAssumption DEF ClaimToken, Claimable, Settles, Verified, TokenTypeOK, IssuerTypeOK

LEMMA TokenStepCustody ==
  ASSUME NEW t \in Tokens, TokenTypeOK, Custody, TokenStep(t)
  PROVE  Custody'
<1>1. IssuerTypeOK /\ t \in Issuers  BY TokenAssumption DEF TokenTypeOK
<1>2. ASSUME UNCHANGED custodyVars
      PROVE  Custody'
  BY <1>2 DEF custodyVars, Custody, IdsDrawn, EscrowUnique, SettledGone,
     StatementsSigned, OneOutcome, HeldUntilSigned
<1>3. CASE InitializeToken(t)  BY <1>2, <1>3 DEF InitializeToken, custodyVars
<1>4. CASE \E q \in Parties : TransferToken(t, q)
  BY <1>2, <1>4 DEF TransferToken, custodyVars
<1>5. CASE LedgerStep(t)  BY <1>1, <1>5, LedgerStepKeepsCustody
<1>6. CASE \E p \in Parties, s \in signed, c \in Counts : ClaimToken(t, p, s, c)
  BY <1>1, <1>6, ClaimTokenSettles, SettlesCustody
<1>. QED  BY <1>3, <1>4, <1>5, <1>6, TokenStepCases

LEMMA TokenNextCustody ==
  TokenTypeOK /\ Custody /\ [TokenNext]_tokenVars => Custody'
<1>. SUFFICES ASSUME TokenTypeOK, Custody, [TokenNext]_tokenVars PROVE Custody'
  OBVIOUS
<1>1. CASE \E t \in Tokens : TokenStep(t)  BY <1>1, TokenStepCustody
<1>2. CASE \E i \in Issuers \ Tokens : LedgerStep(i) /\ UNCHANGED owner
  BY <1>2, LedgerStepKeepsCustody DEF TokenTypeOK
<1>3. CASE \E i \in Issuers, p \in Parties : \E a \in attested[i] :
             /\ AgentSigns(ReleaseOf(a)) \/ AgentSigns(ClaimOf(a, p))
             /\ UNCHANGED owner
  BY <1>3, AgentSignsKeepsCustody
<1>4. CASE UNCHANGED tokenVars
  BY <1>4 DEF tokenVars, issuerVars, ledgerVars, Custody, IdsDrawn, EscrowUnique,
     SettledGone, StatementsSigned, OneOutcome, HeldUntilSigned
<1>. QED  BY <1>1, <1>2, <1>3, <1>4 DEF TokenNext

LEMMA TokenInitCustody == TokenInit => Custody
BY IssuerInitCustody DEF TokenInit

\* Each escrow identifier is in escrow in one place or has been settled once, though
\* token objects overwrite balances and change owners under their escrows.
THEOREM TokenCustodyHolds == TokenSpec => []Custody
<1>1. TokenTypeOK /\ Custody /\ [TokenNext]_tokenVars => (TokenTypeOK /\ Custody)'
  BY TokenNextType, TokenNextCustody
<1>2. TokenInit => TokenTypeOK /\ Custody
  BY TokenInitType, TokenInitCustody
<1>. QED  BY <1>1, <1>2, PTL DEF TokenSpec

\* An owner has one escrow per agent, and an identifier designates one escrow, at
\* issuers and token objects together.
THEOREM TokenEscrowsAreUnique == TokenSpec => []EscrowUnique
BY TokenCustodyHolds, PTL DEF Custody

\* No escrow of an asset or a token is settled twice.
THEOREM TokensSettledOnce == TokenSpec => []OneOutcome
BY TokenCustodyHolds, PTL DEF Custody

\* An attested token or asset stays in escrow until a statement is honoured, even when
\* the token object changes hands meanwhile.
THEOREM TokenAttestationsHold == TokenSpec => []HeldUntilSigned
BY TokenCustodyHolds, PTL DEF Custody

-----------------------------------------------------------------------------
(* Conservation. *)

LEMMA TokenStepElsewhere ==
  ASSUME TokenTypeOK, NEW t \in Tokens, NEW i \in Issuers \ Tokens, TokenStep(t), Accounted(i)
  PROVE  Accounted(i)'
<1>1. t \in Issuers /\ i # t /\ IssuerTypeOK  BY TokenAssumption DEF TokenTypeOK
<1>. USE DEF IssuerTypeOK
<1>2. CASE InitializeToken(t)  BY <1>1, <1>2, UntouchedAccounted DEF InitializeToken
<1>3. CASE \E q \in Parties : TransferToken(t, q)
  BY <1>1, <1>3, UntouchedAccounted DEF TransferToken
<1>4. CASE LedgerStep(t)  BY <1>1, <1>4, LedgerStepElsewhere, UntouchedAccounted
<1>5. CASE \E p \in Parties, s \in signed, c \in Counts : ClaimToken(t, p, s, c)
  BY <1>1, <1>5, UntouchedAccounted DEF ClaimToken
<1>. QED  BY <1>2, <1>3, <1>4, <1>5, TokenStepCases

\* Issuers lose and create nothing beside token objects, under agents that sign for
\* both: what they issued is in balances, in escrows and in claims for no particular
\* count, which their claimers forfeited, up to words lost to a wrap.
THEOREM IssuersKeepTheirBooks == TokenSpec => []IssuersConserve
<1>. DEFINE Books == \A i \in Issuers \ Tokens : Accounted(i)
<1>1. TokenInit => Books  BY IssuerInitAccounted DEF TokenInit
<1>2. TokenTypeOK /\ Custody /\ Books /\ [TokenNext]_tokenVars => Books'
  <2>. SUFFICES ASSUME TokenTypeOK, Custody, Books, [TokenNext]_tokenVars,
                       NEW i \in Issuers \ Tokens
                PROVE  Accounted(i)'
    OBVIOUS
  <2>1. Accounted(i) /\ IssuerTypeOK  BY DEF TokenTypeOK
  <2>2. CASE \E t \in Tokens : TokenStep(t)  BY <2>1, <2>2, TokenStepElsewhere
  <2>3. CASE \E j \in Issuers \ Tokens : LedgerStep(j) /\ UNCHANGED owner
    BY <2>1, <2>3, LedgerStepAccounted
  <2>4. CASE \E j \in Issuers, p \in Parties : \E a \in attested[j] :
               /\ AgentSigns(ReleaseOf(a)) \/ AgentSigns(ClaimOf(a, p))
               /\ UNCHANGED owner
    BY <2>1, <2>4, AgentSignsAccounted
  <2>5. CASE UNCHANGED tokenVars
    BY <2>1, <2>5, UntouchedAccounted DEF tokenVars, issuerVars, ledgerVars
  <2>. QED  BY <2>2, <2>3, <2>4, <2>5 DEF TokenNext
<1>3. TokenTypeOK /\ Books => IssuersConserve
  BY AccountedConserved DEF TokenTypeOK, IssuersConserve
<1>. HIDE DEF Books
<1>. QED  BY <1>1, <1>2, <1>3, TokenTypeCorrect, TokenCustodyHolds, PTL DEF TokenSpec

-----------------------------------------------------------------------------
(* Ownership. *)

\* A token object changes hands by its owner's transfer, which leaves the old owner
\* nothing in its balance, or by a claim its escrow agent signed for the new owner.
THEOREM OwnershipIsHandedOver == TokenSpec => OwnershipHandedOver
<1>1. ASSUME TokenTypeOK, Custody, [TokenNext]_tokenVars
      PROVE  [\A t \in Tokens : owner'[t] # owner[t] =>
                \/ balance'[t][owner[t]] = 0 /\ escrowed'[t] = escrowed[t]
                \/ \E s \in redeemed'[t] \ redeemed[t] :
                     /\ s \in signed /\ s.op = "claim" /\ s.to = owner'[t]
                     /\ escrowed'[t] = escrowed[t] \ {s.asset}]_tokenVars
  <2>. SUFFICES ASSUME NEW t \in Tokens, owner'[t] # owner[t]
                PROVE  \/ balance'[t][owner[t]] = 0 /\ escrowed'[t] = escrowed[t]
                       \/ \E s \in redeemed'[t] \ redeemed[t] :
                            /\ s \in signed /\ s.op = "claim" /\ s.to = owner'[t]
                            /\ escrowed'[t] = escrowed[t] \ {s.asset}
    OBVIOUS
  <2>1. PICK u \in Tokens : TokenStep(u) /\ owner' # owner
    BY <1>1 DEF TokenNext, tokenVars
  <2>2. owner \in [Tokens -> Parties] /\ t \in Issuers /\ u \in Issuers
    BY <1>1, TokenAssumption DEF TokenTypeOK
  <2>3. ASSUME NEW q \in Parties, TransferToken(u, q)
        PROVE  balance'[t][owner[t]] = 0 /\ escrowed'[t] = escrowed[t]
    <3>1. u = t /\ owner'[t] = q  BY <2>2, <2>3 DEF TransferToken
    <3>2. owner[t] # q /\ owner[t] \in Parties  BY <2>2, <3>1
    <3>. QED  BY <1>1, <2>2, <2>3, <3>1, <3>2 DEF TransferToken, TokenTypeOK, IssuerTypeOK
  <2>4. ASSUME NEW p \in Parties, NEW s \in signed, NEW c \in Counts, ClaimToken(u, p, s, c)
        PROVE  /\ s \in redeemed'[t] \ redeemed[t]
               /\ s.op = "claim" /\ s.to = owner'[t]
               /\ escrowed'[t] = escrowed[t] \ {s.asset}
    <3>1. u = t /\ owner'[t] = p  BY <2>2, <2>4 DEF ClaimToken
    <3>2. s.asset \in escrowed[t] /\ s.op = "claim" /\ s.to = p
      BY <1>1, <2>4, <3>1, ClaimTokenSettles
    <3>3. escrowed'[t] = escrowed[t] \ {s.asset}
      <4>1. escrowed' = [escrowed EXCEPT ![t] = @ \ {s.asset}]
        BY <1>1, <2>4, <3>1, ClaimTokenSettles
      <4>. QED  BY <1>1, <2>2, <4>1 DEF TokenTypeOK, IssuerTypeOK
    <3>4. s \notin redeemed[t]  BY <1>1, <2>2, <3>2 DEF Custody, SettledGone
    <3>5. s \in redeemed'[t]
      BY <1>1, <2>2, <2>4, <3>1 DEF ClaimToken, TokenTypeOK, IssuerTypeOK
    <3>. QED  BY <3>1, <3>2, <3>3, <3>4, <3>5
  <2>5. ~ InitializeToken(u)  BY <2>1 DEF InitializeToken
  <2>. QED  BY <1>1, <2>1, <2>3, <2>4, <2>5, TokenStepCases
<1>. QED  BY <1>1, TokenTypeCorrect, TokenCustodyHolds, PTL DEF TokenSpec, OwnershipHandedOver

-----------------------------------------------------------------------------
(* Possession. *)

LEMMA PossessionFacts ==
  ASSUME NEW t \in Tokens, TokenTypeOK, Possession
  PROVE  /\ t \in Issuers /\ owner[t] \in Parties
         /\ nextId \in Nat /\ MaxEscrows \in Nat /\ nextId <= MaxEscrows
         /\ \A p \in Parties : balance[t][p] \in Nat
         /\ IsFiniteSet(escrowed[t]) /\ Cardinality(escrowed[t]) \in Nat
BY TokenAssumption, IssuerAssumption, FS_CardinalityType
DEF TokenTypeOK, IssuerTypeOK, Possession, PossessionOf, Counts

\* An asset less in escrow.
LEMMA OneEscrowLess ==
  ASSUME NEW t \in Tokens, TokenTypeOK, Possession, NEW a \in escrowed[t]
  PROVE  /\ IsFiniteSet(escrowed[t] \ {a})
         /\ Cardinality(escrowed[t] \ {a}) = Cardinality(escrowed[t]) - 1
         /\ Cardinality(escrowed[t]) - 1 \in Nat
<1>1. IsFiniteSet(escrowed[t]) /\ Cardinality(escrowed[t]) \in Nat
  BY PossessionFacts
<1>2. /\ IsFiniteSet(escrowed[t] \ {a})
      /\ Cardinality(escrowed[t] \ {a}) = Cardinality(escrowed[t]) - 1
  BY <1>1, FS_RemoveElement
<1>3. Cardinality(escrowed[t] \ {a}) \in Nat  BY <1>2, FS_CardinalityType
<1>. QED  BY <1>2, <1>3

LEMMA TransferTokenPossession ==
  ASSUME NEW t \in Tokens, TokenTypeOK, Possession, NEW q \in Parties, TransferToken(t, q)
  PROVE  PossessionOf(t)'
<1>1. /\ escrowed'[t] = escrowed[t] /\ nextId' = nextId
      /\ t \in initialized' /\ owner'[t] = q
      /\ balance' = [balance EXCEPT ![t][owner[t]] = 0, ![t][q] = 1]
  BY DEF TransferToken, TokenTypeOK
<1>2. balance'[t][q] = 1 /\ \A p \in Parties : balance'[t][p] \in {0, 1, balance[t][p]}
  BY <1>1, PossessionFacts DEF TokenTypeOK, IssuerTypeOK
<1>3. \A p \in Parties : balance'[t][p] + Cardinality(escrowed[t]) <= nextId + 1
  <2>. SUFFICES ASSUME NEW p \in Parties
                PROVE  balance'[t][p] + Cardinality(escrowed[t]) <= nextId + 1
    OBVIOUS
  <2>1. /\ balance[t][p] + Cardinality(escrowed[t]) <= nextId + 1
        /\ Cardinality(escrowed[t]) <= nextId
    BY DEF Possession, PossessionOf
  <2>2. /\ balance[t][p] \in Nat /\ nextId \in Nat
        /\ Cardinality(escrowed[t]) \in Nat
    BY PossessionFacts
  <2>3. CASE balance'[t][p] = 0  BY <2>1, <2>2, <2>3
  <2>4. CASE balance'[t][p] = 1  BY <2>1, <2>2, <2>4
  <2>5. CASE balance'[t][p] = balance[t][p]  BY <2>1, <2>5
  <2>. QED  BY <1>2, <2>3, <2>4, <2>5
<1>4. /\ \A a \in escrowed[t] : a.count = 1
      /\ IsFiniteSet(escrowed[t]) /\ Cardinality(escrowed[t]) <= nextId
  BY DEF Possession, PossessionOf
<1>5. balance'[t][owner'[t]] > 0  BY <1>1, <1>2
<1>. QED  BY <1>1, <1>3, <1>4, <1>5 DEF PossessionOf

LEMMA InitializeTokenPossession ==
  ASSUME NEW t \in Tokens, TokenTypeOK, Possession, InitializeToken(t)
  PROVE  PossessionOf(t)'
<1>1. /\ escrowed' = escrowed /\ nextId' = nextId /\ owner' = owner
      /\ t \in initialized' /\ t \notin initialized
      /\ balance' = [balance EXCEPT ![t][Minter] = 1]
  BY DEF InitializeToken
<1>2. owner[t] = Minter  BY <1>1 DEF Possession, PossessionOf
<1>3. /\ balance'[t][Minter] = 1
      /\ \A p \in Parties : balance'[t][p] \in {1, balance[t][p]}
  BY <1>1, PossessionFacts, TokenAssumption DEF TokenTypeOK, IssuerTypeOK
<1>4. \A p \in Parties : balance'[t][p] + Cardinality(escrowed[t]) <= nextId + 1
  <2>. SUFFICES ASSUME NEW p \in Parties
                PROVE  balance'[t][p] + Cardinality(escrowed[t]) <= nextId + 1
    OBVIOUS
  <2>1. /\ balance[t][p] + Cardinality(escrowed[t]) <= nextId + 1
        /\ Cardinality(escrowed[t]) <= nextId
    BY DEF Possession, PossessionOf
  <2>2. balance'[t][p] \in {1, balance[t][p]}  BY <1>3
  <2>. QED  BY <2>1, <2>2, PossessionFacts
<1>. QED  BY <1>1, <1>2, <1>3, <1>4 DEF Possession, PossessionOf

LEMMA EscrowTokenPossession ==
  ASSUME NEW t \in Tokens, TokenTypeOK, Possession, NEW g \in Agents, EscrowToken(t, g)
  PROVE  PossessionOf(t)' /\ nextId' \in Nat /\ nextId <= nextId' /\ nextId' <= MaxEscrows
<1>. DEFINE a == EscrowAsset(t, owner[t], g, 1)
<1>1. /\ a.owner = owner[t] /\ a.agent = g /\ a.count = 1
      /\ ~ \E b \in escrowed[t] : b.owner = owner[t] /\ b.agent = g
  BY DEF EscrowToken, Escrow, Escrowable, EscrowAsset, IsEscrowed
<1>2. /\ nextId' = nextId + 1 /\ nextId < MaxEscrows /\ owner' = owner
      /\ initialized' = initialized
      /\ balance' = [balance EXCEPT ![t][owner[t]] = @ - 1]
      /\ escrowed' = [escrowed EXCEPT ![t] = @ \cup {a}]
  BY DEF EscrowToken, Escrow, Escrowable, EscrowCount
<1>. HIDE DEF a
<1>3. a \notin escrowed[t]  BY <1>1
<1>4. escrowed'[t] = escrowed[t] \cup {a}
  BY <1>2, PossessionFacts DEF TokenTypeOK, IssuerTypeOK
<1>5. /\ IsFiniteSet(escrowed'[t])
      /\ Cardinality(escrowed'[t]) = Cardinality(escrowed[t]) + 1
  BY <1>3, <1>4, PossessionFacts, FS_AddElement
<1>6. Cardinality(escrowed'[t]) <= nextId'
  BY <1>2, <1>5, PossessionFacts DEF Possession, PossessionOf
<1>7. \A p \in Parties : balance'[t][p] + Cardinality(escrowed'[t]) <= nextId' + 1
  <2>. SUFFICES ASSUME NEW p \in Parties
                PROVE  balance'[t][p] + Cardinality(escrowed'[t]) <= nextId' + 1
    OBVIOUS
  <2>1. balance[t][p] + Cardinality(escrowed[t]) <= nextId + 1
    BY DEF Possession, PossessionOf
  <2>2. balance'[t][p] \in {balance[t][p], balance[t][p] - 1}
    BY <1>2, PossessionFacts DEF TokenTypeOK, IssuerTypeOK
  <2>. QED  BY <1>2, <1>5, <2>1, <2>2, PossessionFacts
<1>8. \A b \in escrowed'[t] : b.count = 1
  BY <1>1, <1>4 DEF Possession, PossessionOf
<1>9. \E b \in escrowed'[t] : b.owner = owner'[t]  BY <1>1, <1>2, <1>4
<1>10. t \notin initialized' => owner'[t] = Minter
  BY <1>2 DEF Possession, PossessionOf
<1>11. PossessionOf(t)'
  BY <1>5, <1>6, <1>7, <1>8, <1>9, <1>10 DEF PossessionOf
<1>. QED  BY <1>2, <1>11, PossessionFacts

\* The bound on the words: with as many escrows as a word has values, released one
\* after another, the balance of an owner could wrap around to nothing.
LEMMA ReleaseTokenPossession ==
  ASSUME MaxEscrows + 1 < Word, NEW t \in Tokens, TokenTypeOK, Possession,
         NEW s \in signed, ReleaseToken(t, s)
  PROVE  PossessionOf(t)'
<1>1. PICK a \in escrowed[t] :
        /\ balance' = [balance EXCEPT ![t][owner[t]] = Plus(@, a.count)]
        /\ escrowed' = [escrowed EXCEPT ![t] = @ \ {a}]
  BY DEF ReleaseToken, Release, Releasable
<1>2. nextId' = nextId /\ owner' = owner /\ initialized' = initialized
  BY DEF ReleaseToken, Release
<1>3. escrowed'[t] = escrowed[t] \ {a}
  BY <1>1, PossessionFacts DEF TokenTypeOK, IssuerTypeOK
<1>4. /\ IsFiniteSet(escrowed'[t])
      /\ Cardinality(escrowed'[t]) = Cardinality(escrowed[t]) - 1
      /\ Cardinality(escrowed[t]) - 1 \in Nat
  BY <1>3, OneEscrowLess
<1>5. a.count = 1  BY DEF Possession, PossessionOf
<1>6. \A p \in Parties : balance[t][p] + Cardinality(escrowed[t]) <= nextId + 1
  BY DEF Possession, PossessionOf
<1>7. Plus(balance[t][owner[t]], 1) = balance[t][owner[t]] + 1
  <2>. DEFINE b == balance[t][owner[t]]
  <2>1. b \in Nat /\ b + 1 < Word /\ Word \in Nat
    BY <1>4, <1>6, PossessionFacts, IssuerAssumption
  <2>2. (b + 1) % Word = b + 1  BY <2>1
  <2>. QED  BY <2>2 DEF Plus
<1>8. /\ balance'[t][owner[t]] = balance[t][owner[t]] + 1
      /\ \A p \in Parties \ {owner[t]} : balance'[t][p] = balance[t][p]
  BY <1>1, <1>5, <1>7, PossessionFacts DEF TokenTypeOK, IssuerTypeOK
<1>9. \A p \in Parties : balance'[t][p] + Cardinality(escrowed'[t]) <= nextId' + 1
  <2>. SUFFICES ASSUME NEW p \in Parties
                PROVE  balance'[t][p] + Cardinality(escrowed'[t]) <= nextId' + 1
    OBVIOUS
  <2>1. CASE p = owner[t]  BY <1>2, <1>4, <1>6, <1>8, <2>1, PossessionFacts
  <2>2. CASE p # owner[t]  BY <1>2, <1>4, <1>6, <1>8, <2>2, PossessionFacts
  <2>. QED  BY <2>1, <2>2
<1>10. Cardinality(escrowed'[t]) <= nextId'
  BY <1>2, <1>4, PossessionFacts DEF Possession, PossessionOf
<1>11. balance'[t][owner'[t]] > 0  BY <1>2, <1>8, PossessionFacts
<1>12. /\ \A b \in escrowed'[t] : b.count = 1
       /\ t \notin initialized' => owner'[t] = Minter
  BY <1>2, <1>3 DEF Possession, PossessionOf
<1>. QED  BY <1>4, <1>9, <1>10, <1>11, <1>12 DEF PossessionOf

LEMMA ClaimTokenPossession ==
  ASSUME NEW t \in Tokens, TokenTypeOK, Possession, NEW p \in Parties,
         NEW s \in signed, NEW c \in Counts, ClaimToken(t, p, s, c)
  PROVE  PossessionOf(t)'
<1>1. /\ nextId' = nextId /\ initialized' = initialized /\ t \in initialized
      /\ balance' = [balance EXCEPT ![t][p] = 1]
      /\ owner' = [owner EXCEPT ![t] = p]
  BY DEF ClaimToken, Claimable
<1>2. owner'[t] = p /\ balance'[t][p] = 1
      /\ \A q \in Parties : balance'[t][q] \in {1, balance[t][q]}
  BY <1>1, PossessionFacts DEF TokenTypeOK, IssuerTypeOK
<1>3. PICK a \in escrowed[t] : escrowed' = [escrowed EXCEPT ![t] = @ \ {a}]
  BY DEF ClaimToken
<1>4. escrowed'[t] = escrowed[t] \ {a}
  BY <1>3, PossessionFacts DEF TokenTypeOK, IssuerTypeOK
<1>5. /\ IsFiniteSet(escrowed'[t])
      /\ Cardinality(escrowed'[t]) = Cardinality(escrowed[t]) - 1
      /\ Cardinality(escrowed[t]) - 1 \in Nat
  BY <1>4, OneEscrowLess
<1>6. Cardinality(escrowed[t]) <= nextId /\ \A b \in escrowed[t] : b.count = 1
  BY DEF Possession, PossessionOf
<1>7. \A q \in Parties : balance'[t][q] + Cardinality(escrowed'[t]) <= nextId' + 1
  <2>. SUFFICES ASSUME NEW q \in Parties
                PROVE  balance'[t][q] + Cardinality(escrowed'[t]) <= nextId' + 1
    OBVIOUS
  <2>1. balance[t][q] + Cardinality(escrowed[t]) <= nextId + 1
    BY DEF Possession, PossessionOf
  <2>2. CASE balance'[t][q] = 1  BY <1>1, <1>5, <1>6, <2>2, PossessionFacts
  <2>3. CASE balance'[t][q] = balance[t][q]
    BY <1>1, <1>5, <2>1, <2>3, PossessionFacts
  <2>. QED  BY <1>2, <2>2, <2>3
<1>8. Cardinality(escrowed'[t]) <= nextId'  BY <1>1, <1>5, <1>6, PossessionFacts
<1>9. \A b \in escrowed'[t] : b.count = 1  BY <1>4, <1>6
<1>. QED  BY <1>1, <1>2, <1>5, <1>7, <1>8, <1>9 DEF PossessionOf

\* What a step leaves alone at a token object, identifiers may be drawn elsewhere.
LEMMA PossessionElsewhere ==
  ASSUME NEW t \in Tokens, TokenTypeOK, Possession,
         balance'[t] = balance[t], escrowed'[t] = escrowed[t], owner'[t] = owner[t],
         t \in initialized' <=> t \in initialized,
         nextId' \in Nat, nextId <= nextId'
  PROVE  PossessionOf(t)'
<1>1. PossessionOf(t)  BY DEF Possession
<1>2. Cardinality(escrowed'[t]) <= nextId'
  BY <1>1, PossessionFacts DEF PossessionOf
<1>3. \A p \in Parties : balance'[t][p] + Cardinality(escrowed'[t]) <= nextId' + 1
  BY <1>1, PossessionFacts DEF PossessionOf
<1>. QED  BY <1>1, <1>2, <1>3 DEF PossessionOf

\* Identifiers are drawn up to the bound, and one after another.
LEMMA LedgerStepDraws ==
  ASSUME IssuerTypeOK, nextId <= MaxEscrows, NEW i \in Issuers, LedgerStep(i)
  PROVE  nextId' \in Nat /\ nextId <= nextId' /\ nextId' <= MaxEscrows
<1>1. nextId \in Nat /\ MaxEscrows \in Nat
  BY IssuerAssumption DEF IssuerTypeOK
<1>2. CASE \E p \in Parties, g \in Agents, c \in 0 .. IntMax : Escrow(i, p, g, c)
  BY <1>1, <1>2 DEF Escrow, Escrowable
<1>3. CASE nextId' = nextId  BY <1>1, <1>3
<1>4. CASE LedgerStep(i) /\ ~ \E p \in Parties, g \in Agents, c \in 0 .. IntMax :
                                Escrow(i, p, g, c)
  <2>1. nextId' = nextId
    BY <1>4 DEF LedgerStep, InitializeIssuer, Issue, Transfer, EscrowAttestation,
       Release, Claim, ledgerVars
  <2>. QED  BY <1>3, <2>1
<1>. QED  BY <1>2, <1>4

\* The steps of one token object.
LEMMA TokenStepPossession ==
  ASSUME MaxEscrows + 1 < Word, NEW t \in Tokens, TokenTypeOK, Possession, TokenStep(t)
  PROVE  Possession'
<1>1. IssuerTypeOK /\ owner \in [Tokens -> Parties] /\ t \in Issuers
      /\ owner[t] \in Parties /\ nextId <= MaxEscrows
  BY TokenAssumption DEF TokenTypeOK, Possession
<1>2. /\ PossessionOf(t)'
      /\ nextId' \in Nat /\ nextId <= nextId' /\ nextId' <= MaxEscrows
  <2>1. CASE InitializeToken(t)
    <3>1. nextId' = nextId  BY <2>1 DEF InitializeToken
    <3>. QED  BY <2>1, <3>1, InitializeTokenPossession, PossessionFacts
  <2>2. CASE \E q \in Parties : TransferToken(t, q)
    <3>1. nextId' = nextId  BY <2>2 DEF TransferToken
    <3>. QED  BY <2>2, <3>1, TransferTokenPossession, PossessionFacts
  <2>3. CASE \E g \in Agents : EscrowToken(t, g)
    BY <2>3, EscrowTokenPossession
  <2>4. CASE \E g \in Agents : AttestToken(t, g)
    <3>1. UNCHANGED <<ledgerVars, owner>>  BY <2>4 DEF AttestToken, EscrowAttestation
    <3>2. nextId' \in Nat /\ nextId <= nextId' /\ nextId' <= MaxEscrows
      BY <3>1, PossessionFacts DEF ledgerVars
    <3>. QED  BY <3>1, <3>2, PossessionElsewhere DEF ledgerVars
  <2>5. CASE \E s \in signed : ReleaseToken(t, s)
    <3>1. nextId' = nextId  BY <2>5 DEF ReleaseToken, Release
    <3>. QED  BY <2>5, <3>1, ReleaseTokenPossession, PossessionFacts
  <2>6. CASE \E p \in Parties, s \in signed, c \in Counts : ClaimToken(t, p, s, c)
    <3>1. nextId' = nextId  BY <2>6 DEF ClaimToken
    <3>. QED  BY <2>6, <3>1, ClaimTokenPossession, PossessionFacts
  <2>. QED  BY <2>1, <2>2, <2>3, <2>4, <2>5, <2>6 DEF TokenStep
<1>3. ASSUME NEW u \in Tokens \ {t}
      PROVE  PossessionOf(u)'
  <2>1. /\ balance'[u] = balance[u] /\ escrowed'[u] = escrowed[u]
        /\ u \in initialized' <=> u \in initialized
        /\ owner'[u] = owner[u]
    <3>1. u \in Issuers  BY TokenAssumption
    <3>2. CASE InitializeToken(t)  BY <1>1, <3>1, <3>2 DEF InitializeToken, IssuerTypeOK
    <3>3. CASE \E q \in Parties : TransferToken(t, q)
      BY <1>1, <3>1, <3>3 DEF TransferToken, IssuerTypeOK
    <3>4. CASE LedgerStep(t) /\ UNCHANGED owner
      BY <1>1, <3>1, <3>4, LedgerStepElsewhere
    <3>5. CASE \E p \in Parties, s \in signed, c \in Counts : ClaimToken(t, p, s, c)
      BY <1>1, <3>1, <3>5 DEF ClaimToken, IssuerTypeOK
    <3>. QED  BY <3>2, <3>3, <3>4, <3>5, TokenStepCases
  <2>. QED  BY <1>2, <2>1, PossessionElsewhere
<1>. QED  BY <1>2, <1>3 DEF Possession

LEMMA TokenNextPossession ==
  ASSUME MaxEscrows + 1 < Word, TokenTypeOK, Possession, [TokenNext]_tokenVars
  PROVE  Possession'
<1>1. CASE \E t \in Tokens : TokenStep(t)  BY <1>1, TokenStepPossession
<1>2. CASE \E i \in Issuers \ Tokens : LedgerStep(i) /\ UNCHANGED owner
  <2>1. PICK i \in Issuers \ Tokens : LedgerStep(i) /\ UNCHANGED owner  BY <1>2
  <2>2. IssuerTypeOK /\ nextId <= MaxEscrows  BY DEF TokenTypeOK, Possession
  <2>3. nextId' \in Nat /\ nextId <= nextId' /\ nextId' <= MaxEscrows
    BY <2>1, <2>2, LedgerStepDraws
  <2>4. ASSUME NEW t \in Tokens PROVE PossessionOf(t)'
    <3>1. t \in Issuers \ {i}  BY TokenAssumption
    <3>. QED  BY <2>1, <2>2, <2>3, <3>1, LedgerStepElsewhere, PossessionElsewhere
  <2>. QED  BY <2>3, <2>4 DEF Possession
<1>3. CASE UNCHANGED <<ledgerVars, owner>>
  BY <1>3 DEF ledgerVars, Possession, PossessionOf
<1>4. CASE \E i \in Issuers, p \in Parties : \E a \in attested[i] :
             /\ AgentSigns(ReleaseOf(a)) \/ AgentSigns(ClaimOf(a, p))
             /\ UNCHANGED owner
  BY <1>3, <1>4 DEF AgentSigns
<1>5. CASE UNCHANGED tokenVars  BY <1>3, <1>5 DEF tokenVars, issuerVars
<1>. QED  BY <1>1, <1>2, <1>4, <1>5 DEF TokenNext

LEMMA TokenInitPossession == TokenInit => Possession
<1>. SUFFICES ASSUME TokenInit PROVE Possession
  OBVIOUS
<1>1. nextId = 0 /\ MaxEscrows \in Nat  BY IssuerAssumption DEF TokenInit, IssuerInit
<1>2. ASSUME NEW t \in Tokens PROVE PossessionOf(t)
  BY <1>1, FS_EmptySet, TokenAssumption DEF TokenInit, IssuerInit, PossessionOf
<1>. QED  BY <1>1, <1>2 DEF Possession

\* With fewer escrows than a word has values, the owner of a token object has an asset
\* in its balance or in an escrow of its own, whatever is transferred, claimed or
\* released in between.
THEOREM OwnersPossess == MaxEscrows + 1 < Word /\ TokenSpec => []OwnerInPossession
<1>. SUFFICES ASSUME MaxEscrows + 1 < Word PROVE TokenSpec => []OwnerInPossession
  OBVIOUS
<1>1. TokenTypeOK /\ Possession /\ [TokenNext]_tokenVars => (TokenTypeOK /\ Possession)'
  BY TokenNextType, TokenNextPossession
<1>2. TokenInit => TokenTypeOK /\ Possession  BY TokenInitType, TokenInitPossession
<1>3. Possession => OwnerInPossession
  BY DEF Possession, PossessionOf, OwnerInPossession
<1>. QED  BY <1>1, <1>2, <1>3, PTL DEF TokenSpec

-----------------------------------------------------------------------------
(* Key files. *)

LEMMA PutIs ==
  ASSUME NEW f, NEW x, NEW y
  PROVE  Put(f, x, y) = [z \in DOMAIN f \cup {x} |-> IF z = x THEN y ELSE f[z]]
<1>. DEFINE g == [z \in {x} |-> y]
<1>1. DOMAIN g = {x} /\ g[x] = y  OBVIOUS
<1>. HIDE DEF g
<1>2. Put(f, x, y) = [z \in DOMAIN g \cup DOMAIN f |-> IF z \in DOMAIN g THEN g[z] ELSE f[z]]
  BY DEF Put, Over, g
<1>. QED  BY <1>1, <1>2

LEMMA KeyFileFacts ==
  ASSUME NEW f \in KeyFiles
  PROVE  DOMAIN f \in SUBSET Names /\ \A name \in DOMAIN f : f[name] \in Parties
BY DEF KeyFiles

LEMMA PutKeyFile ==
  ASSUME NEW f \in KeyFiles, NEW name \in Names, NEW k \in Parties
  PROVE  Put(f, name, k) \in KeyFiles /\ Range(Put(f, name, k)) \subseteq Range(f) \cup {k}
<1>1. DOMAIN f \cup {name} \in SUBSET Names  BY KeyFileFacts
<1>2. Put(f, name, k) \in [DOMAIN f \cup {name} -> Parties]
  <2>1. Put(f, name, k) = [z \in DOMAIN f \cup {name} |-> IF z = name THEN k ELSE f[z]]
    BY PutIs
  <2>2. \A z \in DOMAIN f \cup {name} : (IF z = name THEN k ELSE f[z]) \in Parties
    BY KeyFileFacts
  <2>. QED  BY <2>1, <2>2
<1>3. Put(f, name, k) \in KeyFiles  BY <1>1, <1>2 DEF KeyFiles
<1>4. ASSUME NEW z \in DOMAIN Put(f, name, k)
      PROVE  Put(f, name, k)[z] \in Range(f) \cup {k}
  <2>1. z \in DOMAIN f \cup {name}  BY PutIs
  <2>2. CASE z = name  BY <2>2, PutIs
  <2>3. CASE z # name
    <3>1. z \in DOMAIN f /\ Put(f, name, k)[z] = f[z]  BY <2>1, <2>3, PutIs
    <3>. QED  BY <3>1 DEF Range
  <2>. QED  BY <2>2, <2>3
<1>. QED  BY <1>3, <1>4 DEF Range

LEMMA FilesFacts ==
  ASSUME WalletTypeOK, NEW u \in Users, NEW kind \in Kinds, NEW dir \in Directories
  PROVE  /\ files[u][kind][dir] \in KeyFiles
         /\ DOMAIN files[u][kind][dir] \subseteq Names
         /\ \A name \in DOMAIN files[u][kind][dir] : files[u][kind][dir][name] \in Parties
<1>1. files[u][kind][dir] \in KeyFiles  BY DEF WalletTypeOK
<1>. QED  BY <1>1, KeyFileFacts

LEMMA KeyMapDomain ==
  ASSUME NEW u, NEW kind
  PROVE  DOMAIN KeyMap(u, kind) = DOMAIN files[u][kind]["./keys"] \cup DOMAIN files[u][kind]["${keys}"]
BY DEF KeyMap, Over

\* The key list shows the key that a command finds.
LEMMA KeyMapFinds ==
  ASSUME WalletTypeOK, NEW u \in Users, NEW kind \in Kinds,
         NEW name \in DOMAIN KeyMap(u, kind)
  PROVE  /\ FindFile(u, kind, name) = KeyMap(u, kind)[name]
         /\ name \in Names
         /\ FindFile(u, kind, name) \in Parties
         /\ \E dir \in Directories : FindFile(u, kind, name) \in Range(files[u][kind][dir])
<1>. DEFINE S == {d \in DOMAIN SearchPath : name \in DOMAIN files[u][kind][SearchPath[d]]}
            f1 == files[u][kind]["./keys"]
            f2 == files[u][kind]["${keys}"]
<1>1. DOMAIN SearchPath = {1, 2} /\ SearchPath[1] = "./keys" /\ SearchPath[2] = "${keys}"
  BY DEF SearchPath
<1>2. /\ 1 \in S <=> name \in DOMAIN f1
      /\ 2 \in S <=> name \in DOMAIN f2
  BY <1>1
<1>2a. S \subseteq {1, 2}  BY <1>1
<1>3. S # {}
  <2>1. name \in DOMAIN f1 \/ name \in DOMAIN f2  BY KeyMapDomain
  <2>. HIDE DEF S
  <2>. QED  BY <1>2, <2>1
<1>4. FindFile(u, kind, name) = files[u][kind][SearchPath[Min(S)]][name]  BY DEF FindFile
<1>. HIDE DEF S
<1>5. Min(S) = IF 1 \in S THEN 1 ELSE 2
  <2>1. CASE 1 \in S
    <3>1. \A y \in S : 1 <= y /\ (y <= 1 => y = 1)  BY <1>2a
    <3>. QED  BY <2>1, <3>1 DEF Min
  <2>2. CASE 1 \notin S
    <3>1. S = {2}  BY <1>2a, <1>3, <2>2
    <3>. QED  BY <2>2, <3>1 DEF Min
  <2>. QED  BY <2>1, <2>2
<1>6. FindFile(u, kind, name) = IF name \in DOMAIN f1 THEN f1[name] ELSE f2[name]
  BY <1>1, <1>2, <1>4, <1>5
<1>7. KeyMap(u, kind)[name] = IF name \in DOMAIN f1 THEN f1[name] ELSE f2[name]
  <2>. HIDE DEF f1, f2
  <2>1. Over(f1, f2)[name] = IF name \in DOMAIN f1 THEN f1[name] ELSE f2[name]
    <3>1. name \in DOMAIN f1 \cup DOMAIN f2  BY KeyMapDomain DEF f1, f2
    <3>. QED  BY <3>1 DEF Over
  <2>. QED  BY <2>1 DEF KeyMap, f1, f2
<1>8. "./keys" \in Directories /\ "${keys}" \in Directories  BY DEF Directories
<1>9. name \in DOMAIN f1 \/ name \in DOMAIN f2  BY KeyMapDomain
<1>10. name \in Names /\ FindFile(u, kind, name) \in Parties
  BY <1>6, <1>8, <1>9, FilesFacts
<1>11. \/ name \in DOMAIN f1 /\ FindFile(u, kind, name) \in Range(f1)
       \/ name \in DOMAIN f2 /\ FindFile(u, kind, name) \in Range(f2)
  BY <1>6, <1>9 DEF Range
<1>. QED  BY <1>6, <1>7, <1>8, <1>10, <1>11

\* A new key file; those of the same kind stay under their names.
LEMMA SaveKeyFiles ==
  ASSUME WalletTypeOK, KeysInv, NEW kinds \in SUBSET Kinds, NEW u \in Users, NEW name \in Names,
         NEW k \in Parties, SaveKey(kinds, u, name, k), keys' \in [Users -> SUBSET Parties],
         \A v \in Users : keys[v] \subseteq keys'[v], "private" \in kinds => k \in keys'[u]
  PROVE  /\ files' \in [Users -> [Kinds -> [Directories -> KeyFiles]]]
         /\ \A v \in Users, kind \in Kinds : DOMAIN KeyMap(v, kind) \subseteq DOMAIN KeyMap(v, kind)'
         /\ KeysInv'
<1>1. files \in [Users -> [Kinds -> [Directories -> KeyFiles]]]  BY DEF WalletTypeOK
<1>2. \A kind \in Kinds, dir \in Directories : Put(files[u][kind][dir], name, k) \in KeyFiles
  BY <1>1, PutKeyFile
<1>3. \A v \in Users, kind \in Kinds, dir \in Directories :
        files'[v][kind][dir] = IF v = u /\ kind \in kinds /\ dir = "${keys}"
                               THEN Put(files[v][kind][dir], name, k) ELSE files[v][kind][dir]
  BY <1>1 DEF SaveKey
<1>4. files' \in [Users -> [Kinds -> [Directories -> KeyFiles]]]
  <2>. DEFINE new == [kind \in Kinds |-> [dir \in Directories |->
                       IF kind \in kinds /\ dir = "${keys}"
                       THEN Put(files[u][kind][dir], name, k) ELSE files[u][kind][dir]]]
  <2>1. files' = [files EXCEPT ![u] = new]  BY DEF SaveKey
  <2>2. \A kind \in Kinds, dir \in Directories :
          (IF kind \in kinds /\ dir = "${keys}"
           THEN Put(files[u][kind][dir], name, k) ELSE files[u][kind][dir]) \in KeyFiles
    <3>. SUFFICES ASSUME NEW kind \in Kinds, NEW dir \in Directories
                  PROVE  /\ Put(files[u][kind][dir], name, k) \in KeyFiles
                         /\ files[u][kind][dir] \in KeyFiles
      OBVIOUS
    <3>. QED  BY <1>1, <1>2
  <2>3. new \in [Kinds -> [Directories -> KeyFiles]]  BY <2>2
  <2>. HIDE DEF new
  <2>. QED  BY <1>1, <2>1, <2>3
<1>5. "./keys" \in Directories /\ "${keys}" \in Directories  BY DEF Directories
<1>6. \A v \in Users, kind \in Kinds :
        /\ files'[v][kind]["./keys"] = files[v][kind]["./keys"]
        /\ \/ files'[v][kind]["${keys}"] = files[v][kind]["${keys}"]
           \/ files'[v][kind]["${keys}"] = Put(files[v][kind]["${keys}"], name, k)
  BY <1>3, <1>5
<1>7. ASSUME NEW v \in Users, NEW kind \in Kinds
      PROVE  DOMAIN KeyMap(v, kind) \subseteq DOMAIN KeyMap(v, kind)'
  <2>1. DOMAIN files[v][kind]["${keys}"] \subseteq DOMAIN files'[v][kind]["${keys}"]
    <3>1. DOMAIN Put(files[v][kind]["${keys}"], name, k) =
            DOMAIN files[v][kind]["${keys}"] \cup {name}
      BY PutIs
    <3>. QED  BY <1>6, <3>1
  <2>2. DOMAIN KeyMap(v, kind)' =
          DOMAIN files'[v][kind]["./keys"] \cup DOMAIN files'[v][kind]["${keys}"]
    BY DEF KeyMap, Over
  <2>3. DOMAIN KeyMap(v, kind) =
          DOMAIN files[v][kind]["./keys"] \cup DOMAIN files[v][kind]["${keys}"]
    BY KeyMapDomain
  <2>. QED  BY <1>6, <2>1, <2>2, <2>3
<1>8. ASSUME NEW v \in Users, NEW dir \in Directories
      PROVE  Range(files'[v]["private"][dir]) \subseteq keys'[v]
  <2>1. "private" \in Kinds  BY DEF Kinds
  <2>2. Range(files[v]["private"][dir]) \subseteq keys'[v]  BY DEF KeysInv
  <2>3. CASE v = u /\ "private" \in kinds /\ dir = "${keys}"
    <3>1. files'[v]["private"][dir] = Put(files[v]["private"][dir], name, k)
      BY <1>3, <2>1, <2>3
    <3>2. files[v]["private"][dir] \in KeyFiles  BY <1>1, <2>1
    <3>3. Range(Put(files[v]["private"][dir], name, k)) \subseteq
            Range(files[v]["private"][dir]) \cup {k}
      BY <3>2, PutKeyFile
    <3>. QED  BY <2>2, <2>3, <3>1, <3>3
  <2>4. CASE ~ (v = u /\ "private" \in kinds /\ dir = "${keys}")
    <3>1. files'[v]["private"][dir] = files[v]["private"][dir]  BY <1>3, <2>1, <2>4
    <3>. QED  BY <2>2, <3>1
  <2>. QED  BY <2>3, <2>4
<1>9. ASSUME NEW v \in Users, NEW dir \in Directories
      PROVE  DOMAIN FirstFiles[v]["private"][dir] \subseteq DOMAIN files'[v]["private"][dir]
  <2>1. DOMAIN FirstFiles[v]["private"][dir] \subseteq DOMAIN files[v]["private"][dir]
    BY DEF KeysInv
  <2>2. DOMAIN Put(files[v]["private"][dir], name, k) =
          DOMAIN files[v]["private"][dir] \cup {name}
    BY PutIs
  <2>3. \/ files'[v]["private"][dir] = files[v]["private"][dir]
        \/ files'[v]["private"][dir] = Put(files[v]["private"][dir], name, k)
    BY <1>3 DEF Kinds
  <2>. QED  BY <2>1, <2>2, <2>3
<1>. QED  BY <1>4, <1>7, <1>8, <1>9 DEF KeysInv

-----------------------------------------------------------------------------
(* Contexts, cached states and forms. *)

LEMMA RememberIs ==
  ASSUME NEW w, WalletOK(w), NEW h \in Handles, NEW i \in Issuers, NEW name \in Identities
  PROVE  LET r == Remember(w, h, i, name) IN
         /\ WalletOK(r)
         /\ Listed(r) = Listed(w) \cup {h}
         /\ Len(r.list) = Len(w.list) + 1
         /\ \A g \in Listed(r) :
              r.at[g] = IF g = h THEN [issuer |-> i, identity |-> name] ELSE w.at[g]
<1>. DEFINE a == [issuer |-> i, identity |-> name]
            r == Remember(w, h, i, name)
<1>1. r.list = Append(w.list, h) /\ r.at = Put(w.at, h, a)  BY DEF Remember
<1>2. w.list \in Seq(Handles) /\ w.at \in [Listed(w) -> Target]  BY DEF WalletOK
<1>3. r.list \in Seq(Handles) /\ Len(r.list) = Len(w.list) + 1  BY <1>1, <1>2
<1>4. Listed(r) = Listed(w) \cup {h}
  <2>1. DOMAIN w.list = 1 .. Len(w.list) /\ Len(w.list) \in Nat  BY <1>2
  <2>2. DOMAIN r.list = 1 .. Len(w.list) + 1  BY <1>3
  <2>3. \A n \in 1 .. Len(w.list) : r.list[n] = w.list[n]  BY <1>1, <1>2
  <2>4. r.list[Len(w.list) + 1] = h  BY <1>1, <1>2
  <2>. QED  BY <2>1, <2>2, <2>3, <2>4 DEF Listed, Range
<1>5. a \in Target  BY DEF Target
<1>. HIDE DEF a, r
<1>7. r.at = [g \in Listed(w) \cup {h} |-> IF g = h THEN a ELSE w.at[g]]
  <2>1. Put(w.at, h, a) = [g \in DOMAIN w.at \cup {h} |-> IF g = h THEN a ELSE w.at[g]]
    BY PutIs
  <2>. QED  BY <1>1, <1>2, <2>1
<1>8. r.at \in [Listed(r) -> Target]  BY <1>2, <1>4, <1>5, <1>7
<1>9. \A g \in Listed(r) : r.at[g] = IF g = h THEN a ELSE w.at[g]  BY <1>4, <1>7
<1>. QED  BY <1>3, <1>4, <1>8, <1>9 DEF WalletOK, r, a

LEMMA NewWalletOK == WalletOK(NewWallet) /\ Listed(NewWallet) = {}
<1>1. NewWallet.list = <<>> /\ NewWallet.at = <<>>  BY DEF NewWallet
<1>2. Listed(NewWallet) = {}  BY <1>1 DEF Listed, Range
<1>. QED  BY <1>1, <1>2 DEF WalletOK

LEMMA OverCache ==
  ASSUME NEW c, CacheOK(c), NEW d, CacheOK(d)
  PROVE  CacheOK(Over(c, d)) /\ DOMAIN Over(c, d) = DOMAIN c \cup DOMAIN d
BY DEF CacheOK, Over

LEMMA LoadOK ==
  ASSUME IssuerTypeOK, NEW c, CacheOK(c), NEW S \in SUBSET Issuers
  PROVE  CacheOK(Load(c, S)) /\ DOMAIN Load(c, S) = DOMAIN c \cup S
<1>. DEFINE d == [i \in S |-> balance[i]]
<1>1. DOMAIN d = S /\ CacheOK(d)  BY DEF CacheOK, IssuerTypeOK
<1>. HIDE DEF d
<1>2. Load(c, S) = Over(c, d)  BY DEF Load, d
<1>. QED  BY <1>1, <1>2, OverCache

LEMMA PutOK ==
  ASSUME IssuerTypeOK', NEW c, CacheOK(c), NEW i \in Issuers
  PROVE  /\ CacheOK(Put(c, i, balance'[i]))
         /\ DOMAIN Put(c, i, balance'[i]) = DOMAIN c \cup {i}
<1>. DEFINE d == [z \in {i} |-> balance'[i]]
<1>1. DOMAIN d = {i} /\ CacheOK(d)  BY DEF CacheOK, IssuerTypeOK
<1>. HIDE DEF d
<1>2. Put(c, i, balance'[i]) = Over(d, c)  BY DEF Put, d
<1>. QED  BY <1>1, <1>2, OverCache

LEMMA EmptyCache == CacheOK(<<>>) /\ DOMAIN <<>> = {}
BY DEF CacheOK

\* What a user's wallet, its file and its form may be.
Sound(u, w, h) ==
  \/ ~ Fails(u, w, h)
  \/ GetAssetOwner(w, h) = Unspecified /\ BeganKeyless(u)
  \/ h = OwnHandle /\ w.at[h] = Overwritten

Usable(w, u) == WalletOK(w) /\ \A h \in Listed(w) : Sound(u, w, h)

FormChoices(f, u) ==
  /\ f.names \subseteq DOMAIN KeyMap(u, "public")
  /\ \A name \in f.identities : CanSign(u, name) \/ (name = Unspecified /\ BeganKeyless(u))

Fits(u, w, k, c, f) ==
  /\ Usable(w, u) /\ Usable(k, u) /\ Listed(k) \subseteq Listed(w)
  /\ CacheOK(c) /\ Offers(f, u, w)

LEMMA TargetIs ==
  ASSUME NEW w, WalletOK(w), NEW h \in Listed(w)
  PROVE  /\ h \in Handles
         /\ GetAssetType(w, h) \in Issuers \cup {NoIssuer}
         /\ GetAssetOwner(w, h) \in Identities \cup {NoName}
<1>1. h \in Handles  BY DEF WalletOK, Listed, Range
<1>2. w.at[h] \in Target  BY DEF WalletOK
<1>. QED  BY <1>1, <1>2 DEF Target, GetAssetType, GetAssetOwner

LEMMA KeyMapNames ==
  ASSUME WalletTypeOK, NEW u \in Users, NEW kind \in Kinds
  PROVE  DOMAIN KeyMap(u, kind) \subseteq Names
BY KeyMapFinds

\* A balance is shown only of an asset whose owner's private key is there.
LEMMA UpdateSourceIs ==
  ASSUME WalletTypeOK, NEW u \in Users, NEW w, WalletOK(w), NEW h \in Listed(w),
         ~ Fails(u, w, h), NEW f \in Form, NEW states, CacheOK(states),
         GetAssetType(w, h) \in DOMAIN states
  PROVE  LET g == UpdateSource(f, u, w, h, states) IN
         /\ g \in Form
         /\ g.source = h /\ g.issuer = GetAssetType(w, h)
         /\ g.sources = f.sources /\ g.names = f.names /\ g.identities = f.identities
<1>1. /\ h \in Handles /\ GetAssetType(w, h) \in Issuers \cup {NoIssuer}
      /\ GetAssetOwner(w, h) \in Identities \cup {NoName}
  BY TargetIs
<1>2. GetAssetOwner(w, h) \in DOMAIN KeyMap(u, "private")  BY DEF Fails, CanSign
<1>3. FindFile(u, "private", GetAssetOwner(w, h)) \in Parties
  BY <1>2, KeyMapFinds DEF Kinds
<1>4. states[GetAssetType(w, h)] \in [Parties -> Counts]  BY DEF CacheOK
<1>. DEFINE n == GetAssetBalance(u, w, h, states)
<1>5. n \in Counts  BY <1>3, <1>4 DEF GetAssetBalance
<1>. HIDE DEF n
<1>6. UpdateSource(f, u, w, h, states) =
        [f EXCEPT !.source = h, !.owner = GetAssetOwner(w, h), !.issuer = GetAssetType(w, h),
                  !.max = n]
  BY DEF UpdateSource, n
<1>. QED  BY <1>1, <1>5, <1>6 DEF Form

\* Whether or not the selected handle fails, the form shows its issuer, if it has one.
LEMMA SourceShownIs ==
  ASSUME IssuerTypeOK, WalletTypeOK, NEW u \in Users, NEW w, WalletOK(w), NEW h \in Listed(w),
         NEW f \in Form, NEW states, CacheOK(states), NEW s \in SourceShown(f, u, w, h, states)
  PROVE  /\ s = [form |-> s.form, read |-> s.read, done |-> s.done] /\ s.done \in BOOLEAN
         /\ s.form \in Form /\ s.form.source = h
         /\ s.form.sources = f.sources /\ s.form.names = f.names
         /\ s.form.identities = f.identities
         /\ GetAssetType(w, h) \in {s.form.issuer, NoIssuer}
         /\ CacheOK(s.read) /\ DOMAIN states \subseteq DOMAIN s.read
<1>. DEFINE i == GetAssetType(w, h)
            name == GetAssetOwner(w, h)
            read == Load(states, {i} \ {NoIssuer})
            named == [f EXCEPT !.source = h, !.owner = name, !.issuer = i]
            zero == [named EXCEPT !.max = 0]
            bare == [f EXCEPT !.source = h]
            up == UpdateSource(f, u, w, h, read)
<1>1. h \in Handles /\ i \in Issuers \cup {NoIssuer} /\ name \in Identities \cup {NoName}
  BY TargetIs
<1>2. /\ ~ Fails(u, w, h) => s = [form |-> up, read |-> read, done |-> TRUE]
      /\ Fails(u, w, h) /\ i = NoIssuer => s = [form |-> bare, read |-> states, done |-> FALSE]
      /\ Fails(u, w, h) /\ i # NoIssuer =>
           \/ s \in [form : {named}, read : {states, read}, done : {FALSE}]
           \/ s \in [form : {zero}, read : {states, read}, done : {TRUE}]
  <2>. DEFINE A == {[form |-> up, read |-> read, done |-> TRUE]}
              B == {[form |-> bare, read |-> states, done |-> FALSE]}
              C == [form : {named}, read : {states, read}, done : {FALSE}]
              D == [form : {zero}, read : {states, read}, done : {TRUE}]
  <2>1. SourceShown(f, u, w, h, states) =
          CASE ~ Fails(u, w, h) -> A [] i = NoIssuer -> B [] OTHER -> C \cup D
    BY DEF SourceShown
  <2>2. ~ Fails(u, w, h) => i # NoIssuer  BY DEF Fails
  <2>. HIDE DEF i, name, read, named, zero, bare, up
  <2>3. A = {[form |-> up, read |-> read, done |-> TRUE]}
        /\ B = {[form |-> bare, read |-> states, done |-> FALSE]}
    OBVIOUS
  <2>. HIDE DEF A, B, C, D
  <2>4. /\ ~ Fails(u, w, h) => s \in A
        /\ Fails(u, w, h) /\ i = NoIssuer => s \in B
        /\ Fails(u, w, h) /\ i # NoIssuer => s \in C \cup D
    BY <2>1, <2>2
  <2>. QED  BY <2>3, <2>4 DEF C, D
<1>3. ~ Fails(u, w, h) => i # NoIssuer  BY DEF Fails
<1>. HIDE DEF i, name
<1>4. {i} \ {NoIssuer} \in SUBSET Issuers  BY <1>1
<1>5. CacheOK(read) /\ DOMAIN read = DOMAIN states \cup ({i} \ {NoIssuer})
  BY <1>4, LoadOK
<1>. HIDE DEF read
<1>6. 0 \in Counts  BY IssuerAssumption DEF Counts
<1>7. /\ named \in Form /\ named.source = h /\ named.issuer = i
      /\ named.sources = f.sources /\ named.names = f.names /\ named.identities = f.identities
  BY <1>1 DEF Form
<1>. HIDE DEF named
<1>8. /\ zero \in Form /\ zero.source = h /\ zero.issuer = i
      /\ zero.sources = f.sources /\ zero.names = f.names /\ zero.identities = f.identities
  BY <1>6, <1>7 DEF Form
<1>9. /\ bare \in Form /\ bare.source = h
      /\ bare.sources = f.sources /\ bare.names = f.names /\ bare.identities = f.identities
  BY <1>1 DEF Form
<1>. HIDE DEF zero, bare, up
<1>10. CASE ~ Fails(u, w, h)
  <2>1. s = [form |-> up, read |-> read, done |-> TRUE]  BY <1>2, <1>10
  <2>2. GetAssetType(w, h) \in DOMAIN read  BY <1>3, <1>5, <1>10 DEF i
  <2>3. /\ up \in Form /\ up.source = h /\ up.issuer = i
        /\ up.sources = f.sources /\ up.names = f.names /\ up.identities = f.identities
    BY <1>5, <1>10, <2>2, UpdateSourceIs DEF up, i
  <2>. QED  BY <1>5, <2>1, <2>3 DEF i
<1>11. CASE Fails(u, w, h) /\ i = NoIssuer
  <2>1. s = [form |-> bare, read |-> states, done |-> FALSE]  BY <1>2, <1>11
  <2>. QED  BY <1>9, <1>11, <2>1 DEF i
<1>12. CASE Fails(u, w, h) /\ i # NoIssuer
  <2>1. \/ s \in [form : {named}, read : {states, read}, done : {FALSE}]
        \/ s \in [form : {zero}, read : {states, read}, done : {TRUE}]
    BY <1>2, <1>12
  <2>2. /\ s = [form |-> s.form, read |-> s.read, done |-> s.done] /\ s.done \in BOOLEAN
        /\ s.form \in {named, zero} /\ s.read \in {states, read}
    BY <2>1
  <2>. QED  BY <1>5, <1>7, <1>8, <2>2 DEF i
<1>. QED  BY <1>10, <1>11, <1>12

LEMMA ResetIs ==
  ASSUME IssuerTypeOK, WalletTypeOK, NEW u \in Users, NEW w, WalletOK(w), NEW f \in Form,
         FormChoices(f, u), NEW states, CacheOK(states), NEW s \in ResetWidget(f, u, w, states)
  PROVE  /\ s.form \in Form /\ Offers(s.form, u, w)
         /\ CacheOK(s.read) /\ DOMAIN states \subseteq DOMAIN s.read
<1>. DEFINE g == [f EXCEPT !.sources = w.list]
            names == DOMAIN KeyMap(u, "public")
<1>1. w.list \in Seq(Handles)  BY DEF WalletOK
<1>2. names \in SUBSET Names  BY KeyMapNames DEF Kinds
<1>3. /\ g \in Form
      /\ g.sources = w.list /\ g.names = f.names /\ g.identities = f.identities
  BY <1>1 DEF Form
<1>4. Len(w.list) <= Len(w.list)  BY <1>1
<1>5. CASE w.list = <<>>
  <2>. DEFINE r == [g EXCEPT !.source = NoHandle, !.owner = NoName, !.issuer = NoIssuer,
                             !.max = 0, !.names = names]
  <2>1. s = [form |-> r, read |-> states, done |-> TRUE]  BY <1>5 DEF ResetWidget
  <2>2. 0 \in Counts  BY IssuerAssumption DEF Counts
  <2>. HIDE DEF g
  <2>3. /\ r \in Form /\ r.source = NoHandle
        /\ r.sources = g.sources /\ r.names = names /\ r.identities = g.identities
    BY <1>2, <1>3, <2>2 DEF Form
  <2>. HIDE DEF r
  <2>. QED  BY <1>3, <1>4, <2>1, <2>3 DEF Offers, Listed, FormChoices
<1>6. CASE w.list # <<>>
  <2>. DEFINE h == Head(w.list)
  <2>1. h \in Listed(w)
    <3>1. 1 \in DOMAIN w.list /\ h = w.list[1]  BY <1>1, <1>6
    <3>. QED  BY <3>1 DEF Listed, Range
  <2>2. PICK x \in SourceShown(g, u, w, h, states) :
               s = [x EXCEPT !.form.names = IF x.done THEN names ELSE @]
    BY <1>6 DEF ResetWidget
  <2>. HIDE DEF g, h, names
  <2>3. /\ x = [form |-> x.form, read |-> x.read, done |-> x.done] /\ x.done \in BOOLEAN
        /\ x.form \in Form /\ x.form.source = h
        /\ x.form.sources = g.sources /\ x.form.names = g.names
        /\ x.form.identities = g.identities
        /\ GetAssetType(w, h) \in {x.form.issuer, NoIssuer}
        /\ CacheOK(x.read) /\ DOMAIN states \subseteq DOMAIN x.read
    BY <1>3, <2>1, SourceShownIs
  <2>4. s.form = [x.form EXCEPT !.names = IF x.done THEN names ELSE x.form.names]
        /\ s.read = x.read
    BY <2>2, <2>3
  <2>5. /\ s.form \in Form /\ s.form.source = h /\ s.form.issuer = x.form.issuer
        /\ s.form.sources = g.sources /\ s.form.names \in {g.names, names}
        /\ s.form.identities = g.identities
    BY <1>2, <2>3, <2>4 DEF Form
  <2>6. h \in Range(s.form.sources)  BY <1>3, <2>1, <2>5 DEF Listed
  <2>. QED  BY <1>3, <1>4, <2>3, <2>4, <2>5, <2>6 DEF Offers, Listed, FormChoices, names
<1>. QED  BY <1>5, <1>6

LEMMA ShowFormIs ==
  ASSUME IssuerTypeOK, WalletTypeOK, NEW u \in Users, NEW w, WalletOK(w), FormChoices(form[u], u),
         NEW states, CacheOK(states), ShowForm(u, w, states)
  PROVE  /\ DOMAIN cache' = Users /\ form' \in [Users -> Form]
         /\ \A v \in Users \ {u} : cache'[v] = cache[v] /\ form'[v] = form[v]
         /\ CacheOK(cache'[u]) /\ DOMAIN states \subseteq DOMAIN cache'[u]
         /\ Offers(form'[u], u, w)
<1>1. PICK s \in ResetWidget(form[u], u, w, states) :
             /\ cache' = [cache EXCEPT ![u] = s.read]
             /\ form' = [form EXCEPT ![u] = s.form]
  BY DEF ShowForm
<1>2. DOMAIN cache = Users /\ form \in [Users -> Form]  BY DEF WalletTypeOK
<1>3. form[u] \in Form  BY <1>2
<1>4. /\ s.form \in Form /\ Offers(s.form, u, w)
      /\ CacheOK(s.read) /\ DOMAIN states \subseteq DOMAIN s.read
  BY <1>3, ResetIs
<1>5. cache'[u] = s.read /\ form'[u] = s.form  BY <1>1, <1>2
<1>. QED  BY <1>1, <1>2, <1>4, <1>5

\* The balance table reads the states of issuers.
LEMMA TableReadOK ==
  ASSUME IssuerTypeOK, NEW w, WalletOK(w), NEW n \in 0 .. Len(w.list)
  PROVE  CacheOK(TableRead(w, n))
<1>. DEFINE S == {GetAssetType(w, w.list[d]) : d \in 1 .. n} \ {NoIssuer}
<1>1. w.list \in Seq(Handles) /\ n \in Nat /\ n <= Len(w.list)  BY DEF WalletOK
<1>2. ASSUME NEW d \in 1 .. n PROVE GetAssetType(w, w.list[d]) \in Issuers \cup {NoIssuer}
  <2>1. d \in DOMAIN w.list  BY <1>1
  <2>2. w.list[d] \in Listed(w)  BY <2>1 DEF Listed, Range
  <2>. QED  BY <2>2, TargetIs
<1>3. S \in SUBSET Issuers  BY <1>2
<1>4. TableRead(w, n) = Load(<<>>, S)  BY DEF TableRead
<1>. HIDE DEF S
<1>. QED  BY <1>3, <1>4, EmptyCache, LoadOK

LEMMA IdentitiesAre ==
  ASSUME WalletTypeOK, KeysInv, NEW u \in Users
  PROVE  /\ ReadIdentities(u) \in SUBSET Identities
         /\ \A name \in ReadIdentities(u) :
              CanSign(u, name) \/ (name = Unspecified /\ BeganKeyless(u))
<1>1. CASE DOMAIN KeyMap(u, "private") # {}
  <2>1. ReadIdentities(u) = DOMAIN KeyMap(u, "private")  BY <1>1 DEF ReadIdentities
  <2>. QED  BY <2>1, KeyMapNames DEF Identities, CanSign, Kinds
<1>2. CASE DOMAIN KeyMap(u, "private") = {}
  <2>1. ReadIdentities(u) = {Unspecified}  BY <1>2 DEF ReadIdentities
  <2>2. ASSUME NEW dir \in Directories PROVE DOMAIN files[u]["private"][dir] = {}
    BY <1>2, KeyMapDomain DEF Directories
  <2>3. BeganKeyless(u)  BY <2>2 DEF BeganKeyless, KeysInv
  <2>. QED  BY <2>1, <2>3 DEF Identities
<1>. QED  BY <1>1, <1>2

LEMMA NoFormIs ==
  ASSUME WalletTypeOK, KeysInv, NEW u \in Users
  PROVE  NoForm(u) \in Form /\ FormChoices(NoForm(u), u) /\ \A w : WalletOK(w) => Offers(NoForm(u), u, w)
<1>. DEFINE f == NoForm(u)
<1>1. 0 \in Counts  BY IssuerAssumption DEF Counts
<1>2. /\ f.source = NoHandle /\ f.sources = <<>> /\ f.owner = NoName /\ f.issuer = NoIssuer
      /\ f.max = 0 /\ f.names = {} /\ f.identities = ReadIdentities(u)
  BY DEF NoForm
<1>3. f \in Form  BY <1>1, IdentitiesAre DEF NoForm, Form
<1>. HIDE DEF f
<1>4. FormChoices(f, u)  BY <1>2, IdentitiesAre DEF FormChoices
<1>5. Range(f.sources) = {} /\ Len(f.sources) = 0  BY <1>2 DEF Range
<1>6. ASSUME NEW w, WalletOK(w) PROVE Offers(f, u, w)
  <2>1. Len(w.list) \in Nat  BY <1>6 DEF WalletOK
  <2>. QED  BY <1>2, <1>4, <1>5, <2>1 DEF Offers, FormChoices
<1>. QED  BY <1>3, <1>4, <1>6 DEF f

-----------------------------------------------------------------------------
(* Steps. *)

LEMMA InvFits ==
  ASSUME WalletInv, NEW u \in Users
  PROVE  Fits(u, wallet[u], kept[u], cache[u], form[u])
BY DEF WalletInv, WalletTypeOK, FormInv, FileInv, ListedUsable, Fits, Usable, Sound

\* A step leaves a wallet as it was, or fit for the key files there were before; key
\* files keep their names.
LEMMA WalletStep ==
  ASSUME WalletInv, IssuerTypeOK',
         files' \in [Users -> [Kinds -> [Directories -> KeyFiles]]],
         keys' \in [Users -> SUBSET Parties], KeysInv',
         keyings' \in 0 .. MaxKeyings, failures' \in 0 .. MaxFailures,
         \A v \in Users, kind \in Kinds : DOMAIN KeyMap(v, kind) \subseteq DOMAIN KeyMap(v, kind)',
         {DOMAIN wallet', DOMAIN kept', DOMAIN cache', DOMAIN stale'} = {Users},
         form' \in [Users -> Form],
         \A v \in Users : stale'[v] \subseteq DOMAIN cache'[v],
         \A v \in Users : Fits(v, wallet'[v], kept'[v], cache'[v], form'[v])
  PROVE  WalletInv'
<1>1. "private" \in Kinds /\ "public" \in Kinds  BY DEF Kinds
<1>2. ASSUME NEW v \in Users, NEW name, CanSign(v, name) PROVE CanSign(v, name)'
  BY <1>1, <1>2 DEF CanSign
<1>3. WalletTypeOK'
  <2>1. \A v \in Users : WalletOK(wallet'[v]) /\ WalletOK(kept'[v]) /\ CacheOK(cache'[v])
    BY DEF Fits, Usable
  <2>. QED  BY <2>1 DEF WalletTypeOK
<1>4. FormInv'
  <2>. SUFFICES ASSUME NEW v \in Users PROVE Offers(form[v], v, wallet[v])'
    BY DEF FormInv
  <2>1. Offers(form'[v], v, wallet'[v])  BY DEF Fits
  <2>2. DOMAIN KeyMap(v, "public") \subseteq DOMAIN KeyMap(v, "public")'  BY <1>1
  <2>3. form'[v].names \subseteq DOMAIN KeyMap(v, "public")'  BY <2>1, <2>2 DEF Offers
  <2>4. \A name \in form'[v].identities :
          CanSign(v, name)' \/ (name = Unspecified /\ BeganKeyless(v))
    BY <1>2, <2>1 DEF Offers
  <2>. QED  BY <2>1, <2>3, <2>4 DEF Offers, BeganKeyless
<1>5. FileInv'  BY DEF FileInv, Fits
<1>6. ListedUsable'
  <2>1. ASSUME NEW v \in Users, NEW w \in {wallet'[v], kept'[v]}, NEW h \in Listed(w)
        PROVE  \/ w.at[h].issuer # NoIssuer /\ w.at[h].identity \in DOMAIN KeyMap(v, "private")'
               \/ w.at[h].identity = Unspecified /\ BeganKeyless(v)
               \/ h = OwnHandle /\ w.at[h] = Overwritten
    <3>1. Usable(w, v)  BY DEF Fits
    <3>2. Sound(v, w, h)  BY <3>1 DEF Usable
    <3>. QED  BY <1>2, <3>2 DEF Sound, Fails, CanSign, GetAssetType, GetAssetOwner
  <2>2. \A v \in Users : BeganKeyless(v)' = BeganKeyless(v)  BY DEF BeganKeyless
  <2>3. Overwritten' = Overwritten  BY DEF Overwritten
  <2>. SUFFICES ASSUME NEW v \in Users, NEW w \in {wallet'[v], kept'[v]}, NEW h \in Listed(w)
                PROVE  \/ ~ Fails(v, w, h)'
                       \/ GetAssetOwner(w, h)' = Unspecified /\ BeganKeyless(v)'
                       \/ h = OwnHandle /\ w.at[h] = Overwritten'
    BY DEF ListedUsable, Listed
  <2>. QED  BY <2>1, <2>2, <2>3 DEF Fails, CanSign, GetAssetType, GetAssetOwner
<1>. QED  BY <1>3, <1>4, <1>5, <1>6 DEF WalletInv

\* The button handlers of one user: its key files stay as they are, and the other
\* wallets notice at most that the ledger has moved on.
LEMMA UserStep ==
  ASSUME WalletInv, IssuerTypeOK', NEW u \in Users, UNCHANGED <<files, keys>>,
         keyings' \in 0 .. MaxKeyings, failures' \in 0 .. MaxFailures,
         {DOMAIN wallet', DOMAIN kept', DOMAIN cache', DOMAIN stale'} = {Users},
         form' \in [Users -> Form],
         \A v \in Users \ {u} : /\ wallet'[v] = wallet[v] /\ kept'[v] = kept[v]
                                /\ cache'[v] = cache[v] /\ form'[v] = form[v],
         \A v \in Users : stale'[v] \subseteq DOMAIN cache'[v],
         Fits(u, wallet'[u], kept'[u], cache'[u], form'[u])
  PROVE  WalletInv'
<1>1. \A v \in Users : Fits(v, wallet'[v], kept'[v], cache'[v], form'[v])
  <2>. SUFFICES ASSUME NEW v \in Users \ {u}
                PROVE  Fits(v, wallet'[v], kept'[v], cache'[v], form'[v])
    OBVIOUS
  <2>1. Fits(v, wallet[v], kept[v], cache[v], form[v])  BY InvFits
  <2>. QED  BY <2>1
<1>2. \A v \in Users, kind \in Kinds : KeyMap(v, kind)' = KeyMap(v, kind)
  BY DEF KeyMap, Over
<1>3. KeysInv'  BY DEF WalletInv, KeysInv
<1>4. files' \in [Users -> [Kinds -> [Directories -> KeyFiles]]] /\ keys' \in [Users -> SUBSET Parties]
  BY DEF WalletInv, WalletTypeOK
<1>. QED  BY <1>1, <1>2, <1>3, <1>4, WalletStep

LEMMA LedgersStay ==
  ASSUME IssuerTypeOK, UNCHANGED issuerVars
  PROVE  IssuerTypeOK'
BY DEF IssuerTypeOK, issuerVars, ledgerVars

LEMMA NoWalletStep ==
  ASSUME WalletInv, IssuerTypeOK', UNCHANGED <<files, keys, wallet, kept, form, cache, failures>>,
         keyings' \in 0 .. MaxKeyings, DOMAIN stale' = Users,
         \A v \in Users : stale'[v] \subseteq DOMAIN cache'[v]
  PROVE  WalletInv'
<1>1. \A v \in Users : Fits(v, wallet'[v], kept'[v], cache'[v], form'[v])  BY InvFits
<1>2. \A v \in Users, kind \in Kinds : KeyMap(v, kind)' = KeyMap(v, kind)
  BY DEF KeyMap, Over
<1>3. KeysInv'  BY DEF WalletInv, KeysInv
<1>4. /\ files' \in [Users -> [Kinds -> [Directories -> KeyFiles]]] /\ keys' \in [Users -> SUBSET Parties]
      /\ form' \in [Users -> Form] /\ failures' \in 0 .. MaxFailures
      /\ {DOMAIN wallet', DOMAIN kept', DOMAIN cache', DOMAIN stale'} = {Users}
  BY DEF WalletInv, WalletTypeOK
<1>. QED  BY <1>1, <1>2, <1>3, <1>4, WalletStep

LEMMA KeyStep ==
  ASSUME WalletInv, NEW u \in Users, NEW name \in Names, NEW kinds \in SUBSET Kinds,
         NEW k \in Parties, SaveKey(kinds, u, name, k),
         keys' \in [Users -> SUBSET Parties], \A v \in Users : keys[v] \subseteq keys'[v],
         "private" \in kinds => k \in keys'[u],
         keyings' \in 0 .. MaxKeyings,
         UNCHANGED <<issuerVars, wallet, kept, cache, stale, form, failures>>
  PROVE  WalletInv'
<1>1. /\ files' \in [Users -> [Kinds -> [Directories -> KeyFiles]]]
      /\ \A v \in Users, kind \in Kinds : DOMAIN KeyMap(v, kind) \subseteq DOMAIN KeyMap(v, kind)'
      /\ KeysInv'
  BY SaveKeyFiles DEF WalletInv
<1>2. \A v \in Users : Fits(v, wallet'[v], kept'[v], cache'[v], form'[v])  BY InvFits
<1>3. /\ form' \in [Users -> Form] /\ failures' \in 0 .. MaxFailures
      /\ {DOMAIN wallet', DOMAIN kept', DOMAIN cache', DOMAIN stale'} = {Users}
      /\ \A v \in Users : stale'[v] \subseteq DOMAIN cache'[v]
  BY DEF WalletInv, WalletTypeOK
<1>4. IssuerTypeOK'  BY LedgersStay DEF WalletInv
<1>. QED  BY <1>1, <1>2, <1>3, <1>4, WalletStep

LEMMA GenerateKeyPairKeeps ==
  ASSUME WalletInv, NEW u \in Users, NEW name \in Names, GenerateKeyPair(u, name)
  PROVE  WalletInv'
<1>1. PICK k \in Parties : SaveKey(Kinds, u, name, k) /\ keys' = [keys EXCEPT ![u] = @ \cup {k}]
  BY DEF GenerateKeyPair
<1>2. keys \in [Users -> SUBSET Parties] /\ keyings \in 0 .. MaxKeyings
  BY DEF WalletInv, WalletTypeOK
<1>3. /\ keys' \in [Users -> SUBSET Parties] /\ k \in keys'[u]
      /\ \A v \in Users : keys[v] \subseteq keys'[v]
  BY <1>1, <1>2
<1>4. keyings' \in 0 .. MaxKeyings  BY <1>2, WalletAssumption DEF GenerateKeyPair
<1>. QED  BY <1>1, <1>3, <1>4, KeyStep DEF GenerateKeyPair

LEMMA UploadKeyKeeps ==
  ASSUME WalletInv, NEW u \in Users, NEW name \in Names, NEW kind \in Kinds, NEW k \in Parties,
         UploadKey(u, name, kind, k)
  PROVE  WalletInv'
<1>1. SaveKey({kind}, u, name, k) /\ UNCHANGED keys  BY DEF UploadKey
<1>2. keys \in [Users -> SUBSET Parties] /\ keyings \in 0 .. MaxKeyings
  BY DEF WalletInv, WalletTypeOK
<1>3. "private" \in {kind} => k \in keys'[u]  BY <1>1 DEF UploadKey
<1>4. keyings' \in 0 .. MaxKeyings  BY <1>2, WalletAssumption DEF UploadKey
<1>5. {kind} \in SUBSET Kinds  OBVIOUS
<1>6. keys' \in [Users -> SUBSET Parties] /\ \A v \in Users : keys[v] \subseteq keys'[v]
  BY <1>1, <1>2
<1>. QED  BY <1>1, <1>3, <1>4, <1>5, <1>6, KeyStep DEF UploadKey

-----------------------------------------------------------------------------
(* The widgets' handlers. *)

LEMMA RefreshBalancesKeeps ==
  ASSUME WalletInv, NEW u \in Users, RefreshBalances(u)
  PROVE  WalletInv'
<1>1. Fits(u, wallet[u], kept[u], cache[u], form[u])  BY InvFits
<1>2. PICK n \in 0 .. Len(wallet[u].list) : cache' = [cache EXCEPT ![u] = TableRead(wallet[u], n)]
  BY DEF RefreshBalances
<1>. DEFINE read == TableRead(wallet[u], n)
<1>3. CacheOK(read)  BY <1>1, TableReadOK DEF Fits, Usable, WalletInv
<1>4. cache' = [cache EXCEPT ![u] = read] /\ stale' = [stale EXCEPT ![u] = {}]
  BY <1>2 DEF RefreshBalances
<1>. HIDE DEF read
<1>5. /\ {DOMAIN wallet, DOMAIN kept, DOMAIN cache, DOMAIN stale} = {Users}
      /\ \A v \in Users : stale[v] \subseteq DOMAIN cache[v]
      /\ keyings \in 0 .. MaxKeyings /\ failures \in 0 .. MaxFailures
      /\ form \in [Users -> Form]
  BY DEF WalletInv, WalletTypeOK
<1>6. UNCHANGED <<issuerVars, files, keys, wallet, kept, form, keyings, failures>>
  BY DEF RefreshBalances
<1>7. Fits(u, wallet'[u], kept'[u], cache'[u], form'[u])
  BY <1>1, <1>3, <1>4, <1>5, <1>6 DEF Fits
<1>8. IssuerTypeOK'  BY <1>6, LedgersStay DEF WalletInv
<1>. QED  BY <1>4, <1>5, <1>6, <1>7, <1>8, UserStep

\* What the handlers read of the invariant.
LEMMA InvType ==
  ASSUME WalletInv
  PROVE  /\ IssuerTypeOK /\ WalletTypeOK /\ KeysInv
         /\ {DOMAIN wallet, DOMAIN kept, DOMAIN cache, DOMAIN stale} = {Users}
         /\ \A v \in Users : stale[v] \subseteq DOMAIN cache[v]
         /\ keyings \in 0 .. MaxKeyings /\ failures \in 0 .. MaxFailures
         /\ form \in [Users -> Form]
         /\ \A v \in Users : FormChoices(form[v], v)
BY DEF WalletInv, WalletTypeOK, FormInv, Offers, FormChoices

LEMMA RefreshTransferKeeps ==
  ASSUME WalletInv, NEW u \in Users, RefreshTransfer(u)
  PROVE  WalletInv'
<1>1. Fits(u, wallet[u], kept[u], cache[u], form[u])  BY InvFits
<1>2. /\ DOMAIN cache' = Users /\ form' \in [Users -> Form]
      /\ \A v \in Users \ {u} : cache'[v] = cache[v] /\ form'[v] = form[v]
      /\ CacheOK(cache'[u]) /\ Offers(form'[u], u, wallet[u])
  BY <1>1, InvType, EmptyCache, ShowFormIs DEF RefreshTransfer, Fits, Usable
<1>3. UNCHANGED <<issuerVars, files, keys, wallet, kept, keyings, failures>>
      /\ stale' = [stale EXCEPT ![u] = {}]
  BY DEF RefreshTransfer
<1>4. Fits(u, wallet'[u], kept'[u], cache'[u], form'[u])
  BY <1>1, <1>2, <1>3 DEF Fits
<1>5. IssuerTypeOK'  BY <1>3, LedgersStay, InvType
<1>6. DOMAIN stale' = Users /\ \A v \in Users : stale'[v] \subseteq DOMAIN cache'[v]
  BY <1>2, <1>3, InvType
<1>. QED  BY <1>2, <1>3, <1>4, <1>5, <1>6, InvType, UserStep

LEMMA RefreshImportKeeps ==
  ASSUME WalletInv, NEW u \in Users, RefreshImport(u)
  PROVE  WalletInv'
<1>. DEFINE f == [form[u] EXCEPT !.identities = ReadIdentities(u)]
<1>1. Fits(u, wallet[u], kept[u], cache[u], form[u])  BY InvFits
<1>2. form' = [form EXCEPT ![u] = f]
  BY InvType DEF RefreshImport
<1>3. /\ ReadIdentities(u) \in SUBSET Identities
      /\ \A name \in ReadIdentities(u) :
           CanSign(u, name) \/ (name = Unspecified /\ BeganKeyless(u))
  BY IdentitiesAre, InvType
<1>4. /\ f \in Form /\ f.identities = ReadIdentities(u)
      /\ f.source = form[u].source /\ f.sources = form[u].sources /\ f.owner = form[u].owner
      /\ f.issuer = form[u].issuer /\ f.names = form[u].names
  <2>1. form[u] \in Form  BY InvType
  <2>. QED  BY <1>3, <2>1 DEF Form
<1>. HIDE DEF f
<1>5. Offers(f, u, wallet[u])  BY <1>1, <1>3, <1>4 DEF Fits, Offers
<1>6. UNCHANGED <<issuerVars, files, keys, wallet, kept, cache, stale, keyings, failures>>
  BY DEF RefreshImport
<1>7. /\ form' \in [Users -> Form] /\ form'[u] = f
      /\ \A v \in Users \ {u} : form'[v] = form[v]
  BY <1>2, <1>4, InvType
<1>8. Fits(u, wallet'[u], kept'[u], cache'[u], form'[u])
  BY <1>1, <1>5, <1>6, <1>7 DEF Fits
<1>9. IssuerTypeOK'  BY <1>6, LedgersStay, InvType
<1>. QED  BY <1>6, <1>7, <1>8, <1>9, InvType, UserStep

LEMMA SelectSourceKeeps ==
  ASSUME WalletInv, NEW u \in Users, NEW h \in Handles, SelectSource(u, h)
  PROVE  WalletInv'
<1>1. Fits(u, wallet[u], kept[u], cache[u], form[u])  BY InvFits
<1>2. h \in Range(form[u].sources) /\ h \in Listed(wallet[u])
  BY <1>1 DEF SelectSource, Fits, Offers
<1>3. PICK s \in SourceShown(form[u], u, wallet[u], h, cache[u]) :
             /\ cache' = [cache EXCEPT ![u] = s.read]
             /\ form' = [form EXCEPT ![u] = s.form]
  BY DEF SelectSource
<1>4. /\ s.form \in Form /\ s.form.source = h
      /\ s.form.sources = form[u].sources /\ s.form.names = form[u].names
      /\ s.form.identities = form[u].identities
      /\ GetAssetType(wallet[u], h) \in {s.form.issuer, NoIssuer}
      /\ CacheOK(s.read) /\ DOMAIN cache[u] \subseteq DOMAIN s.read
  <2>1. form[u] \in Form  BY InvType
  <2>2. WalletOK(wallet[u]) /\ CacheOK(cache[u])  BY <1>1 DEF Fits, Usable
  <2>. QED  BY <1>2, <2>1, <2>2, InvType, SourceShownIs
<1>5. Offers(s.form, u, wallet[u])  BY <1>1, <1>2, <1>4 DEF Fits, Offers
<1>6. UNCHANGED <<issuerVars, files, keys, wallet, kept, stale, keyings, failures>>
  BY DEF SelectSource
<1>7. /\ form' \in [Users -> Form] /\ form'[u] = s.form /\ cache'[u] = s.read
      /\ DOMAIN cache' = Users
      /\ \A v \in Users \ {u} : cache'[v] = cache[v] /\ form'[v] = form[v]
  BY <1>3, <1>4, InvType
<1>8. Fits(u, wallet'[u], kept'[u], cache'[u], form'[u])
  BY <1>1, <1>4, <1>5, <1>6, <1>7 DEF Fits
<1>9. IssuerTypeOK'  BY <1>6, LedgersStay, InvType
<1>10. \A v \in Users : stale'[v] \subseteq DOMAIN cache'[v]
  BY <1>4, <1>6, <1>7, InvType
<1>. QED  BY <1>6, <1>7, <1>8, <1>9, <1>10, InvType, UserStep

-----------------------------------------------------------------------------
(* Transfers. *)

\* A submitted form names a handle of the wallet and a payee of the key list, and, if
\* it can be signed, an issuer and an account the user can pay from.
LEMMA SubmittedIs ==
  ASSUME WalletInv, NEW u \in Users, NEW count \in 1 .. IntMax, NEW to \in Names,
         Submitted(u, count, to)
  PROVE  /\ TargetIssuer(u) \in Issuers \cup {NoIssuer}
         /\ form[u].source \in Listed(wallet[u])
         /\ FindFile(u, "public", to) \in Parties
         /\ FindFile(u, "public", to) = KeyMap(u, "public")[to]
         /\ TargetIssuer(u) \in {form[u].issuer, NoIssuer} \/ wallet[u].list # form[u].sources
         /\ Signed(u) => /\ TargetIssuer(u) \in Issuers
                         /\ Payer(u) \in Parties
                         /\ Payer(u) = KeyMap(u, "private")[form[u].owner]
                         /\ Payer(u) \in keys[u]
<1>1. Fits(u, wallet[u], kept[u], cache[u], form[u])  BY InvFits
<1>2. /\ form[u].source \in Range(form[u].sources)
      /\ TargetIssuer(u) \in {form[u].issuer, NoIssuer} \/ wallet[u].list # form[u].sources
      /\ to \in DOMAIN KeyMap(u, "public")
      /\ form[u].source \in Listed(wallet[u])
  BY <1>1 DEF Fits, Offers, Submitted, TargetIssuer
<1>3. TargetIssuer(u) \in Issuers \cup {NoIssuer}
  BY <1>1, <1>2, TargetIs DEF Fits, Usable, TargetIssuer
<1>4. "private" \in Kinds /\ "public" \in Kinds  BY DEF Kinds
<1>5. /\ FindFile(u, "public", to) \in Parties
      /\ FindFile(u, "public", to) = KeyMap(u, "public")[to]
  BY <1>2, <1>4, InvType, KeyMapFinds
<1>6. ASSUME Signed(u)
      PROVE  /\ TargetIssuer(u) \in Issuers /\ Payer(u) \in Parties
             /\ Payer(u) = KeyMap(u, "private")[form[u].owner] /\ Payer(u) \in keys[u]
  <2>1. TargetIssuer(u) \in Issuers /\ form[u].owner \in DOMAIN KeyMap(u, "private")
    BY <1>3, <1>6 DEF Signed, CanSign
  <2>2. /\ Payer(u) \in Parties /\ Payer(u) = KeyMap(u, "private")[form[u].owner]
        /\ \E dir \in Directories : Payer(u) \in Range(files[u]["private"][dir])
    BY <1>4, <2>1, InvType, KeyMapFinds DEF Payer
  <2>. QED  BY <2>1, <2>2, InvType DEF KeysInv
<1>. QED  BY <1>2, <1>3, <1>5, <1>6

LEMMA MovedOnIs ==
  ASSUME NEW i, NEW others, MovedOn(i, others),
         \A v \in Users : stale[v] \subseteq DOMAIN cache'[v]
  PROVE  DOMAIN stale' = Users /\ \A v \in Users : stale'[v] \subseteq DOMAIN cache'[v]
BY DEF MovedOn

LEMMA TransferAssetsType ==
  ASSUME WalletInv, NEW u \in Users, NEW count \in 1 .. IntMax, NEW to \in Names,
         Submitted(u, count, to), TransferAssets(u, count, to)
  PROVE  IssuerTypeOK'
<1>1. count \in 0 .. IntMax /\ Signed(u)  BY DEF TransferAssets
<1>2. CASE Transfer(TargetIssuer(u), Payer(u), FindFile(u, "public", to), count)
  BY <1>1, <1>2, SubmittedIs, InvType, TransferType
<1>3. CASE UNCHANGED issuerVars
  BY <1>3, InvType, LedgersStay
<1>. QED  BY <1>2, <1>3 DEF TransferAssets

LEMMA SubmitKeeps ==
  ASSUME WalletInv, NEW u \in Users, NEW count \in 1 .. IntMax, NEW to \in Names,
         Submit(u, count, to)
  PROVE  WalletInv'
<1>. DEFINE i == TargetIssuer(u)
            read == Put(cache[u], i, balance'[i])
<1>1. Fits(u, wallet[u], kept[u], cache[u], form[u])  BY InvFits
<1>2. IssuerTypeOK'  BY TransferAssetsType DEF Submit
<1>3. i \in Issuers  BY SubmittedIs DEF Submit, TransferAssets
<1>4. ShowForm(u, wallet[u], read) /\ MovedOn(i, Users \ {u})
      /\ UNCHANGED <<files, keys, wallet, kept, keyings, failures>>
  BY DEF Submit
<1>. HIDE DEF i
<1>5. CacheOK(read) /\ DOMAIN read = DOMAIN cache[u] \cup {i}
  BY <1>1, <1>2, <1>3, PutOK DEF Fits
<1>. HIDE DEF read
<1>6. /\ DOMAIN cache' = Users /\ form' \in [Users -> Form]
      /\ \A v \in Users \ {u} : cache'[v] = cache[v] /\ form'[v] = form[v]
      /\ CacheOK(cache'[u]) /\ DOMAIN read \subseteq DOMAIN cache'[u]
      /\ Offers(form'[u], u, wallet[u])
  BY <1>1, <1>4, <1>5, InvType, ShowFormIs DEF Fits, Usable
<1>7. \A v \in Users : stale[v] \subseteq DOMAIN cache'[v]  BY <1>5, <1>6, InvType
<1>8. DOMAIN stale' = Users /\ \A v \in Users : stale'[v] \subseteq DOMAIN cache'[v]
  BY <1>4, <1>7, MovedOnIs
<1>9. Fits(u, wallet'[u], kept'[u], cache'[u], form'[u])
  BY <1>1, <1>4, <1>6 DEF Fits
<1>. QED  BY <1>2, <1>4, <1>6, <1>8, <1>9, InvType, UserStep

LEMMA SubmitUnansweredKeeps ==
  ASSUME WalletInv, NEW u \in Users, NEW count \in 1 .. IntMax, NEW to \in Names,
         SubmitUnanswered(u, count, to)
  PROVE  WalletInv'
<1>. DEFINE i == TargetIssuer(u)
<1>1. Fits(u, wallet[u], kept[u], cache[u], form[u])  BY InvFits
<1>2. Submitted(u, count, to) /\ Signed(u) /\ count \in 0 .. IntMax  BY DEF SubmitUnanswered
<1>3. IssuerTypeOK'
  BY <1>2, SubmittedIs, InvType, TransferType DEF SubmitUnanswered
<1>4. i \in Issuers  BY <1>2, SubmittedIs
<1>. HIDE DEF i
<1>5. PICK others : /\ cache' = [cache EXCEPT ![u] =
                           IF u \in others THEN Load(cache[u], {i})
                                           ELSE Put(cache[u], i, balance'[i])]
                    /\ MovedOn(i, others)
  BY DEF SubmitUnanswered, i
<1>6. /\ CacheOK(Load(cache[u], {i})) /\ DOMAIN Load(cache[u], {i}) = DOMAIN cache[u] \cup {i}
      /\ CacheOK(Put(cache[u], i, balance'[i]))
      /\ DOMAIN Put(cache[u], i, balance'[i]) = DOMAIN cache[u] \cup {i}
  BY <1>1, <1>3, <1>4, InvType, LoadOK, PutOK DEF Fits
<1>7. /\ DOMAIN cache' = Users /\ \A v \in Users \ {u} : cache'[v] = cache[v]
      /\ CacheOK(cache'[u]) /\ DOMAIN cache[u] \subseteq DOMAIN cache'[u]
  BY <1>5, <1>6, InvType
<1>8. \A v \in Users : stale[v] \subseteq DOMAIN cache'[v]  BY <1>7, InvType
<1>9. DOMAIN stale' = Users /\ \A v \in Users : stale'[v] \subseteq DOMAIN cache'[v]
  BY <1>5, <1>8, MovedOnIs
<1>10. /\ UNCHANGED <<files, keys, wallet, kept, form, keyings>>
       /\ failures' = failures + 1 /\ failures < MaxFailures
  BY DEF SubmitUnanswered
<1>11. failures' \in 0 .. MaxFailures  BY <1>10, InvType, WalletAssumption
<1>12. Fits(u, wallet'[u], kept'[u], cache'[u], form'[u])
  BY <1>1, <1>7, <1>10 DEF Fits
<1>. QED  BY <1>3, <1>7, <1>9, <1>10, <1>11, <1>12, InvType, UserStep

LEMMA SubmitRefusedKeeps ==
  ASSUME WalletInv, NEW u \in Users, NEW count \in 1 .. IntMax, NEW to \in Names,
         SubmitRefused(u, count, to)
  PROVE  WalletInv'
<1>1. Fits(u, wallet[u], kept[u], cache[u], form[u])  BY InvFits
<1>2. PICK issuers : /\ issuers = {} \/ issuers = {TargetIssuer(u)} \ {NoIssuer}
                     /\ cache' = [cache EXCEPT ![u] = Load(cache[u], issuers)]
  BY InvType DEF SubmitRefused
<1>. DEFINE read == Load(cache[u], issuers)
<1>3. CacheOK(read) /\ DOMAIN read = DOMAIN cache[u] \cup issuers
  <2>1. TargetIssuer(u) \in Issuers \cup {NoIssuer}  BY SubmittedIs DEF SubmitRefused
  <2>2. issuers \in SUBSET Issuers /\ CacheOK(cache[u]) /\ IssuerTypeOK
    BY <1>1, <1>2, <2>1, InvType DEF Fits
  <2>. QED  BY <2>2, LoadOK
<1>4. cache' = [cache EXCEPT ![u] = read]  BY <1>2
<1>. HIDE DEF read
<1>5. UNCHANGED <<issuerVars, files, keys, wallet, kept, stale, form, keyings, failures>>
  BY InvType DEF SubmitRefused
<1>6. /\ DOMAIN cache' = Users /\ cache'[u] = read
      /\ \A v \in Users \ {u} : cache'[v] = cache[v]
  BY <1>4, InvType
<1>7. Fits(u, wallet'[u], kept'[u], cache'[u], form'[u])
  BY <1>1, <1>3, <1>5, <1>6 DEF Fits
<1>8. IssuerTypeOK'  BY <1>5, LedgersStay, InvType
<1>9. \A v \in Users : stale'[v] \subseteq DOMAIN cache'[v]
  BY <1>3, <1>5, <1>6, InvType
<1>. QED  BY <1>5, <1>6, <1>7, <1>8, <1>9, InvType, UserStep

LEMMA IssueAssetsKeeps ==
  ASSUME WalletInv, NEW i \in Issuers, NEW to \in Names, NEW count \in 1 .. IntMax,
         IssueAssets(i, to, count)
  PROVE  WalletInv'
<1>1. Creator[i] \in Users /\ "public" \in Kinds  BY WalletAssumption DEF Kinds
<1>2. FindFile(Creator[i], "public", to) \in Parties
  BY <1>1, InvType, KeyMapFinds DEF IssueAssets
<1>3. count \in 0 .. IntMax /\ Issue(i, FindFile(Creator[i], "public", to), count)
  BY DEF IssueAssets
<1>4. IssuerTypeOK'  BY <1>2, <1>3, InvType, IssueType
<1>5. UNCHANGED <<files, keys, wallet, kept, cache, form, keyings, failures>> /\ MovedOn(i, Users)
  BY DEF IssueAssets
<1>6. \A v \in Users : stale[v] \subseteq DOMAIN cache'[v]  BY <1>5, InvType
<1>7. DOMAIN stale' = Users /\ \A v \in Users : stale'[v] \subseteq DOMAIN cache'[v]
  BY <1>5, <1>6, MovedOnIs
<1>. QED  BY <1>4, <1>5, <1>7, InvType, NoWalletStep

-----------------------------------------------------------------------------
(* Imports and restarts. *)

LEMMA ImportIssuerKeeps ==
  ASSUME WalletInv, NEW u \in Users, NEW h \in Handles, NEW i \in Issuers,
         NEW name \in Identities, ImportIssuer(u, h, i, name)
  PROVE  WalletInv'
<1>. DEFINE w == wallet[u]
            r == Remember(w, h, i, name)
<1>1. Fits(u, w, kept[u], cache[u], form[u])  BY InvFits
<1>2. CanSign(u, name) \/ (name = Unspecified /\ BeganKeyless(u))
  BY <1>1 DEF ImportIssuer, Fits, Offers
<1>3. /\ WalletOK(r) /\ Listed(r) = Listed(w) \cup {h} /\ Len(r.list) = Len(w.list) + 1
      /\ \A g \in Listed(r) :
           r.at[g] = IF g = h THEN [issuer |-> i, identity |-> name] ELSE w.at[g]
  <2>. HIDE DEF w
  <2>1. WalletOK(w)  BY <1>1 DEF Fits, Usable
  <2>. QED  BY <2>1, RememberIs
<1>4. wallet' = [wallet EXCEPT ![u] = r]  BY DEF ImportIssuer
<1>. HIDE DEF r
<1>5. DOMAIN wallet' = Users /\ wallet'[u] = r /\ \A v \in Users \ {u} : wallet'[v] = wallet[v]
  BY <1>4, InvType
<1>6. /\ DOMAIN kept' = Users /\ \A v \in Users \ {u} : kept'[v] = kept[v]
      /\ kept'[u] = r \/ kept'[u] = kept[u]
  BY <1>5, InvType DEF ImportIssuer, SaveContextFile
<1>7. failures' \in 0 .. MaxFailures
  BY InvType, WalletAssumption DEF ImportIssuer
<1>8. Usable(r, u)
  <2>. HIDE DEF w
  <2>1. ASSUME NEW g \in Listed(r) PROVE Sound(u, r, g)
    <3>1. CASE g = h
      <4>1. r.at[g].issuer = i /\ r.at[g].identity = name /\ i # NoIssuer
        BY <1>3, <3>1, WalletAssumption
      <4>. QED  BY <1>2, <4>1 DEF Sound, Fails, GetAssetType, GetAssetOwner
    <3>2. CASE g # h
      <4>1. g \in Listed(w) /\ r.at[g] = w.at[g]  BY <1>3, <3>2
      <4>2. Sound(u, w, g)  BY <1>1, <4>1 DEF Fits, Usable
      <4>. QED  BY <4>1, <4>2 DEF Sound, Fails, GetAssetType, GetAssetOwner
    <3>. QED  BY <3>1, <3>2
  <2>. QED  BY <1>3, <2>1 DEF Usable
<1>9. Offers(form[u], u, r)
  <2>1. Len(w.list) \in Nat /\ Len(form[u].sources) \in Nat
    <3>1. w.list \in Seq(Handles)  BY <1>1 DEF Fits, Usable, WalletOK
    <3>2. form[u] \in Form  BY InvType
    <3>3. form[u].sources \in Seq(Handles)  BY <3>2 DEF Form
    <3>. QED  BY <3>1, <3>3
  <2>2. Len(form[u].sources) <= Len(w.list)  BY <1>1 DEF Fits, Offers
  <2>3. Len(form[u].sources) < Len(r.list)  BY <1>3, <2>1, <2>2
  <2>4. r.list # form[u].sources  BY <2>1, <2>3
  <2>. QED  BY <1>1, <1>3, <2>1, <2>3, <2>4 DEF Fits, Offers
<1>10. UNCHANGED <<issuerVars, files, keys, cache, stale, form, keyings>>
  BY DEF ImportIssuer
<1>11. Fits(u, wallet'[u], kept'[u], cache'[u], form'[u])
  BY <1>1, <1>3, <1>5, <1>6, <1>8, <1>9, <1>10 DEF Fits
<1>12. IssuerTypeOK'  BY <1>10, LedgersStay, InvType
<1>. QED  BY <1>5, <1>6, <1>7, <1>10, <1>11, <1>12, InvType, UserStep

LEMMA PersonalizeIs ==
  ASSUME NEW w, WalletOK(w)
  PROVE  LET r == Personalize(w) IN
         /\ WalletOK(r) /\ r.list = w.list /\ Listed(r) = Listed(w)
         /\ \A h \in Listed(w) : r.at[h] = IF h = OwnHandle THEN Overwritten ELSE w.at[h]
<1>. DEFINE r == Personalize(w)
<1>1. w.list \in Seq(Handles) /\ w.at \in [Listed(w) -> Target]  BY DEF WalletOK
<1>2. /\ r.list = w.list
      /\ r.at = [h \in Listed(w) |-> IF h = OwnHandle THEN Overwritten ELSE w.at[h]]
  BY <1>1 DEF Personalize
<1>. HIDE DEF r
<1>3. Overwritten \in Target  BY DEF Overwritten, Target
<1>4. r.at \in [Listed(w) -> Target]  BY <1>1, <1>2, <1>3
<1>5. Listed(r) = Listed(w)  BY <1>2 DEF Listed
<1>. QED  BY <1>1, <1>2, <1>4, <1>5 DEF WalletOK, r

LEMMA OpenWithKeeps ==
  ASSUME WalletInv, NEW u \in Users, NEW w, Usable(w, u), OpenWith(u, w),
         failures' \in 0 .. MaxFailures
  PROVE  WalletInv'
<1>. DEFINE r == Personalize(w)
<1>1. /\ WalletOK(r) /\ r.list = w.list /\ Listed(r) = Listed(w)
      /\ \A h \in Listed(w) : r.at[h] = IF h = OwnHandle THEN Overwritten ELSE w.at[h]
  BY PersonalizeIs DEF Usable
<1>2. /\ wallet' = [wallet EXCEPT ![u] = r] /\ kept' = [kept EXCEPT ![u] = wallet'[u]]
      /\ stale' = [stale EXCEPT ![u] = {}]
      /\ UNCHANGED <<issuerVars, files, keys, keyings>>
  BY DEF OpenWith, SaveContextFile
<1>. HIDE DEF r
<1>3. /\ DOMAIN wallet' = Users /\ wallet'[u] = r /\ \A v \in Users \ {u} : wallet'[v] = wallet[v]
      /\ DOMAIN kept' = Users /\ kept'[u] = r /\ \A v \in Users \ {u} : kept'[v] = kept[v]
      /\ DOMAIN stale' = Users /\ stale'[u] = {} /\ \A v \in Users \ {u} : stale'[v] = stale[v]
  BY <1>2, InvType
<1>4. Usable(r, u)
  <2>1. ASSUME NEW h \in Listed(r) PROVE Sound(u, r, h)
    <3>1. CASE h = OwnHandle  BY <1>1, <3>1 DEF Sound
    <3>2. CASE h # OwnHandle
      <4>1. h \in Listed(w) /\ r.at[h] = w.at[h]  BY <1>1, <3>2
      <4>2. Sound(u, w, h)  BY <4>1 DEF Usable
      <4>. QED  BY <3>2, <4>1, <4>2 DEF Sound, Fails, GetAssetType, GetAssetOwner
    <3>. QED  BY <3>1, <3>2
  <2>. QED  BY <1>1, <2>1 DEF Usable
<1>5. NoForm(u) \in Form /\ FormChoices(NoForm(u), u) /\ Offers(NoForm(u), u, r)
  BY <1>1, NoFormIs, InvType
<1>6. PICK n \in 0 .. Len(w.list) :
        \/ \E s \in ResetWidget(NoForm(u), u, r, TableRead(r, n)) :
             /\ cache' = [cache EXCEPT ![u] = s.read]
             /\ form' = [form EXCEPT ![u] = IF s.done THEN s.form ELSE NoForm(u)]
        \/ /\ cache' = [cache EXCEPT ![u] = TableRead(r, n)]
           /\ form' = [form EXCEPT ![u] = NoForm(u)]
  BY <1>3 DEF OpenWith
<1>. DEFINE read == TableRead(r, n)
<1>7. CacheOK(read)  BY <1>1, TableReadOK, InvType
<1>. HIDE DEF read
<1>8. \E c : \E f \in Form :
        /\ cache' = [cache EXCEPT ![u] = c] /\ form' = [form EXCEPT ![u] = f]
        /\ CacheOK(c) /\ Offers(f, u, r)
  <2>1. CASE \E s \in ResetWidget(NoForm(u), u, r, read) :
               /\ cache' = [cache EXCEPT ![u] = s.read]
               /\ form' = [form EXCEPT ![u] = IF s.done THEN s.form ELSE NoForm(u)]
    <3>1. PICK s \in ResetWidget(NoForm(u), u, r, read) :
               /\ cache' = [cache EXCEPT ![u] = s.read]
               /\ form' = [form EXCEPT ![u] = IF s.done THEN s.form ELSE NoForm(u)]
      BY <2>1
    <3>2. s.form \in Form /\ Offers(s.form, u, r) /\ CacheOK(s.read)
      BY <1>1, <1>5, <1>7, ResetIs, InvType
    <3>3. CASE s.done  BY <3>1, <3>2, <3>3
    <3>4. CASE ~ s.done  BY <1>5, <3>1, <3>2, <3>4
    <3>. QED  BY <3>3, <3>4
  <2>2. CASE cache' = [cache EXCEPT ![u] = read] /\ form' = [form EXCEPT ![u] = NoForm(u)]
    BY <1>5, <1>7, <2>2
  <2>. QED  BY <1>6, <2>1, <2>2 DEF read
<1>9. /\ DOMAIN cache' = Users /\ form' \in [Users -> Form]
      /\ \A v \in Users \ {u} : cache'[v] = cache[v] /\ form'[v] = form[v]
      /\ CacheOK(cache'[u]) /\ Offers(form'[u], u, r)
  <2>1. PICK c : \E f \in Form :
               /\ cache' = [cache EXCEPT ![u] = c] /\ form' = [form EXCEPT ![u] = f]
               /\ CacheOK(c) /\ Offers(f, u, r)
    BY <1>8
  <2>2. PICK f \in Form :
               /\ cache' = [cache EXCEPT ![u] = c] /\ form' = [form EXCEPT ![u] = f]
               /\ CacheOK(c) /\ Offers(f, u, r)
    BY <2>1
  <2>3. DOMAIN cache = Users /\ form \in [Users -> Form]  BY InvType
  <2>4. cache'[u] = c /\ form'[u] = f  BY <2>2, <2>3
  <2>. QED  BY <2>2, <2>3, <2>4
<1>10. Fits(u, wallet'[u], kept'[u], cache'[u], form'[u])  BY <1>3, <1>4, <1>9 DEF Fits
<1>11. IssuerTypeOK'  BY <1>2, LedgersStay, InvType
<1>12. \A v \in Users : stale'[v] \subseteq DOMAIN cache'[v]  BY <1>3, <1>9, InvType
<1>. QED  BY <1>2, <1>3, <1>9, <1>10, <1>11, <1>12, InvType, UserStep

LEMMA OpenKeeps ==
  ASSUME WalletInv, NEW u \in Users, Open(u)
  PROVE  WalletInv'
<1>1. Usable(kept[u], u)  BY InvFits DEF Fits
<1>2. OpenWith(u, kept[u]) /\ failures' \in 0 .. MaxFailures  BY InvType DEF Open
<1>. QED  BY <1>1, <1>2, OpenWithKeeps

LEMMA OpenUnreadKeeps ==
  ASSUME WalletInv, NEW u \in Users, OpenUnread(u)
  PROVE  WalletInv'
<1>1. Usable(NewWallet, u)  BY NewWalletOK DEF Usable
<1>2. OpenWith(u, NewWallet) /\ failures' \in 0 .. MaxFailures
  BY InvType, WalletAssumption DEF OpenUnread
<1>. QED  BY <1>1, <1>2, OpenWithKeeps

-----------------------------------------------------------------------------
(* The invariant and the properties. *)

LEMMA WalletInitInv == WalletInit => WalletInv
<1>. SUFFICES ASSUME WalletInit PROVE WalletInv
  OBVIOUS
<1>. IssuerTypeOK  BY DEF WalletInit
<1>1. /\ files \in [Users -> [Kinds -> [Directories -> KeyFiles]]]
      /\ keys \in [Users -> SUBSET Parties] /\ KeysInv
      /\ keyings \in 0 .. MaxKeyings /\ failures \in 0 .. MaxFailures
      /\ {DOMAIN wallet, DOMAIN kept, DOMAIN cache, DOMAIN stale} = {Users}
  BY WalletAssumption DEF WalletInit, KeysInv
<1>2. \A u \in Users : /\ wallet[u] = NewWallet /\ kept[u] = NewWallet
                       /\ cache[u] = <<>> /\ stale[u] = {}
  BY DEF WalletInit
<1>3. ASSUME NEW u \in Users, NEW kind \in Kinds
      PROVE  DOMAIN KeyMap(u, kind) \in SUBSET Names
  <2>1. ASSUME NEW dir \in Directories PROVE DOMAIN files[u][kind][dir] \subseteq Names
    <3>1. files[u][kind][dir] \in KeyFiles  BY <1>1
    <3>. QED  BY <3>1, KeyFileFacts
  <2>. QED  BY <2>1, KeyMapDomain DEF Directories
<1>4. ASSUME NEW u \in Users
      PROVE  /\ ReadIdentities(u) \in SUBSET Identities
             /\ \A name \in ReadIdentities(u) :
                  CanSign(u, name) \/ (name = Unspecified /\ BeganKeyless(u))
  <2>1. CASE DOMAIN KeyMap(u, "private") # {}
    <3>1. ReadIdentities(u) = DOMAIN KeyMap(u, "private")  BY <2>1 DEF ReadIdentities
    <3>. QED  BY <1>3, <3>1 DEF Identities, CanSign, Kinds
  <2>2. CASE DOMAIN KeyMap(u, "private") = {}
    <3>1. ReadIdentities(u) = {Unspecified}  BY <2>2 DEF ReadIdentities
    <3>2. ASSUME NEW dir \in Directories PROVE DOMAIN files[u]["private"][dir] = {}
      BY <2>2, KeyMapDomain DEF Directories
    <3>3. BeganKeyless(u)  BY <1>1, <3>2 DEF BeganKeyless, KeysInv
    <3>. QED  BY <3>1, <3>3 DEF Identities
  <2>. QED  BY <2>1, <2>2
<1>. DEFINE names(u) == DOMAIN KeyMap(u, "public")
            first(u) == [NoForm(u) EXCEPT !.names = names(u)]
<1>5. ASSUME NEW u \in Users PROVE first(u) \in Form /\ Offers(first(u), u, NewWallet)
  <2>1. names(u) \in SUBSET Names  BY <1>3 DEF Kinds
  <2>2. 0 \in Counts  BY IssuerAssumption DEF Counts
  <2>. DEFINE f == first(u)
  <2>3. /\ f \in Form /\ f.source = NoHandle /\ f.sources = <<>>
        /\ f.names = names(u) /\ f.identities = ReadIdentities(u)
    <3>. DEFINE g == NoForm(u)
    <3>1. /\ g \in Form /\ g.source = NoHandle /\ g.sources = <<>>
          /\ g.identities = ReadIdentities(u)
      BY <1>4, <2>2 DEF Form, NoForm
    <3>. HIDE DEF g, names
    <3>2. f = [g EXCEPT !.names = names(u)]  BY DEF g
    <3>. HIDE DEF f
    <3>. QED  BY <2>1, <3>1, <3>2 DEF Form
  <2>. HIDE DEF f
  <2>4. Range(f.sources) = {} /\ Len(f.sources) = 0  BY <2>3 DEF Range
  <2>5. Len(NewWallet.list) = 0  BY DEF NewWallet
  <2>6. Offers(f, u, NewWallet)  BY <1>4, <2>3, <2>4, <2>5 DEF Offers
  <2>. QED  BY <2>3, <2>6 DEF f
<1>6. form = [u \in Users |-> first(u)]  BY DEF WalletInit
<1>. HIDE DEF first
<1>7. form \in [Users -> Form] /\ \A u \in Users : form[u] = first(u)  BY <1>5, <1>6
<1>8. FormInv /\ FileInv /\ ListedUsable
  BY <1>2, <1>5, <1>7, NewWalletOK DEF FormInv, FileInv, ListedUsable
<1>9. WalletTypeOK
  <2>1. \A u \in Users : WalletOK(wallet[u]) /\ WalletOK(kept[u]) /\ CacheOK(cache[u])
                         /\ stale[u] \subseteq DOMAIN cache[u]
    BY <1>2, NewWalletOK, EmptyCache
  <2>. QED  BY <1>1, <1>7, <2>1 DEF WalletTypeOK
<1>. QED  BY <1>1, <1>8, <1>9 DEF WalletInv

LEMMA WalletNextInv == WalletInv /\ [WalletNext]_vars => WalletInv'
<1>. SUFFICES ASSUME WalletInv, [WalletNext]_vars PROVE WalletInv'
  OBVIOUS
<1>1. ASSUME NEW u \in Users, Widgets(u) PROVE WalletInv'
  <2>0. Typed[u].names \subseteq Names /\ Typed[u].handles \subseteq Handles
    BY WalletAssumption
  <2>1. CASE \E name \in Typed[u].names : GenerateKeyPair(u, name)
    BY <2>0, <2>1, GenerateKeyPairKeeps
  <2>2. CASE \E name \in Typed[u].names, kind \in Kinds, k \in Parties : UploadKey(u, name, kind, k)
    BY <2>0, <2>2, UploadKeyKeeps
  <2>3. CASE RefreshBalances(u)  BY <2>3, RefreshBalancesKeeps
  <2>4. CASE RefreshTransfer(u)  BY <2>4, RefreshTransferKeeps
  <2>5. CASE RefreshImport(u)  BY <2>5, RefreshImportKeeps
  <2>6. CASE \E h \in Handles : SelectSource(u, h)  BY <2>6, SelectSourceKeeps
  <2>7. ASSUME NEW count \in 1 .. IntMax, NEW to \in Names,
               Submit(u, count, to) \/ SubmitUnanswered(u, count, to) \/ SubmitRefused(u, count, to)
        PROVE  WalletInv'
    BY <2>7, SubmitKeeps, SubmitUnansweredKeeps, SubmitRefusedKeeps
  <2>8. CASE \E h \in Typed[u].handles, i \in Issuers, name \in Identities :
               ImportIssuer(u, h, i, name)
    BY <2>0, <2>8, ImportIssuerKeeps
  <2>. QED  BY <1>1, <2>1, <2>2, <2>3, <2>4, <2>5, <2>6, <2>7, <2>8 DEF Widgets
<1>2. ASSUME NEW u \in Users, Open(u) \/ OpenUnread(u) PROVE WalletInv'
  BY <1>2, OpenKeeps, OpenUnreadKeeps
<1>3. ASSUME NEW i \in Issuers, NEW to \in Names, NEW count \in 1 .. IntMax,
             IssueAssets(i, to, count)
      PROVE  WalletInv'
  BY <1>3, IssueAssetsKeeps
<1>4. CASE UNCHANGED vars
  <2>1. UNCHANGED issuerVars /\ UNCHANGED walletVars  BY <1>4 DEF vars
  <2>2. UNCHANGED <<files, keys, wallet, kept, form, cache, failures, keyings, stale>>
    BY <2>1 DEF walletVars
  <2>3. IssuerTypeOK'  BY <2>1, InvType, LedgersStay
  <2>4. DOMAIN stale' = Users /\ \A v \in Users : stale'[v] \subseteq DOMAIN cache'[v]
    BY <2>2, InvType
  <2>. QED  BY <2>2, <2>3, <2>4, InvType, NoWalletStep
<1>. QED  BY <1>1, <1>2, <1>3, <1>4 DEF WalletNext

\* Wallets, their files, caches and forms fit each other, for any key files, issuers
\* and number of users, and over any number of imports, restarts and failures.
THEOREM WalletInvariant == WalletSpec => []WalletInv
BY WalletInitInv, WalletNextInv, PTL DEF WalletSpec

\* Every handle a wallet lists, in memory and in its file, has an issuer and an owner the
\* user can sign as, except what a user without any private key imported, and a handle
\* with the name under which the wallet keeps its owner's identity.
THEOREM HandlesUsable == WalletSpec => []ListedUsable
<1>1. WalletInv => ListedUsable  BY DEF WalletInv
<1>. QED  BY <1>1, WalletInvariant, PTL

LEMMA StepKeepsImports ==
  ASSUME WalletInv, [WalletNext]_vars, failures' = failures, NEW u \in Users
  PROVE  Listed(kept[u]) \subseteq Listed(kept'[u]) /\ Listed(kept[u]) \subseteq Listed(wallet'[u])
<1>1. Fits(u, wallet[u], kept[u], cache[u], form[u])  BY InvFits
<1>2. Listed(kept[u]) \subseteq Listed(wallet[u])  BY <1>1 DEF Fits
<1>3. failures + 1 # failures  BY InvType
<1>4. CASE UNCHANGED <<wallet, kept>>  BY <1>2, <1>4
<1>5. ASSUME NEW v \in Users, NEW h \in Handles, NEW i \in Issuers, NEW name \in Identities,
             ImportIssuer(v, h, i, name)
      PROVE  Listed(kept[u]) \subseteq Listed(kept'[u]) /\ Listed(kept[u]) \subseteq Listed(wallet'[u])
  <2>. DEFINE r == Remember(wallet[v], h, i, name)
  <2>1. WalletOK(wallet[v])  BY InvFits DEF Fits, Usable
  <2>. DEFINE w == wallet[v]
  <2>2. Listed(r) = Listed(w) \cup {h}
    <3>. HIDE DEF w
    <3>1. WalletOK(w)  BY <2>1 DEF w
    <3>2. Listed(Remember(w, h, i, name)) = Listed(w) \cup {h}  BY <3>1, RememberIs
    <3>. QED  BY <3>2 DEF w
  <2>3. wallet' = [wallet EXCEPT ![v] = r]  BY <1>5 DEF ImportIssuer
  <2>. HIDE DEF r
  <2>4. kept' = kept \/ kept' = [kept EXCEPT ![v] = wallet'[v]]
    BY <1>5 DEF ImportIssuer, SaveContextFile
  <2>5. Listed(wallet[u]) \subseteq Listed(wallet'[u])  BY <2>2, <2>3, InvType
  <2>6. kept'[u] = kept[u] \/ kept'[u] = wallet'[u]  BY <2>4, InvType
  <2>. QED  BY <1>2, <2>5, <2>6
<1>6. ASSUME NEW v \in Users, Open(v)
      PROVE  Listed(kept[u]) \subseteq Listed(kept'[u]) /\ Listed(kept[u]) \subseteq Listed(wallet'[u])
  <2>. DEFINE r == Personalize(kept[v])
  <2>1. wallet' = [wallet EXCEPT ![v] = r] /\ kept' = [kept EXCEPT ![v] = wallet'[v]]
    BY <1>6 DEF Open, OpenWith, SaveContextFile
  <2>2. WalletOK(kept[v])  BY InvFits DEF Fits, Usable
  <2>3. Listed(r) = Listed(kept[v])  BY <2>2, PersonalizeIs
  <2>. HIDE DEF r
  <2>. QED  BY <1>2, <2>1, <2>3, InvType
<1>7. ASSUME NEW v \in Users, OpenUnread(v) PROVE FALSE
  BY <1>3, <1>7 DEF OpenUnread
<1>8. ASSUME NEW v \in Users, Widgets(v),
             ~ \E h \in Typed[v].handles, i \in Issuers, name \in Identities :
                 ImportIssuer(v, h, i, name)
      PROVE  UNCHANGED <<wallet, kept>>
  BY <1>8 DEF Widgets, GenerateKeyPair, UploadKey, RefreshBalances, RefreshTransfer, RefreshImport,
              SelectSource, Submit, SubmitUnanswered, SubmitRefused
<1>9. ASSUME NEW i \in Issuers, NEW to \in Names, NEW count \in 1 .. IntMax, IssueAssets(i, to, count)
      PROVE  UNCHANGED <<wallet, kept>>
  BY <1>9 DEF IssueAssets
<1>10. CASE UNCHANGED vars  BY <1>4, <1>10 DEF vars, walletVars
<1>11. \A v \in Users : Typed[v].handles \subseteq Handles  BY WalletAssumption
<1>. QED  BY <1>4, <1>5, <1>6, <1>7, <1>8, <1>9, <1>10, <1>11 DEF WalletNext

\* While nothing fails no wallet loses an asset it has imported, in memory or in its
\* file, whatever its other handlers do.
THEOREM ImportsStay == WalletSpec => ImportsKept
<1>1. WalletInv /\ [WalletNext]_vars =>
        [failures' = failures =>
           \A u \in Users : /\ Listed(kept[u]) \subseteq Listed(kept'[u])
                            /\ Listed(kept[u]) \subseteq Listed(wallet'[u])]_vars
  BY StepKeepsImports
<1>. QED  BY <1>1, WalletInvariant, PTL DEF WalletSpec, ImportsKept

\* Where assets can change hands: a submitted form, answered or not.
LEMMA MovesBySubmit ==
  ASSUME WalletInv, [WalletNext]_vars, NEW i \in Issuers, Moves(i)
  PROVE  \E u \in Users, count \in 1 .. IntMax, to \in Names :
           /\ Submitted(u, count, to) /\ Signed(u) /\ i = TargetIssuer(u)
           /\ Transfer(i, Payer(u), FindFile(u, "public", to), count)
<1>1. ~ UNCHANGED issuerVars  BY DEF Moves, issuerVars, ledgerVars
<1>2. balance \in [Issuers -> [Parties -> Counts]] /\ supply \in [Issuers -> Nat]
  BY InvType DEF IssuerTypeOK
<1>3. ASSUME NEW u \in Users, NEW count \in 1 .. IntMax, NEW to \in Names,
             Submitted(u, count, to), Signed(u),
             Transfer(TargetIssuer(u), Payer(u), FindFile(u, "public", to), count)
      PROVE  i = TargetIssuer(u)
  <2>. DEFINE j == TargetIssuer(u)
              p == Payer(u)
              q == FindFile(u, "public", to)
  <2>1. j \in Issuers  BY <1>3, SubmittedIs
  <2>2. balance' = [balance EXCEPT ![j][p] = @ - count, ![j][q] = Plus(@, count)]
    BY <1>3 DEF Transfer
  <2>. HIDE DEF j, p, q
  <2>3. i # j => balance'[i] = balance[i]  BY <1>2, <2>1, <2>2
  <2>. QED  BY <2>3 DEF Moves, j
<1>4. ASSUME NEW u \in Users, NEW count \in 1 .. IntMax, NEW to \in Names,
             Submit(u, count, to) \/ SubmitUnanswered(u, count, to)
      PROVE  /\ Submitted(u, count, to) /\ Signed(u) /\ i = TargetIssuer(u)
             /\ Transfer(i, Payer(u), FindFile(u, "public", to), count)
  <2>1. /\ Submitted(u, count, to) /\ Signed(u)
        /\ Transfer(TargetIssuer(u), Payer(u), FindFile(u, "public", to), count)
    BY <1>1, <1>4 DEF Submit, SubmitUnanswered, TransferAssets
  <2>. QED  BY <1>3, <2>1
<1>5. ASSUME NEW j \in Issuers, NEW to \in Names, NEW count \in 1 .. IntMax,
             IssueAssets(j, to, count)
      PROVE  FALSE
  <2>. DEFINE p == FindFile(Creator[j], "public", to)
  <2>1. /\ supply' = [supply EXCEPT ![j] = @ + count]
        /\ balance' = [balance EXCEPT ![j][p] = count]
    BY <1>5 DEF IssueAssets, Issue
  <2>2. i = j => supply'[i] = supply[i] + count  BY <1>2, <2>1
  <2>3. i # j => balance'[i] = balance[i]  BY <1>2, <2>1
  <2>4. supply[i] \in Nat  BY <1>2
  <2>5. supply[i] + count # supply[i]  BY <2>4
  <2>. QED  BY <2>2, <2>3, <2>5 DEF Moves
<1>6. ASSUME NEW u \in Users, Open(u) \/ OpenUnread(u) PROVE UNCHANGED issuerVars
  BY <1>6 DEF Open, OpenUnread, OpenWith
<1>7. ASSUME NEW u \in Users, Widgets(u),
             ~ \E count \in 1 .. IntMax, to \in Names :
                 Submit(u, count, to) \/ SubmitUnanswered(u, count, to)
      PROVE  UNCHANGED issuerVars
  BY <1>7 DEF Widgets, GenerateKeyPair, UploadKey, RefreshBalances, RefreshTransfer, RefreshImport,
              SelectSource, SubmitRefused, ImportIssuer
<1>8. CASE UNCHANGED vars  BY <1>1, <1>8 DEF vars
<1>. QED  BY <1>1, <1>4, <1>5, <1>6, <1>7, <1>8 DEF WalletNext

LEMMA StepPays ==
  ASSUME WalletInv, [WalletNext]_vars, NEW i \in Issuers, Moves(i)
  PROVE  \E u \in {v \in Users : form[v].source # NoHandle /\ CanSign(v, form[v].owner)} :
           \E to \in form[u].names, count \in 1 .. form[u].max :
             LET k == KeyMap(u, "private")[form[u].owner] IN
             /\ k \in keys[u]
             /\ balance'[i] = [balance[i] EXCEPT
                  ![k] = @ - count, ![KeyMap(u, "public")[to]] = Plus(@, count)]
             /\ balance'[i][k] < balance[i][k]
             /\ k = Payer(u) /\ Signed(u)
             /\ i = form[u].issuer \/ wallet[u].list # form[u].sources
<1>1. PICK u \in Users, count \in 1 .. IntMax, to \in Names :
        /\ Submitted(u, count, to) /\ Signed(u) /\ i = TargetIssuer(u)
        /\ Transfer(i, Payer(u), FindFile(u, "public", to), count)
  BY MovesBySubmit
<1>. DEFINE k == KeyMap(u, "private")[form[u].owner]
            q == KeyMap(u, "public")[to]
<1>2. /\ k = Payer(u) /\ k \in Parties /\ k \in keys[u]
      /\ q = FindFile(u, "public", to) /\ q \in Parties
      /\ i = form[u].issuer \/ wallet[u].list # form[u].sources
  BY <1>1, SubmittedIs DEF Signed
<1>3. /\ form[u].source # NoHandle /\ CanSign(u, form[u].owner)
      /\ to \in form[u].names /\ count \in 1 .. form[u].max
  BY <1>1 DEF Submitted, Signed
<1>4. balance \in [Issuers -> [Parties -> Counts]]  BY InvType DEF IssuerTypeOK
<1>. HIDE DEF k, q
<1>5. balance' = [balance EXCEPT ![i][k] = @ - count, ![i][q] = Plus(@, count)] /\ k # q
  BY <1>1, <1>2 DEF Transfer
<1>6. balance'[i] = [balance[i] EXCEPT ![k] = @ - count, ![q] = Plus(@, count)]
  BY <1>4, <1>5
<1>7. balance[i][k] \in Nat  BY <1>2, <1>4 DEF Counts
<1>8. balance'[i][k] < balance[i][k]
  <2>1. balance'[i][k] = balance[i][k] - count  BY <1>2, <1>4, <1>5
  <2>. QED  BY <1>7, <2>1
<1>. QED  BY <1>1, <1>2, <1>3, <1>6, <1>8 DEF k, q

\* Every payment comes out of the account of a user with its private key, within what
\* its form offers, and goes to the key that the key list shows under the chosen name,
\* for any key files, shadowing and failures.
THEOREM PaymentsAreListed == WalletSpec => PaidToListed
<1>1. WalletInv /\ [WalletNext]_vars =>
        [\A i \in Issuers : Moves(i) =>
           \E u \in {v \in Users : form[v].source # NoHandle /\ CanSign(v, form[v].owner)} :
             \E to \in form[u].names, count \in 1 .. form[u].max :
               LET k == KeyMap(u, "private")[form[u].owner] IN
               /\ k \in keys[u]
               /\ balance'[i] = [balance[i] EXCEPT
                    ![k] = @ - count, ![KeyMap(u, "public")[to]] = Plus(@, count)]]_vars
  <2>. SUFFICES ASSUME WalletInv, [WalletNext]_vars, NEW i \in Issuers, Moves(i)
                PROVE  \E u \in {v \in Users : form[v].source # NoHandle /\ CanSign(v, form[v].owner)} :
                         \E to \in form[u].names, count \in 1 .. form[u].max :
                           LET k == KeyMap(u, "private")[form[u].owner] IN
                           /\ k \in keys[u]
                           /\ balance'[i] = [balance[i] EXCEPT
                                ![k] = @ - count, ![KeyMap(u, "public")[to]] = Plus(@, count)]
    OBVIOUS
  <2>1. PICK u \in {v \in Users : form[v].source # NoHandle /\ CanSign(v, form[v].owner)} :
               \E to \in form[u].names, count \in 1 .. form[u].max :
                 LET k == KeyMap(u, "private")[form[u].owner] IN
                 /\ k \in keys[u]
                 /\ balance'[i] = [balance[i] EXCEPT
                      ![k] = @ - count, ![KeyMap(u, "public")[to]] = Plus(@, count)]
                 /\ balance'[i][k] < balance[i][k]
                 /\ k = Payer(u) /\ Signed(u)
                 /\ i = form[u].issuer \/ wallet[u].list # form[u].sources
    BY StepPays
  <2>. DEFINE k == KeyMap(u, "private")[form[u].owner]
  <2>2. PICK to \in form[u].names, count \in 1 .. form[u].max :
          /\ k \in keys[u]
          /\ balance'[i] = [balance[i] EXCEPT
               ![k] = @ - count, ![KeyMap(u, "public")[to]] = Plus(@, count)]
    BY <2>1
  <2>. QED  BY <2>2
<1>. QED  BY <1>1, WalletInvariant, PTL DEF WalletSpec, PaidToListed

\* What a payment moves is what the form shows, unless the wallet has imported an asset
\* that the form has not read yet.
THEOREM PaymentsAreShown == WalletSpec => PaidAsShown
<1>1. WalletInv /\ [WalletNext]_vars =>
        [\A i \in Issuers : Moves(i) =>
           \E u \in Users :
             /\ form[u].source # NoHandle /\ Signed(u)
             /\ balance'[i][Payer(u)] < balance[i][Payer(u)]
             /\ i = form[u].issuer \/ wallet[u].list # form[u].sources]_vars
  <2>. SUFFICES ASSUME WalletInv, [WalletNext]_vars, NEW i \in Issuers, Moves(i)
                PROVE  \E u \in Users :
                         /\ form[u].source # NoHandle /\ Signed(u)
                         /\ balance'[i][Payer(u)] < balance[i][Payer(u)]
                         /\ i = form[u].issuer \/ wallet[u].list # form[u].sources
    OBVIOUS
  <2>. QED  BY StepPays
<1>. QED  BY <1>1, WalletInvariant, PTL DEF WalletSpec, PaidAsShown
=============================================================================
