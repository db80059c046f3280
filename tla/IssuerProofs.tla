---------------------------- MODULE IssuerProofs ----------------------------
(***************************************************************************)
(* Proofs about the issuers' ledgers, for any number of issuers, parties,  *)
(* agents and escrows, and for agents that sign whatever they like.        *)
(***************************************************************************)
EXTENDS Issuer, FiniteSetTheorems, TLAPS

LEMMA PlusType ==
  ASSUME NEW m \in Counts, NEW n \in Counts
  PROVE  Plus(m, n) \in Counts
<1>1. m + n \in Nat  BY IssuerAssumption DEF Counts
<1>2. \A k \in Nat : k % Word \in 0 .. Word - 1
  BY IssuerAssumption
<1>. QED  BY <1>1, <1>2 DEF Plus, Counts

LEMMA PlusZero ==
  ASSUME NEW m \in Counts
  PROVE  Plus(m, 0) = m
<1>1. Word \in Nat \ {0} /\ m \in Nat /\ m < Word  BY IssuerAssumption DEF Counts
<1>. QED  BY <1>1 DEF Plus

LEMMA MinusType ==
  ASSUME NEW m \in Counts, NEW n \in Counts, n <= m
  PROVE  m - n \in Counts
BY IssuerAssumption DEF Counts

LEMMA CountType == 0 .. IntMax \subseteq Counts
BY IssuerAssumption DEF Counts

LEMMA EscrowAssetType ==
  ASSUME NEW i \in Issuers, NEW p \in Parties, NEW g \in Agents, NEW n \in Counts,
         nextId \in Nat
  PROVE  EscrowAsset(i, p, g, n) \in Asset
BY IssuerAssumption DEF EscrowAsset, Asset

LEMMA StatementType ==
  ASSUME NEW a \in Asset, NEW p \in Parties
  PROVE  ReleaseOf(a) \in Statement /\ ClaimOf(a, p) \in Statement
BY DEF ReleaseOf, ClaimOf, Statement, Asset

-----------------------------------------------------------------------------
(* Types are preserved by each method. *)

LEMMA IssueType ==
  ASSUME IssuerTypeOK, NEW i \in Issuers, NEW p \in Parties, NEW c \in 0 .. IntMax,
         Issue(i, p, c)
  PROVE  IssuerTypeOK'
BY CountType DEF IssuerTypeOK, Issue, Counts

LEMMA TransferType ==
  ASSUME IssuerTypeOK, NEW i \in Issuers, NEW p \in Parties, NEW q \in Parties,
         NEW c \in 0 .. IntMax, Transfer(i, p, q, c)
  PROVE  IssuerTypeOK'
<1>1. balance[i][p] - c \in Counts  BY CountType, MinusType DEF IssuerTypeOK, Transfer
<1>2. Plus(balance[i][q], c) \in Counts  BY CountType, PlusType DEF IssuerTypeOK
<1>3. balance' \in [Issuers -> [Parties -> Counts]]
  BY <1>1, <1>2 DEF IssuerTypeOK, Transfer
<1>. QED  BY <1>3 DEF IssuerTypeOK, Transfer

LEMMA EscrowType ==
  ASSUME IssuerTypeOK, NEW i \in Issuers, NEW p \in Parties, NEW g \in Agents,
         NEW c \in 0 .. IntMax, Escrow(i, p, g, c)
  PROVE  IssuerTypeOK'
<1>. DEFINE n == EscrowCount(i, p, c)
<1>1. n \in Counts /\ balance[i][p] \in Counts /\ n <= balance[i][p]
  BY CountType DEF IssuerTypeOK, Escrow, Escrowable, EscrowCount
<1>2. balance[i][p] - n \in Counts  BY <1>1, MinusType
<1>3. EscrowAsset(i, p, g, n) \in Asset  BY <1>1, EscrowAssetType DEF IssuerTypeOK
<1>4. balance' = [balance EXCEPT ![i][p] = @ - n]  BY DEF Escrow
<1>5. escrowed' = [escrowed EXCEPT ![i] = @ \cup {EscrowAsset(i, p, g, n)}]
  BY DEF Escrow
<1>. HIDE DEF n
<1>6. balance' \in [Issuers -> [Parties -> Counts]]
  BY <1>2, <1>4 DEF IssuerTypeOK
<1>7. escrowed' \in [Issuers -> SUBSET Asset]
  BY <1>3, <1>5 DEF IssuerTypeOK
<1>. QED  BY <1>6, <1>7 DEF IssuerTypeOK, Escrow

LEMMA ReleaseType ==
  ASSUME IssuerTypeOK, NEW i \in Issuers, NEW p \in Parties, NEW s \in signed,
         Release(i, p, s)
  PROVE  IssuerTypeOK'
<1>1. PICK a \in escrowed[i] :
        /\ balance' = [balance EXCEPT ![i][p] = Plus(@, a.count)]
        /\ escrowed' = [escrowed EXCEPT ![i] = @ \ {a}]
  BY DEF Release, Releasable
<1>2. a.count \in Counts /\ balance[i][p] \in Counts  BY DEF IssuerTypeOK, Asset
<1>3. Plus(balance[i][p], a.count) \in Counts  BY <1>2, PlusType
<1>4. balance' \in [Issuers -> [Parties -> Counts]]
  BY <1>1, <1>3 DEF IssuerTypeOK
<1>. QED  BY <1>1, <1>4 DEF IssuerTypeOK, Release

LEMMA ClaimType ==
  ASSUME IssuerTypeOK, NEW i \in Issuers, NEW p \in Parties, NEW s \in signed,
         NEW c \in Counts, Claim(i, p, s, c)
  PROVE  IssuerTypeOK'
<1>1. escrowed' \in [Issuers -> SUBSET Asset]  BY DEF IssuerTypeOK, Claim
<1>2. balance[i][p] \in Counts  BY DEF IssuerTypeOK
<1>3. Plus(balance[i][p], c) \in Counts  BY <1>2, PlusType
<1>4. balance' \in [Issuers -> [Parties -> Counts]]
  BY <1>3 DEF IssuerTypeOK, Claim
<1>5. forfeited' \in [Issuers -> SUBSET Statement]
  BY DEF IssuerTypeOK, Claim
<1>. QED  BY <1>1, <1>4, <1>5 DEF IssuerTypeOK, Claim

LEMMA LedgerStepType ==
  ASSUME IssuerTypeOK, NEW i \in Issuers, LedgerStep(i)
  PROVE  IssuerTypeOK'
<1>1. CASE InitializeIssuer(i)  BY <1>1 DEF IssuerTypeOK, InitializeIssuer
<1>2. CASE \E p \in Parties, g \in Agents : EscrowAttestation(i, p, g)
  BY <1>2 DEF IssuerTypeOK, EscrowAttestation, ledgerVars
<1>. QED
  BY <1>1, <1>2, IssueType, TransferType, EscrowType, ReleaseType, ClaimType
  DEF LedgerStep

LEMMA AgentSignsType ==
  ASSUME IssuerTypeOK, NEW s \in Statement, AgentSigns(s)
  PROVE  IssuerTypeOK'
BY DEF IssuerTypeOK, AgentSigns, ledgerVars
LEMMA IssuerNextType == IssuerTypeOK /\ [IssuerNext]_issuerVars => IssuerTypeOK'
<1>. SUFFICES ASSUME IssuerTypeOK, [IssuerNext]_issuerVars PROVE IssuerTypeOK'
  OBVIOUS
<1>1. CASE \E i \in Issuers : LedgerStep(i)  BY <1>1, LedgerStepType
<1>2. CASE \E i \in Issuers, p \in Parties : \E a \in attested[i] :
             AgentSigns(ReleaseOf(a)) \/ AgentSigns(ClaimOf(a, p))
  <2>1. PICK p \in Parties, a \in Asset :
               AgentSigns(ReleaseOf(a)) \/ AgentSigns(ClaimOf(a, p))
    BY <1>2 DEF IssuerTypeOK
  <2>. QED  BY <2>1, StatementType, AgentSignsType
<1>3. CASE UNCHANGED issuerVars
  BY <1>3 DEF IssuerTypeOK, issuerVars, ledgerVars
<1>. QED  BY <1>1, <1>2, <1>3 DEF IssuerNext

LEMMA IssuerInitType == IssuerInit => IssuerTypeOK
BY IssuerAssumption DEF IssuerInit, IssuerTypeOK, Counts

\* Balances, escrows and statements stay well typed; in particular a balance
\* never goes below zero or beyond a uint32_t.
THEOREM IssuerTypeCorrect == IssuerSpec => []IssuerTypeOK
BY IssuerInitType, IssuerNextType, PTL DEF IssuerSpec

-----------------------------------------------------------------------------
(* Custody.  As far as escrows are concerned, the methods do one of four       *)
(* things.                                                                     *)

custodyVars == <<escrowed, attested, signed, redeemed, forfeited, nextId>>

\* A new asset, which no escrow of its owner to the same agent precedes.
TakesIn(i, a) ==
  /\ a.id = nextId
  /\ \A b \in escrowed[i] : ~ (b.owner = a.owner /\ b.agent = a.agent)
  /\ escrowed' = [escrowed EXCEPT ![i] = @ \cup {a}]
  /\ nextId' = nextId + 1
  /\ UNCHANGED <<attested, signed, redeemed, forfeited>>

Attests(i, a) ==
  /\ a \in escrowed[i]
  /\ attested' = [attested EXCEPT ![i] = @ \cup {a}]
  /\ UNCHANGED <<escrowed, signed, redeemed, forfeited, nextId>>

\* A statement about exactly the escrowed asset is honoured.
Settles(i, a, s) ==
  /\ a \in escrowed[i] /\ s \in signed /\ s.asset = a
  /\ escrowed' = [escrowed EXCEPT ![i] = @ \ {a}]
  /\ redeemed' = [redeemed EXCEPT ![i] = @ \cup {s}]
  /\ forfeited' = forfeited \/ forfeited' = [forfeited EXCEPT ![i] = @ \cup {s}]
  /\ UNCHANGED <<attested, signed, nextId>>

LEMMA LedgerStepCustody ==
  ASSUME IssuerTypeOK, NEW i \in Issuers, LedgerStep(i)
  PROVE  \/ UNCHANGED custodyVars
         \/ \E a \in Asset : TakesIn(i, a) \/ Attests(i, a)
         \/ \E a \in Asset, s \in Statement : Settles(i, a, s)
<1>1. CASE InitializeIssuer(i)  BY <1>1 DEF InitializeIssuer, custodyVars
<1>2. CASE \E p \in Parties, c \in 0 .. IntMax : Issue(i, p, c)
  BY <1>2 DEF Issue, custodyVars
<1>3. CASE \E p, q \in Parties, c \in 0 .. IntMax : Transfer(i, p, q, c)
  BY <1>3 DEF Transfer, custodyVars
<1>4. CASE \E p \in Parties, g \in Agents, c \in 0 .. IntMax : Escrow(i, p, g, c)
  <2>1. PICK p \in Parties, g \in Agents, c \in 0 .. IntMax : Escrow(i, p, g, c)
    BY <1>4
  <2>. DEFINE n == EscrowCount(i, p, c)
              a == EscrowAsset(i, p, g, n)
  <2>2. n \in Counts  BY CountType DEF IssuerTypeOK, EscrowCount
  <2>3. a \in Asset  BY <2>2, EscrowAssetType DEF IssuerTypeOK
  <2>4. TakesIn(i, a)
    BY <2>1 DEF Escrow, Escrowable, TakesIn, IsEscrowed, EscrowAsset
  <2>. QED  BY <2>3, <2>4
<1>5. CASE \E p \in Parties, g \in Agents : EscrowAttestation(i, p, g)
  BY <1>5 DEF EscrowAttestation, Attests, ledgerVars, IssuerTypeOK
<1>6. CASE \E p \in Parties, s \in signed : Release(i, p, s)
  BY <1>6 DEF Release, Releasable, Verified, Settles, IssuerTypeOK
<1>7. CASE \E p \in Parties, s \in signed, c \in Counts : Claim(i, p, s, c)
  BY <1>7 DEF Claim, Claimable, Verified, Settles, IssuerTypeOK
<1>. QED  BY <1>1, <1>2, <1>3, <1>4, <1>5, <1>6, <1>7 DEF LedgerStep

LEMMA TakesInCustody ==
  ASSUME IssuerTypeOK, Custody, NEW i \in Issuers, NEW a \in Asset, TakesIn(i, a)
  PROVE  Custody'
<1>. USE DEF IssuerTypeOK, TakesIn
<1>1. \A j \in Issuers : \A b \in escrowed[j]' : b \in escrowed[j] \/ (j = i /\ b = a)
  OBVIOUS
<1>2. IdsDrawn'
  <2>1. nextId < nextId'  OBVIOUS
  <2>2. \A j \in Issuers : \A b \in escrowed[j] \cup attested[j] : b.id \in Nat /\ b.id < nextId
    BY DEF Custody, IdsDrawn, Asset
  <2>3. \A j \in Issuers : \A s \in redeemed[j] : s.asset.id \in Nat /\ s.asset.id < nextId
    BY DEF Custody, IdsDrawn, Asset, Statement
  <2>. QED  BY <1>1, <2>1, <2>2, <2>3 DEF IdsDrawn
<1>3. \A j \in Issuers : \A b \in escrowed[j] : b.id # a.id
  BY DEF Custody, IdsDrawn
<1>4. EscrowUnique'
  BY <1>1, <1>3 DEF Custody, EscrowUnique
<1>5. SettledGone'
  BY <1>1 DEF Custody, SettledGone, IdsDrawn
<1>6. StatementsSigned' /\ OneOutcome'
  BY DEF Custody, StatementsSigned, OneOutcome
<1>7. HeldUntilSigned'
  BY DEF Custody, HeldUntilSigned
<1>. QED  BY <1>2, <1>4, <1>5, <1>6, <1>7 DEF Custody

LEMMA AttestsCustody ==
  ASSUME IssuerTypeOK, Custody, NEW i \in Issuers, NEW a \in Asset, Attests(i, a)
  PROVE  Custody'
<1>. USE DEF IssuerTypeOK, Attests, Custody
<1>1. \A j \in Issuers : \A b \in attested[j]' : b \in attested[j] \/ (j = i /\ b = a)
  OBVIOUS
<1>2. IdsDrawn'  BY <1>1 DEF IdsDrawn
<1>3. HeldUntilSigned'  BY <1>1 DEF HeldUntilSigned
<1>4. EscrowUnique' /\ SettledGone' /\ StatementsSigned' /\ OneOutcome'
  BY DEF EscrowUnique, SettledGone, StatementsSigned, OneOutcome
<1>. QED  BY <1>2, <1>3, <1>4

LEMMA SettlesCustody ==
  ASSUME IssuerTypeOK, Custody, NEW i \in Issuers, NEW a \in Asset,
         NEW s \in Statement, Settles(i, a, s)
  PROVE  Custody'
<1>. USE DEF IssuerTypeOK, Settles, Custody
<1>1. \A j \in Issuers : escrowed[j]' \subseteq escrowed[j]
  OBVIOUS
<1>2. \A j \in Issuers : \A t \in redeemed[j]' : t \in redeemed[j] \/ (j = i /\ t = s)
  OBVIOUS
<1>3. IdsDrawn'  BY <1>1, <1>2 DEF IdsDrawn
<1>4. EscrowUnique'  BY <1>1 DEF EscrowUnique
<1>5. SettledGone'
  <2>1. \A j \in Issuers : \A b \in escrowed[j]' : b.id # a.id
    BY DEF EscrowUnique
  <2>. QED  BY <1>1, <1>2, <2>1 DEF SettledGone
<1>6. StatementsSigned'
  <2>1. \A j \in Issuers : \A t \in forfeited[j]' : t \in forfeited[j] \/ (j = i /\ t = s)
    OBVIOUS
  <2>2. s \in redeemed[i]' /\ \A j \in Issuers : redeemed[j] \subseteq redeemed[j]'
    OBVIOUS
  <2>. QED  BY <1>2, <2>1, <2>2 DEF StatementsSigned
<1>7. OneOutcome'
  <2>1. \A j \in Issuers : \A t \in redeemed[j] : t.asset.id # s.asset.id
    BY DEF SettledGone
  <2>. QED  BY <1>2, <2>1 DEF OneOutcome
<1>8. HeldUntilSigned'
  <2>1. \A j \in Issuers : \A b \in escrowed[j] :
          b \in escrowed[j]' \/ (j = i /\ b = a)
    OBVIOUS
  <2>2. s \in redeemed[i]' \cap signed' /\ s.asset = a
    OBVIOUS
  <2>3. \A j \in Issuers : redeemed[j] \cap signed \subseteq redeemed[j]' \cap signed'
    OBVIOUS
  <2>. QED  BY <2>1, <2>2, <2>3 DEF HeldUntilSigned
<1>. QED  BY <1>3, <1>4, <1>5, <1>6, <1>7, <1>8

LEMMA LedgerStepKeepsCustody ==
  ASSUME IssuerTypeOK, Custody, NEW i \in Issuers, LedgerStep(i)
  PROVE  Custody'
<1>1. CASE UNCHANGED custodyVars
  BY <1>1 DEF custodyVars, Custody, IdsDrawn, EscrowUnique, SettledGone,
     StatementsSigned, OneOutcome, HeldUntilSigned
<1>. QED
  BY <1>1, LedgerStepCustody, TakesInCustody, AttestsCustody, SettlesCustody

LEMMA AgentSignsKeepsCustody ==
  ASSUME Custody, NEW s, AgentSigns(s)
  PROVE  Custody'
<1>. USE DEF AgentSigns, ledgerVars
<1>1. IdsDrawn' /\ EscrowUnique' /\ SettledGone' /\ OneOutcome'
  BY DEF Custody, IdsDrawn, EscrowUnique, SettledGone, OneOutcome
<1>2. StatementsSigned'  BY DEF Custody, StatementsSigned
<1>3. HeldUntilSigned'  BY DEF Custody, HeldUntilSigned
<1>. QED  BY <1>1, <1>2, <1>3 DEF Custody

LEMMA IssuerNextCustody ==
  IssuerTypeOK /\ Custody /\ [IssuerNext]_issuerVars => Custody'
<1>. SUFFICES ASSUME IssuerTypeOK, Custody, [IssuerNext]_issuerVars PROVE Custody'
  OBVIOUS
<1>1. CASE \E i \in Issuers : LedgerStep(i)  BY <1>1, LedgerStepKeepsCustody
<1>2. CASE \E i \in Issuers, p \in Parties : \E a \in attested[i] :
             AgentSigns(ReleaseOf(a)) \/ AgentSigns(ClaimOf(a, p))
  BY <1>2, AgentSignsKeepsCustody
<1>3. CASE UNCHANGED issuerVars
  BY <1>3 DEF issuerVars, ledgerVars, Custody, IdsDrawn, EscrowUnique, SettledGone,
     StatementsSigned, OneOutcome, HeldUntilSigned
<1>. QED  BY <1>1, <1>2, <1>3 DEF IssuerNext

LEMMA IssuerInitCustody == IssuerInit => Custody
BY DEF IssuerInit, Custody, IdsDrawn, EscrowUnique, SettledGone, StatementsSigned,
   OneOutcome, HeldUntilSigned

\* Whatever the agents sign and in whatever order it is presented, each escrow
\* identifier is in escrow in one place or has been settled once.
THEOREM CustodyHolds == IssuerSpec => []Custody
<1>1. IssuerTypeOK /\ Custody /\ [IssuerNext]_issuerVars => (IssuerTypeOK /\ Custody)'
  BY IssuerNextType, IssuerNextCustody
<1>2. IssuerInit => IssuerTypeOK /\ Custody
  BY IssuerInitType, IssuerInitCustody
<1>. QED  BY <1>1, <1>2, PTL DEF IssuerSpec

\* An owner has one escrow per agent, and an identifier designates one escrow.
THEOREM EscrowsAreUnique == IssuerSpec => []EscrowUnique
BY CustodyHolds, PTL DEF Custody

\* No escrow is settled twice, not by one statement nor by two.
THEOREM SettledOnce == IssuerSpec => []OneOutcome
BY CustodyHolds, PTL DEF Custody

\* An attested asset stays in escrow until its agent's statement is honoured.
THEOREM AttestationsHold == IssuerSpec => []HeldUntilSigned
BY CustodyHolds, PTL DEF Custody
-----------------------------------------------------------------------------
(* What leaves escrow goes to whom the agent named. *)

LEMMA LedgerStepPays ==
  ASSUME IssuerTypeOK, Custody, NEW i \in Issuers, NEW j \in Issuers, LedgerStep(j),
         NEW a \in escrowed[i] \ escrowed'[i]
  PROVE  \E s \in signed :
           /\ s.asset = a
           /\ \/ balance'[i] = [balance[i] EXCEPT ![s.to] = Plus(@, a.count)]
              \/ /\ s = ClaimOf(a, s.to) /\ s \in forfeited'[i]
                 /\ balance'[i] = balance[i]
<1>. USE DEF IssuerTypeOK
<1>1. CASE \E p \in Parties, s \in signed : Release(j, p, s)
  <2>1. PICK p \in Parties, s \in signed : Release(j, p, s)  BY <1>1
  <2>2. PICK b \in escrowed[j] :
          /\ Verified(s, "release", b, p)
          /\ balance' = [balance EXCEPT ![j][p] = Plus(@, b.count)]
          /\ escrowed' = [escrowed EXCEPT ![j] = @ \ {b}]
    BY <2>1 DEF Release, Releasable
  <2>3. i = j /\ a = b  BY <2>2
  <2>. QED  BY <2>2, <2>3 DEF Verified
<1>2. CASE \E p \in Parties, s \in signed, c \in Counts : Claim(j, p, s, c)
  <2>1. PICK p \in Parties, s \in signed, c \in Counts : Claim(j, p, s, c)  BY <1>2
  <2>2. PICK b \in escrowed[j] :
          /\ Verified(s, "claim", b, p) /\ FullCount(c, b)
          /\ escrowed' = [escrowed EXCEPT ![j] = @ \ {b}]
    BY <2>1 DEF Claim, Claimable
  <2>3. i = j /\ a = b  BY <2>2
  <2>4. s \in signed /\ s.op = "claim" /\ s.asset = a /\ s.to = p  BY <2>2, <2>3 DEF Verified
  <2>5. balance' = [balance EXCEPT ![i][p] = Plus(@, c)]  BY <2>1, <2>3 DEF Claim
  <2>6. CASE c = a.count
    <3>1. balance'[i] = [balance[i] EXCEPT ![s.to] = Plus(@, a.count)]  BY <2>4, <2>5, <2>6
    <3>. QED  BY <2>4, <3>1
  <2>7. CASE c # a.count
    <3>1. c = 0  BY <2>2, <2>3, <2>7 DEF FullCount
    <3>2. s \in forfeited'[i]  BY <2>1, <2>3, <2>4, <2>7 DEF Claim
    <3>3. balance'[i] = balance[i]
      <4>1. balance[i] \in [Parties -> Counts] /\ balance[i][p] \in Counts  OBVIOUS
      <4>2. Plus(balance[i][p], 0) = balance[i][p]  BY <4>1, PlusZero
      <4>3. balance'[i] = [balance[i] EXCEPT ![p] = Plus(balance[i][p], 0)]  BY <2>5, <3>1
      <4>. QED  BY <4>1, <4>2, <4>3
    <3>4. s = ClaimOf(a, s.to)
      <4>1. s \in Statement  OBVIOUS
      <4>. QED  BY <2>4, <4>1 DEF ClaimOf, Statement
    <3>. QED  BY <2>4, <3>2, <3>3, <3>4
  <2>. QED  BY <2>6, <2>7
<1>3. CASE InitializeIssuer(j)  BY <1>3 DEF InitializeIssuer
<1>4. CASE \E p \in Parties, c \in 0 .. IntMax : Issue(j, p, c)
  BY <1>4 DEF Issue
<1>5. CASE \E p, q \in Parties, c \in 0 .. IntMax : Transfer(j, p, q, c)
  BY <1>5 DEF Transfer
<1>6. CASE \E p \in Parties, g \in Agents, c \in 0 .. IntMax : Escrow(j, p, g, c)
  BY <1>6 DEF Escrow
<1>7. CASE \E p \in Parties, g \in Agents : EscrowAttestation(j, p, g)
  BY <1>7 DEF EscrowAttestation, ledgerVars
<1>. QED  BY <1>1, <1>2, <1>3, <1>4, <1>5, <1>6, <1>7 DEF LedgerStep

\* Assets leave escrow only by a signed statement: whole to the party it names, or
\* to nobody if that party claimed them for no particular count.
THEOREM PaysWhomTheAgentNames == IssuerSpec => PaidToNamed
<1>1. ASSUME IssuerTypeOK, Custody, [IssuerNext]_issuerVars
      PROVE  [\A i \in Issuers : \A a \in escrowed[i] \ escrowed'[i] :
                \E s \in signed :
                  /\ s.asset = a
                  /\ \/ balance'[i] = [balance[i] EXCEPT ![s.to] = Plus(@, a.count)]
                     \/ /\ s = ClaimOf(a, s.to) /\ s \in forfeited'[i]
                        /\ balance'[i] = balance[i]]_issuerVars
  <2>1. CASE \E j \in Issuers : LedgerStep(j)
    BY <1>1, <2>1, LedgerStepPays
  <2>2. CASE \E i \in Issuers, p \in Parties : \E a \in attested[i] :
               AgentSigns(ReleaseOf(a)) \/ AgentSigns(ClaimOf(a, p))
    BY <2>2 DEF AgentSigns, ledgerVars
  <2>3. CASE UNCHANGED issuerVars  BY <2>3
  <2>. QED  BY <1>1, <2>1, <2>2, <2>3 DEF IssuerNext
<1>. QED  BY <1>1, IssuerTypeCorrect, CustodyHolds, PTL DEF IssuerSpec, PaidToNamed
-----------------------------------------------------------------------------
(* Sums.  A total is a number of units, so that the library's facts about     *)
(* cardinalities apply.                                                       *)

LEMMA SplitTotal ==
  ASSUME NEW f, NEW d \in DOMAIN f, f[d] \in Counts, NEW R,
         R = {u \in Units(f) : u[1] # d}, IsFiniteSet(R)
  PROVE  /\ IsFiniteSet(Units(f)) /\ Cardinality(R) \in Nat
         /\ Total(f) = Cardinality(R) + f[d]
<1>. DEFINE own == {d} \X (0 .. f[d] - 1)
<1>1. f[d] \in Nat /\ f[d] - 1 \in Int /\ 0 .. f[d] - 1 \subseteq Counts
  BY IssuerAssumption DEF Counts
<1>2. \A n \in Counts : n < f[d] <=> n \in 0 .. f[d] - 1  BY <1>1, IssuerAssumption DEF Counts
<1>3. Units(f) = R \cup own
  <2>1. ASSUME NEW u \in Units(f) PROVE u \in R \cup own
    <3>1. u \in (DOMAIN f) \X Counts /\ u[2] < f[u[1]]  BY DEF Units
    <3>2. CASE u[1] # d  BY <3>2
    <3>3. CASE u[1] = d
      <4>1. u[2] \in 0 .. f[d] - 1  BY <1>2, <3>1, <3>3
      <4>. QED  BY <3>1, <3>3, <4>1
    <3>. QED  BY <3>2, <3>3
  <2>2. ASSUME NEW u \in own PROVE u \in Units(f)
    <3>1. u \in (DOMAIN f) \X Counts /\ u[1] = d /\ u[2] \in 0 .. f[d] - 1  BY <1>1
    <3>2. u[2] < f[u[1]]  BY <1>1, <1>2, <3>1
    <3>. QED  BY <3>1, <3>2 DEF Units
  <2>. QED  BY <2>1, <2>2
<1>4. R \cap own = {}  OBVIOUS
<1>5. IsFiniteSet(0 .. f[d] - 1) /\ Cardinality(0 .. f[d] - 1) = f[d]
  <2>1. /\ IsFiniteSet(0 .. f[d] - 1)
        /\ Cardinality(0 .. f[d] - 1) = IF 0 > f[d] - 1 THEN 0 ELSE f[d] - 1 - 0 + 1
    <3>1. 0 \in Int  OBVIOUS
    <3>. QED  BY <1>1, <3>1, FS_Interval, Zenon
  <2>. QED  BY <1>1, <2>1
<1>6. IsFiniteSet({d}) /\ Cardinality({d}) = 1  BY FS_Singleton
<1>7. IsFiniteSet(own) /\ Cardinality(own) = 1 * f[d]  BY <1>5, <1>6, FS_Product
<1>. HIDE DEF own
<1>8. /\ IsFiniteSet(R \cup own)
      /\ Cardinality(R \cup own) = Cardinality(R) + Cardinality(own) - Cardinality(R \cap own)
  BY <1>7, FS_Union
<1>9. Cardinality(R) \in Nat  BY FS_CardinalityType
<1>10. Cardinality(R \cap own) = 0  BY <1>4, FS_EmptySet
<1>11. Cardinality(own) = f[d]  BY <1>1, <1>7
<1>12. Cardinality(R \cup own) = Cardinality(R) + f[d]  BY <1>1, <1>8, <1>9, <1>10, <1>11
<1>. QED  BY <1>3, <1>8, <1>9, <1>12, Zenon DEF Total

\* One value changes.
LEMMA TotalChange ==
  ASSUME NEW f, NEW g, NEW d \in DOMAIN f, f[d] \in Counts, g[d] \in Counts,
         DOMAIN g = DOMAIN f, \A x \in (DOMAIN f) \ {d} : g[x] = f[x], IsFiniteSet(Units(f))
  PROVE  /\ IsFiniteSet(Units(g)) /\ Total(f) \in Nat /\ Total(g) \in Nat
         /\ Total(f) >= f[d] /\ Total(g) = Total(f) - f[d] + g[d]
<1>. DEFINE R == {u \in Units(f) : u[1] # d}
<1>1. IsFiniteSet(R)
  <2>1. R \in SUBSET Units(f)  OBVIOUS
  <2>. QED  BY <2>1, FS_Subset
<1>2. R = {u \in Units(g) : u[1] # d}  BY DEF Units
<1>3. R = {u \in Units(f) : u[1] # d}  OBVIOUS
<1>. HIDE DEF R
<1>4. Cardinality(R) \in Nat /\ Total(f) = Cardinality(R) + f[d]  BY <1>1, <1>3, SplitTotal
<1>5. IsFiniteSet(Units(g)) /\ Total(g) = Cardinality(R) + g[d]  BY <1>1, <1>2, SplitTotal
<1>6. f[d] \in Nat /\ g[d] \in Nat  BY DEF Counts
<1>. QED  BY <1>4, <1>5, <1>6

\* The domain gets or loses an element.
LEMMA TotalExtended ==
  ASSUME NEW f, NEW g, NEW d \in DOMAIN g, g[d] \in Counts,
         DOMAIN f = (DOMAIN g) \ {d}, \A x \in DOMAIN f : g[x] = f[x],
         IsFiniteSet(Units(f)) \/ IsFiniteSet(Units(g))
  PROVE  /\ IsFiniteSet(Units(f)) /\ IsFiniteSet(Units(g))
         /\ Total(f) \in Nat /\ Total(g) = Total(f) + g[d]
<1>1. Units(f) = {u \in Units(g) : u[1] # d}  BY DEF Units
<1>2. IsFiniteSet(Units(f))
  <2>1. Units(f) \in SUBSET Units(g)  BY <1>1
  <2>. QED  BY <2>1, FS_Subset
<1>. QED  BY <1>1, <1>2, SplitTotal DEF Total

\* Taking multiples of a word away leaves the remainder.
LEMMA WordsAway ==
  ASSUME NEW m \in Nat, NEW n \in Nat, n % Word = 0
  PROVE  /\ (m + n) % Word = m % Word
         /\ n < Word => n = 0
<1>. Word \in Nat \ {0}  BY IssuerAssumption
<1>1. PICK k \in Int : n = Word * k
  <2>1. n \div Word \in Int /\ n = Word * (n \div Word)  OBVIOUS
  <2>. QED  BY <2>1
<1>2. PICK r \in 0 .. Word - 1 : r = m % Word  OBVIOUS
<1>3. PICK q \in Int : m - r = Word * q
  <2>1. m \div Word \in Int /\ m - r = Word * (m \div Word)  BY <1>2
  <2>. QED  BY <2>1
<1>4. \A j \in Int : m + n = Word * j + r => (m + n) % Word = r  OBVIOUS
<1>5. m + n = Word * (q + k) + r
  <2>1. \A w \in Int : w * (q + k) = w * q + w * k  OBVIOUS
  <2>2. Word * q \in Int /\ Word * k \in Int  OBVIOUS
  <2>. QED  BY <1>1, <1>3, <2>1, <2>2
<1>6. (m + n) % Word = r
  <2>1. q + k \in Int  OBVIOUS
  <2>. QED  BY <1>4, <1>5, <2>1, Zenon
<1>7. ASSUME n < Word PROVE n = 0  BY <1>7
<1>. QED  BY <1>2, <1>6, <1>7

LEMMA PlusCases ==
  ASSUME NEW m \in Counts, NEW n \in Counts
  PROVE  Plus(m, n) = m + n \/ Plus(m, n) = m + n - Word
<1>. Word \in Nat \ {0} /\ m \in Nat /\ n \in Nat /\ m + n < Word + Word  BY IssuerAssumption DEF Counts
<1>. QED  BY DEF Plus
-----------------------------------------------------------------------------
(* Conservation. *)

LEMMA AccountedTypes ==
  ASSUME IssuerTypeOK, NEW i \in Issuers, Accounted(i)
  PROVE  /\ Total(balance[i]) \in Nat /\ Total(EscrowCounts(i)) \in Nat
         /\ Total(ForfeitedCounts(i)) \in Nat /\ Holdings(i) \in Nat
         /\ Accountable(i) = Holdings(i) + Total(ForfeitedCounts(i))
         /\ Accountable(i) \in Nat /\ supply[i] \in Nat /\ supply[i] - Accountable(i) \in Nat
<1>1. /\ Total(balance[i]) \in Nat /\ Total(EscrowCounts(i)) \in Nat
      /\ Total(ForfeitedCounts(i)) \in Nat
  BY FS_CardinalityType DEF Accounted, Total
<1>2. supply[i] \in Nat  BY DEF IssuerTypeOK
<1>3. Holdings(i) \in Nat  BY <1>1 DEF Holdings
<1>4. Accountable(i) = Holdings(i) + Total(ForfeitedCounts(i))  BY DEF Accountable
<1>5. Accountable(i) \in Nat  BY <1>1, <1>3, <1>4
<1>6. Accountable(i) <= supply[i]  BY DEF Accounted
<1>. QED  BY <1>1, <1>2, <1>3, <1>4, <1>5, <1>6

LEMMA AccountedConserved ==
  ASSUME IssuerTypeOK, NEW i \in Issuers, Accounted(i)
  PROVE  Conserved(i)
<1>1. Accountable(i) \in Nat /\ supply[i] \in Nat /\ supply[i] - Accountable(i) \in Nat
  BY AccountedTypes
<1>2. PICK h \in Nat, n \in Nat : h = Accountable(i) /\ n = supply[i] - Accountable(i)  BY <1>1
<1>3. n % Word = 0 /\ supply[i] = h + n  BY <1>1, <1>2 DEF Accounted
<1>4. (h + n) % Word = h % Word /\ (n < Word => n = 0)  BY <1>3, WordsAway
<1>5. h + n < Word => n < Word  BY IssuerAssumption
<1>. QED  BY <1>2, <1>3, <1>4, <1>5 DEF Conserved

\* A total stays as it is or wraps.
LEMMA WordLost ==
  ASSUME NEW h \in Nat, NEW t \in Nat, h <= t, (t - h) % Word = 0, NEW k \in Int,
         k = h \/ k = h - Word
  PROVE  k <= t /\ (t - k) % Word = 0
<1>. Word \in Nat \ {0}  BY IssuerAssumption
<1>1. CASE k = h  BY <1>1
<1>2. CASE k = h - Word
  <2>1. PICK n \in Nat : n = t - h  OBVIOUS
  <2>2. (Word + n) % Word = Word % Word  BY <2>1, WordsAway
  <2>3. Word % Word = 0  OBVIOUS
  <2>4. t - k = Word + n  BY <1>2, <2>1
  <2>. QED  BY <1>2, <2>2, <2>3, <2>4
<1>. QED  BY <1>1, <1>2

\* The books of issuer i after a step, given its balances, its escrows and what was
\* forfeited by then.
LEMMA Reaccounted ==
  ASSUME NEW i \in Issuers, NEW b, NEW e, NEW f, NEW t,
         balance'[i] = b, [a \in escrowed'[i] |-> a.count] = e,
         [s \in forfeited'[i] |-> s.asset.count] = f,
         IsFiniteSet(Units(b)), IsFiniteSet(Units(e)), IsFiniteSet(Units(f)),
         \A p \in Parties \ entries'[i] : b[p] = 0,
         \A a \in escrowed'[i] : a.owner \in entries'[i],
         t = Total(b) + Total(e) + Total(f), t <= supply'[i], (supply'[i] - t) % Word = 0
  PROVE  Accounted(i)'
BY DEF Accounted, Units, Total, Holdings, EscrowCounts, ForfeitedCounts, Accountable

LEMMA IssueAccounted ==
  ASSUME IssuerTypeOK, NEW i \in Issuers, Accounted(i), NEW p \in Parties,
         NEW c \in 0 .. IntMax, Issue(i, p, c)
  PROVE  Accounted(i)'
<1>. DEFINE b == balance[i]
            new == [b EXCEPT ![p] = c]
            e == EscrowCounts(i)
            f == ForfeitedCounts(i)
<1>1. b \in [Parties -> Counts] /\ c \in Counts  BY CountType DEF IssuerTypeOK
<1>2. b[p] = 0 /\ IsFiniteSet(Units(b)) /\ IsFiniteSet(Units(e)) /\ IsFiniteSet(Units(f))
  BY DEF Accounted, Issue
<1>3. balance' = [balance EXCEPT ![i][p] = c] /\ supply' = [supply EXCEPT ![i] = @ + c]
      /\ entries' = [entries EXCEPT ![i] = @ \cup {p}] /\ escrowed' = escrowed
      /\ forfeited' = forfeited
  BY DEF Issue
<1>4. /\ balance'[i] = new /\ [a \in escrowed'[i] |-> a.count] = e
      /\ [s \in forfeited'[i] |-> s.asset.count] = f
  BY <1>3 DEF IssuerTypeOK, EscrowCounts, ForfeitedCounts
<1>5. supply'[i] = supply[i] + c /\ entries'[i] = entries[i] \cup {p}
  BY <1>3 DEF IssuerTypeOK
<1>6. /\ Total(b) \in Nat /\ Total(e) \in Nat /\ Total(f) \in Nat /\ supply[i] \in Nat
      /\ Total(b) + Total(e) + Total(f) <= supply[i]
      /\ (supply[i] - (Total(b) + Total(e) + Total(f))) % Word = 0
  BY AccountedTypes DEF Accounted, Accountable, Holdings
<1>7. /\ \A q \in Parties \ entries'[i] : new[q] = 0
      /\ \A a \in escrowed'[i] : a.owner \in entries'[i]
  BY <1>1, <1>3, <1>5 DEF Accounted
<1>. HIDE DEF e, f
<1>8. IsFiniteSet(Units(new)) /\ Total(new) = Total(b) + c
  <2>1. /\ p \in DOMAIN b /\ b[p] \in Counts /\ new[p] \in Counts /\ DOMAIN new = DOMAIN b
        /\ \A q \in (DOMAIN b) \ {p} : new[q] = b[q]
    BY <1>1
  <2>2. new[p] = c  BY <1>1
  <2>. HIDE DEF new, b
  <2>3. IsFiniteSet(Units(new)) /\ Total(b) \in Nat /\ Total(new) = Total(b) - b[p] + new[p]
    BY <1>2, <2>1, TotalChange
  <2>. QED  BY <1>1, <1>2, <2>2, <2>3 DEF Counts
<1>. HIDE DEF new, b
<1>9. PICK t \in Nat : t = Total(new) + Total(e) + Total(f)  BY <1>1, <1>6, <1>8 DEF Counts
<1>10. t <= supply'[i] /\ supply'[i] - t = supply[i] - (Total(b) + Total(e) + Total(f))
  BY <1>1, <1>5, <1>6, <1>8, <1>9 DEF Counts
<1>. QED  BY <1>2, <1>4, <1>6, <1>7, <1>8, <1>9, <1>10, Reaccounted

\* A step that issues nothing may only move units, or lose a word to a wrap.
LEMMA MovedAccounted ==
  ASSUME IssuerTypeOK, NEW i \in Issuers, Accounted(i), NEW b, NEW e,
         balance'[i] = b, [a \in escrowed'[i] |-> a.count] = e,
         IsFiniteSet(Units(b)), IsFiniteSet(Units(e)),
         \A p \in Parties \ entries'[i] : b[p] = 0,
         \A a \in escrowed'[i] : a.owner \in entries'[i],
         supply'[i] = supply[i], forfeited'[i] = forfeited[i],
         NEW k \in Int, k = Total(b) + Total(e),
         k = Holdings(i) \/ k = Holdings(i) - Word
  PROVE  Accounted(i)'
<1>. DEFINE f == ForfeitedCounts(i)
<1>1. /\ Holdings(i) \in Nat /\ Accountable(i) \in Nat /\ supply[i] \in Nat /\ Total(f) \in Nat
      /\ Accountable(i) = Holdings(i) + Total(f)
  BY AccountedTypes
<1>2. Accountable(i) <= supply[i] /\ (supply[i] - Accountable(i)) % Word = 0
      /\ IsFiniteSet(Units(f))
  BY DEF Accounted
<1>3. PICK h \in Nat : h = Accountable(i)  BY <1>1
<1>4. [s \in forfeited'[i] |-> s.asset.count] = f  BY DEF ForfeitedCounts
<1>. HIDE DEF f
<1>5. Word \in Nat  BY IssuerAssumption
<1>6. PICK t \in Int : t = k + Total(f)  BY <1>1
<1>7. t = h \/ t = h - Word  BY <1>1, <1>3, <1>5, <1>6
<1>8. t <= supply[i] /\ (supply[i] - t) % Word = 0  BY <1>1, <1>2, <1>3, <1>7, WordLost
<1>9. t = Total(b) + Total(e) + Total(f)  BY <1>6
<1>. QED  BY <1>2, <1>4, <1>8, <1>9, Reaccounted

LEMMA TransferAccounted ==
  ASSUME IssuerTypeOK, NEW i \in Issuers, Accounted(i), NEW p \in Parties, NEW q \in Parties,
         NEW c \in 0 .. IntMax, Transfer(i, p, q, c)
  PROVE  Accounted(i)'
<1>. DEFINE b == balance[i]
            less == [b EXCEPT ![p] = b[p] - c]
            new == [less EXCEPT ![q] = Plus(b[q], c)]
            e == EscrowCounts(i)
<1>1. b \in [Parties -> Counts] /\ c \in Counts  BY CountType DEF IssuerTypeOK
<1>2. p # q /\ p \in entries[i] /\ c <= b[p]  BY DEF Transfer
<1>3. b[p] - c \in Counts /\ Plus(b[q], c) \in Counts  BY <1>1, <1>2, PlusType, MinusType
<1>4. /\ balance' = [balance EXCEPT ![i][p] = @ - c, ![i][q] = Plus(@, c)]
      /\ entries' = [entries EXCEPT ![i] = @ \cup {q}]
      /\ escrowed' = escrowed /\ supply' = supply /\ forfeited' = forfeited
  BY DEF Transfer
<1>5. balance'[i] = new /\ [a \in escrowed'[i] |-> a.count] = e
  BY <1>2, <1>4 DEF IssuerTypeOK, EscrowCounts
<1>6. entries'[i] = entries[i] \cup {q}  BY <1>4 DEF IssuerTypeOK
<1>7. /\ \A r \in Parties \ entries'[i] : new[r] = 0
      /\ \A a \in escrowed'[i] : a.owner \in entries'[i]
  BY <1>1, <1>2, <1>4, <1>6 DEF Accounted
<1>8. /\ IsFiniteSet(Units(b)) /\ IsFiniteSet(Units(e)) /\ Holdings(i) = Total(b) + Total(e)
      /\ Total(b) \in Nat /\ Total(e) \in Nat
  BY AccountedTypes DEF Accounted, Holdings
<1>. HIDE DEF e
<1>9. less \in [Parties -> Counts] /\ less[p] = b[p] - c /\ less[q] = b[q]
      /\ \A r \in Parties \ {p} : less[r] = b[r]
  BY <1>1, <1>2, <1>3
<1>. HIDE DEF less
<1>10. new \in [Parties -> Counts] /\ new[q] = Plus(b[q], c)
       /\ \A r \in Parties \ {q} : new[r] = less[r]
  BY <1>3, <1>9
<1>. HIDE DEF new, b
<1>11. IsFiniteSet(Units(less)) /\ Total(less) = Total(b) - b[p] + less[p] /\ Total(less) \in Nat
  <2>1. p \in DOMAIN b /\ b[p] \in Counts /\ less[p] \in Counts /\ DOMAIN less = DOMAIN b
        /\ \A r \in (DOMAIN b) \ {p} : less[r] = b[r]
    BY <1>1, <1>9
  <2>. QED  BY <1>8, <2>1, TotalChange
<1>12. IsFiniteSet(Units(new)) /\ Total(new) = Total(less) - less[q] + new[q] /\ Total(new) \in Nat
  <2>1. q \in DOMAIN less /\ less[q] \in Counts /\ new[q] \in Counts /\ DOMAIN new = DOMAIN less
        /\ \A r \in (DOMAIN less) \ {q} : new[r] = less[r]
    BY <1>9, <1>10
  <2>. QED  BY <1>11, <2>1, TotalChange
<1>13. b[p] \in Nat /\ b[q] \in Nat /\ c \in Nat /\ Word \in Nat  BY <1>1, IssuerAssumption DEF Counts
<1>14. new[q] = b[q] + c \/ new[q] = b[q] + c - Word
  <2>1. b[q] \in Counts /\ c \in Counts  BY <1>1
  <2>. QED  BY <1>10, <2>1, PlusCases
<1>15. Total(new) = Total(b) \/ Total(new) = Total(b) - Word
  BY <1>8, <1>9, <1>11, <1>12, <1>13, <1>14
<1>16. PICK k \in Int : k = Total(new) + Total(e)  BY <1>8, <1>12
<1>17. k = Holdings(i) \/ k = Holdings(i) - Word  BY <1>8, <1>12, <1>13, <1>15, <1>16
<1>18. supply'[i] = supply[i] /\ forfeited'[i] = forfeited[i]  BY <1>4
<1>. QED  BY <1>5, <1>7, <1>8, <1>12, <1>16, <1>17, <1>18, MovedAccounted

LEMMA EscrowAccounted ==
  ASSUME IssuerTypeOK, NEW i \in Issuers, Accounted(i), NEW p \in Parties, NEW g \in Agents,
         NEW c \in 0 .. IntMax, Escrow(i, p, g, c)
  PROVE  Accounted(i)'
<1>. DEFINE b == balance[i]
            n == EscrowCount(i, p, c)
            a == EscrowAsset(i, p, g, n)
            less == [b EXCEPT ![p] = b[p] - n]
            e == EscrowCounts(i)
            new == [x \in escrowed[i] \cup {a} |-> x.count]
<1>1. b \in [Parties -> Counts] /\ n \in Counts  BY CountType DEF IssuerTypeOK, EscrowCount
<1>2. p \in entries[i] /\ n <= b[p] /\ ~ IsEscrowed(i, p, g)  BY DEF Escrow, Escrowable
<1>3. b[p] - n \in Counts  BY <1>1, <1>2, MinusType
<1>4. a.owner = p /\ a.agent = g /\ a.count = n  BY DEF EscrowAsset
<1>5. a \notin escrowed[i]  BY <1>2, <1>4 DEF IsEscrowed
<1>6. /\ balance' = [balance EXCEPT ![i][p] = @ - n]
      /\ escrowed' = [escrowed EXCEPT ![i] = @ \cup {a}]
      /\ entries' = entries /\ supply' = supply /\ forfeited' = forfeited
  BY DEF Escrow
<1>. HIDE DEF a, n
<1>7. balance'[i] = less /\ escrowed'[i] = escrowed[i] \cup {a}
  BY <1>6 DEF IssuerTypeOK
<1>8. [x \in escrowed'[i] |-> x.count] = new  BY <1>7
<1>9. /\ \A r \in Parties \ entries'[i] : less[r] = 0
      /\ \A x \in escrowed'[i] : x.owner \in entries'[i]
  BY <1>1, <1>2, <1>4, <1>6, <1>7 DEF Accounted
<1>10. /\ IsFiniteSet(Units(b)) /\ IsFiniteSet(Units(e)) /\ Holdings(i) = Total(b) + Total(e)
       /\ Total(b) \in Nat /\ Total(e) \in Nat
  BY AccountedTypes DEF Accounted, Holdings
<1>11. /\ a \in DOMAIN new /\ new[a] = n /\ DOMAIN e = (DOMAIN new) \ {a}
       /\ \A x \in DOMAIN e : new[x] = e[x]
  BY <1>4, <1>5 DEF EscrowCounts
<1>. HIDE DEF e, new
<1>12. less[p] = b[p] - n /\ DOMAIN less = DOMAIN b /\ p \in DOMAIN b
       /\ \A r \in (DOMAIN b) \ {p} : less[r] = b[r]
  BY <1>1
<1>. HIDE DEF less
<1>13. b[p] \in Counts  BY <1>1
<1>. HIDE DEF b
<1>14. IsFiniteSet(Units(less)) /\ Total(less) = Total(b) - b[p] + less[p] /\ Total(less) \in Nat
  <2>1. less[p] \in Counts  BY <1>3, <1>12
  <2>. QED  BY <1>10, <1>12, <1>13, <2>1, TotalChange
<1>15. IsFiniteSet(Units(new)) /\ Total(new) = Total(e) + n
  <2>1. new[a] \in Counts  BY <1>1, <1>11
  <2>. QED  BY <1>10, <1>11, <2>1, TotalExtended
<1>16. b[p] \in Nat /\ n \in Nat  BY <1>1, <1>13 DEF Counts
<1>17. PICK k \in Int : k = Total(less) + Total(new)  BY <1>10, <1>14, <1>15, <1>16
<1>18. k = Holdings(i)  BY <1>10, <1>12, <1>14, <1>15, <1>16, <1>17
<1>19. supply'[i] = supply[i] /\ forfeited'[i] = forfeited[i]  BY <1>6
<1>. QED  BY <1>7, <1>8, <1>9, <1>14, <1>15, <1>17, <1>18, <1>19, MovedAccounted

\* An asset leaves escrow to a balance, by a release or a claim.
LEMMA PaidAccounted ==
  ASSUME IssuerTypeOK, NEW i \in Issuers, Accounted(i), NEW p \in Parties, NEW a \in escrowed[i],
         balance' = [balance EXCEPT ![i][p] = Plus(@, a.count)],
         escrowed' = [escrowed EXCEPT ![i] = @ \ {a}],
         p \in entries'[i], entries[i] \subseteq entries'[i], supply' = supply,
         forfeited' = forfeited
  PROVE  Accounted(i)'
<1>. DEFINE b == balance[i]
            more == [b EXCEPT ![p] = Plus(b[p], a.count)]
            e == EscrowCounts(i)
            new == [x \in escrowed[i] \ {a} |-> x.count]
<1>1. b \in [Parties -> Counts] /\ a.count \in Counts  BY DEF IssuerTypeOK, Asset
<1>2. Plus(b[p], a.count) \in Counts  BY <1>1, PlusType
<1>3. balance'[i] = more /\ escrowed'[i] = escrowed[i] \ {a}  BY DEF IssuerTypeOK
<1>4. [x \in escrowed'[i] |-> x.count] = new  BY <1>3
<1>5. /\ \A r \in Parties \ entries'[i] : more[r] = 0
      /\ \A x \in escrowed'[i] : x.owner \in entries'[i]
  BY <1>1, <1>3 DEF Accounted
<1>6. /\ IsFiniteSet(Units(b)) /\ IsFiniteSet(Units(e)) /\ Holdings(i) = Total(b) + Total(e)
      /\ Total(b) \in Nat /\ Total(e) \in Nat
  BY AccountedTypes DEF Accounted, Holdings
<1>7. /\ a \in DOMAIN e /\ e[a] = a.count /\ DOMAIN new = (DOMAIN e) \ {a}
      /\ \A x \in DOMAIN new : e[x] = new[x]
  BY DEF EscrowCounts
<1>. HIDE DEF e, new
<1>8. more[p] = Plus(b[p], a.count) /\ DOMAIN more = DOMAIN b /\ p \in DOMAIN b
      /\ \A r \in (DOMAIN b) \ {p} : more[r] = b[r]
  BY <1>1
<1>. HIDE DEF more
<1>9. b[p] \in Counts  BY <1>1
<1>. HIDE DEF b
<1>10. IsFiniteSet(Units(more)) /\ Total(more) = Total(b) - b[p] + more[p] /\ Total(more) \in Nat
  <2>1. more[p] \in Counts  BY <1>2, <1>8
  <2>. QED  BY <1>6, <1>8, <1>9, <2>1, TotalChange
<1>11. IsFiniteSet(Units(new)) /\ Total(new) \in Nat /\ Total(e) = Total(new) + a.count
  <2>1. e[a] \in Counts  BY <1>1, <1>7
  <2>. QED  BY <1>6, <1>7, <2>1, TotalExtended
<1>12. b[p] \in Nat /\ a.count \in Nat /\ Word \in Nat  BY <1>1, <1>9, IssuerAssumption DEF Counts
<1>13. more[p] = b[p] + a.count \/ more[p] = b[p] + a.count - Word
  BY <1>1, <1>8, <1>9, PlusCases
<1>14. PICK k \in Int : k = Total(more) + Total(new)  BY <1>10, <1>11
<1>15. k = Holdings(i) \/ k = Holdings(i) - Word
  BY <1>6, <1>10, <1>11, <1>12, <1>13, <1>14
<1>. QED  BY <1>3, <1>4, <1>5, <1>10, <1>11, <1>14, <1>15, MovedAccounted

\* An asset leaves escrow and goes nowhere, by a claim for no particular count.
LEMMA ForfeitAccounted ==
  ASSUME IssuerTypeOK, NEW i \in Issuers, Accounted(i), NEW a \in escrowed[i],
         NEW s \in Statement, s.asset = a, s \notin forfeited[i],
         balance'[i] = balance[i],
         escrowed' = [escrowed EXCEPT ![i] = @ \ {a}],
         forfeited' = [forfeited EXCEPT ![i] = @ \cup {s}],
         entries[i] \subseteq entries'[i], supply' = supply
  PROVE  Accounted(i)'
<1>. DEFINE b == balance[i]
            e == EscrowCounts(i)
            f == ForfeitedCounts(i)
            less == [x \in escrowed[i] \ {a} |-> x.count]
            more == [x \in forfeited[i] \cup {s} |-> x.asset.count]
<1>1. a.count \in Counts  BY DEF IssuerTypeOK, Asset
<1>2. escrowed'[i] = escrowed[i] \ {a} /\ forfeited'[i] = forfeited[i] \cup {s}
  BY DEF IssuerTypeOK
<1>3. /\ [x \in escrowed'[i] |-> x.count] = less
      /\ [x \in forfeited'[i] |-> x.asset.count] = more
  BY <1>2
<1>4. /\ \A r \in Parties \ entries'[i] : b[r] = 0
      /\ \A x \in escrowed'[i] : x.owner \in entries'[i]
  BY <1>2 DEF Accounted
<1>5. /\ IsFiniteSet(Units(b)) /\ IsFiniteSet(Units(e)) /\ IsFiniteSet(Units(f))
      /\ Total(b) \in Nat /\ Total(e) \in Nat /\ Total(f) \in Nat
      /\ Accountable(i) = Total(b) + Total(e) + Total(f)
  BY AccountedTypes DEF Accounted, Holdings
<1>6. /\ a \in DOMAIN e /\ e[a] = a.count /\ DOMAIN less = (DOMAIN e) \ {a}
      /\ \A x \in DOMAIN less : e[x] = less[x]
  BY DEF EscrowCounts
<1>7. /\ s \in DOMAIN more /\ more[s] = a.count /\ DOMAIN f = (DOMAIN more) \ {s}
      /\ \A x \in DOMAIN f : more[x] = f[x]
  BY DEF ForfeitedCounts
<1>8. Accountable(i) <= supply'[i] /\ (supply'[i] - Accountable(i)) % Word = 0
  BY DEF Accounted
<1>. HIDE DEF b, e, f, less, more
<1>9. IsFiniteSet(Units(less)) /\ Total(less) \in Nat /\ Total(e) = Total(less) + a.count
  <2>1. e[a] \in Counts  BY <1>1, <1>6
  <2>. QED  BY <1>5, <1>6, <2>1, TotalExtended
<1>10. IsFiniteSet(Units(more)) /\ Total(more) = Total(f) + a.count
  <2>1. more[s] \in Counts  BY <1>1, <1>7
  <2>. QED  BY <1>5, <1>7, <2>1, TotalExtended
<1>11. Accountable(i) = Total(b) + Total(less) + Total(more)
  <2>1. a.count \in Nat  BY <1>1, IssuerAssumption DEF Counts
  <2>. QED  BY <1>5, <1>9, <1>10, <2>1
<1>12. balance'[i] = b  BY DEF b
<1>. QED  BY <1>3, <1>4, <1>5, <1>8, <1>9, <1>10, <1>11, <1>12, Reaccounted

LEMMA UntouchedAccounted ==
  ASSUME NEW i, Accounted(i), balance'[i] = balance[i], escrowed'[i] = escrowed[i],
         entries'[i] = entries[i], supply'[i] = supply[i], forfeited'[i] = forfeited[i]
  PROVE  Accounted(i)'
BY DEF Accounted, Accountable, Holdings, EscrowCounts, ForfeitedCounts, Total, Units

\* A step at one ledger leaves the others alone.
LEMMA LedgerStepElsewhere ==
  ASSUME IssuerTypeOK, NEW i \in Issuers, NEW j \in Issuers \ {i}, LedgerStep(i)
  PROVE  /\ balance'[j] = balance[j] /\ escrowed'[j] = escrowed[j]
         /\ entries'[j] = entries[j] /\ supply'[j] = supply[j] /\ forfeited'[j] = forfeited[j]
         /\ j \in initialized' <=> j \in initialized
<1>. USE DEF IssuerTypeOK
<1>1. CASE InitializeIssuer(i)  BY <1>1 DEF InitializeIssuer
<1>2. CASE \E p \in Parties, c \in 0 .. IntMax : Issue(i, p, c)  BY <1>2 DEF Issue
<1>3. CASE \E p, q \in Parties, c \in 0 .. IntMax : Transfer(i, p, q, c)
  BY <1>3 DEF Transfer
<1>4. CASE \E p \in Parties, g \in Agents, c \in 0 .. IntMax : Escrow(i, p, g, c)
  BY <1>4 DEF Escrow
<1>5. CASE \E p \in Parties, g \in Agents : EscrowAttestation(i, p, g)
  BY <1>5 DEF EscrowAttestation, ledgerVars
<1>6. CASE \E p \in Parties, s \in signed : Release(i, p, s)  BY <1>6 DEF Release
<1>7. CASE \E p \in Parties, s \in signed, c \in Counts : Claim(i, p, s, c)
  BY <1>7 DEF Claim
<1>. QED  BY <1>1, <1>2, <1>3, <1>4, <1>5, <1>6, <1>7 DEF LedgerStep

LEMMA LedgerStepAccounted ==
  ASSUME IssuerTypeOK, Custody, NEW i \in Issuers, NEW j \in Issuers, Accounted(i), LedgerStep(j)
  PROVE  Accounted(i)'
<1>1. CASE i # j  BY <1>1, LedgerStepElsewhere, UntouchedAccounted
<1>2. ASSUME InitializeIssuer(i) PROVE Accounted(i)'
  BY <1>2, UntouchedAccounted DEF InitializeIssuer
<1>3. ASSUME NEW p \in Parties, NEW g \in Agents, EscrowAttestation(i, p, g) PROVE Accounted(i)'
  BY <1>3, UntouchedAccounted DEF EscrowAttestation, ledgerVars
<1>4. ASSUME NEW p \in Parties, NEW s \in signed, Release(i, p, s) PROVE Accounted(i)'
  <2>1. PICK a \in escrowed[i] :
          /\ a.owner = p
          /\ balance' = [balance EXCEPT ![i][p] = Plus(@, a.count)]
          /\ escrowed' = [escrowed EXCEPT ![i] = @ \ {a}]
    BY <1>4 DEF Release, Releasable
  <2>2. entries' = entries /\ supply' = supply /\ forfeited' = forfeited  BY <1>4 DEF Release
  <2>3. p \in entries'[i] /\ entries[i] \subseteq entries'[i]  BY <2>1, <2>2 DEF Accounted
  <2>. QED  BY <2>1, <2>2, <2>3, PaidAccounted
<1>5. ASSUME NEW p \in Parties, NEW s \in signed, NEW c \in Counts, Claim(i, p, s, c)
      PROVE Accounted(i)'
  <2>1. PICK a \in escrowed[i] :
          /\ Verified(s, "claim", a, p) /\ FullCount(c, a)
          /\ escrowed' = [escrowed EXCEPT ![i] = @ \ {a}]
    BY <1>5 DEF Claim, Claimable
  <2>2. s.asset = a  BY <2>1 DEF Verified
  <2>3. balance' = [balance EXCEPT ![i][p] = Plus(@, c)]  BY <1>5 DEF Claim
  <2>4. entries' = [entries EXCEPT ![i] = @ \cup {p}] /\ supply' = supply  BY <1>5 DEF Claim
  <2>5. p \in entries'[i] /\ entries[i] \subseteq entries'[i]  BY <2>4 DEF IssuerTypeOK
  <2>6. CASE c = a.count
    <3>1. forfeited' = forfeited  BY <1>5, <2>2, <2>6 DEF Claim
    <3>2. balance' = [balance EXCEPT ![i][p] = Plus(@, a.count)]  BY <2>3, <2>6
    <3>. QED  BY <2>1, <2>4, <2>5, <3>1, <3>2, PaidAccounted
  <2>7. CASE c # a.count
    <3>1. c = 0  BY <2>1, <2>7 DEF FullCount
    <3>2. forfeited' = [forfeited EXCEPT ![i] = @ \cup {s}]  BY <1>5, <2>2, <2>7 DEF Claim
    <3>3. balance'[i] = balance[i]
      <4>1. balance[i] \in [Parties -> Counts] /\ balance[i][p] \in Counts  BY DEF IssuerTypeOK
      <4>2. Plus(balance[i][p], 0) = balance[i][p]  BY <4>1, PlusZero
      <4>3. balance'[i] = [balance[i] EXCEPT ![p] = Plus(balance[i][p], 0)]
        BY <2>3, <3>1 DEF IssuerTypeOK
      <4>. QED  BY <4>1, <4>2, <4>3
    <3>4. s \notin forfeited[i]
      <4>1. \A t \in redeemed[i] : t.asset.id # a.id  BY DEF Custody, SettledGone
      <4>. QED  BY <2>2, <4>1 DEF Custody, StatementsSigned
    <3>5. s \in Statement  BY DEF IssuerTypeOK
    <3>. QED  BY <2>1, <2>2, <2>4, <2>5, <3>2, <3>3, <3>4, <3>5, ForfeitAccounted
  <2>. QED  BY <2>6, <2>7
<1>6. CASE i = j
  BY <1>2, <1>3, <1>4, <1>5, <1>6, IssueAccounted, TransferAccounted, EscrowAccounted
  DEF LedgerStep
<1>. QED  BY <1>1, <1>6

LEMMA AgentSignsAccounted ==
  ASSUME NEW i, NEW s, Accounted(i), AgentSigns(s)
  PROVE  Accounted(i)'
BY UntouchedAccounted DEF AgentSigns, ledgerVars

LEMMA IssuerInitAccounted ==
  ASSUME IssuerInit, NEW i \in Issuers
  PROVE  Accounted(i)
<1>1. Units(balance[i]) = {}  BY DEF IssuerInit, Units, Counts
<1>2. Units(EscrowCounts(i)) = {}  BY DEF IssuerInit, Units, EscrowCounts
<1>3. Units(ForfeitedCounts(i)) = {}  BY DEF IssuerInit, Units, ForfeitedCounts
<1>4. Cardinality({}) = 0 /\ IsFiniteSet({})  BY FS_EmptySet
<1>5. Accountable(i) = 0 /\ supply[i] = 0
  BY <1>1, <1>2, <1>3, <1>4 DEF Accountable, Holdings, Total, IssuerInit
<1>6. 0 % Word = 0  BY IssuerAssumption
<1>7. /\ \A p \in Parties \ entries[i] : balance[i][p] = 0
      /\ \A a \in escrowed[i] : a.owner \in entries[i]
  BY DEF IssuerInit
<1>. QED  BY <1>1, <1>2, <1>3, <1>4, <1>5, <1>6, <1>7 DEF Accounted

LEMMA IssuerNextAccounted ==
  ASSUME IssuerTypeOK, Custody, [IssuerNext]_issuerVars, NEW i \in Issuers, Accounted(i)
  PROVE  Accounted(i)'
<1>1. CASE \E j \in Issuers : LedgerStep(j)  BY <1>1, LedgerStepAccounted
<1>2. CASE \E j \in Issuers, p \in Parties : \E a \in attested[j] :
             AgentSigns(ReleaseOf(a)) \/ AgentSigns(ClaimOf(a, p))
  BY <1>2, AgentSignsAccounted
<1>3. CASE UNCHANGED issuerVars
  BY <1>3, UntouchedAccounted DEF issuerVars, ledgerVars
<1>. QED  BY <1>1, <1>2, <1>3 DEF IssuerNext

\* What an issuer has issued is in balances and escrows, or in claims whose claimer
\* asked for no particular count and was paid nothing, for any number of parties and
\* escrows and whatever the agents sign; beyond that only a balance that wraps loses
\* some, and a whole word then.
THEOREM AssetsConserved == IssuerSpec => [](\A i \in Issuers : Conserved(i))
<1>. DEFINE Books == \A i \in Issuers : Accounted(i)
<1>1. IssuerInit => Books  BY IssuerInitAccounted
<1>2. IssuerTypeOK /\ Custody /\ Books /\ [IssuerNext]_issuerVars => Books'
  BY IssuerNextAccounted
<1>3. IssuerTypeOK /\ Books => \A i \in Issuers : Conserved(i)  BY AccountedConserved
<1>. HIDE DEF Books
<1>. QED  BY <1>1, <1>2, <1>3, IssuerTypeCorrect, CustodyHolds, PTL DEF IssuerSpec
=============================================================================
