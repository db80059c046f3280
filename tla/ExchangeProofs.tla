--------------------------- MODULE ExchangeProofs ---------------------------
(***************************************************************************)
(* Proofs about the exchange objects and the issuers' ledgers together,    *)
(* for any number of issuers, exchange objects, parties and escrows; and   *)
(* about the commands of the exchange and issuer plugins that drive them,  *)
(* for any parties with any orders, interrupted and restarted any number   *)
(* of times.                                                               *)
(***************************************************************************)
EXTENDS OrderClient, IssuerProofs


-----------------------------------------------------------------------------
(* Types. *)

LEMMA AttestedIsAsset ==
  ASSUME IssuerTypeOK, NEW i \in Issuers, NEW a \in attested[i]
  PROVE  a \in Asset
BY DEF IssuerTypeOK

LEMMA ExchangeStepType ==
  ASSUME TypeOK, Recorded, NEW x \in Exchanges, ExchangeStep(x)
  PROVE  TypeOK'
<1>. USE DEF TypeOK, States
<1>1. ASSUME NEW s \in Statement, AgentSigns(s), UNCHANGED exchangeVars
      PROVE  TypeOK'
  BY <1>1, AgentSignsType DEF exchangeVars
<1>2. IssuerTypeOK /\ UNCHANGED issuerVars => IssuerTypeOK'
  BY DEF IssuerTypeOK, issuerVars, ledgerVars
<1>3. CASE \E r \in Requests, i \in Issuers : \E a \in attested[i] : Initialize(x, r, i, a)
  BY <1>2, <1>3, AttestedIsAsset, ExchangeAssumption DEF Initialize, Offerable
<1>4. CASE CancelExchange(x)  BY <1>2, <1>4 DEF CancelExchange
<1>5. CASE CancelExchangeAttestation(x)
  <2>1. offered[x] \in Asset  BY <1>5 DEF CancelExchangeAttestation, Recorded
  <2>2. offered[x].owner \in Parties  BY <2>1 DEF Asset
  <2>. QED  BY <1>1, <1>5, <2>1, <2>2, StatementType DEF CancelExchangeAttestation
<1>6. CASE \E p \in Parties, i \in Issuers : \E a \in attested[i] : ExchangeAsset(x, p, i, a)
  BY <1>2, <1>6, AttestedIsAsset DEF ExchangeAsset
<1>7. CASE ClaimExchangedAsset(x)
  <2>1. exchanged[x] \in Asset  BY <1>7 DEF ClaimExchangedAsset, Recorded
  <2>2. Creator[x] \in Parties  BY ExchangeAssumption
  <2>. QED  BY <1>1, <1>7, <2>1, <2>2, StatementType DEF ClaimExchangedAsset
<1>8. CASE \E p \in Parties : ClaimOfferedAsset(x, p)
  <2>1. offered[x] \in Asset  BY <1>8 DEF ClaimOfferedAsset, Recorded
  <2>. QED  BY <1>1, <1>8, <2>1, StatementType DEF ClaimOfferedAsset
<1>9. CASE \E p \in Parties, i \in Issuers : \E a \in attested[i] : ReleaseAsset(x, p, i, a)
  <2>1. PICK p \in Parties, a \in Asset : \E i \in Issuers : ReleaseAsset(x, p, i, a)
    BY <1>9, AttestedIsAsset
  <2>. QED  BY <1>1, <2>1, StatementType DEF ReleaseAsset
<1>. QED
  BY <1>3, <1>4, <1>5, <1>6, <1>7, <1>8, <1>9 DEF ExchangeStep

LEMMA NextType ==
  ASSUME TypeOK, Recorded, [Next]_vars
  PROVE  TypeOK'
<1>1. CASE \E i \in Issuers : LedgerStep(i) /\ UNCHANGED exchangeVars
  BY <1>1, LedgerStepType DEF TypeOK, exchangeVars
<1>2. CASE \E x \in Exchanges : ExchangeStep(x)  BY <1>2, ExchangeStepType
<1>3. CASE UNCHANGED vars
  BY <1>3 DEF TypeOK, IssuerTypeOK, vars, exchangeVars, issuerVars, ledgerVars
<1>. QED  BY <1>1, <1>2, <1>3 DEF Next

-----------------------------------------------------------------------------
(* Custody: an exchange object signs, if anything, for the whole asset. *)

LEMMA ExchangeStepSigns ==
  ASSUME NEW x \in Exchanges, ExchangeStep(x)
  PROVE  \/ UNCHANGED issuerVars
         \/ \E a, p : AgentSigns(ReleaseOf(a)) \/ AgentSigns(ClaimOf(a, p))
BY DEF ExchangeStep, Initialize, CancelExchange, CancelExchangeAttestation,
   ExchangeAsset, ClaimExchangedAsset, ClaimOfferedAsset, ReleaseAsset

LEMMA NextCustody ==
  ASSUME TypeOK, Custody, [Next]_vars
  PROVE  Custody'
<1>1. CASE \E i \in Issuers : LedgerStep(i) /\ UNCHANGED exchangeVars
  BY <1>1, LedgerStepKeepsCustody DEF TypeOK
<1>2. ASSUME UNCHANGED issuerVars PROVE Custody'
  BY <1>2 DEF issuerVars, ledgerVars, Custody, IdsDrawn, EscrowUnique, SettledGone,
     StatementsSigned, OneOutcome, HeldUntilSigned
<1>3. CASE \E x \in Exchanges : ExchangeStep(x)
  BY <1>2, <1>3, ExchangeStepSigns, AgentSignsKeepsCustody
<1>. QED  BY <1>1, <1>2, <1>3 DEF Next, vars

-----------------------------------------------------------------------------
(* Arbitration: what an exchange object signed is justified by its state. *)

LEMMA LedgerStepMonotone ==
  ASSUME IssuerTypeOK, NEW i \in Issuers, LedgerStep(i)
  PROVE  /\ signed' = signed
         /\ \A j \in Issuers : attested[j] \subseteq attested[j]'
<1>1. CASE UNCHANGED custodyVars  BY <1>1 DEF custodyVars
<1>2. CASE \E a \in Asset : TakesIn(i, a) \/ Attests(i, a)
  BY <1>2 DEF TakesIn, Attests, IssuerTypeOK
<1>3. CASE \E a \in Asset, s \in Statement : Settles(i, a, s)
  BY <1>3 DEF Settles
<1>. QED  BY <1>1, <1>2, <1>3, LedgerStepCustody

LEMMA LedgerStepArbitration ==
  ASSUME TypeOK, Arbitration, NEW i \in Issuers, LedgerStep(i), UNCHANGED exchangeVars
  PROVE  Arbitration'
<1>1. signed' = signed /\ \A j \in Issuers : attested[j] \subseteq attested[j]'
  BY LedgerStepMonotone DEF TypeOK
<1>2. Recorded'
  BY <1>1 DEF Arbitration, Recorded, exchangeVars, Attested, Matches
<1>3. \A s \in signed' : Justified(s)'
  BY <1>1 DEF Arbitration, Justified, exchangeVars
<1>. QED  BY <1>2, <1>3 DEF Arbitration

\* An exchange object that has not been settled has signed nothing.
LEMMA UnsettledSignsNothing ==
  ASSUME Arbitration, NEW s \in signed
  PROVE  state[s.asset.agent] \in {"COMPLETED", "CANCELLED"}
BY DEF Arbitration, Justified

LEMMA SigningArbitration ==
  ASSUME Arbitration, NEW s, AgentSigns(s), UNCHANGED exchangeVars, Justified(s)
  PROVE  Arbitration'
<1>. USE DEF AgentSigns, ledgerVars, exchangeVars
<1>1. Recorded'  BY DEF Arbitration, Recorded, Attested, Matches
<1>2. \A t \in signed' : Justified(t)'  BY DEF Arbitration, Justified
<1>. QED  BY <1>1, <1>2 DEF Arbitration

\* An object changes its state only while it is unsettled, and only its own.
LEMMA DecidingArbitration ==
  ASSUME TypeOK, Arbitration, NEW x \in Exchanges,
         state[x] \in {"START", "OFFERED"}, UNCHANGED issuerVars,
         \A y \in Exchanges \ {x} :
           UNCHANGED <<state[y], offered[y], exchanged[y], exchangedOwner[y]>>
  PROVE  \A s \in signed' : Justified(s)'
<1>. SUFFICES ASSUME NEW s \in signed PROVE Justified(s)'
  BY DEF issuerVars
<1>1. s.asset.agent \in Exchanges \ {x}
  <2>1. s.asset.agent \in Agents  BY DEF TypeOK, IssuerTypeOK, Statement, Asset
  <2>. QED  BY <2>1, UnsettledSignsNothing DEF Exchanges
<1>2. Justified(s)  BY DEF Arbitration
<1>. QED  BY <1>1, <1>2 DEF Justified

LEMMA InitializeArbitration ==
  ASSUME TypeOK, Arbitration, NEW x \in Exchanges, NEW r \in Requests,
         NEW i \in Issuers, NEW a \in attested[i], Initialize(x, r, i, a)
  PROVE  Arbitration'
<1>. USE DEF Initialize, Offerable
<1>1. Recorded'
  <2>1. a \in Asset  BY AttestedIsAsset DEF TypeOK
  <2>2. r \in Request  BY ExchangeAssumption
  <2>3. ASSUME NEW y \in Exchanges \ {x}
        PROVE  /\ state'[y] = state[y] /\ offered'[y] = offered[y]
               /\ request'[y] = request[y] /\ exchanged'[y] = exchanged[y]
               /\ exchangedOwner'[y] = exchangedOwner[y]
    BY DEF TypeOK
  <2>4. /\ state'[x] = "OFFERED" /\ offered'[x] = a /\ request'[x] = r
        /\ exchanged'[x] = NoAsset /\ exchangedOwner'[x] = NoParty
    BY DEF TypeOK, Arbitration, Recorded
  <2>5. attested' = attested  BY DEF issuerVars
  <2>. QED
    BY <2>1, <2>2, <2>3, <2>4, <2>5 DEF Arbitration, Recorded, Attested, Matches
<1>2. \A s \in signed' : Justified(s)'  BY DecidingArbitration DEF TypeOK
<1>. QED  BY <1>1, <1>2 DEF Arbitration

LEMMA CancelArbitration ==
  ASSUME TypeOK, Arbitration, NEW x \in Exchanges, CancelExchange(x)
  PROVE  Arbitration'
<1>. USE DEF CancelExchange
<1>1. Recorded'
  BY DEF TypeOK, Arbitration, Recorded, Attested, Matches, issuerVars
<1>2. \A s \in signed' : Justified(s)'
  BY DecidingArbitration DEF TypeOK, issuerVars
<1>. QED  BY <1>1, <1>2 DEF Arbitration

LEMMA ExchangeAssetArbitration ==
  ASSUME TypeOK, Arbitration, NEW x \in Exchanges, NEW p \in Parties,
         NEW i \in Issuers, NEW a \in attested[i], ExchangeAsset(x, p, i, a)
  PROVE  Arbitration'
<1>. USE DEF ExchangeAsset, Exchangeable
<1>1. Recorded'
  <2>1. a \in Asset  BY AttestedIsAsset DEF TypeOK
  <2>3. ASSUME NEW y \in Exchanges \ {x}
        PROVE  /\ state'[y] = state[y] /\ exchanged'[y] = exchanged[y]
               /\ exchangedOwner'[y] = exchangedOwner[y]
    BY DEF TypeOK
  <2>4. /\ state'[x] = "COMPLETED" /\ exchanged'[x] = a /\ exchangedOwner'[x] = p
    BY DEF TypeOK
  <2>5. attested' = attested /\ offered' = offered /\ request' = request
    BY DEF issuerVars
  <2>. QED
    BY <2>1, <2>3, <2>4, <2>5 DEF Arbitration, Recorded, Attested, Matches
<1>2. \A s \in signed' : Justified(s)'
  BY DecidingArbitration DEF TypeOK, issuerVars
<1>. QED  BY <1>1, <1>2 DEF Arbitration

\* The statements the read-only methods sign are the justified ones.
LEMMA AttestationsJustified ==
  ASSUME TypeOK, Arbitration, NEW x \in Exchanges
  PROVE  /\ CancelExchangeAttestation(x) => Justified(ReleaseOf(offered[x]))
         /\ ClaimExchangedAsset(x) => Justified(ClaimOf(exchanged[x], Creator[x]))
         /\ \A p \in Parties :
              ClaimOfferedAsset(x, p) => Justified(ClaimOf(offered[x], p))
         /\ \A p \in Parties, i \in Issuers : \A a \in attested[i] :
              ReleaseAsset(x, p, i, a) => Justified(ReleaseOf(a))
<1>. USE DEF Arbitration, Recorded, Justified, ReleaseOf, ClaimOf
<1>1. CancelExchangeAttestation(x) => Justified(ReleaseOf(offered[x]))
  BY DEF CancelExchangeAttestation
<1>2. ClaimExchangedAsset(x) => Justified(ClaimOf(exchanged[x], Creator[x]))
  BY DEF ClaimExchangedAsset
<1>3. \A p \in Parties : ClaimOfferedAsset(x, p) => Justified(ClaimOf(offered[x], p))
  BY DEF ClaimOfferedAsset
<1>4. \A p \in Parties, i \in Issuers : \A a \in attested[i] :
        ReleaseAsset(x, p, i, a) => Justified(ReleaseOf(a))
  BY DEF ReleaseAsset, Settled
<1>. QED  BY <1>1, <1>2, <1>3, <1>4

LEMMA ExchangeStepArbitration ==
  ASSUME TypeOK, Arbitration, NEW x \in Exchanges, ExchangeStep(x)
  PROVE  Arbitration'
<1>1. CASE CancelExchangeAttestation(x)
  BY <1>1, AttestationsJustified, SigningArbitration DEF CancelExchangeAttestation
<1>2. CASE ClaimExchangedAsset(x)
  BY <1>2, AttestationsJustified, SigningArbitration DEF ClaimExchangedAsset
<1>3. CASE \E p \in Parties : ClaimOfferedAsset(x, p)
  BY <1>3, AttestationsJustified, SigningArbitration DEF ClaimOfferedAsset
<1>4. CASE \E p \in Parties, i \in Issuers : \E a \in attested[i] : ReleaseAsset(x, p, i, a)
  BY <1>4, AttestationsJustified, SigningArbitration DEF ReleaseAsset
<1>. QED
  BY <1>1, <1>2, <1>3, <1>4, InitializeArbitration, CancelArbitration,
     ExchangeAssetArbitration
  DEF ExchangeStep

LEMMA NextArbitration ==
  ASSUME TypeOK, Arbitration, [Next]_vars
  PROVE  Arbitration'
<1>1. CASE \E i \in Issuers : LedgerStep(i) /\ UNCHANGED exchangeVars
  BY <1>1, LedgerStepArbitration
<1>2. CASE \E x \in Exchanges : ExchangeStep(x)  BY <1>2, ExchangeStepArbitration
<1>3. CASE UNCHANGED vars
  BY <1>3 DEF vars, issuerVars, exchangeVars, Arbitration, Recorded, Justified,
     Attested, Matches
<1>. QED  BY <1>1, <1>2, <1>3 DEF Next

-----------------------------------------------------------------------------
(* The inductive invariant and what follows from it. *)

ExchangeInv == TypeOK /\ Custody /\ Arbitration

LEMMA InitInv == Init => ExchangeInv
<1>. SUFFICES ASSUME Init PROVE ExchangeInv
  OBVIOUS
<1>1. TypeOK  BY IssuerInitType DEF Init, ExchangeInit, TypeOK, States
<1>2. Custody  BY IssuerInitCustody DEF Init
<1>3. Recorded  BY DEF Init, ExchangeInit, Recorded
<1>4. signed = {}  BY DEF Init, IssuerInit
<1>. QED  BY <1>1, <1>2, <1>3, <1>4 DEF ExchangeInv, Arbitration

\* The issuers' guarantee of custody and the record each exchange object keeps of
\* what it signed hold together in every reachable state.
THEOREM ExchangeInvariant == Spec => []ExchangeInv
<1>1. ExchangeInv /\ [Next]_vars => ExchangeInv'
  BY NextType, NextCustody, NextArbitration DEF ExchangeInv, Arbitration
<1>. QED  BY <1>1, InitInv, PTL DEF Spec

\* The states of the ledgers and of the exchange objects are well typed.
THEOREM TypeCorrect == Spec => []TypeOK
BY ExchangeInvariant, PTL DEF ExchangeInv

LEMMA OneDispositionHolds == ExchangeInv => OneDisposition
<1>. SUFFICES ASSUME ExchangeInv, NEW s \in signed, NEW t \in signed, s.asset = t.asset
              PROVE  s = t
  BY DEF OneDisposition
<1>1. s.asset.agent \in Exchanges
  BY DEF ExchangeInv, TypeOK, IssuerTypeOK, Statement, Asset, Exchanges
<1>2. Justified(s) /\ Justified(t)  BY DEF ExchangeInv, Arbitration
<1>. QED
  BY <1>1, <1>2 DEF ExchangeInv, Arbitration, Recorded, Justified, ReleaseOf, ClaimOf

\* An exchange object never signs two ways of disposing of one asset.
THEOREM DisposesOnce == Spec => []OneDisposition
BY ExchangeInvariant, OneDispositionHolds, PTL

LEMMA PaymentAsRequestedHolds == ExchangeInv => PaymentAsRequested
<1>. SUFFICES ASSUME ExchangeInv, NEW x \in Exchanges, state[x] = "COMPLETED"
              PROVE  LET r == request[x]  a == exchanged[x] IN
                     /\ a.owner # Creator[x]
                     /\ a.type = r.type /\ a.count >= r.count /\ a.count > 0
                     /\ r.owner \in {Unspecified, a.owner}
                     /\ \E i \in Issuers :
                          /\ a \in escrowed[i] \/ ClaimOf(a, Creator[x]) \in redeemed[i]
                          /\ r.authority \in ChainOf[i] \cup {Unspecified}
  BY DEF PaymentAsRequested
<1>. DEFINE r == request[x]  a == exchanged[x]
<1>1. PICK i \in Issuers : a \in attested[i] /\ Matches(r, i, a)
  BY DEF ExchangeInv, Arbitration, Recorded
<1>2. /\ a \in Asset /\ a.agent = x /\ a.owner = exchangedOwner[x]
      /\ a.owner # Creator[x] /\ a.owner # NoParty
      /\ r \in Request /\ r.count > 0
      /\ offered[x].owner = Creator[x]
  BY ExchangeAssumption DEF ExchangeInv, Arbitration, Recorded
<1>3. a.count > 0
  BY <1>1, <1>2, IssuerAssumption DEF Matches, Asset, Request, Counts
<1>4. a \in escrowed[i] \/ ClaimOf(a, Creator[x]) \in redeemed[i]
  <2>1. CASE a \in escrowed[i]  BY <2>1
  <2>2. CASE a \notin escrowed[i]
    <3>1. PICK s \in redeemed[i] \cap signed : s.asset = a
      BY <1>1, <2>2 DEF ExchangeInv, Custody, HeldUntilSigned
    <3>2. Justified(s)  BY DEF ExchangeInv, Arbitration
    <3>3. s = ClaimOf(a, Creator[x])
      BY <1>2, <3>1, <3>2 DEF Justified, ClaimOf, ReleaseOf
    <3>. QED  BY <3>1, <3>3
  <2>. QED  BY <2>1, <2>2
<1>. QED  BY <1>1, <1>2, <1>3, <1>4 DEF Matches

\* A creator whose exchange completed holds, or can still claim, what it asked for.
THEOREM CreatorIsPaid == Spec => []PaymentAsRequested
BY ExchangeInvariant, PaymentAsRequestedHolds, PTL

-----------------------------------------------------------------------------
(* Exchange objects as escrow agents. *)

LEMMA ExchangeSigns ==
  ASSUME ExchangeInv, NEW x \in Exchanges, ExchangeStep(x)
  PROVE  [IssuerNext]_issuerVars
<1>1. ASSUME NEW s, AgentSigns(s), NEW a, NEW p \in Parties, Attested(a),
             s = ReleaseOf(a) \/ s = ClaimOf(a, p)
      PROVE  IssuerNext
  BY <1>1 DEF Attested, IssuerNext
<1>2. state[x] \in States /\ Creator[x] \in Parties
  BY ExchangeAssumption DEF ExchangeInv, TypeOK
<1>3. state[x] # "START" => Attested(offered[x])  BY DEF ExchangeInv, Arbitration, Recorded
<1>4. state[x] = "COMPLETED" => Attested(exchanged[x]) /\ exchangedOwner[x] \in Parties
  BY DEF ExchangeInv, Arbitration, Recorded, Attested
<1>5. CASE \E r \in Requests, i \in Issuers : \E a \in attested[i] : Initialize(x, r, i, a)
  BY <1>5 DEF Initialize
<1>6. CASE CancelExchange(x)  BY <1>6 DEF CancelExchange
<1>7. CASE CancelExchangeAttestation(x)
  BY <1>1, <1>2, <1>3, <1>7 DEF CancelExchangeAttestation
<1>8. CASE \E p \in Parties, i \in Issuers : \E a \in attested[i] : ExchangeAsset(x, p, i, a)
  BY <1>8 DEF ExchangeAsset
<1>9. CASE ClaimExchangedAsset(x)  BY <1>1, <1>2, <1>4, <1>9 DEF ClaimExchangedAsset
<1>10. ASSUME NEW p \in Parties, ClaimOfferedAsset(x, p) PROVE IssuerNext
  BY <1>1, <1>3, <1>10 DEF ClaimOfferedAsset
<1>11. ASSUME NEW p \in Parties, NEW i \in Issuers, NEW a \in attested[i], ReleaseAsset(x, p, i, a)
       PROVE  IssuerNext
  BY <1>1, <1>11 DEF ReleaseAsset, Attested
<1>. QED  BY <1>5, <1>6, <1>7, <1>8, <1>9, <1>10, <1>11 DEF ExchangeStep

\* Exchange objects are escrow agents as the issuers expect them: they sign only about
\* assets that were attested to them.  What holds of issuers under any agents holds
\* under exchange objects: the contracts together implement the issuers' specification.
THEOREM ExchangesAreAgents == Spec => IssuerSpec
<1>1. Init => IssuerInit  BY DEF Init
<1>2. ExchangeInv /\ [Next]_vars => [IssuerNext]_issuerVars
  <2>. SUFFICES ASSUME ExchangeInv, [Next]_vars PROVE [IssuerNext]_issuerVars
    OBVIOUS
  <2>1. CASE \E i \in Issuers : LedgerStep(i) /\ UNCHANGED exchangeVars
    BY <2>1 DEF IssuerNext
  <2>2. CASE \E x \in Exchanges : ExchangeStep(x)  BY <2>2, ExchangeSigns
  <2>3. CASE UNCHANGED vars  BY <2>3 DEF vars
  <2>. QED  BY <2>1, <2>2, <2>3 DEF Next
<1>. QED  BY <1>1, <1>2, ExchangeInvariant, PTL DEF Spec, IssuerSpec

\* Exchanges create and lose nothing: both issuers' books balance through every swap,
\* cancellation and release, what a claimer forfeits by its own claim included.
THEOREM ExchangesConserve == Spec => [](\A i \in Issuers : Conserved(i))
BY ExchangesAreAgents, AssetsConserved

-----------------------------------------------------------------------------
(* Refinement.  The places of the accepted assets are seen in the issuers'    *)
(* ledgers; only settling an accepted asset moves it.                         *)

AcceptedBy(x, a) == a \in {offered[x], exchanged[x]} \ {NoAsset}

LEMMA AcceptedAsset ==
  ASSUME ExchangeInv, NEW x \in Exchanges, NEW a, AcceptedBy(x, a)
  PROVE  a \in Asset /\ a.agent = x /\ Attested(a)
BY DEF AcceptedBy, ExchangeInv, TypeOK, States, Arbitration, Recorded, Attested

\* What an unsettled exchange object was shown in escrow is in escrow.
LEMMA UnsettledIsHeld ==
  ASSUME ExchangeInv, NEW x \in Exchanges, state[x] \in {"START", "OFFERED"},
         NEW a \in Asset, a.agent = x, Attested(a)
  PROVE  InEscrow(a)
<1>1. PICK i \in Issuers : a \in attested[i]  BY DEF Attested
<1>2. \A s \in signed : s.asset # a
  BY UnsettledSignsNothing DEF ExchangeInv
<1>3. a \in escrowed[i]
  BY <1>1, <1>2 DEF ExchangeInv, Custody, HeldUntilSigned
<1>. QED  BY <1>3 DEF InEscrow

\* An asset keeps its place unless the step settles that very asset.
LEMMA PlaceKept ==
  ASSUME ExchangeInv, NEW a \in Asset, Attested(a), NEW p,
         NEW i \in Issuers,
         \/ UNCHANGED custodyVars
         \/ \E b \in Asset : TakesIn(i, b) \/ Attests(i, b)
         \/ \E b \in Asset, s \in Statement : b # a /\ Settles(i, b, s)
  PROVE  /\ PlaceOf(a, p)' = PlaceOf(a, p)
         /\ InEscrow(a)' = InEscrow(a)
<1>. USE DEF ExchangeInv, TypeOK, IssuerTypeOK
<1>1. CASE UNCHANGED custodyVars
  BY <1>1 DEF custodyVars, PlaceOf, InEscrow, Honoured, Forfeited
<1>2. ASSUME NEW b \in Asset, TakesIn(i, b)
      PROVE  PlaceOf(a, p)' = PlaceOf(a, p) /\ InEscrow(a)' = InEscrow(a)
  <2>1. a # b
    BY <1>2 DEF TakesIn, Custody, IdsDrawn, Attested
  <2>2. InEscrow(a)' <=> InEscrow(a)  BY <1>2, <2>1 DEF TakesIn, InEscrow
  <2>3. redeemed' = redeemed /\ forfeited' = forfeited  BY <1>2 DEF TakesIn
  <2>. QED  BY <2>2, <2>3 DEF PlaceOf, InEscrow, Honoured, Forfeited
<1>3. ASSUME NEW b \in Asset, Attests(i, b)
      PROVE  PlaceOf(a, p)' = PlaceOf(a, p) /\ InEscrow(a)' = InEscrow(a)
  BY <1>3 DEF Attests, PlaceOf, InEscrow, Honoured, Forfeited
<1>4. ASSUME NEW b \in Asset, NEW s \in Statement, b # a, Settles(i, b, s)
      PROVE  PlaceOf(a, p)' = PlaceOf(a, p) /\ InEscrow(a)' = InEscrow(a)
  <2>1. InEscrow(a)' <=> InEscrow(a)  BY <1>4 DEF Settles, InEscrow
  <2>2. ASSUME NEW t, t.asset = a PROVE Honoured(t)' <=> Honoured(t)
    BY <1>4, <2>2 DEF Settles, Honoured
  <2>5. ASSUME NEW t, t.asset = a PROVE Forfeited(t)' <=> Forfeited(t)
    <3>1. CASE forfeited' = forfeited  BY <3>1 DEF Forfeited
    <3>2. CASE forfeited' = [forfeited EXCEPT ![i] = @ \cup {s}]
      <4>1. t # s  BY <1>4, <2>5 DEF Settles
      <4>. QED  BY <3>2, <4>1 DEF Forfeited
    <3>. QED  BY <1>4, <3>1, <3>2 DEF Settles
  <2>3. ClaimOf(a, p).asset = a /\ ReleaseOf(a).asset = a
    BY DEF ClaimOf, ReleaseOf
  <2>4. (Honoured(ClaimOf(a, p))' <=> Honoured(ClaimOf(a, p)))
        /\ (Honoured(ReleaseOf(a))' <=> Honoured(ReleaseOf(a)))
    BY <2>2, <2>3
  <2>6. Forfeited(ClaimOf(a, p))' <=> Forfeited(ClaimOf(a, p))  BY <2>3, <2>5
  <2>. QED  BY <2>1, <2>4, <2>6 DEF PlaceOf, InEscrow
<1>. QED  BY <1>1, <1>2, <1>3, <1>4

\* Settling takes the asset from "held" to where the statement says.
LEMMA PlaceSettled ==
  ASSUME ExchangeInv, NEW i \in Issuers, NEW a \in Asset, NEW s \in Statement,
         Settles(i, a, s), NEW p
  PROVE  /\ PlaceOf(a, p) = "held"
         /\ p # NoParty /\ s = ClaimOf(a, p) => PlaceOf(a, p)' \in Swap!Taken
         /\ p = NoParty /\ s = ReleaseOf(a) => PlaceOf(a, p)' = "returned"
<1>. USE DEF ExchangeInv, TypeOK, IssuerTypeOK
<1>1. a # NoAsset  BY ExchangeAssumption
<1>2. InEscrow(a)  BY DEF Settles, InEscrow
<1>3. ~ InEscrow(a)'
  <2>1. \A j \in Issuers : a \in escrowed[j] => j = i
    BY DEF Settles, Custody, EscrowUnique
  <2>. QED  BY <2>1 DEF Settles, InEscrow
<1>4. Honoured(s)'  BY DEF Settles, Honoured
<1>. QED  BY <1>1, <1>2, <1>3, <1>4 DEF PlaceOf, Swap!Taken

\* The step of the abstract swap that settling asset a with statement s is.
LEMMA SettlingStep ==
  ASSUME ExchangeInv, NEW i \in Issuers, NEW a \in Asset, NEW s \in Statement,
         Settles(i, a, s), UNCHANGED exchangeVars,
         NEW x \in Exchanges, AcceptedBy(x, a)
  PROVE  \/ /\ state[x] = "CANCELLED" /\ OfferPlace(x) = "held"
            /\ OfferPlace(x)' = "returned" /\ PaymentPlace(x)' = PaymentPlace(x)
         \/ /\ state[x] = "COMPLETED" /\ OfferPlace(x) = "held"
            /\ OfferPlace(x)' \in Swap!Taken /\ PaymentPlace(x)' = PaymentPlace(x)
         \/ /\ state[x] = "COMPLETED" /\ PaymentPlace(x) = "held"
            /\ PaymentPlace(x)' \in Swap!Taken /\ OfferPlace(x)' = OfferPlace(x)
<1>. USE DEF OfferPlace, PaymentPlace
<1>1. s \in signed /\ s.asset = a  BY DEF Settles
<1>2. Justified(s) /\ a.agent = x
  BY <1>1, AcceptedAsset DEF ExchangeInv, Arbitration
<1>3. /\ offered' = offered /\ exchanged' = exchanged
      /\ exchangedOwner' = exchangedOwner
  BY DEF exchangeVars
<1>4. CASE state[x] = "CANCELLED"
  <2>1. a = offered[x] /\ exchanged[x] = NoAsset /\ exchangedOwner[x] = NoParty
    BY <1>4 DEF AcceptedBy, ExchangeInv, Arbitration, Recorded
  <2>2. s = ReleaseOf(a)
    BY <1>1, <1>2, <1>4, <2>1 DEF Justified
  <2>3. PlaceOf(a, NoParty) = "held" /\ PlaceOf(a, NoParty)' = "returned"
    BY <2>2, PlaceSettled
  <2>4. PaymentPlace(x)' = PaymentPlace(x)  BY <1>3, <2>1 DEF PlaceOf
  <2>. QED  BY <1>3, <1>4, <2>1, <2>3, <2>4
<1>5. CASE state[x] = "COMPLETED"
  <2>1. /\ offered[x] \in Asset /\ Attested(offered[x])
        /\ exchanged[x] \in Asset /\ Attested(exchanged[x])
        /\ offered[x].owner = Creator[x] /\ exchanged[x].owner = exchangedOwner[x]
        /\ exchangedOwner[x] # Creator[x] /\ exchangedOwner[x] # NoParty
        /\ Creator[x] # NoParty
    BY <1>5, ExchangeAssumption DEF ExchangeInv, Arbitration, Recorded, Attested
  <2>2. CASE a = offered[x]
    <3>1. s = ClaimOf(a, exchangedOwner[x])
      BY <1>1, <1>2, <1>5, <2>1, <2>2 DEF Justified, ClaimOf, ReleaseOf
    <3>2. OfferPlace(x) = "held" /\ OfferPlace(x)' \in Swap!Taken
      BY <1>3, <2>1, <2>2, <3>1, PlaceSettled
    <3>3. PaymentPlace(x)' = PaymentPlace(x)
      BY <1>3, <2>1, <2>2, PlaceKept
    <3>. QED  BY <1>5, <3>2, <3>3
  <2>3. CASE a = exchanged[x]
    <3>1. s = ClaimOf(a, Creator[x])
      BY <1>1, <1>2, <1>5, <2>1, <2>3 DEF Justified, ClaimOf, ReleaseOf
    <3>2. PaymentPlace(x) = "held" /\ PaymentPlace(x)' \in Swap!Taken
      BY <1>3, <2>1, <2>3, <3>1, PlaceSettled
    <3>3. OfferPlace(x)' = OfferPlace(x)
      BY <1>3, <2>1, <2>3, PlaceKept
    <3>. QED  BY <1>5, <3>2, <3>3
  <2>. QED  BY <2>2, <2>3 DEF AcceptedBy
<1>. QED  BY <1>1, <1>2, <1>4, <1>5 DEF Justified

\* An object's places are kept by a ledger step that settles nothing it accepted.
LEMMA PlacesKept ==
  ASSUME ExchangeInv, NEW i \in Issuers, UNCHANGED exchangeVars, NEW x \in Exchanges,
         \/ UNCHANGED custodyVars
         \/ \E b \in Asset : TakesIn(i, b) \/ Attests(i, b)
         \/ \E b \in Asset, s \in Statement : ~ AcceptedBy(x, b) /\ Settles(i, b, s)
  PROVE  OfferPlace(x)' = OfferPlace(x) /\ PaymentPlace(x)' = PaymentPlace(x)
<1>1. /\ offered' = offered /\ exchanged' = exchanged
      /\ exchangedOwner' = exchangedOwner
  BY DEF exchangeVars
<1>2. ASSUME NEW a, NEW p, a \in {offered[x], exchanged[x]}
      PROVE  PlaceOf(a, p)' = PlaceOf(a, p)
  <2>1. CASE a = NoAsset  BY <2>1 DEF PlaceOf
  <2>2. CASE AcceptedBy(x, a)
    <3>1. a \in Asset /\ Attested(a)  BY <2>2, AcceptedAsset
    <3>. QED  BY <2>2, <3>1, PlaceKept
  <2>. QED  BY <1>2, <2>1, <2>2 DEF AcceptedBy
<1>. QED  BY <1>1, <1>2 DEF OfferPlace, PaymentPlace

-----------------------------------------------------------------------------
(* The steps of the composition are steps of the swaps. *)

LEMMA PhaseNames ==
  /\ PhaseOf["START"] = "open" /\ PhaseOf["OFFERED"] = "offered"
  /\ PhaseOf["COMPLETED"] = "matched" /\ PhaseOf["CANCELLED"] = "cancelled"
BY DEF PhaseOf

LEMMA LedgerStepRefines ==
  ASSUME ExchangeInv, NEW i \in Issuers, LedgerStep(i), UNCHANGED exchangeVars
  PROVE  [Swap!Next]_(Swap!swapVars)
<1>. USE DEF Swap!swapVars
<1>1. state' = state  BY DEF exchangeVars
<1>2. CASE \A x \in Exchanges :
             OfferPlace(x)' = OfferPlace(x) /\ PaymentPlace(x)' = PaymentPlace(x)
  BY <1>1, <1>2
<1>3. CASE \E x \in Exchanges, a \in Asset, s \in Statement :
             AcceptedBy(x, a) /\ Settles(i, a, s)
  <2>1. PICK x \in Exchanges, a \in Asset, s \in Statement :
               AcceptedBy(x, a) /\ Settles(i, a, s)
    BY <1>3
  <2>2. ASSUME NEW y \in Exchanges \ {x}
        PROVE  OfferPlace(y)' = OfferPlace(y) /\ PaymentPlace(y)' = PaymentPlace(y)
    <3>1. ~ AcceptedBy(y, a)  BY <2>1, AcceptedAsset
    <3>. QED  BY <2>1, <3>1, PlacesKept
  <2>4. Swap!Return(x) \/ Swap!DeliverOffer(x) \/ Swap!DeliverPayment(x)
    <3>1. \/ /\ state[x] = "CANCELLED" /\ OfferPlace(x) = "held"
             /\ OfferPlace(x)' = "returned" /\ PaymentPlace(x)' = PaymentPlace(x)
          \/ /\ state[x] = "COMPLETED" /\ OfferPlace(x) = "held"
             /\ OfferPlace(x)' \in Swap!Taken /\ PaymentPlace(x)' = PaymentPlace(x)
          \/ /\ state[x] = "COMPLETED" /\ PaymentPlace(x) = "held"
             /\ PaymentPlace(x)' \in Swap!Taken /\ OfferPlace(x)' = OfferPlace(x)
      BY <2>1, SettlingStep
    <3>. QED
      BY <1>1, <2>2, <3>1, PhaseNames
      DEF Swap!Return, Swap!DeliverOffer, Swap!DeliverPayment
  <2>. QED  BY <2>4 DEF Swap!Next
<1>. QED
  <2>1. \/ UNCHANGED custodyVars
        \/ \E a \in Asset : TakesIn(i, a) \/ Attests(i, a)
        \/ \E a \in Asset, s \in Statement : Settles(i, a, s)
    BY LedgerStepCustody DEF ExchangeInv, TypeOK
  <2>. QED  BY <1>2, <1>3, <2>1, PlacesKept

LEMMA ExchangeStepRefines ==
  ASSUME ExchangeInv, NEW x \in Exchanges, ExchangeStep(x)
  PROVE  [Swap!Next]_(Swap!swapVars)
<1>. USE DEF Swap!swapVars
<1>0. ASSUME UNCHANGED issuerVars, NEW a, NEW p
      PROVE  PlaceOf(a, p)' = PlaceOf(a, p)
  BY <1>0 DEF issuerVars, ledgerVars, PlaceOf, InEscrow, Honoured, Forfeited
<1>1. CASE \E r \in Requests, i \in Issuers : \E a \in attested[i] : Initialize(x, r, i, a)
  <2>1. PICK r \in Requests, i \in Issuers : \E a \in attested[i] : Initialize(x, r, i, a)
    BY <1>1
  <2>2. PICK a \in attested[i] : Initialize(x, r, i, a)
    BY <2>1
  <2>3. a \in Asset /\ a # NoAsset /\ Attested(a) /\ a.agent = x
    BY <2>2, AttestedIsAsset, ExchangeAssumption DEF ExchangeInv, TypeOK, Attested, Initialize, Offerable
  <2>4. InEscrow(a)  BY <2>2, <2>3, UnsettledIsHeld DEF Initialize, Offerable
  <2>5. \A p : PlaceOf(a, p) = "held"  BY <2>3, <2>4 DEF PlaceOf
  <2>6. \A y \in Exchanges :
          /\ PaymentPlace(y)' = PaymentPlace(y)
          /\ OfferPlace(y)' = IF y = x THEN "held" ELSE OfferPlace(y)
    BY <1>0, <2>2, <2>5 DEF Initialize, OfferPlace, PaymentPlace, ExchangeInv, TypeOK
  <2>7. state[x] = "START" /\ state' = [state EXCEPT ![x] = "OFFERED"]
    BY <2>2 DEF Initialize, Offerable
  <2>8. \A y \in Exchanges :
          PhaseOf[state'[y]] = IF y = x THEN "offered" ELSE PhaseOf[state[y]]
    <3>1. \A y \in Exchanges : state'[y] = IF y = x THEN "OFFERED" ELSE state[y]
      BY <2>7 DEF ExchangeInv, TypeOK
    <3>. QED  BY <3>1, PhaseNames
  <2>9. Swap!MakeOffer(x)
    BY <2>6, <2>7, <2>8, PhaseNames DEF Swap!MakeOffer
  <2>. QED  BY <2>9 DEF Swap!Next
<1>2. CASE CancelExchange(x)
  <2>1. \A y \in Exchanges :
          PaymentPlace(y)' = PaymentPlace(y) /\ OfferPlace(y)' = OfferPlace(y)
    BY <1>0, <1>2 DEF CancelExchange, OfferPlace, PaymentPlace
  <2>2. \A y \in Exchanges :
          PhaseOf[state'[y]] = IF y = x THEN "cancelled" ELSE PhaseOf[state[y]]
    <3>1. \A y \in Exchanges : state'[y] = IF y = x THEN "CANCELLED" ELSE state[y]
      BY <1>2 DEF ExchangeInv, TypeOK, CancelExchange
    <3>. QED  BY <3>1, PhaseNames
  <2>3. Swap!Cancel(x)
    BY <1>2, <2>1, <2>2, PhaseNames DEF CancelExchange, Swap!Cancel
  <2>. QED  BY <2>3 DEF Swap!Next
<1>3. CASE \E p \in Parties, i \in Issuers : \E a \in attested[i] : ExchangeAsset(x, p, i, a)
  <2>1. PICK p \in Parties, i \in Issuers : \E a \in attested[i] : ExchangeAsset(x, p, i, a)
    BY <1>3
  <2>2. PICK a \in attested[i] : ExchangeAsset(x, p, i, a)
    BY <2>1
  <2>3. a \in Asset /\ a # NoAsset /\ Attested(a) /\ a.agent = x
    BY <2>2, AttestedIsAsset, ExchangeAssumption DEF ExchangeInv, TypeOK, Attested, ExchangeAsset, Exchangeable
  <2>4. /\ offered[x] \in Asset /\ offered[x] # NoAsset
        /\ Attested(offered[x]) /\ offered[x].agent = x
    BY <2>2, ExchangeAssumption DEF ExchangeInv, Arbitration, Recorded, ExchangeAsset, Exchangeable
  <2>5. InEscrow(a) /\ InEscrow(offered[x])
    BY <2>2, <2>3, <2>4, UnsettledIsHeld DEF ExchangeAsset, Exchangeable
  <2>6. \A q : PlaceOf(a, q) = "held" /\ PlaceOf(offered[x], q) = "held"
    BY <2>3, <2>4, <2>5 DEF PlaceOf
  <2>7. \A y \in Exchanges :
          /\ OfferPlace(y)' = OfferPlace(y)
          /\ PaymentPlace(y)' = IF y = x THEN "held" ELSE PaymentPlace(y)
    BY <1>0, <2>2, <2>6 DEF ExchangeAsset, OfferPlace, PaymentPlace, ExchangeInv, TypeOK
  <2>8. state[x] = "OFFERED" /\ state' = [state EXCEPT ![x] = "COMPLETED"]
    BY <2>2 DEF ExchangeAsset, Exchangeable
  <2>9. \A y \in Exchanges :
          PhaseOf[state'[y]] = IF y = x THEN "matched" ELSE PhaseOf[state[y]]
    <3>1. \A y \in Exchanges : state'[y] = IF y = x THEN "COMPLETED" ELSE state[y]
      BY <2>8 DEF ExchangeInv, TypeOK
    <3>. QED  BY <3>1, PhaseNames
  <2>10. Swap!Match(x)
    BY <2>7, <2>8, <2>9, PhaseNames DEF Swap!Match
  <2>. QED  BY <2>10 DEF Swap!Next
<1>4. ASSUME NEW s, AgentSigns(s), UNCHANGED exchangeVars
      PROVE  UNCHANGED Swap!swapVars
  BY <1>4 DEF AgentSigns, ledgerVars, exchangeVars, OfferPlace, PaymentPlace,
     PlaceOf, InEscrow, Honoured, Forfeited
<1>. QED
  BY <1>1, <1>2, <1>3, <1>4
  DEF ExchangeStep, CancelExchangeAttestation, ClaimExchangedAsset,
      ClaimOfferedAsset, ReleaseAsset

\* The ledgers and exchange objects together implement the abstract fair swap:
\* whatever the parties do, both legs of a matched swap change hands or stay held
\* for their new owners, and the offer of a cancelled one goes back.
THEOREM SwapImplemented == Spec => SwapRefined
<1>1. Init => Swap!Init
  BY DEF Init, ExchangeInit, Swap!Init, PhaseOf, OfferPlace, PaymentPlace, PlaceOf
<1>2. ExchangeInv /\ [Next]_vars => [Swap!Next]_(Swap!swapVars)
  <2>. SUFFICES ASSUME ExchangeInv, [Next]_vars PROVE [Swap!Next]_(Swap!swapVars)
    OBVIOUS
  <2>1. CASE \E i \in Issuers : LedgerStep(i) /\ UNCHANGED exchangeVars
    BY <2>1, LedgerStepRefines
  <2>2. CASE \E x \in Exchanges : ExchangeStep(x)  BY <2>2, ExchangeStepRefines
  <2>3. CASE UNCHANGED vars
    BY <2>3 DEF vars, issuerVars, ledgerVars, exchangeVars, Swap!swapVars,
       OfferPlace, PaymentPlace, PlaceOf, InEscrow, Honoured, Forfeited
  <2>. QED  BY <2>1, <2>2, <2>3 DEF Next
<1>. QED  BY <1>1, <1>2, ExchangeInvariant, PTL DEF Spec, SwapRefined, Swap!Spec

-----------------------------------------------------------------------------
(* Every invocation a command makes is a step of the exchange objects or of  *)
(* the issuers' ledgers; whatever else a command does is the client's own.   *)

LEMMA OrderOf ==
  ASSUME OrderTypeOK, NEW p \in Parties, order[p] # NoOrder
  PROVE  order[p] \in Exchanges
BY DEF OrderTypeOK

LEMMA LedgerCallIsNext ==
  ASSUME NEW i \in Issuers, LedgerStep(i), UNCHANGED exchangeVars
  PROVE  Next
BY DEF Next

LEMMA ExchangeCallIsNext ==
  ASSUME NEW x \in Exchanges, ExchangeStep(x)
  PROVE  Next
BY DEF Next

LEMMA ProceedIsNext ==
  ASSUME TypeOK, OrderTypeOK, NEW p \in Parties, Ready(p), Proceed(p)
  PROVE  [Next]_vars
<1>. USE OrderAssumption
<1>1. ledger[p] \in Issuers  BY DEF OrderTypeOK
<1>2. ~ Idle(p) => order[p] \in Exchanges  BY OrderOf DEF Ready, Idle
<1>3. CASE OfferEscrow(p)
  <2>1. order[p] \in Agents  BY <1>2, <1>3 DEF OfferEscrow, Idle, Exchanges
  <2>. QED  BY <1>1, <1>3, <2>1, LedgerCallIsNext DEF OfferEscrow, LedgerStep
<1>4. CASE OpEscrowAttestation(p)
  <2>1. order[p] \in Agents  BY <1>2, <1>4 DEF OpEscrowAttestation, Idle, Exchanges
  <2>. QED  BY <1>1, <1>4, <2>1, LedgerCallIsNext DEF OpEscrowAttestation, LedgerStep
<1>5. CASE OpInitialize(p)
  <2>1. /\ Initialize(order[p], RequestOf(p), ledger[p], paper[p])
        /\ RequestOf(p) \in Requests /\ paper[p] \in attested[ledger[p]]
    BY <1>5 DEF OpInitialize, Initialize, Offerable, Authoritative
  <2>2. order[p] \in Exchanges  BY <1>2, <1>5 DEF OpInitialize, Idle
  <2>. QED  BY <1>1, <2>1, <2>2, ExchangeCallIsNext DEF ExchangeStep
<1>6. CASE SaveOrder(p)  BY <1>6 DEF SaveOrder
<1>7. CASE OpExchange(p)
  <2>1. /\ ExchangeAsset(order[p], p, ledger[p], paper[p])
        /\ paper[p] \in attested[ledger[p]]
    BY <1>7 DEF OpExchange, ExchangeAsset, Exchangeable, Authoritative
  <2>2. order[p] \in Exchanges  BY <1>2, <1>7 DEF OpExchange, Idle
  <2>. QED  BY <1>1, <2>1, <2>2, ExchangeCallIsNext DEF ExchangeStep
<1>8. CASE OpCancelAttestation(p)
  <2>1. order[p] \in Exchanges  BY <1>2, <1>8 DEF OpCancelAttestation, Idle
  <2>. QED  BY <1>8, <2>1, ExchangeCallIsNext DEF OpCancelAttestation, ExchangeStep
<1>9. CASE OpRelease(p)
  BY <1>1, <1>9, LedgerCallIsNext DEF OpRelease, Ready, LedgerStep
<1>10. CASE OpClaim(p)
  <2>1. /\ Claim(ledger[p], p, paper[p], paper[p].asset.count) /\ UNCHANGED exchangeVars
        /\ paper[p] \in signed
    BY <1>10 DEF OpClaim, Ready
  <2>2. paper[p].asset.count \in Counts  BY <2>1 DEF TypeOK, IssuerTypeOK, Statement, Asset
  <2>. QED  BY <1>1, <2>1, <2>2, LedgerCallIsNext DEF LedgerStep
<1>. QED
  BY <1>3, <1>4, <1>5, <1>6, <1>7, <1>8, <1>9, <1>10 DEF Proceed

LEMMA CommandIsNext ==
  ASSUME TypeOK, OrderTypeOK, NEW p \in Parties, Command(p)
  PROVE  [Next]_vars
<1>1. CASE \E x \in Exchanges : CreateOrder(p, x) \/ ImportOrder(p, x)
  BY <1>1 DEF CreateOrder, ImportOrder
<1>2. CASE \E i \in Issuers, count \in 0 .. IntMax : MatchOrder(p, i, count)
  <2>1. PICK i \in Issuers, count \in 0 .. IntMax : MatchOrder(p, i, count)
    BY <1>2
  <2>2. order[p] \in Agents  BY <2>1, OrderOf DEF MatchOrder, Exchanges
  <2>. QED  BY <2>1, <2>2, LedgerCallIsNext DEF MatchOrder, LedgerStep
<1>3. CASE CancelOrder(p)
  BY <1>3, OrderOf, ExchangeCallIsNext DEF CancelOrder, ExchangeStep
<1>4. CASE ClaimOffer(p)
  BY <1>4, OrderOf, ExchangeCallIsNext DEF ClaimOffer, ExchangeStep
<1>5. CASE ClaimPayment(p)
  BY <1>5, OrderOf, ExchangeCallIsNext DEF ClaimPayment, ExchangeStep
<1>6. CASE ReleaseOrder(p)  BY <1>6 DEF ReleaseOrder, allVars
<1>7. CASE \E i \in Issuers, count \in 0 .. IntMax : IssueAssets(p, i, count)
  BY <1>7, LedgerCallIsNext DEF IssueAssets, LedgerStep
<1>8. CASE \E q \in Parties, i \in Issuers, count \in 0 .. IntMax :
             TransferAssets(p, q, i, count)
  BY <1>8, LedgerCallIsNext DEF TransferAssets, LedgerStep
<1>. QED
  BY <1>1, <1>2, <1>3, <1>4, <1>5, <1>6, <1>7, <1>8 DEF Command

LEMMA StopsNothing ==
  ASSUME NEW p \in Parties, Refused(p) \/ Fail(p) \/ Restart(p)
  PROVE  UNCHANGED vars
BY DEF Refused, Fail, Restart, Stop

LEMMA OrderStepIsNext ==
  ASSUME TypeOK, OrderInv, [OrderNext]_allVars
  PROVE  [Next]_vars
<1>1. CASE \E i \in Issuers : InitializeIssuer(i) /\ UNCHANGED <<exchangeVars, clientVars>>
  BY <1>1, LedgerCallIsNext DEF LedgerStep
<1>2. CASE \E p \in Parties :
             Command(p) \/ Proceed(p) \/ Refused(p) \/ Fail(p) \/ Restart(p)
  BY <1>2, CommandIsNext, ProceedIsNext, StopsNothing DEF OrderInv
<1>3. CASE UNCHANGED allVars  BY <1>3 DEF allVars
<1>. QED  BY <1>1, <1>2, <1>3 DEF OrderNext

-----------------------------------------------------------------------------
(* What an invocation leaves as it was, as far as the commands of the other  *)
(* parties rely on it.                                                       *)

Accepts(x, a) == a \in {offered[x], exchanged[x]}

\* What q has in escrow and no order accepted stays so, and so does an order of
\* q that is not initialized.
KeptFor(q) ==
  /\ \A i \in Issuers : \A a \in escrowed[i] :
       /\ a.owner = q
       /\ ~ Accepts(a.agent, a)
       => a \in escrowed'[i] /\ ~ Accepts(a.agent, a)'
  /\ \A x \in Exchanges :
       Creator[x] = q /\ state[x] = "START" => state'[x] = "START"

\* Statements and initialized orders stay.
KeptForAll ==
  /\ \A i \in Issuers : attested[i] \subseteq attested'[i]
  /\ signed \subseteq signed'
  /\ \A x \in Exchanges : state[x] # "START" => state'[x] # "START"

LEMMA LedgerStepKeeps ==
  ASSUME TypeOK, SignedAccepted, NEW i \in Issuers, LedgerStep(i), UNCHANGED exchangeVars
  PROVE  KeptForAll /\ SignedAccepted' /\ \A q \in Parties : KeptFor(q)
<1>. USE DEF exchangeVars
<1>1. signed' = signed /\ \A j \in Issuers : attested[j] \subseteq attested[j]'
  BY LedgerStepMonotone DEF TypeOK
<1>2. KeptForAll  BY <1>1 DEF KeptForAll
<1>3. SignedAccepted'  BY <1>1 DEF SignedAccepted
<1>4. \A j \in Issuers : \A a \in escrowed[j] : ~ Accepts(a.agent, a) => a \in escrowed'[j]
  <2>1. CASE UNCHANGED custodyVars  BY <2>1 DEF custodyVars
  <2>2. CASE \E a \in Asset : TakesIn(i, a) \/ Attests(i, a)
    BY <2>2 DEF TakesIn, Attests, TypeOK, IssuerTypeOK
  <2>3. CASE \E a \in Asset, s \in Statement : Settles(i, a, s)
    <3>1. PICK a \in Asset, s \in Statement : Settles(i, a, s)  BY <2>3
    <3>2. Accepts(a.agent, a)
      BY <3>1 DEF Settles, SignedAccepted, Accepts
    <3>. QED  BY <3>1, <3>2 DEF Settles, TypeOK, IssuerTypeOK
  <2>. QED  BY <2>1, <2>2, <2>3, LedgerStepCustody DEF TypeOK
<1>5. \A x, a : Accepts(x, a)' <=> Accepts(x, a)  BY DEF Accepts
<1>6. \A q \in Parties : KeptFor(q)  BY <1>4, <1>5 DEF KeptFor
<1>. QED  BY <1>2, <1>3, <1>6

LEMMA SigningKeeps ==
  ASSUME SignedAccepted, NEW s, AgentSigns(s), UNCHANGED exchangeVars,
         Accepts(s.asset.agent, s.asset)
  PROVE  KeptForAll /\ SignedAccepted' /\ \A q \in Parties : KeptFor(q)
<1>. USE DEF AgentSigns, exchangeVars, ledgerVars
<1>1. KeptForAll  BY DEF KeptForAll
<1>2. SignedAccepted'  BY DEF SignedAccepted, Accepts
<1>3. \A q \in Parties : KeptFor(q)  BY DEF KeptFor, Accepts
<1>. QED  BY <1>1, <1>2, <1>3

\* The step of a party that decides an open or offered order disturbs nobody else.
LEMMA DecidingKeeps ==
  ASSUME TypeOK, Arbitration, SignedAccepted,
         NEW x \in Exchanges, NEW p \in Parties, NEW a,
         state[x] \in {"START", "OFFERED"}, state'[x] # "START",
         state[x] = "START" => Creator[x] = p,
         UNCHANGED issuerVars, a.owner = p,
         \A b : Accepts(x, b)' => Accepts(x, b) \/ b = a,
         \A y \in Exchanges \ {x} : UNCHANGED <<state[y], offered[y], exchanged[y]>>
  PROVE  KeptForAll /\ SignedAccepted' /\ \A q \in Parties \ {p} : KeptFor(q)
<1>. USE DEF issuerVars, ledgerVars
<1>1. KeptForAll
  <2>1. \A y \in Exchanges : state[y] # "START" => state'[y] # "START"
    OBVIOUS
  <2>. QED  BY <2>1 DEF KeptForAll
<1>2. SignedAccepted'
  <2>. SUFFICES ASSUME NEW s \in signed
                PROVE  s.asset \in {offered'[s.asset.agent], exchanged'[s.asset.agent]}
    BY DEF SignedAccepted
  <2>1. s.asset.agent \in Exchanges
    BY DEF TypeOK, IssuerTypeOK, Statement, Asset, Exchanges
  <2>2. s.asset.agent # x  BY UnsettledSignsNothing
  <2>. QED  BY <2>1, <2>2 DEF SignedAccepted
<1>3. ASSUME NEW q \in Parties \ {p} PROVE KeptFor(q)
  <2>1. ASSUME NEW i \in Issuers, NEW b \in escrowed[i], b.owner = q, ~ Accepts(b.agent, b)
        PROVE  b \in escrowed'[i] /\ ~ Accepts(b.agent, b)'
    <3>1. b.agent \in Exchanges  BY DEF TypeOK, IssuerTypeOK, Asset, Exchanges
    <3>2. b # a  BY <2>1
    <3>3. CASE b.agent = x  BY <2>1, <3>2, <3>3
    <3>4. CASE b.agent # x  BY <2>1, <3>1, <3>4 DEF Accepts
    <3>. QED  BY <3>3, <3>4
  <2>2. \A y \in Exchanges : Creator[y] = q /\ state[y] = "START" => state'[y] = "START"
    OBVIOUS
  <2>. QED  BY <2>1, <2>2 DEF KeptFor
<1>. QED  BY <1>1, <1>2, <1>3

LEMMA InitializeKeeps ==
  ASSUME TypeOK, Arbitration, SignedAccepted, NEW x \in Exchanges,
         NEW r, NEW i, NEW a, Initialize(x, r, i, a)
  PROVE  /\ KeptForAll /\ SignedAccepted' /\ state'[x] = "OFFERED"
         /\ \A q \in Parties \ {Creator[x]} : KeptFor(q)
<1>. USE DEF Initialize, Offerable
<1>1. Creator[x] \in Parties  BY ExchangeAssumption
<1>2. state'[x] = "OFFERED" /\ state[x] = "START"  BY DEF TypeOK
<1>3. \A b : Accepts(x, b)' => Accepts(x, b) \/ b = a  BY DEF TypeOK, Accepts
<1>4. \A y \in Exchanges \ {x} : UNCHANGED <<state[y], offered[y], exchanged[y]>>
  BY DEF TypeOK
<1>. QED  BY <1>1, <1>2, <1>3, <1>4, DecidingKeeps

LEMMA ExchangeAssetKeeps ==
  ASSUME TypeOK, Arbitration, SignedAccepted, NEW x \in Exchanges, NEW p \in Parties,
         NEW i, NEW a, ExchangeAsset(x, p, i, a)
  PROVE  KeptForAll /\ SignedAccepted' /\ \A q \in Parties \ {p} : KeptFor(q)
<1>. USE DEF ExchangeAsset, Exchangeable
<1>1. state[x] = "OFFERED" /\ state'[x] = "COMPLETED"  BY DEF TypeOK
<1>2. \A b : Accepts(x, b)' => Accepts(x, b) \/ b = a  BY DEF TypeOK, Accepts
<1>3. \A y \in Exchanges \ {x} : UNCHANGED <<state[y], offered[y], exchanged[y]>>
  BY DEF TypeOK
<1>. QED  BY <1>1, <1>2, <1>3, DecidingKeeps

LEMMA CancelKeeps ==
  ASSUME TypeOK, SignedAccepted, NEW x \in Exchanges, CancelExchange(x)
  PROVE  KeptForAll /\ SignedAccepted' /\ \A q \in Parties : KeptFor(q)
<1>. USE DEF CancelExchange, issuerVars, ledgerVars
<1>1. \A y \in Exchanges : (state'[y] = "START") <=> (state[y] = "START")  BY DEF TypeOK
<1>2. KeptForAll  BY <1>1 DEF KeptForAll
<1>3. SignedAccepted'  BY DEF SignedAccepted
<1>4. \A q \in Parties : KeptFor(q)  BY <1>1 DEF KeptFor, Accepts
<1>. QED  BY <1>2, <1>3, <1>4

-----------------------------------------------------------------------------
(* The invariant of the commands: one party's step at a time. *)

ClientKeeps(q) ==
  /\ order'[q] = order[q] /\ pc'[q] = pc[q]
  /\ paper'[q] = paper[q] /\ ledger'[q] = ledger[q]

LEMMA OtherReady ==
  ASSUME OrderTypeOK, NEW q \in Parties, Ready(q), ClientKeeps(q), KeptFor(q), KeptForAll
  PROVE  Ready(q)'
<1>. USE DEF Ready, ClientKeeps
<1>1. ledger[q] \in Issuers  BY DEF OrderTypeOK
<1>2. order[q] # NoOrder => order[q] \in Exchanges  BY OrderOf
<1>3. \A a \in escrowed[ledger[q]] : OnHand(q, a) => OnHand(q, a)' /\ a \in escrowed'[ledger'[q]]
  BY <1>1 DEF OnHand, KeptFor, Accepts
<1>4. pc'[q] # "idle" => order'[q] # NoOrder  OBVIOUS
<1>5. pc'[q] \in {"offer_escrow", "offer_attestation", "initialize"} =>
        Creator[order'[q]] = q /\ state'[order'[q]] = "START"
  BY <1>2 DEF KeptFor
<1>6. pc'[q] = "save" => state'[order'[q]] # "START"  BY <1>2 DEF KeptForAll
<1>7. pc'[q] \in {"offer_attestation", "match_attestation"} =>
        \E a \in escrowed'[ledger'[q]] : OnHand(q, a)'
  BY <1>3
<1>8. pc'[q] \in {"initialize", "exchange"} =>
        OnHand(q, paper[q])' /\ paper'[q] \in attested'[ledger'[q]]
  BY <1>1, <1>3 DEF OnHand, KeptForAll
<1>9. pc'[q] \in {"release", "claim"} => paper'[q] \in signed'  BY DEF KeptForAll
<1>. QED  BY <1>4, <1>5, <1>6, <1>7, <1>8, <1>9 DEF OnHand

LEMMA FiledKept ==
  ASSUME FiledIsInitialized, KeptForAll, stored' = stored
  PROVE  FiledIsInitialized'
BY DEF FiledIsInitialized, KeptForAll

LEMMA CreatedFirstKept ==
  ASSUME OrderTypeOK, CreatedFirst, created' = created, NEW p \in Parties,
         \A x \in Exchanges \ {order[p]} : state'[x] = state[x]
  PROVE  CreatedFirst'
<1>1. \A x \in Exchanges \ created : x # order[p]  BY OrderAssumption DEF OrderTypeOK
<1>. QED  BY <1>1 DEF CreatedFirst

\* A step of the ledgers that no command makes.
LEMMA OutsideStepInv ==
  ASSUME TypeOK, OrderInv, KeptForAll, SignedAccepted', CreatedFirst', UNCHANGED clientVars,
         \A q \in Parties : KeptFor(q)
  PROVE  OrderInv'
<1>. USE DEF OrderInv, clientVars
<1>1. OrderTypeOK'  BY DEF OrderTypeOK
<1>2. \A q \in Parties : Ready(q)'  BY OtherReady DEF ClientKeeps
<1>3. FiledIsInitialized'  BY FiledKept
<1>. QED  BY <1>1, <1>2, <1>3

\* An invocation of p's command: what is left to show is that p can go on.
LEMMA ThenInv ==
  ASSUME OrderInv, NEW p \in Parties, NEW step \in Invocations \cup {"idle"},
         NEW held \in Asset \cup Statement \cup {NoPaper}, NEW i \in Issuers,
         Then(p, step, held, i), KeptForAll, SignedAccepted', CreatedFirst',
         \A q \in Parties \ {p} : KeptFor(q),
         (/\ order'[p] = order[p] /\ pc'[p] = step
          /\ paper'[p] = held /\ ledger'[p] = i) => Ready(p)'
  PROVE  OrderInv'
<1>. USE DEF OrderInv, Then
<1>1. OrderTypeOK'  BY DEF OrderTypeOK
<1>2. order'[p] = order[p] /\ pc'[p] = step /\ paper'[p] = held /\ ledger'[p] = i
  BY DEF OrderTypeOK
<1>3. Ready(p)'  BY <1>2
<1>4. ASSUME NEW q \in Parties \ {p} PROVE Ready(q)'
  <2>1. ClientKeeps(q)  BY DEF ClientKeeps, OrderTypeOK
  <2>. QED  BY <2>1, OtherReady
<1>5. FiledIsInitialized'  BY FiledKept
<1>. QED  BY <1>1, <1>3, <1>4, <1>5

\* What is newly in escrow, no order has accepted.
LEMMA EscrowedIsOnHand ==
  ASSUME TypeOK, Custody, Recorded, NEW i \in Issuers, NEW p \in Parties,
         NEW x \in Exchanges, NEW n \in 0 .. IntMax, Escrow(i, p, x, n), UNCHANGED exchangeVars
  PROVE  \E a \in escrowed'[i] :
           a.owner = p /\ a.agent = x /\ a \notin {offered'[x], exchanged'[x]}
<1>. DEFINE m == EscrowCount(i, p, n)
            a == EscrowAsset(i, p, x, m)
<1>1. a.owner = p /\ a.agent = x /\ a.id = nextId  BY DEF EscrowAsset
<1>2. escrowed' = [escrowed EXCEPT ![i] = @ \cup {a}]  BY DEF Escrow
<1>3. a \in escrowed'[i]  BY <1>2 DEF TypeOK, IssuerTypeOK
<1>. HIDE DEF a
<1>4. \A b \in Asset : Attested(b) => b.id < nextId
  BY DEF Attested, Custody, IdsDrawn, Asset
<1>5. ~ (nextId < nextId)  BY DEF TypeOK, IssuerTypeOK
<1>6. ~ (a \in Asset /\ Attested(a))  BY <1>1, <1>4, <1>5
<1>7. offered[x] = NoAsset \/ (offered[x] \in Asset /\ Attested(offered[x]))
  BY DEF Recorded
<1>8. exchanged[x] = NoAsset \/ (exchanged[x] \in Asset /\ Attested(exchanged[x]))
  BY DEF Recorded, Attested
<1>9. a # NoAsset
  <2>1. IssuerTypeOK'  BY EscrowType DEF TypeOK, Exchanges
  <2>. QED  BY <1>3, <2>1, ExchangeAssumption DEF IssuerTypeOK
<1>. QED  BY <1>1, <1>3, <1>6, <1>7, <1>8, <1>9 DEF exchangeVars

LEMMA OfferEscrowInv ==
  ASSUME ExchangeInv, OrderInv, NEW p \in Parties, OfferEscrow(p)
  PROVE  OrderInv'
<1>. USE DEF ExchangeInv, OrderInv, OfferEscrow
<1>1. ledger[p] \in Issuers /\ paper[p] \in Asset \cup Statement \cup {NoPaper}
  BY DEF OrderTypeOK
<1>2. order[p] \in Exchanges  BY OrderOf DEF Ready
<1>3. LedgerStep(ledger[p])
  BY <1>2, OrderAssumption DEF LedgerStep, Exchanges
<1>4. KeptForAll /\ SignedAccepted' /\ \A q \in Parties : KeptFor(q)
  BY <1>1, <1>3, LedgerStepKeeps
<1>5. \E a \in escrowed'[ledger[p]] :
        /\ a.owner = p /\ a.agent = order[p]
        /\ a \notin {offered'[order[p]], exchanged'[order[p]]}
  BY <1>1, <1>2, OrderAssumption, EscrowedIsOnHand DEF Arbitration
<1>6. ASSUME order'[p] = order[p], pc'[p] = "offer_attestation", ledger'[p] = ledger[p]
      PROVE  Ready(p)'
  <2>1. order'[p] # NoOrder  BY <1>2, <1>6, OrderAssumption
  <2>2. Creator[order'[p]] = p /\ state'[order'[p]] = "START"
    BY <1>6 DEF Ready, exchangeVars
  <2>3. \E a \in escrowed'[ledger'[p]] : OnHand(p, a)'
    BY <1>5, <1>6 DEF OnHand
  <2>. QED  BY <1>6, <2>1, <2>2, <2>3 DEF Ready
<1>7. "offer_attestation" \in Invocations  BY DEF Invocations
<1>8. Then(p, "offer_attestation", paper[p], ledger[p])  OBVIOUS
<1>9. CreatedFirst'
  BY CreatedFirstKept DEF Then, exchangeVars
<1>. HIDE DEF OfferEscrow, OrderInv
<1>. QED  BY <1>1, <1>4, <1>6, <1>7, <1>8, <1>9, ThenInv

LEMMA MatchOrderInv ==
  ASSUME ExchangeInv, OrderInv, NEW p \in Parties, NEW i \in Issuers,
         NEW n \in 0 .. IntMax, MatchOrder(p, i, n)
  PROVE  OrderInv'
<1>. USE DEF ExchangeInv, OrderInv, MatchOrder
<1>2. order[p] \in Exchanges  BY OrderOf
<1>3. LedgerStep(i)  BY <1>2 DEF LedgerStep, Exchanges
<1>4. KeptForAll /\ SignedAccepted' /\ \A q \in Parties : KeptFor(q)
  BY <1>3, LedgerStepKeeps
<1>5. \E a \in escrowed'[i] :
        /\ a.owner = p /\ a.agent = order[p]
        /\ a \notin {offered'[order[p]], exchanged'[order[p]]}
  BY <1>2, EscrowedIsOnHand DEF Arbitration
<1>6. ASSUME order'[p] = order[p], pc'[p] = "match_attestation", ledger'[p] = i
      PROVE  Ready(p)'
  <2>1. order'[p] # NoOrder  BY <1>2, <1>6, OrderAssumption
  <2>2. \E a \in escrowed'[ledger'[p]] : OnHand(p, a)'
    BY <1>5, <1>6 DEF OnHand
  <2>. QED  BY <1>6, <2>1, <2>2 DEF Ready
<1>7. "match_attestation" \in Invocations  BY DEF Invocations
<1>8. CreatedFirst'
  BY CreatedFirstKept DEF Then, exchangeVars
<1>. HIDE DEF OrderInv
<1>. QED  BY <1>4, <1>6, <1>7, <1>8, ThenInv

\* The owner's escrow to the order at an issuer is one asset.
LEMMA OpEscrowAttestationInv ==
  ASSUME ExchangeInv, OrderInv, NEW p \in Parties, OpEscrowAttestation(p)
  PROVE  OrderInv'
<1>. USE DEF ExchangeInv, OrderInv
<1>1. /\ pc[p] \in {"offer_attestation", "match_attestation"}
      /\ EscrowAttestation(ledger[p], p, order[p])
      /\ UNCHANGED exchangeVars
  BY DEF OpEscrowAttestation
<1>2. PICK a \in escrowed[ledger[p]] :
        /\ a.owner = p /\ a.agent = order[p]
        /\ Then(p, IF pc[p] = "offer_attestation" THEN "initialize" ELSE "exchange", a, ledger[p])
  BY DEF OpEscrowAttestation
<1>. DEFINE step == IF pc[p] = "offer_attestation" THEN "initialize" ELSE "exchange"
<1>3. ledger[p] \in Issuers  BY DEF OrderTypeOK
<1>4. order[p] \in Exchanges  BY <1>1, OrderOf DEF Ready
<1>5. LedgerStep(ledger[p])  BY <1>1, <1>4 DEF LedgerStep, Exchanges
<1>6. KeptForAll /\ SignedAccepted' /\ \A q \in Parties : KeptFor(q)
  BY <1>1, <1>3, <1>5, LedgerStepKeeps
<1>7. \A b \in escrowed[ledger[p]] : b.owner = p /\ b.agent = order[p] => b = a
  BY <1>2, <1>3 DEF Custody, EscrowUnique
<1>8. OnHand(p, a)  BY <1>1, <1>7 DEF Ready, OnHand
<1>9. a \in attested'[ledger[p]]
  BY <1>1, <1>3, <1>7 DEF EscrowAttestation, TypeOK, IssuerTypeOK
<1>10. a \in Asset  BY <1>3 DEF TypeOK, IssuerTypeOK
<1>11. escrowed' = escrowed  BY <1>1 DEF EscrowAttestation, ledgerVars
<1>12. ASSUME order'[p] = order[p], pc'[p] = step, paper'[p] = a, ledger'[p] = ledger[p]
       PROVE  Ready(p)'
  <2>1. OnHand(p, paper[p])'  BY <1>1, <1>8, <1>11, <1>12 DEF OnHand, exchangeVars
  <2>2. pc'[p] = "initialize" => pc[p] = "offer_attestation"  BY <1>12
  <2>3. pc'[p] = "initialize" => Creator[order'[p]] = p /\ state'[order'[p]] = "START"
    BY <1>1, <1>12, <2>2 DEF Ready, exchangeVars
  <2>. QED  BY <1>1, <1>4, <1>9, <1>12, <2>1, <2>3 DEF Ready
<1>13. step \in Invocations  BY DEF Invocations
<1>14. Then(p, step, a, ledger[p])  BY <1>2
<1>15. CreatedFirst'
  BY <1>1, <1>2, CreatedFirstKept DEF Then, exchangeVars
<1>. HIDE DEF OrderInv, step
<1>. QED  BY <1>3, <1>6, <1>10, <1>12, <1>13, <1>14, <1>15, ThenInv

LEMMA OpInitializeInv ==
  ASSUME ExchangeInv, OrderInv, NEW p \in Parties, OpInitialize(p)
  PROVE  OrderInv'
<1>. USE DEF ExchangeInv, OrderInv, OpInitialize
<1>1. ledger[p] \in Issuers  BY DEF OrderTypeOK
<1>2. order[p] \in Exchanges /\ Creator[order[p]] = p  BY OrderOf DEF Ready
<1>3. /\ KeptForAll /\ SignedAccepted' /\ state'[order[p]] = "OFFERED"
      /\ \A q \in Parties \ {p} : KeptFor(q)
  BY <1>2, InitializeKeeps
<1>4. ASSUME order'[p] = order[p], pc'[p] = "save"  PROVE Ready(p)'
  BY <1>2, <1>3, <1>4, OrderAssumption DEF Ready
<1>5. "save" \in Invocations  BY DEF Invocations
<1>6. CreatedFirst'
  BY CreatedFirstKept DEF Then, Initialize, TypeOK
<1>. HIDE DEF OrderInv
<1>. QED  BY <1>1, <1>3, <1>4, <1>5, <1>6, ThenInv

LEMMA OpExchangeInv ==
  ASSUME ExchangeInv, OrderInv, NEW p \in Parties, OpExchange(p)
  PROVE  OrderInv'
<1>. USE DEF ExchangeInv, OrderInv, OpExchange
<1>1. ledger[p] \in Issuers  BY DEF OrderTypeOK
<1>2. order[p] \in Exchanges  BY OrderOf DEF Ready
<1>3. KeptForAll /\ SignedAccepted' /\ \A q \in Parties \ {p} : KeptFor(q)
  BY <1>2, ExchangeAssetKeeps
<1>4. pc'[p] = "idle" => Ready(p)'  BY DEF Ready
<1>5. CreatedFirst'
  BY CreatedFirstKept DEF Then, ExchangeAsset, TypeOK
<1>. HIDE DEF OrderInv
<1>. QED  BY <1>1, <1>3, <1>4, <1>5, ThenInv

LEMMA CancelOrderInv ==
  ASSUME ExchangeInv, OrderInv, NEW p \in Parties, CancelOrder(p)
  PROVE  OrderInv'
<1>. USE DEF ExchangeInv, OrderInv, CancelOrder
<1>1. OfferIssuer[p] \in Issuers  BY OrderAssumption
<1>2. order[p] \in Exchanges  BY OrderOf
<1>3. KeptForAll /\ SignedAccepted' /\ \A q \in Parties : KeptFor(q)
  BY <1>2, CancelKeeps
<1>4. ASSUME order'[p] = order[p], pc'[p] = "cancel_attestation"  PROVE Ready(p)'
  BY <1>4 DEF Ready
<1>5. "cancel_attestation" \in Invocations  BY DEF Invocations
<1>6. CreatedFirst'
  BY CreatedFirstKept DEF Then, CancelExchange, TypeOK
<1>. HIDE DEF OrderInv
<1>. QED  BY <1>1, <1>3, <1>4, <1>5, <1>6, ThenInv

\* The invocations that have a statement signed for the command.
LEMMA AttestationInv ==
  ASSUME ExchangeInv, OrderInv, NEW p \in Parties, order[p] \in Exchanges,
         NEW s \in Statement, AgentSigns(s), UNCHANGED exchangeVars,
         Accepts(order[p], s.asset), s.asset.agent = order[p],
         NEW i \in Issuers, NEW step \in {"release", "claim"}, Then(p, step, s, i)
  PROVE  OrderInv'
<1>. USE DEF ExchangeInv, OrderInv
<1>1. KeptForAll /\ SignedAccepted' /\ \A q \in Parties : KeptFor(q)
  BY SigningKeeps
<1>2. s \in signed'  BY DEF AgentSigns
<1>3. ASSUME order'[p] = order[p], pc'[p] = step, paper'[p] = s  PROVE Ready(p)'
  BY <1>2, <1>3, OrderAssumption DEF Ready
<1>4. step \in Invocations  BY DEF Invocations
<1>5. CreatedFirst'
  BY CreatedFirstKept DEF Then, exchangeVars
<1>. HIDE DEF OrderInv
<1>. QED  BY <1>1, <1>3, <1>4, <1>5, ThenInv

LEMMA OpCancelAttestationInv ==
  ASSUME ExchangeInv, OrderInv, NEW p \in Parties, OpCancelAttestation(p)
  PROVE  OrderInv'
<1>. USE DEF OpCancelAttestation
<1>1. ledger[p] \in Issuers  BY DEF OrderInv, OrderTypeOK
<1>2. order[p] \in Exchanges  BY OrderOf DEF OrderInv, Ready
<1>. DEFINE a == offered[order[p]]
<1>3. a \in Asset /\ a.agent = order[p]
  BY <1>2 DEF CancelExchangeAttestation, ExchangeInv, Arbitration, Recorded
<1>4. ReleaseOf(a) \in Statement
  <2>1. a.owner \in Parties  BY <1>3 DEF Asset
  <2>. QED  BY <1>3, <2>1, StatementType
<1>5. ReleaseOf(a).asset = a  BY DEF ReleaseOf
<1>6. Accepts(order[p], a)  BY DEF Accepts
<1>. QED
  BY <1>1, <1>2, <1>3, <1>4, <1>5, <1>6, AttestationInv DEF CancelExchangeAttestation

LEMMA ClaimOfferInv ==
  ASSUME ExchangeInv, OrderInv, NEW p \in Parties, ClaimOffer(p)
  PROVE  OrderInv'
<1>. USE DEF ClaimOffer
<1>1. order[p] \in Exchanges  BY OrderOf DEF OrderInv
<1>2. OfferIssuer[Creator[order[p]]] \in Issuers
  BY <1>1, OrderAssumption, ExchangeAssumption
<1>. DEFINE a == offered[order[p]]
<1>3. a \in Asset /\ a.agent = order[p]
  BY <1>1 DEF ClaimOfferedAsset, ExchangeInv, Arbitration, Recorded
<1>4. ClaimOf(a, p) \in Statement  BY <1>3, StatementType
<1>5. ClaimOf(a, p).asset = a  BY DEF ClaimOf
<1>6. Accepts(order[p], a)  BY DEF Accepts
<1>. QED
  BY <1>1, <1>2, <1>3, <1>4, <1>5, <1>6, AttestationInv DEF ClaimOfferedAsset

LEMMA ClaimPaymentInv ==
  ASSUME ExchangeInv, OrderInv, NEW p \in Parties, ClaimPayment(p)
  PROVE  OrderInv'
<1>. USE DEF ClaimPayment
<1>1. order[p] \in Exchanges /\ Creator[order[p]] = p  BY OrderOf DEF OrderInv
<1>2. RequestIssuer[p] \in Issuers  BY OrderAssumption
<1>. DEFINE a == exchanged[order[p]]
<1>3. a \in Asset /\ a.agent = order[p]
  BY <1>1 DEF ClaimExchangedAsset, ExchangeInv, Arbitration, Recorded
<1>4. ClaimOf(a, p) \in Statement  BY <1>3, StatementType
<1>5. ClaimOf(a, p).asset = a  BY DEF ClaimOf
<1>6. Accepts(order[p], a)  BY DEF Accepts
<1>. QED
  BY <1>1, <1>2, <1>3, <1>4, <1>5, <1>6, AttestationInv DEF ClaimExchangedAsset

LEMMA OpReleaseInv ==
  ASSUME ExchangeInv, OrderInv, NEW p \in Parties, OpRelease(p) \/ OpClaim(p)
  PROVE  OrderInv'
<1>. USE DEF ExchangeInv, OrderInv, OpRelease, OpClaim
<1>1. ledger[p] \in Issuers  BY DEF OrderTypeOK
<1>2. LedgerStep(ledger[p]) /\ UNCHANGED exchangeVars
  <2>1. pc[p] \in {"release", "claim"} /\ paper[p] \in signed  BY DEF Ready
  <2>2. paper[p].asset.count \in Counts  BY <2>1 DEF TypeOK, IssuerTypeOK, Statement, Asset
  <2>3. CASE OpRelease(p)  BY <2>1, <2>3 DEF LedgerStep
  <2>4. CASE OpClaim(p)  BY <2>1, <2>2, <2>4 DEF LedgerStep
  <2>. QED  BY <2>3, <2>4
<1>3. KeptForAll /\ SignedAccepted' /\ \A q \in Parties : KeptFor(q)
  BY <1>1, <1>2, LedgerStepKeeps
<1>4. pc'[p] = "idle" => Ready(p)'  BY DEF Ready
<1>5. Then(p, "idle", NoPaper, ledger[p])  OBVIOUS
<1>6. CreatedFirst'
  BY <1>2, CreatedFirstKept DEF Then, exchangeVars
<1>. HIDE DEF OrderInv, OpRelease, OpClaim
<1>. QED  BY <1>1, <1>3, <1>4, <1>5, <1>6, ThenInv

\* What a client does on its own: nothing changes on the ledgers.
LEMMA OwnStepInv ==
  ASSUME OrderInv, NEW p \in Parties, UNCHANGED vars,
         OrderTypeOK', CreatedFirst', Ready(p)', FiledIsInitialized',
         \A q \in Parties \ {p} : ClientKeeps(q)
  PROVE  OrderInv'
<1>. USE DEF OrderInv, vars, issuerVars, ledgerVars, exchangeVars
<1>1. KeptForAll /\ \A q \in Parties : KeptFor(q)
  BY DEF KeptForAll, KeptFor, Accepts
<1>2. SignedAccepted'  BY DEF SignedAccepted
<1>3. \A q \in Parties \ {p} : Ready(q)'  BY <1>1, OtherReady
<1>. QED  BY <1>2, <1>3

LEMMA StopInv ==
  ASSUME OrderInv, NEW p \in Parties, Refused(p) \/ Fail(p) \/ Restart(p)
  PROVE  OrderInv'
<1>. USE DEF OrderInv, Refused, Fail, Restart, Stop
<1>1. UNCHANGED vars  OBVIOUS
<1>2. OrderTypeOK'
  <2>1. failures' \in 0 .. MaxFailures
    BY OrderAssumption DEF OrderTypeOK
  <2>2. order' \in [Parties -> created \cup {NoOrder}]  BY DEF OrderTypeOK
  <2>3. UNCHANGED <<created, stored, ledger>>  OBVIOUS
  <2>4. pc' \in [Parties -> Invocations \cup {"idle"}]  BY DEF OrderTypeOK
  <2>5. paper' \in [Parties -> Asset \cup Statement \cup {NoPaper}]  BY DEF OrderTypeOK
  <2>. QED  BY <2>1, <2>2, <2>3, <2>4, <2>5 DEF OrderTypeOK
<1>3. Ready(p)'
  <2>1. pc'[p] = "idle"  BY DEF OrderTypeOK
  <2>. QED  BY <2>1 DEF Ready
<1>4. FiledIsInitialized'
  BY <1>1 DEF FiledIsInitialized, vars, exchangeVars
<1>5. \A q \in Parties \ {p} : ClientKeeps(q)  BY DEF ClientKeeps, OrderTypeOK
<1>6. CreatedFirst'
  BY <1>1 DEF CreatedFirst, vars, exchangeVars
<1>. HIDE DEF OrderInv, Refused, Fail, Restart, Stop
<1>. QED  BY <1>1, <1>2, <1>3, <1>4, <1>5, <1>6, OwnStepInv

LEMMA SaveOrderInv ==
  ASSUME OrderInv, NEW p \in Parties, SaveOrder(p)
  PROVE  OrderInv'
<1>. USE DEF OrderInv, SaveOrder
<1>1. UNCHANGED vars  OBVIOUS
<1>2. OrderTypeOK'  BY DEF OrderTypeOK
<1>3. Ready(p)'
  <2>1. pc'[p] = "idle"  BY DEF OrderTypeOK
  <2>. QED  BY <2>1 DEF Ready
<1>4. FiledIsInitialized'
  <2>. SUFFICES ASSUME NEW x \in Exchanges, stored'[Creator[x]] = x
                PROVE  state[x] # "START"
    BY DEF FiledIsInitialized, vars, exchangeVars
  <2>1. CASE Creator[x] = p  BY <2>1 DEF OrderTypeOK, Ready
  <2>2. CASE Creator[x] # p
    <3>1. Creator[x] \in Parties  BY ExchangeAssumption
    <3>. QED  BY <2>2, <3>1 DEF OrderTypeOK, FiledIsInitialized
  <2>. QED  BY <2>1, <2>2
<1>5. \A q \in Parties \ {p} : ClientKeeps(q)  BY DEF ClientKeeps, OrderTypeOK
<1>6. CreatedFirst'
  BY <1>1 DEF CreatedFirst, vars, exchangeVars
<1>. HIDE DEF OrderInv, SaveOrder
<1>. QED  BY <1>1, <1>2, <1>3, <1>4, <1>5, <1>6, OwnStepInv

\* The new object is the creator's own and has just been made.
LEMMA CreateOrderInv ==
  ASSUME ExchangeInv, OrderInv, NEW p \in Parties, NEW x \in Exchanges,
         CreateOrder(p, x)
  PROVE  OrderInv'
<1>. USE DEF OrderInv, CreateOrder
<1>1. UNCHANGED vars  OBVIOUS
<1>2. OrderTypeOK'
  <2>1. created' \subseteq Exchanges /\ created \subseteq created'  BY DEF OrderTypeOK
  <2>2. order' \in [Parties -> created' \cup {NoOrder}]  BY DEF OrderTypeOK
  <2>3. stored' \in [Parties -> created' \cup {NoOrder}]  BY <2>1 DEF OrderTypeOK
  <2>4. pc' \in [Parties -> Invocations \cup {"idle"}]  BY DEF OrderTypeOK, Invocations
  <2>5. ledger' \in [Parties -> Issuers]  BY OrderAssumption DEF OrderTypeOK
  <2>. QED  BY <2>1, <2>2, <2>3, <2>4, <2>5 DEF OrderTypeOK
<1>3. Ready(p)'
  <2>1. pc'[p] = "offer_escrow" /\ order'[p] = x  BY DEF OrderTypeOK
  <2>2. state'[x] = "START"  BY <1>1 DEF CreatedFirst, vars, exchangeVars
  <2>. QED  BY <2>1, <2>2, OrderAssumption DEF Ready
<1>4. FiledIsInitialized'
  BY <1>1 DEF FiledIsInitialized, vars, exchangeVars
<1>5. \A q \in Parties \ {p} : ClientKeeps(q)  BY DEF ClientKeeps, OrderTypeOK
<1>6. CreatedFirst'
  BY <1>1 DEF CreatedFirst, vars, exchangeVars
<1>. HIDE DEF OrderInv, CreateOrder
<1>. QED  BY <1>1, <1>2, <1>3, <1>4, <1>5, <1>6, OwnStepInv

\* A party never imports an order of its own.
LEMMA ImportOrderInv ==
  ASSUME OrderInv, NEW p \in Parties, NEW x \in Exchanges, ImportOrder(p, x)
  PROVE  OrderInv'
<1>. USE DEF OrderInv, ImportOrder
<1>1. UNCHANGED vars  OBVIOUS
<1>2. Creator[x] \in Parties  BY ExchangeAssumption
<1>3. x \in created  BY <1>2, OrderAssumption DEF OrderTypeOK
<1>4. OrderTypeOK'  BY <1>3 DEF OrderTypeOK
<1>5. Ready(p)'
  <2>1. pc'[p] = "idle"  BY DEF Idle
  <2>. QED  BY <2>1 DEF Ready
<1>6. FiledIsInitialized'
  <2>. SUFFICES ASSUME NEW y \in Exchanges, stored'[Creator[y]] = y
                PROVE  state[y] # "START"
    BY <1>1 DEF FiledIsInitialized, vars, exchangeVars
  <2>1. Creator[y] \in Parties  BY ExchangeAssumption
  <2>2. Creator[y] # p
    <3>. SUFFICES ASSUME Creator[y] = p PROVE FALSE
      OBVIOUS
    <3>1. y = x  BY DEF OrderTypeOK
    <3>. QED  BY <3>1, OrderAssumption
  <2>. QED  BY <2>1, <2>2 DEF OrderTypeOK, FiledIsInitialized
<1>7. \A q \in Parties \ {p} : ClientKeeps(q)  BY DEF ClientKeeps, OrderTypeOK
<1>8. CreatedFirst'
  BY <1>1 DEF CreatedFirst, vars, exchangeVars
<1>. HIDE DEF OrderInv, ImportOrder
<1>. QED  BY <1>1, <1>4, <1>5, <1>6, <1>7, <1>8, OwnStepInv

LEMMA CommandInv ==
  ASSUME ExchangeInv, OrderInv, NEW p \in Parties, Command(p)
  PROVE  OrderInv'
<1>1. CASE \E x \in Exchanges : CreateOrder(p, x) \/ ImportOrder(p, x)
  BY <1>1, CreateOrderInv, ImportOrderInv
<1>2. CASE \E i \in Issuers, count \in 0 .. IntMax : MatchOrder(p, i, count)
  BY <1>2, MatchOrderInv
<1>3. CASE CancelOrder(p) \/ ClaimOffer(p) \/ ClaimPayment(p)
  BY <1>3, CancelOrderInv, ClaimOfferInv, ClaimPaymentInv
<1>4. CASE ReleaseOrder(p)
  BY <1>4 DEF ReleaseOrder, allVars, vars, issuerVars, ledgerVars, exchangeVars,
     clientVars, OrderInv, OrderTypeOK, CreatedFirst, Ready, OnHand, SignedAccepted,
     FiledIsInitialized
<1>5. CASE (\E i \in Issuers, count \in 0 .. IntMax : IssueAssets(p, i, count))
           \/ (\E q \in Parties, i \in Issuers, count \in 0 .. IntMax :
                 TransferAssets(p, q, i, count))
  <2>1. PICK i \in Issuers : LedgerStep(i) /\ UNCHANGED <<exchangeVars, clientVars>>
    BY <1>5 DEF IssueAssets, TransferAssets, LedgerStep
  <2>2. KeptForAll /\ SignedAccepted' /\ \A q \in Parties : KeptFor(q)
    BY <2>1, LedgerStepKeeps DEF ExchangeInv, OrderInv
  <2>3. CreatedFirst'
    BY <2>1 DEF OrderInv, CreatedFirst, exchangeVars, clientVars
  <2>. QED  BY <2>1, <2>2, <2>3, OutsideStepInv DEF ExchangeInv
<1>. QED  BY <1>1, <1>2, <1>3, <1>4, <1>5 DEF Command

LEMMA ProceedInv ==
  ASSUME ExchangeInv, OrderInv, NEW p \in Parties, Proceed(p)
  PROVE  OrderInv'
BY OfferEscrowInv, OpEscrowAttestationInv, OpInitializeInv, SaveOrderInv,
   OpExchangeInv, OpCancelAttestationInv, OpReleaseInv DEF Proceed

LEMMA OrderNextInv ==
  ASSUME ExchangeInv, OrderInv, [OrderNext]_allVars
  PROVE  OrderInv'
<1>1. CASE \E i \in Issuers : InitializeIssuer(i) /\ UNCHANGED <<exchangeVars, clientVars>>
  <2>1. PICK i \in Issuers : LedgerStep(i) /\ UNCHANGED <<exchangeVars, clientVars>>
    BY <1>1 DEF LedgerStep
  <2>2. KeptForAll /\ SignedAccepted' /\ \A q \in Parties : KeptFor(q)
    BY <2>1, LedgerStepKeeps DEF ExchangeInv, OrderInv
  <2>3. CreatedFirst'
    BY <2>1 DEF OrderInv, CreatedFirst, exchangeVars, clientVars
  <2>. QED  BY <2>1, <2>2, <2>3, OutsideStepInv DEF ExchangeInv
<1>2. CASE \E p \in Parties :
             Command(p) \/ Proceed(p) \/ Refused(p) \/ Fail(p) \/ Restart(p)
  BY <1>2, CommandInv, ProceedInv, StopInv
<1>3. CASE UNCHANGED allVars
  BY <1>3 DEF allVars, vars, issuerVars, ledgerVars, exchangeVars,
     clientVars, OrderInv, OrderTypeOK, CreatedFirst, Ready, OnHand, SignedAccepted,
     FiledIsInitialized
<1>. QED  BY <1>1, <1>2, <1>3 DEF OrderNext

LEMMA OrderInitInv == OrderInit => ExchangeInv /\ OrderInv
<1>. SUFFICES ASSUME OrderInit PROVE ExchangeInv /\ OrderInv
  OBVIOUS
<1>. USE DEF OrderInit, ClientInit
<1>1. ExchangeInv  BY InitInv
<1>2. OrderTypeOK  BY OrderAssumption DEF OrderTypeOK
<1>3. CreatedFirst  BY DEF Init, ExchangeInit, CreatedFirst
<1>4. \A p \in Parties : Ready(p)  BY DEF Ready
<1>5. SignedAccepted  BY DEF Init, IssuerInit, SignedAccepted
<1>6. FiledIsInitialized  BY ExchangeAssumption, OrderAssumption DEF FiledIsInitialized
<1>. QED  BY <1>1, <1>2, <1>3, <1>4, <1>5, <1>6 DEF OrderInv

-----------------------------------------------------------------------------
(* Theorems. *)

\* The invariant of the ledgers and the exchange objects holds under the commands,
\* and a command under way can always rely on what it holds, however it was
\* interleaved with the commands of other parties, failures and restarts.
THEOREM OrderInvariant == OrderSpec => [](ExchangeInv /\ OrderInv)
<1>1. ExchangeInv /\ OrderInv /\ [OrderNext]_allVars => (ExchangeInv /\ OrderInv)'
  <2>. SUFFICES ASSUME ExchangeInv, OrderInv, [OrderNext]_allVars
                PROVE  (ExchangeInv /\ OrderInv)'
    OBVIOUS
  <2>1. [Next]_vars  BY OrderStepIsNext DEF ExchangeInv
  <2>2. ExchangeInv'
    BY <2>1, NextType, NextCustody, NextArbitration DEF ExchangeInv, Arbitration
  <2>3. OrderInv'  BY OrderNextInv
  <2>. QED  BY <2>2, <2>3
<1>. QED  BY <1>1, OrderInitInv, PTL DEF OrderSpec

\* The clients only do what the contracts allow: every behaviour of the commands is
\* a behaviour of the exchange objects and the issuers.
THEOREM CommandsAreExchanges == OrderSpec => Spec
<1>1. ExchangeInv /\ OrderInv /\ [OrderNext]_allVars => [Next]_vars
  BY OrderStepIsNext DEF ExchangeInv
<1>2. OrderInit => Init  BY DEF OrderInit
<1>. QED  BY <1>1, <1>2, OrderInvariant, PTL DEF OrderSpec, Spec

\* Through the commands, too, the two assets of an order change hands together or
\* not at all, with failures and restarts anywhere in between.
THEOREM CommandsSwap == OrderSpec => SwapRefined
BY CommandsAreExchanges, SwapImplemented

LEMMA PaperHoldsInv == OrderInv => PaperHolds
BY DEF OrderInv, Ready, OnHand, PaperHolds

\* The attested asset a create_order or match_order command holds stays in escrow
\* to its order until the command has handed it in.
THEOREM PapersHold == OrderSpec => []PaperHolds
BY OrderInvariant, PaperHoldsInv, PTL

\* The context file of a creator never names an order that was not initialized.
THEOREM FiledOrdersAreOpen == OrderSpec => []FiledIsInitialized
<1>1. OrderInv => FiledIsInitialized  BY DEF OrderInv
<1>. QED  BY <1>1, OrderInvariant, PTL

-----------------------------------------------------------------------------
(* Assets in escrow without a command to hand them in: while nothing fails,  *)
(* there are none but those the order turned down.                           *)

\* A command goes on only where the contract it talks to accepts its invocation, so no
\* invocation is both answered and refused.
LEMMA ProceedsIfAccepted ==
  ASSUME NEW p, Proceed(p)
  PROVE  Accepted(p)
<1>1. CASE OfferEscrow(p)  BY <1>1 DEF OfferEscrow, Escrow, Accepted
<1>2. CASE OpEscrowAttestation(p)
  BY <1>2 DEF OpEscrowAttestation, EscrowAttestation, IsEscrowed, Accepted
<1>3. CASE OpInitialize(p)  BY <1>3 DEF OpInitialize, Initialize, Accepted
<1>4. CASE SaveOrder(p)  BY <1>4 DEF SaveOrder, Accepted
<1>5. CASE OpExchange(p)  BY <1>5 DEF OpExchange, ExchangeAsset, Accepted
<1>6. CASE OpCancelAttestation(p)
  BY <1>6 DEF OpCancelAttestation, CancelExchangeAttestation, Accepted
<1>7. CASE OpRelease(p)  BY <1>7 DEF OpRelease, Release, Accepted
<1>8. CASE OpClaim(p)  BY <1>8 DEF OpClaim, Claim, Accepted
<1>. QED  BY <1>1, <1>2, <1>3, <1>4, <1>5, <1>6, <1>7, <1>8 DEF Proceed

LEMMA OpenLedgersNext ==
  ASSUME TypeOK, OpenLedgers, [Next]_vars
  PROVE  OpenLedgers'
<1>. USE DEF OpenLedgers, TypeOK
<1>1. ASSUME NEW j \in Issuers, LedgerStep(j)
      PROVE  OpenLedgers'
  <2>1. escrowed'[j] # {} => j \in initialized'
    BY <1>1 DEF LedgerStep, InitializeIssuer, Issue, Transfer, Escrow, Escrowable,
       EscrowAttestation, ledgerVars, Release, Claim
  <2>2. ASSUME NEW i \in Issuers, i # j, escrowed'[i] # {} PROVE i \in initialized'
    BY <1>1, <2>2, LedgerStepElsewhere
  <2>. QED  BY <2>1, <2>2
<1>2. CASE UNCHANGED <<escrowed, initialized>>  BY <1>2
<1>3. CASE \E x \in Exchanges : ExchangeStep(x)
  BY <1>2, <1>3, ExchangeStepSigns DEF issuerVars, ledgerVars, AgentSigns
<1>. QED  BY <1>1, <1>2, <1>3 DEF Next, vars, issuerVars, ledgerVars

\* An order that is on offer after a step was on offer before it, with the same
\* assets and the same request, or has just been opened by its creator.
LEMMA NextOffered ==
  ASSUME TypeOK, [Next]_vars, NEW x \in Exchanges, state'[x] = "OFFERED"
  PROVE  \/ state[x] = "START"
         \/ /\ state[x] = "OFFERED" /\ request'[x] = request[x]
            /\ offered'[x] = offered[x] /\ exchanged'[x] = exchanged[x]
<1>. USE DEF TypeOK, exchangeVars
<1>1. CASE UNCHANGED exchangeVars  BY <1>1
<1>2. ASSUME NEW y \in Exchanges, NEW r, NEW i, NEW a, Initialize(y, r, i, a)
      PROVE  state[x] = "START" \/ UNCHANGED <<state[x], request[x], offered[x], exchanged[x]>>
  BY <1>2 DEF Initialize, Offerable
<1>3. ASSUME NEW y \in Exchanges, CancelExchange(y)
      PROVE  UNCHANGED <<state[x], request[x], offered[x], exchanged[x]>>
  BY <1>3 DEF CancelExchange
<1>4. ASSUME NEW y \in Exchanges, NEW p, NEW i, NEW a, ExchangeAsset(y, p, i, a)
      PROVE  UNCHANGED <<state[x], request[x], offered[x], exchanged[x]>>
  BY <1>4 DEF ExchangeAsset
<1>. QED
  BY <1>1, <1>2, <1>3, <1>4
  DEF Next, vars, ExchangeStep, CancelExchangeAttestation, ClaimExchangedAsset,
      ClaimOfferedAsset, ReleaseAsset

\* Only the create_order command of its creator opens an order.
LEMMA OpenedByCreator ==
  ASSUME TypeOK, OrderInv, [OrderNext]_allVars, NEW x \in Exchanges,
         state[x] = "START", state'[x] # "START"
  PROVE  pc[Creator[x]] = "initialize"
<1>. USE DEF TypeOK, exchangeVars
<1>1. CASE \E p \in Parties : OpInitialize(p)
  <2>1. PICK p \in Parties : OpInitialize(p)  BY <1>1
  <2>2. pc[p] = "initialize" /\ Creator[order[p]] = p
    BY <2>1 DEF OpInitialize, OrderInv, Ready
  <2>3. order[p] = x  BY <2>1 DEF OpInitialize, Initialize
  <2>. QED  BY <2>2, <2>3
<1>2. ASSUME NEW p \in Parties, CancelOrder(p) PROVE FALSE
  BY <1>2 DEF CancelOrder, CancelExchange
<1>3. ASSUME NEW p \in Parties, OpExchange(p) PROVE FALSE
  BY <1>3 DEF OpExchange, ExchangeAsset, Exchangeable
<1>4. ASSUME state' = state PROVE FALSE  BY <1>4
<1>5. ASSUME NEW p \in Parties, Command(p), ~ CancelOrder(p) PROVE state' = state
  BY <1>5
  DEF Command, CreateOrder, ImportOrder, MatchOrder, ClaimOffer, ClaimOfferedAsset,
      ClaimPayment, ClaimExchangedAsset, ReleaseOrder, allVars, vars, IssueAssets,
      TransferAssets
<1>6. ASSUME NEW p \in Parties, Proceed(p), ~ OpInitialize(p), ~ OpExchange(p)
      PROVE  state' = state
  BY <1>6
  DEF Proceed, OfferEscrow, OpEscrowAttestation, SaveOrder, vars, OpCancelAttestation,
      CancelExchangeAttestation, OpRelease, OpClaim
<1>7. ASSUME NEW p \in Parties, Refused(p) \/ Fail(p) \/ Restart(p) PROVE state' = state
  BY <1>7, StopsNothing DEF vars
<1>. QED
  BY <1>1, <1>2, <1>3, <1>4, <1>5, <1>6, <1>7 DEF OrderNext, allVars, vars

\* A step of p's command escrows for p's order only, and when the command has done
\* with an asset, the order has it or does not want it.
EscrowsFor(p) ==
  \A i \in Issuers : \A a \in escrowed'[i] :
    a \in escrowed[i] \/ (a.owner = p /\ a.agent = order[p] /\ OnItsWay(i, a)')

HandsOn(p) ==
  \A i \in Issuers : \A a \in escrowed[i] :
    a.owner = p /\ OnItsWay(i, a) =>
      \/ OnItsWay(i, a)' \/ Accepts(a.agent, a)' \/ Unwanted(i, a)'

LEMMA TendedStep ==
  ASSUME ExchangeInv, OrderInv, [OrderNext]_allVars, OwnersKnow, SharedAfterwards, Tended,
         NEW p \in Parties, \A q \in Parties \ {p} : ClientKeeps(q),
         EscrowsFor(p), HandsOn(p)
  PROVE  Tended'
<1>. SUFFICES ASSUME NEW i \in Issuers, NEW a \in escrowed'[i]
              PROVE  OnItsWay(i, a)' \/ Accepts(a.agent, a)' \/ Unwanted(i, a)'
  BY DEF Tended, Accepts
<1>1. CASE a \notin escrowed[i]  BY <1>1 DEF EscrowsFor
<1>2. CASE a \in escrowed[i] /\ OnItsWay(i, a)
  <2>1. CASE a.owner = p  BY <1>2, <2>1 DEF HandsOn
  <2>2. CASE a.owner # p
    <3>1. a.owner \in Parties  BY <1>2 DEF ExchangeInv, TypeOK, IssuerTypeOK, Asset
    <3>2. ClientKeeps(a.owner)  BY <2>2, <3>1
    <3>. QED  BY <1>2, <3>2 DEF ClientKeeps, OnItsWay
  <2>. QED  BY <2>1, <2>2
<1>3. CASE a \in escrowed[i] /\ (Accepts(a.agent, a) \/ Unwanted(i, a))
  <2>. SUFFICES ASSUME ~ Unwanted(i, a)' PROVE Accepts(a.agent, a)'
    OBVIOUS
  <2>1. a.agent \in Exchanges /\ a.owner \in Parties
    BY <1>3 DEF ExchangeInv, TypeOK, IssuerTypeOK, Asset, Exchanges
  <2>2. /\ state'[a.agent] = "OFFERED" /\ a.owner # Creator[a.agent]
        /\ Matches(request[a.agent], i, a)'
    BY DEF Unwanted
  <2>3. state[a.agent] # "START"
    <3>. SUFFICES ASSUME state[a.agent] = "START" PROVE FALSE
      OBVIOUS
    <3>1. pc[Creator[a.agent]] = "initialize"
      BY <2>1, <2>2, OpenedByCreator DEF ExchangeInv
    <3>2. order[a.owner] = a.agent  BY <1>3 DEF OwnersKnow
    <3>. QED  BY <2>1, <2>2, <3>1, <3>2 DEF SharedAfterwards
  <2>4. [Next]_vars  BY OrderStepIsNext DEF ExchangeInv
  <2>5. /\ state[a.agent] = "OFFERED" /\ request'[a.agent] = request[a.agent]
        /\ offered'[a.agent] = offered[a.agent] /\ exchanged'[a.agent] = exchanged[a.agent]
    BY <2>1, <2>2, <2>3, <2>4, NextOffered DEF ExchangeInv
  <2>6. ~ Unwanted(i, a)  BY <2>2, <2>5 DEF Unwanted, Matches
  <2>. QED  BY <1>3, <2>5, <2>6 DEF Accepts
<1>. QED  BY <1>1, <1>2, <1>3 DEF Tended, Accepts

LEMMA OwnersKnowStep ==
  ASSUME ExchangeInv, OrderInv, OwnersKnow, NEW p \in Parties,
         \A q \in Parties \ {p} : order'[q] = order[q],
         order'[p] = order[p] \/ order[p] = NoOrder,
         \A i \in Issuers : \A a \in escrowed'[i] :
           a \in escrowed[i] \/ (a.owner = p /\ a.agent = order'[p])
  PROVE  OwnersKnow'
<1>. SUFFICES ASSUME NEW i \in Issuers, NEW a \in escrowed'[i], a \in escrowed[i]
              PROVE  order'[a.owner] = a.agent
  BY DEF OwnersKnow
<1>1. order[a.owner] = a.agent  BY DEF OwnersKnow
<1>2. a.agent \in Exchanges /\ a.owner \in Parties
  BY DEF ExchangeInv, TypeOK, IssuerTypeOK, Asset, Exchanges
<1>3. order[a.owner] # NoOrder  BY <1>1, <1>2, OrderAssumption
<1>. QED  BY <1>1, <1>2, <1>3

Opening == {"offer_escrow", "offer_attestation", "initialize"}

LEMMA SharedStep ==
  ASSUME SharedAfterwards, order' = order,
         \A q \in Parties : pc'[q] \in Opening => pc[q] \in Opening
  PROVE  SharedAfterwards'
BY ExchangeAssumption DEF SharedAfterwards, Opening

LEMMA ThenStray ==
  ASSUME ExchangeInv, OrderInv, OwnersKnow, SharedAfterwards, Tended, [OrderNext]_allVars,
         NEW p \in Parties, NEW step, NEW held, NEW i, Then(p, step, held, i),
         step \in Opening => pc[p] \in Opening, EscrowsFor(p), HandsOn(p)
  PROVE  OwnersKnow' /\ SharedAfterwards' /\ Tended'
<1>1. \A q \in Parties \ {p} : ClientKeeps(q)
  BY DEF Then, ClientKeeps, OrderInv, OrderTypeOK
<1>2. order' = order  BY DEF Then
<1>3. OwnersKnow'  BY <1>2, OwnersKnowStep DEF EscrowsFor
<1>4. \A q \in Parties : pc'[q] \in Opening => pc[q] \in Opening
  BY DEF Then, OrderInv, OrderTypeOK
<1>5. SharedAfterwards'  BY <1>2, <1>4, SharedStep
<1>6. Tended'  BY <1>1, TendedStep
<1>. QED  BY <1>3, <1>5, <1>6

LEMMA NothingEscrowed ==
  ASSUME NEW p, \A i \in Issuers : escrowed'[i] \subseteq escrowed[i]
  PROVE  EscrowsFor(p)
BY DEF EscrowsFor

Delivering == {"offer_attestation", "match_attestation", "initialize", "exchange"}

LEMMA NothingInHand ==
  ASSUME NEW p, pc[p] \notin Delivering
  PROVE  HandsOn(p)
BY DEF HandsOn, OnItsWay, Delivering

\* The escrow of create_order or match_order: its asset is on its way.
LEMMA EscrowStray ==
  ASSUME ExchangeInv, OrderInv, OwnersKnow, SharedAfterwards, Tended, [OrderNext]_allVars,
         NEW p \in Parties, NEW i \in Issuers, NEW n, Escrow(i, p, order[p], n),
         NEW held, NEW step \in {"offer_attestation", "match_attestation"},
         Then(p, step, held, i), step = "offer_attestation" => pc[p] = "offer_escrow",
         pc[p] \notin Delivering
  PROVE  OwnersKnow' /\ SharedAfterwards' /\ Tended'
<1>1. PICK a : a = EscrowAsset(i, p, order[p], EscrowCount(i, p, n))
  OBVIOUS
<1>2. /\ escrowed' = [escrowed EXCEPT ![i] = @ \cup {a}]
      /\ a.owner = p /\ a.agent = order[p]
  BY <1>1 DEF Escrow, EscrowAsset
<1>3. pc'[p] = step /\ ledger'[p] = i  BY DEF Then, OrderInv, OrderTypeOK
<1>4. OnItsWay(i, a)'  BY <1>2, <1>3 DEF OnItsWay
<1>5. EscrowsFor(p)
  BY <1>2, <1>4 DEF EscrowsFor, ExchangeInv, TypeOK, IssuerTypeOK
<1>6. HandsOn(p)  BY NothingInHand
<1>7. step \in Opening => pc[p] \in Opening  BY DEF Opening
<1>. QED  BY <1>5, <1>6, <1>7, ThenStray

\* The attestation is about the asset the command escrowed.
LEMMA OpEscrowAttestationStray ==
  ASSUME ExchangeInv, OrderInv, OwnersKnow, SharedAfterwards, Tended, [OrderNext]_allVars,
         NEW p \in Parties, OpEscrowAttestation(p)
  PROVE  OwnersKnow' /\ SharedAfterwards' /\ Tended'
<1>. DEFINE step == IF pc[p] = "offer_attestation" THEN "initialize" ELSE "exchange"
<1>1. PICK a \in escrowed[ledger[p]] :
        a.owner = p /\ a.agent = order[p] /\ Then(p, step, a, ledger[p])
  BY DEF OpEscrowAttestation
<1>2. pc[p] \in {"offer_attestation", "match_attestation"} /\ escrowed' = escrowed
  BY DEF OpEscrowAttestation, EscrowAttestation, ledgerVars
<1>3. EscrowsFor(p)  BY <1>2, NothingEscrowed
<1>4. ledger[p] \in Issuers  BY DEF OrderInv, OrderTypeOK
<1>5. pc'[p] = step /\ ledger'[p] = ledger[p] /\ paper'[p] = a
  BY <1>1 DEF Then, OrderInv, OrderTypeOK
<1>6. HandsOn(p)
  <2>. SUFFICES ASSUME NEW i \in Issuers, NEW b \in escrowed[i], b.owner = p, ledger[p] = i
                PROVE  OnItsWay(i, b)'
    BY DEF HandsOn, OnItsWay
  <2>1. b.agent = order[p]  BY DEF OwnersKnow
  <2>2. b = a  BY <1>1, <1>4, <2>1 DEF ExchangeInv, Custody, EscrowUnique
  <2>. QED  BY <1>5, <2>2 DEF OnItsWay
<1>7. step \in Opening => pc[p] \in Opening  BY <1>2 DEF Opening
<1>. HIDE DEF step
<1>. QED  BY <1>1, <1>3, <1>6, <1>7, ThenStray

\* What is handed in is accepted.
LEMMA HandingInStray ==
  ASSUME ExchangeInv, OrderInv, OwnersKnow, SharedAfterwards, Tended, [OrderNext]_allVars,
         NEW p \in Parties, OpInitialize(p) \/ OpExchange(p)
  PROVE  OwnersKnow' /\ SharedAfterwards' /\ Tended'
<1>1. PICK step \in {"save", "idle"} : Then(p, step, NoPaper, ledger[p])
  BY DEF OpInitialize, OpExchange
<1>2. escrowed' = escrowed /\ pc[p] \in {"initialize", "exchange"}
  BY DEF OpInitialize, Initialize, OpExchange, ExchangeAsset, issuerVars, ledgerVars
<1>3. EscrowsFor(p)  BY <1>2, NothingEscrowed
<1>4. order[p] \in Exchanges  BY <1>2, OrderOf DEF OrderInv, Ready
<1>5. paper[p] \in {offered'[order[p]], exchanged'[order[p]]}
  BY <1>4 DEF OpInitialize, Initialize, OpExchange, ExchangeAsset, ExchangeInv, TypeOK
<1>6. HandsOn(p)
  <2>. SUFFICES ASSUME NEW i \in Issuers, NEW a \in escrowed[i], a.owner = p, paper[p] = a
                PROVE  Accepts(a.agent, a)'
    BY <1>2 DEF HandsOn, OnItsWay
  <2>1. a.agent = order[p]  BY DEF OwnersKnow
  <2>. QED  BY <1>5, <2>1 DEF Accepts
<1>7. step \in Opening => pc[p] \in Opening  BY <1>1 DEF Opening
<1>. QED  BY <1>1, <1>3, <1>6, <1>7, ThenStray

\* A command that fetches an asset takes it out of escrow, and has none to hand in.
LEMMA FetchingStray ==
  ASSUME ExchangeInv, OrderInv, OwnersKnow, SharedAfterwards, Tended, [OrderNext]_allVars,
         NEW p \in Parties,
         CancelOrder(p) \/ OpCancelAttestation(p) \/ OpRelease(p)
           \/ ClaimOffer(p) \/ ClaimPayment(p) \/ OpClaim(p)
  PROVE  OwnersKnow' /\ SharedAfterwards' /\ Tended'
<1>. USE DEF CancelOrder, OpCancelAttestation, OpRelease, ClaimOffer, ClaimPayment, OpClaim
<1>0. PICK step \in {"cancel_attestation", "release", "claim", "idle"} :
        \E held, i : Then(p, step, held, i)
  OBVIOUS
<1>1. PICK held, i : Then(p, step, held, i)  BY <1>0
<1>2. pc[p] \in {"idle", "cancel_attestation", "release", "claim"}  BY DEF Idle
<1>3. \A j \in Issuers : escrowed'[j] \subseteq escrowed[j]
  <2>1. CASE OpRelease(p)
    BY <2>1 DEF Release, ExchangeInv, TypeOK, IssuerTypeOK
  <2>2. CASE OpClaim(p)
    BY <2>2 DEF Claim, ExchangeInv, TypeOK, IssuerTypeOK
  <2>3. CASE ~ OpRelease(p) /\ ~ OpClaim(p)
    <3>1. escrowed' = escrowed
      BY <2>3 DEF CancelExchange, CancelExchangeAttestation, ClaimOfferedAsset,
         ClaimExchangedAsset, AgentSigns, issuerVars, ledgerVars
    <3>. QED  BY <3>1
  <2>. QED  BY <2>1, <2>2, <2>3
<1>. HIDE DEF CancelOrder, OpCancelAttestation, OpRelease, ClaimOffer, ClaimPayment, OpClaim
<1>4. EscrowsFor(p)  BY <1>3, NothingEscrowed
<1>5. HandsOn(p)  BY <1>2, NothingInHand DEF Delivering
<1>6. step \in Opening => pc[p] \in Opening  BY <1>1 DEF Opening
<1>. QED  BY <1>1, <1>4, <1>5, <1>6, ThenStray

\* A step that moves no asset, and leaves none in the hands of an idle command.
LEMMA QuietStray ==
  ASSUME ExchangeInv, OrderInv, OwnersKnow, SharedAfterwards, Tended, [OrderNext]_allVars,
         NEW p \in Parties, escrowed' = escrowed, HandsOn(p),
         \A q \in Parties \ {p} : ClientKeeps(q),
         order'[p] = order[p] \/ order[p] = NoOrder
  PROVE  OwnersKnow' /\ Tended'
<1>1. EscrowsFor(p)  BY NothingEscrowed
<1>2. \A q \in Parties \ {p} : order'[q] = order[q]  BY DEF ClientKeeps
<1>3. OwnersKnow'  BY <1>2, OwnersKnowStep
<1>. QED  BY <1>1, <1>3, TendedStep

\* An order that is new is nobody else's.
LEMMA CreateOrderStray ==
  ASSUME ExchangeInv, OrderInv, OwnersKnow, SharedAfterwards, Tended, [OrderNext]_allVars,
         NEW p \in Parties, NEW x \in Exchanges, CreateOrder(p, x)
  PROVE  OwnersKnow' /\ SharedAfterwards' /\ Tended'
<1>. USE DEF CreateOrder
<1>1. HandsOn(p)  BY NothingInHand DEF Idle, Delivering
<1>2. \A q \in Parties \ {p} : ClientKeeps(q)
  BY DEF ClientKeeps, OrderInv, OrderTypeOK
<1>3. OwnersKnow' /\ Tended'
  BY <1>1, <1>2, QuietStray DEF vars, issuerVars, ledgerVars
<1>4. order'[p] = x /\ order[p] = NoOrder  BY DEF OrderInv, OrderTypeOK
<1>5. SharedAfterwards'
  <2>. SUFFICES ASSUME NEW q \in Parties, NEW y \in Exchanges, order'[q] = y, q # Creator[y]
                PROVE  order'[Creator[y]] = y /\ pc'[Creator[y]] \notin Opening
    BY DEF SharedAfterwards, Opening
  <2>1. Creator[y] \in Parties  BY ExchangeAssumption
  <2>2. q # p  BY <1>4
  <2>3. order[q] = y  BY <1>2, <2>2 DEF ClientKeeps
  <2>4. order[Creator[y]] = y /\ pc[Creator[y]] \notin Opening
    BY <2>3 DEF SharedAfterwards, Opening
  <2>5. y # NoOrder  BY OrderAssumption
  <2>6. Creator[y] # p  BY <1>4, <2>4, <2>5
  <2>. QED  BY <1>2, <2>1, <2>4, <2>6 DEF ClientKeeps
<1>. QED  BY <1>3, <1>5

LEMMA ImportOrderStray ==
  ASSUME ExchangeInv, OrderInv, OwnersKnow, SharedAfterwards, Tended, [OrderNext]_allVars,
         NEW p \in Parties, NEW x \in Exchanges, ImportOrder(p, x)
  PROVE  OwnersKnow' /\ SharedAfterwards' /\ Tended'
<1>. USE DEF ImportOrder
<1>1. HandsOn(p)  BY NothingInHand DEF Idle, Delivering
<1>2. \A q \in Parties \ {p} : ClientKeeps(q)
  BY DEF ClientKeeps, OrderInv, OrderTypeOK
<1>3. OwnersKnow' /\ Tended'
  BY <1>1, <1>2, QuietStray DEF vars, issuerVars, ledgerVars
<1>4. order'[p] = x /\ order[p] = NoOrder  BY DEF OrderInv, OrderTypeOK
<1>5. SharedAfterwards'
  <2>. SUFFICES ASSUME NEW q \in Parties, NEW y \in Exchanges, order'[q] = y, q # Creator[y]
                PROVE  order'[Creator[y]] = y /\ pc'[Creator[y]] \notin Opening
    BY DEF SharedAfterwards, Opening
  <2>1. Creator[y] \in Parties /\ y # NoOrder  BY ExchangeAssumption, OrderAssumption
  <2>2. order[Creator[y]] = y /\ pc[Creator[y]] \notin Opening
    <3>1. CASE q = p  BY <1>4, <3>1 DEF Idle, Opening
    <3>2. CASE q # p
      <4>1. order[q] = y  BY <1>2, <3>2 DEF ClientKeeps
      <4>. QED  BY <4>1 DEF SharedAfterwards, Opening
    <3>. QED  BY <3>1, <3>2
  <2>3. Creator[y] # p  BY <1>4, <2>1, <2>2
  <2>. QED  BY <1>2, <2>1, <2>2, <2>3 DEF ClientKeeps
<1>. QED  BY <1>3, <1>5

\* An invocation that hands in an asset is refused only by an order that turns the
\* asset down; the one that asks for the attestation is not refused.
LEMMA RefusedStray ==
  ASSUME ExchangeInv, OrderInv, OpenLedgers, OwnersKnow, SharedAfterwards, Tended,
         [OrderNext]_allVars, NEW p \in Parties, Refused(p)
  PROVE  OwnersKnow' /\ SharedAfterwards' /\ Tended'
<1>. USE DEF Refused, Stop
<1>1. UNCHANGED vars /\ order' = order  OBVIOUS
<1>2. escrowed' = escrowed /\ state' = state
  BY <1>1 DEF vars, issuerVars, ledgerVars, exchangeVars
<1>3. \A q \in Parties \ {p} : ClientKeeps(q)
  BY DEF ClientKeeps, OrderInv, OrderTypeOK
<1>4. HandsOn(p)
  <2>. SUFFICES ASSUME NEW i \in Issuers, NEW a \in escrowed[i], a.owner = p,
                       OnItsWay(i, a)
                PROVE  Unwanted(i, a)'
    BY DEF HandsOn
  <2>1. Unwanted(i, a)' <=> Unwanted(i, a)
    BY <1>1 DEF Unwanted, Matches, vars, exchangeVars
  <2>2. ledger[p] = i /\ pc[p] \in Delivering  BY DEF OnItsWay, Delivering
  <2>3. i \in initialized  BY DEF OpenLedgers
  <2>4. a.agent = order[p]  BY DEF OwnersKnow
  <2>5. CASE pc[p] \in {"offer_attestation", "match_attestation"}
    <3>1. Accepted(p)  BY <2>2, <2>3, <2>4, <2>5 DEF Accepted, IsEscrowed
    <3>. QED  BY <3>1
  <2>6. CASE pc[p] = "initialize"
    <3>1. state[order[p]] = "START"  BY <2>6 DEF OrderInv, Ready
    <3>. QED  BY <2>1, <2>4, <3>1 DEF Unwanted
  <2>7. CASE pc[p] = "exchange"
    <3>1. paper[p] = a  BY <2>7 DEF OnItsWay
    <3>2. a \in attested[i]  BY <2>2, <2>7, <3>1 DEF OrderInv, Ready
    <3>3. ~ Exchangeable(order[p], p, i, a)  BY <2>2, <2>7, <3>1 DEF Accepted
    <3>. QED  BY <2>1, <2>4, <3>2, <3>3 DEF Exchangeable, Authoritative, Unwanted
  <2>. QED  BY <2>2, <2>5, <2>6, <2>7 DEF Delivering
<1>5. OwnersKnow' /\ Tended'  BY <1>1, <1>2, <1>3, <1>4, QuietStray
<1>6. \A q \in Parties : pc'[q] \in Opening => pc[q] \in Opening
  BY DEF OrderInv, OrderTypeOK, Opening
<1>. QED  BY <1>1, <1>5, <1>6, SharedStep

\* A step that neither moves an escrowed asset nor changes what a command has in hand.
LEMMA ElsewhereStray ==
  ASSUME ExchangeInv, OrderInv, OwnersKnow, SharedAfterwards, Tended, [OrderNext]_allVars,
         NEW p \in Parties, escrowed' = escrowed,
         UNCHANGED clientVars \/ SaveOrder(p)
  PROVE  OwnersKnow' /\ SharedAfterwards' /\ Tended'
<1>1. order' = order  BY DEF clientVars, SaveOrder
<1>2. \A q \in Parties \ {p} : ClientKeeps(q)
  BY DEF ClientKeeps, clientVars, SaveOrder, OrderInv, OrderTypeOK
<1>3. HandsOn(p)
  BY DEF HandsOn, OnItsWay, clientVars, SaveOrder
<1>4. \A q \in Parties : pc'[q] \in Opening => pc[q] \in Opening
  BY DEF clientVars, SaveOrder, OrderInv, OrderTypeOK, Opening
<1>. QED  BY <1>1, <1>2, <1>3, <1>4, QuietStray, SharedStep

LEMMA StrayNext ==
  ASSUME ExchangeInv, OrderInv, StrayInv, [OrderNext]_allVars
  PROVE  StrayInv'
<1>1. OpenLedgers'
  BY OrderStepIsNext, OpenLedgersNext DEF ExchangeInv, StrayInv
<1>. SUFFICES ASSUME failures' = 0
              PROVE  OwnersKnow' /\ SharedAfterwards' /\ Tended'
  BY <1>1 DEF StrayInv
<1>2. ASSUME NEW p \in Parties, Fail(p) \/ Restart(p) PROVE FALSE
  BY <1>2 DEF Fail, Restart, OrderInv, OrderTypeOK
<1>. USE DEF StrayInv
<1>3. ASSUME NEW p \in Parties, Command(p)
      PROVE  OwnersKnow' /\ SharedAfterwards' /\ Tended'
  <2>1. ASSUME NEW i \in Issuers, NEW n \in 0 .. IntMax, MatchOrder(p, i, n)
        PROVE  OwnersKnow' /\ SharedAfterwards' /\ Tended'
    <3>1. failures = 0  BY <2>1 DEF MatchOrder, Then
    <3>2. pc[p] \notin Delivering  BY <2>1 DEF MatchOrder, Idle, Delivering
    <3>. QED  BY <2>1, <3>1, <3>2, EscrowStray DEF MatchOrder
  <2>2. CASE \E x \in Exchanges : CreateOrder(p, x) \/ ImportOrder(p, x)
    <3>1. failures = 0  BY <2>2 DEF CreateOrder, ImportOrder
    <3>. QED  BY <2>2, <3>1, CreateOrderStray, ImportOrderStray
  <2>3. CASE CancelOrder(p) \/ ClaimOffer(p) \/ ClaimPayment(p)
    <3>1. failures = 0  BY <2>3 DEF CancelOrder, ClaimOffer, ClaimPayment, Then
    <3>. QED  BY <2>3, <3>1, FetchingStray
  <2>4. ASSUME UNCHANGED <<escrowed, clientVars>>
        PROVE  OwnersKnow' /\ SharedAfterwards' /\ Tended'
    <3>1. failures = 0  BY <2>4 DEF clientVars
    <3>. QED  BY <2>4, <3>1, ElsewhereStray
  <2>5. CASE ReleaseOrder(p)
    BY <2>4, <2>5 DEF ReleaseOrder, allVars, vars, issuerVars, ledgerVars
  <2>6. CASE \E i \in Issuers, n \in 0 .. IntMax : IssueAssets(p, i, n)
    BY <2>4, <2>6 DEF IssueAssets, Issue
  <2>7. CASE \E q \in Parties, i \in Issuers, n \in 0 .. IntMax : TransferAssets(p, q, i, n)
    BY <2>4, <2>7 DEF TransferAssets, Transfer
  <2>. QED  BY <1>3, <2>1, <2>2, <2>3, <2>5, <2>6, <2>7 DEF Command
<1>4. ASSUME NEW p \in Parties, Proceed(p)
      PROVE  OwnersKnow' /\ SharedAfterwards' /\ Tended'
  <2>1. failures = 0
    BY <1>4 DEF Proceed, OfferEscrow, OpEscrowAttestation, OpInitialize, SaveOrder, OpExchange,
       OpCancelAttestation, OpRelease, OpClaim, Then
  <2>2. CASE OfferEscrow(p)
    <3>1. ledger[p] \in Issuers  BY DEF OrderInv, OrderTypeOK
    <3>2. pc[p] = "offer_escrow" /\ pc[p] \notin Delivering
      BY <2>2 DEF OfferEscrow, Delivering
    <3>. QED  BY <2>1, <2>2, <3>1, <3>2, EscrowStray DEF OfferEscrow
  <2>3. CASE SaveOrder(p)
    <3>1. escrowed' = escrowed  BY <2>3 DEF SaveOrder, vars, issuerVars, ledgerVars
    <3>. QED  BY <2>1, <2>3, <3>1, ElsewhereStray
  <2>. QED
    BY <1>4, <2>1, <2>2, <2>3, OpEscrowAttestationStray, HandingInStray, FetchingStray
    DEF Proceed
<1>5. ASSUME NEW p \in Parties, Refused(p)
      PROVE  OwnersKnow' /\ SharedAfterwards' /\ Tended'
  <2>1. failures = 0  BY <1>5 DEF Refused
  <2>. QED  BY <1>5, <2>1, RefusedStray
<1>6. ASSUME UNCHANGED <<escrowed, state, offered, exchanged, request, clientVars>>
      PROVE  OwnersKnow' /\ SharedAfterwards' /\ Tended'
  BY <1>6
  DEF clientVars, OwnersKnow, SharedAfterwards, Tended, OnItsWay, Unwanted, Matches
<1>7. CASE \E i \in Issuers : InitializeIssuer(i) /\ UNCHANGED <<exchangeVars, clientVars>>
  BY <1>6, <1>7 DEF InitializeIssuer, exchangeVars
<1>8. CASE UNCHANGED allVars
  BY <1>6, <1>8 DEF allVars, vars, issuerVars, ledgerVars, exchangeVars
<1>. QED  BY <1>2, <1>3, <1>4, <1>5, <1>7, <1>8 DEF OrderNext

LEMMA StrayInit == OrderInit => StrayInv
BY OrderAssumption, ExchangeAssumption
DEF OrderInit, Init, IssuerInit, ClientInit, StrayInv, OpenLedgers, OwnersKnow,
    SharedAfterwards, Tended

LEMMA StrayOnlyIfRefusedHolds == ExchangeInv /\ StrayInv => StrayOnlyIfRefused
<1>. SUFFICES ASSUME ExchangeInv, StrayInv, failures = 0,
                     NEW i \in Issuers, NEW a \in escrowed[i], Stray(i, a)
              PROVE  Unwanted(i, a)
  BY DEF StrayOnlyIfRefused
<1>1. Idle(a.owner)  BY DEF StrayInv, OwnersKnow, Stray
<1>2. ~ OnItsWay(i, a)  BY <1>1 DEF OnItsWay, Idle
<1>. QED  BY <1>2 DEF StrayInv, Tended, Stray

\* While nothing fails, an asset that lies in escrow without a command to hand it in
\* was turned down: the order was settled or never opened, or the asset is not what
\* it asks for.
THEOREM StraysWereRefused == OrderSpec => []StrayOnlyIfRefused
<1>1. ExchangeInv /\ OrderInv /\ StrayInv /\ [OrderNext]_allVars => StrayInv'
  BY StrayNext
<1>. QED
  BY <1>1, StrayInit, StrayOnlyIfRefusedHolds, OrderInvariant, PTL DEF OrderSpec
=============================================================================
