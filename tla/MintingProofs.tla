---------------------------- MODULE MintingProofs ----------------------------
(***************************************************************************)
(* Proofs about mint_tokens, for any number of clients that run it, with   *)
(* contexts of their own, against one issuer and one guardian, however     *)
(* often they are interrupted.                                             *)
(***************************************************************************)
EXTENDS TokenMinting, FiniteSetTheorems, TLAPS

\* What ends a command: the client keeps its context, or reads the file again.
Ends(c) ==
  /\ failures' \in 0 .. MaxFailures
  /\ Raise(c) \/ Restart(c)

LEMMA NextCases ==
  ASSUME MintingTypeOK, [MintingNext]_mintingVars
  PROVE  \/ \E c \in Clients : BeginMinting(c) \/ MintingStep(c) \/ Ends(c)
         \/ \E o \in Objects : ProvisionAgain(o)
         \/ UNCHANGED mintingVars
<1>1. failures \in 0 .. MaxFailures  BY DEF MintingTypeOK
<1>2. ASSUME NEW c \in Clients, Refused(c)
      PROVE  Ends(c)
  BY <1>1, <1>2 DEF Refused, Ends
<1>3. ASSUME NEW c \in Clients, Fail(c)
      PROVE  Ends(c)
  <2>1. failures' \in 0 .. MaxFailures  BY <1>1, <1>3, MintingAssumption DEF Fail
  <2>. QED  BY <2>1, <1>3 DEF Fail, Ends
<1>4. ASSUME NEW c \in Clients, Restart(c)
      PROVE  Ends(c)
  <2>1. failures' \in 0 .. MaxFailures  BY <1>1, <1>4, MintingAssumption DEF Restart
  <2>. QED  BY <2>1, <1>4 DEF Ends
<1>. QED  BY <1>2, <1>3, <1>4 DEF MintingNext

LEMMA AppendIsAList ==
  ASSUME NEW l \in Lists, Len(l) < Count, NEW o \in Objects
  PROVE  /\ Append(l, o) \in Lists
         /\ Len(Append(l, o)) = Len(l) + 1
         /\ \A n \in 1 .. Len(l) : Append(l, o)[n] = l[n]
         /\ Append(l, o)[Len(l) + 1] = o
BY MintingAssumption DEF Lists

\* A list that is as long as the entries, and in step with them, is the entries.
LEMMA FullList ==
  ASSUME NEW l \in Lists, NEW entries \in [1 .. Count -> Objects \cup {NoObject}],
         Len(l) = Count, \A n \in 1 .. Len(l) : l[n] = entries[n]
  PROVE  l = entries
BY MintingAssumption DEF Lists

LEMMA ListOfEntries ==
  ASSUME NEW l \in Lists, NEW entries \in [1 .. Count -> Objects \cup {NoObject}], l = entries
  PROVE  Len(l) = Count
BY MintingAssumption DEF Lists

LEMMA MadeAreObjects ==
  ASSUME MintingTypeOK
  PROVE  1 .. made \subseteq Objects /\ minted \subseteq Objects
<1>1. 1 .. made \subseteq Objects  BY MintingAssumption DEF MintingTypeOK, Objects
<1>. QED  BY <1>1 DEF MintingTypeOK

-----------------------------------------------------------------------------
(* Types. *)

LEMMA NextType ==
  ASSUME MintingInv, [MintingNext]_mintingVars
  PROVE  MintingTypeOK'
<1>. USE MintingAssumption DEF MintingTypeOK
<1>. MintingTypeOK  BY DEF MintingInv
<1>1. ASSUME NEW c \in Clients, BeginMinting(c)
      PROVE  MintingTypeOK'
  <2>1. context[c].list \in Lists  BY DEF Contexts
  <2>. QED  BY <1>1, <2>1 DEF BeginMinting, Goto, Steps, issuerVars, guardianVars
<1>2. ASSUME NEW c \in Clients, CreateToken(c)
      PROVE  MintingTypeOK'
  <2>1. made' \in 0 .. MaxObjects /\ made' > made  BY <1>2 DEF CreateToken
  <2>2. current' \in [Clients -> 0 .. made']  BY <1>2, <2>1 DEF CreateToken
  <2>3. registered \subseteq 1 .. made'  BY <2>1
  <2>. QED  BY <1>2, <2>1, <2>2, <2>3 DEF CreateToken, Goto, Steps, issuerVars, guardianVars
<1>3. ASSUME NEW c \in Clients, AddEndpoint(c)
      PROVE  MintingTypeOK'
  <2>1. current[c] \in 1 .. made  BY <1>3 DEF AddEndpoint, MintingInv, PlacesInv, InProgress, Steps
  <2>. QED  BY <1>3, <2>1 DEF AddEndpoint, Goto, Steps, IssuerChanges, guardianVars
<1>4. ASSUME NEW c \in Clients, MintToken(c)
      PROVE  MintingTypeOK'
  <2>1. remaining' \in 0 .. Count  BY <1>4 DEF MintToken, Mint
  <2>2. packages \subseteq minted' \X (1 .. generated)  BY <1>4 DEF MintToken, Mint
  <2>. QED  BY <1>4, <2>1, <2>2 DEF MintToken, Mint, Goto, Steps, IssuerChanges, guardianVars
<1>5. ASSUME NEW c \in Clients, AttestState(c) \/ PackageToken(c) \/ GetAuthority(c)
      PROVE  MintingTypeOK'
  BY <1>5 DEF AttestState, PackageToken, GetAuthority, Goto, Steps, issuerVars, guardianVars
<1>6. ASSUME NEW c \in Clients, ApproveToken(c)
      PROVE  MintingTypeOK'
  <2>1. current[c] \in minted  BY <1>6 DEF ApproveToken, MintingInv, PlacesInv, InProgress, Steps
  <2>. QED  BY <1>6, <2>1 DEF ApproveToken, Goto, Steps, IssuerChanges, guardianVars
<1>7. ASSUME NEW o \in Objects, Provision(o), o \in minted
      PROVE  /\ generated' \in Nat /\ generated' >= generated
             /\ identity' \in [Objects -> 0 .. generated']
             /\ packages' \subseteq minted \X (1 .. generated')
  <2>. DEFINE key == IF identity[o] = NoKey THEN generated + 1 ELSE identity[o]
  <2>1. generated' \in Nat /\ generated' >= generated /\ key \in 1 .. generated'
    BY <1>7 DEF Provision, NoKey
  <2>2. identity' = [identity EXCEPT ![o] = key] /\ packages' = packages \cup {<<o, key>>}
    BY <1>7 DEF Provision
  <2>. HIDE DEF key
  <2>3. packages' \subseteq minted \X (1 .. generated')  BY <1>7, <2>1, <2>2
  <2>. QED  BY <1>7, <2>1, <2>2, <2>3
<1>8. ASSUME NEW c \in Clients, ProvisionToken(c)
      PROVE  MintingTypeOK'
  <2>1. current[c] \in minted /\ current[c] \in Objects
    BY <1>8, MadeAreObjects DEF ProvisionToken, MintingInv, PlacesInv, InProgress, Steps
  <2>2. Provision(current[c])  BY <1>8 DEF ProvisionToken
  <2>3. generation \in [Objects -> 0 .. generated']  BY <2>1, <2>2, <1>7
  <2>. QED  BY <1>7, <1>8, <2>1, <2>2, <2>3 DEF ProvisionToken, Goto, Steps, issuerVars
<1>9. ASSUME NEW c \in Clients, OpInitialize(c)
      PROVE  MintingTypeOK'
  <2>1. PICK package \in packages : generation' = [generation EXCEPT ![current[c]] = package[2]]
    BY <1>9 DEF OpInitialize, InitializeToken
  <2>2. package[2] \in 0 .. generated  BY <2>1
  <2>. QED  BY <1>9, <2>1, <2>2 DEF OpInitialize, Goto, Steps, issuerVars, guardianVars
<1>10. ASSUME NEW c \in Clients, RecordToken(c)
      PROVE  MintingTypeOK'
  <2>1. current[c] \in Objects /\ Len(list[c]) < Count
    BY <1>10, MadeAreObjects DEF RecordToken, MintingInv, PlacesInv, InProgress, Steps
  <2>2. Append(list[c], current[c]) \in Lists  BY <2>1, AppendIsAList
  <2>3. Recorded(c) \in Contexts  BY <2>1 DEF Recorded, Contexts
  <2>. QED  BY <1>10, <2>2, <2>3 DEF RecordToken, Goto, Steps, issuerVars, guardianVars
<1>11. ASSUME NEW c \in Clients, FinishMinting(c)
      PROVE  MintingTypeOK'
  <2>1. [context[c] EXCEPT !.list = list[c]] \in Contexts  BY DEF Contexts
  <2>. QED  BY <1>11, <2>1 DEF FinishMinting, Goto, Steps, issuerVars, guardianVars
<1>12. ASSUME NEW c \in Clients, SaveContextFile(c)
      PROVE  MintingTypeOK'
  BY <1>12 DEF SaveContextFile, Goto, Steps, issuerVars, guardianVars
<1>13. ASSUME NEW c \in Clients, Ends(c)
      PROVE  MintingTypeOK'
  <2>1. <<>> \in Lists  BY DEF Lists
  <2>2. CASE Raise(c)
    BY <1>13, <2>1, <2>2 DEF Raise, Ends, Goto, Steps, issuerVars, guardianVars, NoObject
  <2>3. CASE Restart(c)
    BY <1>13, <2>1, <2>3 DEF Restart, Ends, Goto, Steps, issuerVars, guardianVars, NoObject
  <2>. QED  BY <1>13, <2>2, <2>3 DEF Ends
<1>14. ASSUME NEW o \in Objects, ProvisionAgain(o)
      PROVE  MintingTypeOK'
  <2>1. Provision(o) /\ o \in minted
    BY <1>14 DEF ProvisionAgain, MintingInv, KeysInv
  <2>2. generation \in [Objects -> 0 .. generated']  BY <2>1, <1>7
  <2>. QED  BY <1>7, <1>14, <2>1, <2>2 DEF ProvisionAgain, issuerVars, clientVars
<1>15. CASE UNCHANGED mintingVars
  BY <1>15 DEF mintingVars, issuerVars, guardianVars, clientVars
<1>. QED
  BY <1>1, <1>2, <1>3, <1>4, <1>5, <1>6, <1>8, <1>9, <1>10, <1>11, <1>12, <1>13, <1>14, <1>15,
     NextCases DEF MintingStep

-----------------------------------------------------------------------------
(* What grows, and what a step of one client leaves to the others. *)

LEMMA Grows ==
  ASSUME MintingInv, [MintingNext]_mintingVars
  PROVE  /\ 1 .. made \subseteq 1 .. made'
         /\ minted \subseteq minted' /\ approved \subseteq approved'
         /\ Ready \subseteq Ready'
<1>. MintingTypeOK  BY DEF MintingInv
<1>1. ASSUME NEW c \in Clients, CreateToken(c)
      PROVE  1 .. made \subseteq 1 .. made' /\ UNCHANGED <<minted, approved, generation>>
  BY <1>1 DEF CreateToken, MintingTypeOK, issuerVars
<1>2. ASSUME NEW c \in Clients, OpInitialize(c)
      PROVE  Ready \subseteq Ready' /\ UNCHANGED <<made, minted, approved>>
  <2>1. PICK key : generation' = [generation EXCEPT ![current[c]] = key]
    BY <1>2 DEF OpInitialize, InitializeToken
  <2>2. generation[current[c]] = NoKey  BY <1>2 DEF OpInitialize, InitializeToken
  <2>. QED  BY <1>2, <2>1, <2>2 DEF OpInitialize, Ready, MintingTypeOK, issuerVars
<1>3. ASSUME NEW c \in Clients,
             BeginMinting(c) \/ AddEndpoint(c) \/ MintToken(c) \/ AttestState(c) \/ PackageToken(c)
               \/ ApproveToken(c) \/ GetAuthority(c) \/ ProvisionToken(c)
               \/ RecordToken(c) \/ FinishMinting(c) \/ SaveContextFile(c) \/ Ends(c)
      PROVE  /\ made' = made /\ generation' = generation
             /\ minted \subseteq minted' /\ approved \subseteq approved'
  BY <1>3 DEF BeginMinting, AddEndpoint, MintToken, Mint, AttestState, PackageToken, ApproveToken,
     GetAuthority, ProvisionToken, RecordToken, FinishMinting, SaveContextFile, Ends, Raise, Restart,
     issuerVars
<1>4. ASSUME NEW o \in Objects, ProvisionAgain(o)
      PROVE  UNCHANGED <<made, minted, approved, generation>>
  BY <1>4 DEF ProvisionAgain, issuerVars
<1>5. ASSUME UNCHANGED mintingVars
      PROVE  UNCHANGED <<made, minted, approved, generation>>
  BY <1>5 DEF mintingVars, issuerVars
<1>. QED  BY <1>1, <1>2, <1>3, <1>4, <1>5, NextCases DEF Ready, MintingStep

LEMMA OthersGoOn ==
  ASSUME MintingTypeOK, NEW c \in Clients, BeginMinting(c) \/ MintingStep(c) \/ Ends(c),
         NEW d \in Clients, d # c
  PROVE  pc'[d] = pc[d] /\ current'[d] = current[d] /\ list'[d] = list[d] /\ context'[d] = context[d]
BY DEF MintingTypeOK, MintingStep, BeginMinting, CreateToken, AddEndpoint, MintToken, AttestState,
   PackageToken, ApproveToken, GetAuthority, ProvisionToken, OpInitialize, RecordToken, FinishMinting,
   SaveContextFile, Ends, Raise, Restart, Goto

LEMMA AllGoOn ==
  ASSUME NEW o \in Objects, ProvisionAgain(o) \/ UNCHANGED mintingVars
  PROVE  UNCHANGED clientVars
BY DEF ProvisionAgain, mintingVars, clientVars

-----------------------------------------------------------------------------
(* How far tokens have come. *)

LEMMA NextPlaces ==
  ASSUME MintingInv, [MintingNext]_mintingVars
  PROVE  PlacesInv'
<1>. MintingTypeOK /\ PlacesInv /\ MintingTypeOK'  BY NextType DEF MintingInv
<1>. DEFINE Here(c) == /\ pc[c] \in InProgress =>
                            /\ current[c] \in 1 .. made
                            /\ current[c] \notin Range(list[c])
                            /\ Len(list[c]) < Count
                       /\ pc[c] \in InProgress \ {"add_endpoint", "mint"} => current[c] \in minted
                       /\ pc[c] = "record" => current[c] \in Ready
<1>1. \A c \in Clients : Here(c)  BY DEF PlacesInv
<1>2. SUFFICES ASSUME NEW d \in Clients PROVE Here(d)'
  BY DEF PlacesInv
<1>3. CASE pc'[d] = pc[d] /\ current'[d] = current[d] /\ list'[d] = list[d]
  BY <1>1, <1>3, Grows
<1>4. ASSUME BeginMinting(d) PROVE Here(d)'
  BY <1>4 DEF BeginMinting, Goto, MintingTypeOK, InProgress
<1>5. ASSUME CreateToken(d) PROVE Here(d)'
  <2>1. made' = made + 1 /\ current'[d] = made + 1 /\ list'[d] = list[d] /\ pc'[d] = "add_endpoint"
    BY <1>5 DEF CreateToken, Goto, MintingTypeOK
  <2>2. made + 1 \in 1 .. made'  BY <2>1 DEF MintingTypeOK
  <2>3. made + 1 \notin Ready
    BY MintingAssumption DEF MintingInv, KeysInv, MintingTypeOK
  <2>4. Len(list[d]) < Count  BY <1>5 DEF CreateToken
  <2>. QED  BY <2>1, <2>2, <2>3, <2>4 DEF MintingInv, ListsInv
<1>6. ASSUME AddEndpoint(d) \/ AttestState(d) \/ PackageToken(d) \/ ApproveToken(d) \/ GetAuthority(d)
               \/ ProvisionToken(d)
      PROVE  Here(d)'
  <2>1. current' = current /\ list' = list /\ made' = made /\ minted' = minted
    BY <1>6 DEF AddEndpoint, AttestState, PackageToken, ApproveToken, GetAuthority, ProvisionToken,
       issuerVars
  <2>2. \/ pc[d] = "add_endpoint" /\ pc'[d] = "mint"
        \/ /\ pc[d] \in {"attest", "package", "approve", "authority", "provision"}
           /\ pc'[d] \in {"package", "approve", "authority", "provision", "initialize"}
    BY <1>6 DEF AddEndpoint, AttestState, PackageToken, ApproveToken, GetAuthority, ProvisionToken, Goto,
       MintingTypeOK
  <2>. QED  BY <1>1, <2>1, <2>2 DEF InProgress, Steps
<1>7. ASSUME MintToken(d) PROVE Here(d)'
  <2>1. current' = current /\ list' = list /\ made' = made /\ current[d] \in minted'
    BY <1>7 DEF MintToken, Mint
  <2>2. pc[d] = "mint" /\ pc'[d] = "attest"  BY <1>7 DEF MintToken, Goto, MintingTypeOK
  <2>. QED  BY <1>1, <2>1, <2>2 DEF InProgress, Steps
<1>8. ASSUME OpInitialize(d) PROVE Here(d)'
  <2>1. current' = current /\ list' = list /\ made' = made /\ minted' = minted
    BY <1>8 DEF OpInitialize, issuerVars
  <2>2. pc[d] = "initialize" /\ pc'[d] = "record"  BY <1>8 DEF OpInitialize, Goto, MintingTypeOK
  <2>3. PICK package \in packages :
           package[1] = current[d] /\ generation' = [generation EXCEPT ![current[d]] = package[2]]
    BY <1>8 DEF OpInitialize, InitializeToken
  <2>4. current[d] \in Objects  BY <2>3, MadeAreObjects DEF MintingTypeOK
  <2>5. package[2] # NoKey  BY <2>3 DEF MintingTypeOK, NoKey
  <2>6. current[d] \in Ready'  BY <2>1, <2>3, <2>4, <2>5 DEF Ready, MintingTypeOK
  <2>. QED  BY <1>1, <2>1, <2>2, <2>6 DEF InProgress, Steps
<1>9. ASSUME RecordToken(d) \/ FinishMinting(d) \/ SaveContextFile(d) \/ Ends(d) PROVE Here(d)'
  <2>1. pc'[d] \in {"loop", "save", "idle"}
    BY <1>9 DEF RecordToken, FinishMinting, SaveContextFile, Ends, Raise, Restart, Goto, MintingTypeOK
  <2>. QED  BY <2>1 DEF InProgress, Steps
<1>10. ASSUME NEW c \in Clients, BeginMinting(c) \/ MintingStep(c) \/ Ends(c) PROVE Here(d)'
  <2>1. CASE c = d
    BY <1>4, <1>5, <1>6, <1>7, <1>8, <1>9, <1>10, <2>1 DEF MintingStep
  <2>2. CASE c # d  BY <1>3, <1>10, <2>2, OthersGoOn
  <2>. QED  BY <2>1, <2>2
<1>11. CASE (\E o \in Objects : ProvisionAgain(o)) \/ UNCHANGED mintingVars
  <2>1. UNCHANGED clientVars  BY <1>11, AllGoOn DEF mintingVars
  <2>. QED  BY <1>3, <2>1 DEF clientVars
<1>. QED  BY <1>10, <1>11, NextCases

-----------------------------------------------------------------------------
(* Keys. *)

\* The guardian's operation keeps one key for each identity, whoever asks.
LEMMA ProvisionKeepsKeys ==
  ASSUME MintingInv, NEW o \in Objects, o \in minted, Provision(o),
         UNCHANGED <<minted, approved, generation>>
  PROVE  KeysInv'
<1>. MintingTypeOK /\ KeysInv  BY DEF MintingInv
<1>. DEFINE key == IF identity[o] = NoKey THEN generated + 1 ELSE identity[o]
<1>1. key # NoKey /\ (identity[o] # NoKey => key = identity[o])
  BY DEF MintingTypeOK, NoKey
<1>2. \A q \in Objects \ {o} : identity[q] # key
  BY DEF MintingTypeOK, NoKey, KeysInv
<1>3. /\ identity' = [identity EXCEPT ![o] = key]
      /\ packages' = packages \cup {<<o, key>>}
  BY DEF Provision
<1>. HIDE DEF key
<1>4. identity'[o] = key /\ \A q \in Objects \ {o} : identity'[q] = identity[q]
  BY <1>3 DEF MintingTypeOK
<1>5. \A q \in Objects : identity'[q] # NoKey =>
        q \in minted /\ \A r \in Objects \ {q} : identity'[r] # identity'[q]
  BY <1>1, <1>2, <1>4 DEF KeysInv
<1>6. \A q \in Objects : identity[q] # NoKey => identity'[q] = identity[q]
  BY <1>1, <1>4
<1>7. \A package \in packages' : package[2] = identity'[package[1]]
  <2>1. SUFFICES ASSUME NEW package \in packages PROVE package[2] = identity'[package[1]]
    BY <1>3, <1>4
  <2>2. package[1] \in minted /\ package[2] \in 1 .. generated  BY DEF MintingTypeOK
  <2>3. package[1] \in Objects  BY <2>2, MadeAreObjects
  <2>4. package[2] # NoKey  BY <2>2 DEF MintingTypeOK, NoKey
  <2>. QED  BY <1>6, <2>3, <2>4 DEF KeysInv
<1>8. Ready' = Ready  BY DEF Ready
<1>9. \A q \in Ready : generation[q] = identity'[q]
  BY <1>6 DEF KeysInv, Ready
<1>. QED  BY <1>5, <1>7, <1>8, <1>9 DEF KeysInv

LEMMA NextKeys ==
  ASSUME MintingInv, [MintingNext]_mintingVars
  PROVE  KeysInv'
<1>. MintingTypeOK /\ KeysInv  BY DEF MintingInv
<1>1. ASSUME NEW c \in Clients, ProvisionToken(c) PROVE KeysInv'
  <2>1. current[c] \in minted
    BY <1>1 DEF ProvisionToken, MintingInv, PlacesInv, InProgress, Steps
  <2>. QED  BY <1>1, <2>1, MadeAreObjects, ProvisionKeepsKeys DEF ProvisionToken, issuerVars
<1>2. ASSUME NEW o \in Objects, ProvisionAgain(o) PROVE KeysInv'
  <2>1. o \in minted  BY <1>2 DEF ProvisionAgain, KeysInv
  <2>2. Provision(o) /\ UNCHANGED <<minted, approved, generation>>
    BY <1>2 DEF ProvisionAgain, issuerVars
  <2>. QED  BY <2>1, <2>2, ProvisionKeepsKeys
<1>3. ASSUME NEW c \in Clients, OpInitialize(c) PROVE KeysInv'
  <2>1. UNCHANGED <<minted, approved, identity, packages>>
    BY <1>3 DEF OpInitialize, issuerVars, guardianVars
  <2>2. PICK package \in packages :
          /\ package[1] = current[c] /\ current[c] \in approved
          /\ generation' = [generation EXCEPT ![current[c]] = package[2]]
    BY <1>3 DEF OpInitialize, InitializeToken
  <2>3. current[c] \in minted /\ package[2] = identity[current[c]]
    BY <2>2 DEF MintingTypeOK, KeysInv
  <2>4. \A o \in Ready' : o = current[c] \/ (o \in Ready /\ generation'[o] = generation[o])
    BY <2>2 DEF Ready, MintingTypeOK
  <2>5. \A o \in Ready' : generation'[o] = identity[o] /\ o \in minted \cap approved
    BY <2>2, <2>3, <2>4 DEF KeysInv, Ready, MintingTypeOK
  <2>. QED  BY <2>1, <2>5 DEF KeysInv
<1>4. CASE UNCHANGED <<identity, packages, generation>>
  <2>1. Ready' = Ready  BY <1>4 DEF Ready
  <2>. QED  BY <1>4, <2>1, Grows DEF KeysInv
<1>5. ASSUME NEW c \in Clients,
             BeginMinting(c) \/ CreateToken(c) \/ AddEndpoint(c) \/ MintToken(c) \/ AttestState(c)
               \/ PackageToken(c) \/ ApproveToken(c) \/ GetAuthority(c)
               \/ RecordToken(c) \/ FinishMinting(c) \/ SaveContextFile(c) \/ Ends(c)
      PROVE  UNCHANGED <<identity, packages, generation>>
  BY <1>5 DEF BeginMinting, CreateToken, AddEndpoint, MintToken, AttestState, PackageToken, ApproveToken,
     GetAuthority, RecordToken, FinishMinting, SaveContextFile, Ends, Raise, Restart, guardianVars
<1>6. CASE UNCHANGED mintingVars
  BY <1>4, <1>6 DEF mintingVars, guardianVars
<1>. QED  BY <1>1, <1>2, <1>3, <1>4, <1>5, <1>6, NextCases DEF MintingStep

-----------------------------------------------------------------------------
(* The limit. *)

LEMMA NextLimit ==
  ASSUME MintingInv, [MintingNext]_mintingVars
  PROVE  IsFiniteSet(minted)' /\ LimitKept'
<1>. MintingTypeOK  BY DEF MintingInv
<1>1. Ready' \subseteq minted' \cap approved'  BY NextKeys DEF KeysInv
<1>2. IsFiniteSet(minted) /\ Cardinality(minted) + remaining = Count
  BY DEF MintingInv, LimitKept
<1>3. ASSUME NEW c \in Clients, MintToken(c)
      PROVE  IsFiniteSet(minted') /\ Cardinality(minted') + remaining' = Count
  <2>1. /\ current[c] \notin minted /\ minted' = minted \cup {current[c]}
        /\ remaining > 0 /\ remaining' = remaining - 1
    BY <1>3 DEF MintToken, Mint
  <2>2. IsFiniteSet(minted') /\ Cardinality(minted') = Cardinality(minted) + 1
    BY <1>2, <2>1, FS_AddElement
  <2>3. Cardinality(minted) \in Nat /\ remaining \in Nat  BY <1>2, FS_CardinalityType DEF MintingTypeOK
  <2>4. Cardinality(minted') + remaining' = Cardinality(minted) + remaining
    BY <2>1, <2>2, <2>3
  <2>. QED  BY <1>2, <2>2, <2>4
<1>4. ASSUME NEW c \in Clients,
             BeginMinting(c) \/ CreateToken(c) \/ AddEndpoint(c) \/ AttestState(c)
               \/ PackageToken(c) \/ ApproveToken(c) \/ GetAuthority(c) \/ ProvisionToken(c)
               \/ OpInitialize(c)
               \/ RecordToken(c) \/ FinishMinting(c) \/ SaveContextFile(c) \/ Ends(c)
      PROVE  UNCHANGED <<minted, remaining>>
  BY <1>4 DEF BeginMinting, CreateToken, AddEndpoint, AttestState, PackageToken, ApproveToken,
     GetAuthority, ProvisionToken, OpInitialize, RecordToken, FinishMinting, SaveContextFile, Ends, Raise,
     Restart, issuerVars
<1>5. CASE (\E o \in Objects : ProvisionAgain(o)) \/ UNCHANGED mintingVars
  <2>1. UNCHANGED <<minted, remaining>>  BY <1>5 DEF ProvisionAgain, mintingVars, issuerVars
  <2>. QED  BY <1>1, <1>2, <2>1 DEF LimitKept
<1>. QED  BY <1>1, <1>2, <1>3, <1>4, <1>5, NextCases DEF MintingStep, LimitKept

-----------------------------------------------------------------------------
(* The list kept aside, and the records. *)

\* Sound, with the tokens that are ready given.
SoundFor(ready, record) ==
  /\ (Range(record.entries) \cup Range(record.list)) \ {NoObject} \subseteq ready
  /\ IsInjective(record.list)
  /\ record.list # <<>> => record.list = record.entries

LEMMA RecordsSoundFor ==
  /\ RecordsSound <=> SoundFor(Ready, file) /\ \A c \in Clients : SoundFor(Ready, context[c])
  /\ RecordsSound' <=> SoundFor(Ready', file') /\ \A c \in Clients : SoundFor(Ready', context'[c])
BY DEF RecordsSound, Sound, SoundFor

LEMMA SoundStays ==
  ASSUME NEW R, NEW S, R \subseteq S, NEW record, SoundFor(R, record)
  PROVE  SoundFor(S, record)
BY DEF SoundFor

\* While tokens are missing from the list, the context has none.
LEMMA UnlistedMeanwhile ==
  ASSUME MintingInv, NEW c \in Clients, pc[c] \in InProgress
  PROVE  context[c].list = <<>> /\ Len(list[c]) < Count
<1>. MintingTypeOK  BY DEF MintingInv
<1>1. context[c].list \in {<<>>, list[c]} /\ Len(list[c]) < Count
  BY DEF MintingInv, ListsInv, PlacesInv, InProgress, Steps
<1>2. SUFFICES ASSUME context[c].list # <<>> PROVE FALSE
  BY <1>1
<1>3. context[c].list = context[c].entries  BY <1>2 DEF MintingInv, RecordsSound, Sound
<1>4. context[c].list \in Lists /\ context[c].entries \in [1 .. Count -> Objects \cup {NoObject}]
  BY DEF MintingTypeOK, Contexts
<1>5. Len(context[c].list) = Count  BY <1>3, <1>4, ListOfEntries
<1>. QED  BY <1>1, <1>2, <1>5

LEMMA RecordedIsInStep ==
  ASSUME MintingInv, NEW c \in Clients, RecordToken(c)
  PROVE  /\ Range(list'[c]) = Range(list[c]) \cup {current[c]} /\ IsInjective(list'[c])
         /\ \A n \in 1 .. Len(list'[c]) : list'[c][n] = context'[c].entries[n]
         /\ context'[c].list = <<>>
         /\ Range(context'[c].entries) \subseteq Range(context[c].entries) \cup {current[c]}
         /\ current[c] \in Ready
<1>. MintingTypeOK  BY DEF MintingInv
<1>. DEFINE l == list[c]
            o == current[c]
            entries == context[c].entries
<1>1. /\ context[c].list = <<>> /\ Len(l) < Count /\ o \in Ready /\ o \notin Range(l)
      /\ \A n \in 1 .. Len(l) : l[n] = entries[n]
      /\ IsInjective(l)
  BY UnlistedMeanwhile DEF RecordToken, MintingInv, PlacesInv, ListsInv, InProgress, Steps
<1>2. list'[c] = Append(l, o) /\ context'[c] = Recorded(c)
  BY DEF RecordToken, MintingTypeOK
<1>3. l \in Lists /\ o \in Objects  BY <1>1 DEF MintingTypeOK, Ready
<1>4. entries \in [1 .. Count -> Objects \cup {NoObject}]  BY DEF MintingTypeOK, Contexts
<1>5. /\ context'[c].entries = [entries EXCEPT ![Len(l) + 1] = o]
      /\ context'[c].list = <<>>
  BY <1>1, <1>2 DEF Recorded, MintingTypeOK, Contexts
<1>. HIDE DEF l, o, entries
<1>6. /\ Append(l, o) \in Lists /\ Len(Append(l, o)) = Len(l) + 1
      /\ \A n \in 1 .. Len(l) : Append(l, o)[n] = l[n]
      /\ Append(l, o)[Len(l) + 1] = o
  BY <1>1, <1>3, AppendIsAList
<1>7. Len(l) \in Nat /\ DOMAIN l = 1 .. Len(l) /\ DOMAIN Append(l, o) = 1 .. Len(l) + 1
  BY <1>3, <1>6 DEF Lists
<1>8. \A n \in 1 .. Len(l) + 1 : n \in 1 .. Len(l) \/ n = Len(l) + 1
  BY <1>7
<1>9. Range(Append(l, o)) = Range(l) \cup {o}
  BY <1>6, <1>7, <1>8 DEF Range
<1>10. IsInjective(Append(l, o))
  BY <1>1, <1>6, <1>7, <1>8 DEF IsInjective, Range
<1>11. /\ \A n \in 1 .. Len(l) : [entries EXCEPT ![Len(l) + 1] = o][n] = entries[n]
       /\ [entries EXCEPT ![Len(l) + 1] = o][Len(l) + 1] = o
  BY <1>1, <1>4, <1>7, MintingAssumption
<1>12. Range([entries EXCEPT ![Len(l) + 1] = o]) \subseteq Range(entries) \cup {o}
  BY <1>4 DEF Range
<1>13. \A n \in 1 .. Len(l) + 1 : Append(l, o)[n] = [entries EXCEPT ![Len(l) + 1] = o][n]
  BY <1>1, <1>6, <1>8, <1>11
<1>14. /\ list'[c] = Append(l, o) /\ Range(list[c]) = Range(l) /\ current[c] = o
       /\ context'[c].entries = [entries EXCEPT ![Len(l) + 1] = o]
       /\ Range(context[c].entries) = Range(entries)
  BY <1>2, <1>5 DEF l, o, entries
<1>. QED  BY <1>1, <1>5, <1>6, <1>9, <1>10, <1>12, <1>13, <1>14

LEMMA NextLists ==
  ASSUME MintingInv, [MintingNext]_mintingVars
  PROVE  ListsInv'
<1>. MintingTypeOK /\ ListsInv  BY DEF MintingInv
<1>1. SUFFICES ASSUME NEW d \in Clients
               PROVE  /\ Range(list'[d]) \subseteq Ready' /\ IsInjective(list'[d])
                      /\ pc'[d] # "idle" =>
                           \A n \in 1 .. Len(list'[d]) : list'[d][n] = context'[d].entries[n]
                      /\ pc'[d] # "idle" => context'[d].list \in {<<>>, list'[d]}
  BY DEF ListsInv
<1>2. CASE /\ list'[d] = list[d] /\ context'[d] = context[d]
           /\ pc'[d] # "idle" => pc[d] # "idle"
  BY <1>2, Grows DEF ListsInv
<1>3. CASE BeginMinting(d)
  <2>1. list'[d] = context[d].list /\ context'[d] = context[d]
    BY <1>3 DEF BeginMinting, MintingTypeOK
  <2>2. context[d].list \in Lists  BY DEF MintingTypeOK, Contexts
  <2>3. NoObject \notin Range(context[d].list)
    BY <2>2, MintingAssumption DEF Range, Lists, Objects, NoObject
  <2>4. /\ Range(context[d].list) \ {NoObject} \subseteq Ready /\ IsInjective(context[d].list)
        /\ context[d].list # <<>> => context[d].list = context[d].entries
    BY DEF MintingInv, RecordsSound, Sound
  <2>5. \A n \in 1 .. Len(context[d].list) : context[d].list[n] = context[d].entries[n]
    <3>1. CASE context[d].list = <<>>  BY <3>1
    <3>. QED  BY <2>4, <3>1
  <2>. QED  BY <2>1, <2>3, <2>4, <2>5, Grows
<1>4. CASE RecordToken(d)
  BY <1>4, RecordedIsInStep, Grows DEF ListsInv
<1>5. CASE FinishMinting(d)
  <2>1. /\ list'[d] = list[d] /\ context'[d].entries = context[d].entries
        /\ context'[d].list = list[d] /\ pc[d] # "idle"
    BY <1>5 DEF FinishMinting, MintingTypeOK, Contexts
  <2>. QED  BY <2>1, Grows DEF ListsInv
<1>6. CASE SaveContextFile(d) \/ Ends(d)
  <2>1. pc'[d] = "idle" /\ list'[d] \in {<<>>, list[d]}
    BY <1>6 DEF SaveContextFile, Ends, Raise, Restart, Goto, MintingTypeOK
  <2>2. CASE list'[d] = <<>>  BY <2>1, <2>2 DEF Range, IsInjective
  <2>. QED  BY <2>1, <2>2, Grows DEF ListsInv
<1>7. ASSUME CreateToken(d) \/ AddEndpoint(d) \/ MintToken(d) \/ AttestState(d) \/ PackageToken(d)
               \/ ApproveToken(d) \/ GetAuthority(d) \/ ProvisionToken(d) \/ OpInitialize(d)
      PROVE  list'[d] = list[d] /\ context'[d] = context[d] /\ pc[d] # "idle"
  BY <1>7 DEF CreateToken, AddEndpoint, MintToken, AttestState, PackageToken, ApproveToken, GetAuthority,
     ProvisionToken, OpInitialize
<1>8. ASSUME NEW c \in Clients, BeginMinting(c) \/ MintingStep(c) \/ Ends(c), c # d
      PROVE  list'[d] = list[d] /\ context'[d] = context[d] /\ pc'[d] = pc[d]
  BY <1>8, OthersGoOn
<1>9. CASE (\E o \in Objects : ProvisionAgain(o)) \/ UNCHANGED mintingVars
  <2>1. UNCHANGED clientVars  BY <1>9, AllGoOn DEF mintingVars
  <2>. QED  BY <1>2, <2>1 DEF clientVars
<1>10. CASE BeginMinting(d) \/ MintingStep(d) \/ Ends(d)
  BY <1>2, <1>3, <1>4, <1>5, <1>6, <1>7, <1>10 DEF MintingStep
<1>. QED  BY <1>2, <1>8, <1>9, <1>10, NextCases

LEMMA NextRecords ==
  ASSUME MintingInv, [MintingNext]_mintingVars
  PROVE  RecordsSound'
<1>. MintingTypeOK  BY DEF MintingInv
<1>1. SoundFor(Ready, file) /\ \A c \in Clients : SoundFor(Ready, context[c])
  BY RecordsSoundFor DEF MintingInv
<1>2. SoundFor(Ready', file) /\ \A c \in Clients : SoundFor(Ready', context[c])
  BY <1>1, Grows, SoundStays
<1>3. SUFFICES SoundFor(Ready', file') /\ \A c \in Clients : SoundFor(Ready', context'[c])
  BY RecordsSoundFor
<1>4. ASSUME NEW c \in Clients, RecordToken(c)
      PROVE  file' = file /\ SoundFor(Ready', context'[c])
  <2>1. /\ context'[c].list = <<>> /\ current[c] \in Ready
        /\ Range(context'[c].entries) \subseteq Range(context[c].entries) \cup {current[c]}
    BY <1>4, RecordedIsInStep
  <2>2. Range(<<>>) = {} /\ IsInjective(<<>>)  BY DEF Range, IsInjective
  <2>3. Range(context[c].entries) \ {NoObject} \subseteq Ready  BY <1>1 DEF SoundFor
  <2>. QED  BY <1>4, <2>1, <2>2, <2>3, Grows DEF SoundFor, RecordToken
<1>5. ASSUME NEW c \in Clients, FinishMinting(c)
      PROVE  file' = file /\ SoundFor(Ready', context'[c])
  <2>1. /\ context'[c].list = list[c] /\ context'[c].entries = context[c].entries
        /\ Len(list[c]) = Count
    BY <1>5 DEF FinishMinting, MintingTypeOK, Contexts
  <2>2. /\ Range(list[c]) \subseteq Ready /\ IsInjective(list[c])
        /\ \A n \in 1 .. Len(list[c]) : list[c][n] = context[c].entries[n]
    BY <1>5 DEF FinishMinting, MintingInv, ListsInv
  <2>3. list[c] \in Lists /\ context[c].entries \in [1 .. Count -> Objects \cup {NoObject}]
    BY DEF MintingTypeOK, Contexts
  <2>4. list[c] = context[c].entries  BY <2>1, <2>2, <2>3, FullList
  <2>. QED  BY <1>5, <2>1, <2>2, <2>4, Grows DEF SoundFor, FinishMinting
<1>6. ASSUME NEW c \in Clients, MintingStep(c) \/ BeginMinting(c) \/ Ends(c),
             ~ RecordToken(c), ~ FinishMinting(c)
      PROVE  file' \in {file, context[c]} /\ context'[c] \in {context[c], file}
  BY <1>6 DEF BeginMinting, MintingStep, CreateToken, AddEndpoint, MintToken, AttestState,
     PackageToken, ApproveToken, GetAuthority, ProvisionToken, OpInitialize, SaveContextFile, Ends, Raise,
     Restart, MintingTypeOK
<1>7. ASSUME NEW c \in Clients, MintingStep(c) \/ BeginMinting(c) \/ Ends(c)
      PROVE  SoundFor(Ready', file') /\ \A d \in Clients : SoundFor(Ready', context'[d])
  <2>1. SoundFor(Ready', file') /\ SoundFor(Ready', context'[c])
    BY <1>2, <1>4, <1>5, <1>6, <1>7
  <2>2. \A d \in Clients \ {c} : context'[d] = context[d]  BY <1>7, OthersGoOn
  <2>. QED  BY <1>2, <2>1, <2>2
<1>8. CASE (\E o \in Objects : ProvisionAgain(o)) \/ UNCHANGED mintingVars
  <2>1. UNCHANGED clientVars  BY <1>8, AllGoOn DEF mintingVars
  <2>. QED  BY <1>2, <2>1 DEF clientVars
<1>. QED  BY <1>7, <1>8, NextCases

-----------------------------------------------------------------------------
(* The invariant, and the properties of the runs. *)

LEMMA InitInv == MintingInit => MintingInv
<1>. SUFFICES ASSUME MintingInit PROVE MintingInv
  OBVIOUS
<1>. USE DEF MintingInit
<1>1. <<>> \in Lists /\ NoTokens \in Contexts
  BY MintingAssumption DEF NoTokens, Contexts, Lists
<1>2. MintingTypeOK  BY <1>1, MintingAssumption DEF MintingTypeOK, NoKey, NoObject
<1>3. Ready = {}  BY DEF Ready
<1>4. PlacesInv /\ KeysInv  BY <1>3 DEF PlacesInv, KeysInv, InProgress, Steps
<1>5. Range(<<>>) = {} /\ IsInjective(<<>>)  BY DEF Range, IsInjective
<1>6. ListsInv  BY <1>5 DEF ListsInv
<1>7. IsFiniteSet(minted) /\ LimitKept  BY <1>3, FS_EmptySet, MintingAssumption DEF LimitKept
<1>8. Sound(NoTokens)
  <2>1. NoTokens.list = <<>> /\ Range(NoTokens.entries) \subseteq {NoObject}
    BY DEF NoTokens, Range
  <2>. QED  BY <1>5, <2>1 DEF Sound
<1>9. RecordsSound  BY <1>8 DEF RecordsSound
<1>. QED  BY <1>2, <1>4, <1>6, <1>7, <1>9 DEF MintingInv

LEMMA NextInv == MintingInv /\ [MintingNext]_mintingVars => MintingInv'
<1>. SUFFICES ASSUME MintingInv, [MintingNext]_mintingVars PROVE MintingInv'
  OBVIOUS
<1>. QED
  BY NextType, NextPlaces, NextKeys, NextLimit, NextLists, NextRecords DEF MintingInv

\* The inductive invariant of mint_tokens: by its command's next step, how far a
\* token has come at the issuer, the guardian and the client.
THEOREM MintingInvariant == MintingSpec => []MintingInv
BY InitInv, NextInv, PTL DEF MintingSpec

\* However many clients run mint_tokens, are interrupted and start again, the
\* issuer counts every token it mints against its limit, and no token object
\* becomes usable without being minted and approved.
THEOREM MintsWithinLimit == MintingSpec => []LimitKept
<1>1. MintingInv => LimitKept  BY DEF MintingInv
<1>. QED  BY <1>1, MintingInvariant, PTL

\* A token object is initialized with the key the guardian keeps for it, and no
\* other token has that key, however often packages are asked for.
THEOREM TokensHaveTheirKeys == MintingSpec => []TokensUsable
<1>1. MintingInv => TokensUsable
  BY DEF MintingInv, KeysInv, TokensUsable, Ready
<1>. QED  BY <1>1, MintingInvariant, PTL

\* What a context or a context file says of tokens is true whenever it is read:
\* they are ready for use, none is listed twice, and the list is complete.
THEOREM RecordsAreSound == MintingSpec => []RecordsSound
<1>1. MintingInv => RecordsSound  BY DEF MintingInv
<1>. QED  BY <1>1, MintingInvariant, PTL
=============================================================================
