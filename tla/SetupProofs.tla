----------------------------- MODULE SetupProofs -----------------------------
(***************************************************************************)
(* Proofs about the commands that set up an asset family or a token        *)
(* family, for any image and border, any number of contract objects, and   *)
(* failures at any step.                                                   *)
(*                                                                         *)
(* What a step needs was seen to by an earlier step of its command, and    *)
(* nothing in between undid it: that is what Backed says of the steps      *)
(* still to make.  It is established by each command's steps as they       *)
(* begin, kept as steps are made or put in front, and read off when the    *)
(* step comes first.                                                       *)
(*                                                                         *)
(* The last part is about commands that nothing disturbs: those are not    *)
(* refused between the deployment of an object and its initialization.     *)
(***************************************************************************)
EXTENDS SetupClient, SequenceTheorems, FiniteSetTheorems, TLAPS

-----------------------------------------------------------------------------
(* Steps that prepare others. *)

\* Making the first step: what it prepared now holds, what it undid may not.
LEMMA BackedTail ==
  ASSUME NEW steps \in Seq(Steps), steps # <<>>, NEW first, NEW s, NEW undo,
         NEW P, NEW Q, Backed(first, s, undo, P, steps),
         Head(steps) \in first => Q, P /\ Head(steps) \notin undo => Q
  PROVE  Backed(first, s, undo, Q, Tail(steps))
<1>1. /\ Len(steps) \in Nat \ {0} /\ Tail(steps) \in Seq(Steps)
      /\ Len(Tail(steps)) = Len(steps) - 1
      /\ \A n \in 1 .. Len(steps) - 1 : Tail(steps)[n] = steps[n + 1]
      /\ Head(steps) = steps[1]
      /\ DOMAIN steps = 1 .. Len(steps) /\ DOMAIN Tail(steps) = 1 .. Len(steps) - 1
  OBVIOUS
<1>2. SUFFICES ASSUME NEW n \in 1 .. Len(steps) - 1, steps[n + 1] = s
               PROVE \/ \E m \in 1 .. n - 1 : /\ Tail(steps)[m] \in first
                                              /\ \A k \in m + 1 .. n - 1 : Tail(steps)[k] \notin undo
                     \/ Q /\ \A k \in 1 .. n - 1 : Tail(steps)[k] \notin undo
  BY <1>1 DEF Backed
<1>3. \/ \E m \in 1 .. n : steps[m] \in first /\ \A k \in m + 1 .. n : steps[k] \notin undo
      \/ P /\ \A k \in 1 .. n : steps[k] \notin undo
  <2>1. n + 1 \in DOMAIN steps /\ (n + 1) - 1 = n  BY <1>1
  <2>. QED  BY <1>2, <2>1 DEF Backed
<1>4. CASE P /\ \A k \in 1 .. n : steps[k] \notin undo
  <2>1. Head(steps) \notin undo  BY <1>1, <1>4
  <2>2. \A k \in 1 .. n - 1 : Tail(steps)[k] = steps[k + 1] /\ k + 1 \in 1 .. n  BY <1>1
  <2>. QED  BY <1>4, <2>1, <2>2
<1>5. CASE \E m \in 1 .. n : steps[m] \in first /\ \A k \in m + 1 .. n : steps[k] \notin undo
  <2>1. PICK m \in 1 .. n : steps[m] \in first /\ \A k \in m + 1 .. n : steps[k] \notin undo
    BY <1>5
  <2>2. CASE m = 1
    <3>1. \A k \in 1 .. n - 1 : Tail(steps)[k] = steps[k + 1] /\ k + 1 \in m + 1 .. n
      BY <1>1, <2>2
    <3>. QED  BY <1>1, <2>1, <2>2, <3>1
  <2>3. CASE m # 1
    <3>1. m - 1 \in 1 .. n - 1 /\ Tail(steps)[m - 1] = steps[m]  BY <1>1, <2>3
    <3>2. \A k \in (m - 1) + 1 .. n - 1 : Tail(steps)[k] = steps[k + 1] /\ k + 1 \in m + 1 .. n
      BY <1>1, <2>3
    <3>. QED  BY <2>1, <3>1, <3>2
  <2>. QED  BY <2>2, <2>3
<1>. QED  BY <1>3, <1>4, <1>5

\* A create command puts the body of another command in front of what is left.
LEMMA BackedBody ==
  ASSUME NEW steps \in Seq(Steps), steps # <<>>, NEW body \in Seq(Steps),
         NEW first, NEW s, NEW undo, NEW P,
         Backed(first, s, undo, P, steps), Backed(first, s, undo, P, body),
         Head(steps) \notin first,
         Head(steps) \notin undo => \A n \in 1 .. Len(body) : body[n] \notin undo
  PROVE  Backed(first, s, undo, P, body \o Tail(steps))
<1> DEFINE left == Tail(steps)
           all == body \o left
<1>1. /\ Len(steps) \in Nat \ {0} /\ left \in Seq(Steps)
      /\ Len(left) = Len(steps) - 1
      /\ \A n \in 1 .. Len(steps) - 1 : left[n] = steps[n + 1]
      /\ Head(steps) = steps[1]
      /\ DOMAIN steps = 1 .. Len(steps)
  OBVIOUS
<1>2. /\ Len(body) \in Nat /\ DOMAIN body = 1 .. Len(body)
      /\ DOMAIN all = 1 .. Len(body) + Len(left)
      /\ \A n \in 1 .. Len(body) : all[n] = body[n]
      /\ \A n \in 1 .. Len(left) : all[Len(body) + n] = left[n]
  BY <1>1
<1>. HIDE DEF left, all
<1>3. SUFFICES ASSUME NEW n \in 1 .. Len(body) + Len(left), all[n] = s
               PROVE \/ \E m \in 1 .. n - 1 : /\ all[m] \in first
                                              /\ \A k \in m + 1 .. n - 1 : all[k] \notin undo
                     \/ P /\ \A k \in 1 .. n - 1 : all[k] \notin undo
  BY <1>2 DEF Backed, all, left
<1>4. CASE n \in 1 .. Len(body)
  <2>1. \/ \E m \in 1 .. n - 1 : /\ body[m] \in first
                                 /\ \A k \in m + 1 .. n - 1 : body[k] \notin undo
        \/ P /\ \A k \in 1 .. n - 1 : body[k] \notin undo
    BY <1>2, <1>3, <1>4 DEF Backed
  <2>2. \A k \in 1 .. n - 1 : all[k] = body[k]  BY <1>2, <1>4
  <2>3. \A m \in 1 .. n - 1 : \A k \in m + 1 .. n - 1 : k \in 1 .. n - 1  OBVIOUS
  <2>. QED  BY <2>1, <2>2, <2>3
<1>5. CASE n \notin 1 .. Len(body)
  <2>1. PICK j \in 1 .. Len(left) : n = Len(body) + j
    <3>1. n - Len(body) \in 1 .. Len(left) /\ n = Len(body) + (n - Len(body))
      BY <1>1, <1>2, <1>5
    <3>. QED  BY <3>1
  <2>2. j + 1 \in DOMAIN steps /\ (j + 1) - 1 = j /\ steps[j + 1] = s
    BY <1>1, <1>2, <1>3, <2>1
  <2>3. \/ \E m \in 1 .. j : steps[m] \in first /\ \A k \in m + 1 .. j : steps[k] \notin undo
        \/ P /\ \A k \in 1 .. j : steps[k] \notin undo
    BY <2>2 DEF Backed
  <2>4. \A k \in 2 .. j : all[Len(body) + k - 1] = steps[k]
    <3>1. \A k \in 2 .. j : k - 1 \in 1 .. Len(left) /\ Len(body) + (k - 1) = Len(body) + k - 1
      BY <1>1, <1>2, <2>1
    <3>2. \A k \in 2 .. j : all[Len(body) + (k - 1)] = left[k - 1]  BY <1>2, <3>1
    <3>3. \A k \in 2 .. j : left[k - 1] = steps[k]
      <4>1. \A k \in 2 .. j : k - 1 \in 1 .. Len(steps) - 1 /\ (k - 1) + 1 = k  BY <1>1, <3>1
      <4>. QED  BY <1>1, <4>1
    <3>. QED  BY <3>1, <3>2, <3>3
  <2>5. CASE \E m \in 1 .. j : steps[m] \in first /\ \A k \in m + 1 .. j : steps[k] \notin undo
    <3>1. PICK m \in 1 .. j : steps[m] \in first /\ \A k \in m + 1 .. j : steps[k] \notin undo
      BY <2>5
    <3>2. m \in 2 .. j  BY <1>1, <3>1
    <3>3. Len(body) + m - 1 \in 1 .. n - 1 /\ all[Len(body) + m - 1] \in first
      BY <1>2, <2>1, <2>4, <3>1, <3>2
    <3>4. ASSUME NEW k \in (Len(body) + m - 1) + 1 .. n - 1  PROVE all[k] \notin undo
      <4>1. /\ k - Len(body) + 1 \in 2 .. j /\ k - Len(body) + 1 \in m + 1 .. j
            /\ Len(body) + (k - Len(body) + 1) - 1 = k
        BY <1>2, <2>1, <3>2
      <4>. QED  BY <2>4, <3>1, <4>1
    <3>. QED  BY <3>3, <3>4
  <2>6. CASE P /\ \A k \in 1 .. j : steps[k] \notin undo
    <3>1. ASSUME NEW k \in 1 .. n - 1  PROVE all[k] \notin undo
      <4>1. CASE k \in 1 .. Len(body)
        <5>1. Head(steps) \notin undo  BY <1>1, <2>1, <2>6
        <5>. QED  BY <1>2, <4>1, <5>1
      <4>2. CASE k \notin 1 .. Len(body)
        <5>1. /\ k - Len(body) + 1 \in 2 .. j /\ k - Len(body) + 1 \in 1 .. j
              /\ Len(body) + (k - Len(body) + 1) - 1 = k
          BY <1>2, <2>1, <4>2
        <5>. QED  BY <2>4, <2>6, <5>1
      <4>. QED  BY <4>1, <4>2
    <3>. QED  BY <2>6, <3>1
  <2>. QED  BY <2>3, <2>5, <2>6
<1>. QED  BY <1>4, <1>5

-----------------------------------------------------------------------------
(* The commands. *)

LEMMA TokenIssuerSteps ==
  CreateTokenIssuer =
    << <<"deploy", "token_issuer">>, <<"create", "guardian">>, <<"add_endpoint", "guardian">>,
       <<"provision", "guardian">>, <<"create", "vetting">>, <<"create", "vetting">>,
       <<"approve", "token_issuer">>, <<"authority", "token_issuer">>,
       <<"initialize", "token_issuer">> >>
<1> DEFINE b == << <<"deploy", "token_issuer">>, <<"create", "guardian">>,
                   <<"add_endpoint", "guardian">>, <<"provision", "guardian">>,
                   <<"create", "vetting">>, <<"create", "vetting">>,
                   <<"approve", "token_issuer">>, <<"authority", "token_issuer">>,
                   <<"initialize", "token_issuer">> >>
<1>1. \A op \in Operations : \A c \in Contexts : <<op, c>> \in Steps  BY DEF Steps
<1>2. ProvisionIssuer \in Seq(Steps) /\ ApproveIssuer("token_issuer") \in Seq(Steps)
  BY <1>1 DEF ProvisionIssuer, ApproveIssuer, Operations, Contexts
<1>3. CreateTokenIssuer \in Seq(Steps) /\ b \in Seq(Steps)
  BY <1>1, <1>2 DEF CreateTokenIssuer, Operations, Contexts
<1>4. Len(CreateTokenIssuer) = 9 /\ Len(b) = 9
  BY DEF CreateTokenIssuer, ProvisionIssuer, ApproveIssuer
<1>5. \A i \in 1 .. 9 : CreateTokenIssuer[i] = b[i]
  BY DEF CreateTokenIssuer, ProvisionIssuer, ApproveIssuer
<1>. HIDE DEF b
<1>6. CreateTokenIssuer = b  BY <1>3, <1>4, <1>5, SeqEqual
<1>. QED  BY <1>6 DEF b

LEMMA Bodies ==
  ASSUME NEW c \in Contexts
  PROVE  /\ Body[c] \in Seq(Steps)
         /\ c = "asset_type" => Body[c] = CreateAssetType
         /\ c = "vetting" => Body[c] = CreateVetting
         /\ c = "issuer" => Body[c] = CreateIssuer
         /\ c = "guardian" => Body[c] \in {CreateGuardian, CreateImageGuardian}
         /\ c = "token_issuer" => Body[c] = CreateTokenIssuer
<1>1. /\ c = "asset_type" => Body[c] = CreateAssetType
      /\ c = "vetting" => Body[c] = CreateVetting
      /\ c = "issuer" => Body[c] = CreateIssuer
      /\ c = "guardian" => Body[c] \in {CreateGuardian, CreateImageGuardian}
      /\ c = "token_issuer" => Body[c] = CreateTokenIssuer
  BY DEF Body, Contexts
<1>2. \A op \in Operations : \A d \in Contexts : <<op, d>> \in Steps  BY DEF Steps
<1>3. /\ CreateAssetType \in Seq(Steps)
      /\ CreateVetting \in Seq(Steps)
      /\ CreateIssuer \in Seq(Steps)
      /\ CreateGuardian \in Seq(Steps)
      /\ CreateImageGuardian \in Seq(Steps)
  BY <1>2 DEF Operations, Contexts, CreateAssetType, CreateVetting, CreateIssuer,
         CreateGuardian, CreateImageGuardian
<1>4. CreateTokenIssuer \in Seq(Steps)
  BY <1>2, TokenIssuerSteps DEF Operations, Contexts
<1>. QED  BY <1>1, <1>3, <1>4 DEF Contexts

LEMMA TokenIssuerParts ==
  /\ DOMAIN CreateTokenIssuer = 1 .. 9
  /\ CreateTokenIssuer[1] = <<"deploy", "token_issuer">>
  /\ CreateTokenIssuer[2] = <<"create", "guardian">>
  /\ CreateTokenIssuer[3] = <<"add_endpoint", "guardian">>
  /\ CreateTokenIssuer[4] = <<"provision", "guardian">>
  /\ CreateTokenIssuer[5] = <<"create", "vetting">>
  /\ CreateTokenIssuer[6] = <<"create", "vetting">>
  /\ CreateTokenIssuer[7] = <<"approve", "token_issuer">>
  /\ CreateTokenIssuer[8] = <<"authority", "token_issuer">>
  /\ CreateTokenIssuer[9] = <<"initialize", "token_issuer">>
BY TokenIssuerSteps

LEMMA VettingParts ==
  /\ DOMAIN CreateVetting = 1 .. 4
  /\ CreateVetting[1] = <<"create", "asset_type">>
  /\ CreateVetting[2] = <<"type_identifier", "asset_type">>
  /\ CreateVetting[3] = <<"deploy", "vetting">>
  /\ CreateVetting[4] = <<"initialize", "vetting">>
BY DEF CreateVetting

\* The only step s is the n-th, and the m-th prepares it.
LEMMA BackedAt ==
  ASSUME NEW steps, NEW first, NEW s, NEW undo, NEW P,
         NEW n \in Nat, NEW m \in 1 .. n - 1,
         \A k \in DOMAIN steps : steps[k] = s => k = n,
         steps[m] \in first, \A k \in m + 1 .. n - 1 : steps[k] \notin undo
  PROVE  Backed(first, s, undo, P, steps)
BY DEF Backed

LEMMA BackedWithout ==
  ASSUME NEW steps, NEW first, NEW s, NEW undo, NEW P,
         \A n \in DOMAIN steps : steps[n] # s
  PROVE  Backed(first, s, undo, P, steps)
BY DEF Backed

\* A body deploys one contract, at once or after the asset type.
LEMMA FreshBody ==
  ASSUME NEW c \in Contexts, NEW d \in Contexts, NEW P, c = d => P
  PROVE  Backed({}, <<"deploy", d>>,
                Steps \ (IF d = "vetting" THEN Operations \X {"asset_type"} ELSE {}), P, Body[c])
<1>1. CASE c = "asset_type"  BY <1>1, Bodies DEF Backed, CreateAssetType
<1>2. CASE c = "vetting"
  <2>1. Body[c] = CreateVetting  BY <1>2, Bodies
  <2>2. CASE d = "vetting"
    <3>1. \A n \in 1 .. 2 : CreateVetting[n] \in Operations \X {"asset_type"}
      BY DEF CreateVetting, Operations
    <3>2. \A n \in DOMAIN CreateVetting : CreateVetting[n] = <<"deploy", d>> => n = 3
      BY <2>2 DEF CreateVetting
    <3>. QED  BY <1>2, <2>1, <2>2, <3>1, <3>2 DEF Backed
  <2>3. CASE d # "vetting"
    BY <1>2, <2>1, <2>3 DEF Backed, CreateVetting
  <2>. QED  BY <2>2, <2>3
<1>3. CASE c = "issuer"  BY <1>3, Bodies DEF Backed, CreateIssuer
<1>4. CASE c = "guardian"  BY <1>4, Bodies DEF Backed, CreateGuardian, CreateImageGuardian
<1>5. CASE c = "token_issuer"
  <2>1. \A k \in 1 .. 9 : CreateTokenIssuer[k] = <<"deploy", d>> => d = "token_issuer" /\ k = 1
    BY TokenIssuerParts
  <2>2. Backed({}, <<"deploy", d>>,
               Steps \ (IF d = "vetting" THEN Operations \X {"asset_type"} ELSE {}), P,
               CreateTokenIssuer)
    BY <1>5, <2>1, TokenIssuerParts DEF Backed
  <2>. QED  BY <1>5, <2>2, Bodies
<1>. QED  BY <1>1, <1>2, <1>3, <1>4, <1>5 DEF Contexts

\* Only the vetting organization's body deploys one, after the asset type.
LEMMA TypeFirstBody ==
  ASSUME NEW c \in Contexts, NEW op \in {"deploy", "initialize"}, NEW P
  PROVE  Backed({<<"type_identifier", "asset_type">>}, <<op, "vetting">>,
                ({"create"} \X Contexts) \cup {<<"deploy", "asset_type">>}, P, Body[c])
<1>1. CASE c = "asset_type"
  <2>1. Backed({<<"type_identifier", "asset_type">>}, <<op, "vetting">>,
                  ({"create"} \X Contexts) \cup {<<"deploy", "asset_type">>}, P, CreateAssetType)
    BY DEF Backed, CreateAssetType
  <2>. QED  BY <1>1, <2>1, Bodies
<1>2. CASE c = "vetting"
  <2>1. Body[c] = CreateVetting  BY <1>2, Bodies
  <2>2. \A k \in 1 .. 4 : CreateVetting[k] = <<op, "vetting">> =>
                             k = (IF op = "deploy" THEN 3 ELSE 4)
    BY VettingParts
  <2>3. \A k \in 3 .. 3 :
          CreateVetting[k] \notin ({"create"} \X Contexts) \cup {<<"deploy", "asset_type">>}
    BY VettingParts
  <2>4. CASE op = "deploy"
    <3>1. \A k \in 2 + 1 .. 3 - 1 :
            CreateVetting[k] \notin ({"create"} \X Contexts) \cup {<<"deploy", "asset_type">>}
      OBVIOUS
    <3>. QED  BY <2>1, <2>2, <2>4, <3>1, VettingParts, BackedAt
  <2>5. CASE op = "initialize"
    <3>1. \A k \in 2 + 1 .. 4 - 1 :
            CreateVetting[k] \notin ({"create"} \X Contexts) \cup {<<"deploy", "asset_type">>}
      BY <2>3
    <3>. QED  BY <2>1, <2>2, <2>5, <3>1, VettingParts, BackedAt
  <2>. QED  BY <2>4, <2>5
<1>3. CASE c = "issuer"  BY <1>3, Bodies DEF Backed, CreateIssuer
<1>4. CASE c = "guardian"
  <2>1. /\ Backed({<<"type_identifier", "asset_type">>}, <<op, "vetting">>,
                  ({"create"} \X Contexts) \cup {<<"deploy", "asset_type">>}, P, CreateGuardian)
        /\ Backed({<<"type_identifier", "asset_type">>}, <<op, "vetting">>,
                  ({"create"} \X Contexts) \cup {<<"deploy", "asset_type">>}, P, CreateImageGuardian)
    BY DEF Backed, CreateGuardian, CreateImageGuardian
  <2>. QED  BY <1>4, <2>1, Bodies
<1>5. CASE c = "token_issuer"
  <2>1. \A k \in DOMAIN Body[c] : Body[c][k] # <<op, "vetting">>
    BY <1>5, Bodies, TokenIssuerParts
  <2>. QED  BY <2>1, BackedWithout
<1>. QED  BY <1>1, <1>2, <1>3, <1>4, <1>5 DEF Contexts

\* A body initializes what it deployed, and saves nothing between.
LEMMA UnsavedBody ==
  ASSUME NEW c \in Contexts, NEW d \in Contexts \ {"issuer"}, NEW P
  PROVE  Backed({<<"deploy", d>>}, <<"initialize", d>>, {"save"} \X Contexts, P, Body[c])
<1>1. CASE c = "asset_type"
  <2>1. Backed({<<"deploy", d>>}, <<"initialize", d>>, {"save"} \X Contexts, P, CreateAssetType)
    BY DEF Backed, CreateAssetType
  <2>. QED  BY <1>1, <2>1, Bodies
<1>2. CASE c = "vetting"
  <2>1. CASE d = "vetting"
    <3>1. \A k \in 3 + 1 .. 4 - 1 : CreateVetting[k] \notin {"save"} \X Contexts  OBVIOUS
    <3>2. \A k \in DOMAIN CreateVetting : CreateVetting[k] = <<"initialize", d>> => k = 4
      BY VettingParts
    <3>3. CreateVetting[3] \in {<<"deploy", d>>}  BY <2>1, VettingParts
    <3>4. Backed({<<"deploy", d>>}, <<"initialize", d>>, {"save"} \X Contexts, P, CreateVetting)
      BY <3>1, <3>2, <3>3, BackedAt
    <3>. QED  BY <1>2, <3>4, Bodies
  <2>2. CASE d # "vetting"  BY <1>2, <2>2, Bodies, VettingParts, BackedWithout
  <2>. QED  BY <2>1, <2>2
<1>3. CASE c = "issuer"  BY <1>3, Bodies DEF Backed, CreateIssuer
<1>4. CASE c = "guardian"
  <2>1. /\ Backed({<<"deploy", d>>}, <<"initialize", d>>, {"save"} \X Contexts, P, CreateGuardian)
        /\ Backed({<<"deploy", d>>}, <<"initialize", d>>, {"save"} \X Contexts, P, CreateImageGuardian)
    BY DEF Backed, CreateGuardian, CreateImageGuardian
  <2>. QED  BY <1>4, <2>1, Bodies
<1>5. CASE c = "token_issuer"
  <2>1. CASE d = "token_issuer"
    <3>1. \A k \in 1 + 1 .. 9 - 1 : CreateTokenIssuer[k] \notin {"save"} \X Contexts
      BY TokenIssuerParts
    <3>2. \A k \in DOMAIN CreateTokenIssuer : CreateTokenIssuer[k] = <<"initialize", d>> => k = 9
      BY TokenIssuerParts
    <3>3. CreateTokenIssuer[1] \in {<<"deploy", d>>}  BY <2>1, TokenIssuerParts
    <3>4. Backed({<<"deploy", d>>}, <<"initialize", d>>, {"save"} \X Contexts, P, CreateTokenIssuer)
      BY <3>1, <3>2, <3>3, BackedAt
    <3>. QED  BY <1>5, <3>4, Bodies
  <2>2. CASE d # "token_issuer"
    <3>1. \A k \in DOMAIN CreateTokenIssuer : CreateTokenIssuer[k] # <<"initialize", d>>
      BY <2>2, TokenIssuerParts
    <3>. QED  BY <1>5, <3>1, Bodies, BackedWithout
  <2>. QED  BY <2>1, <2>2
<1>. QED  BY <1>1, <1>2, <1>3, <1>4, <1>5 DEF Contexts

\* A body deploys the issuer or the token issuer before it names it elsewhere.
LEMMA DeployedBody ==
  ASSUME NEW c \in Contexts, NEW d \in Issuing, NEW s \in Uses[d], NEW P
  PROVE  Backed({<<"deploy", d>>}, s, {}, P, Body[c])
<1>0. \/ d = "issuer" /\ s = <<"verifying_key", "issuer">>
      \/ /\ d = "token_issuer"
         /\ s \in {<<"approve", "token_issuer">>, <<"add_endpoint", "guardian">>}
  BY DEF Issuing, Uses
<1>1. CASE c = "asset_type"
  <2>1. \A k \in DOMAIN Body[c] : Body[c][k] # s
    BY <1>0, <1>1, Bodies DEF CreateAssetType
  <2>. QED  BY <2>1, BackedWithout
<1>2. CASE c = "vetting"
  <2>1. \A k \in DOMAIN CreateVetting : CreateVetting[k] # s  BY <1>0, VettingParts
  <2>. QED  BY <1>2, <2>1, Bodies, BackedWithout
<1>3. CASE c = "issuer"
  <2>1. CASE d = "issuer"
    <3>1. \A k \in DOMAIN CreateIssuer : CreateIssuer[k] = s => k = 2
      BY <1>0, <2>1 DEF CreateIssuer
    <3>2. CreateIssuer[1] \in {<<"deploy", d>>}  BY <2>1 DEF CreateIssuer
    <3>3. Backed({<<"deploy", d>>}, s, {}, P, CreateIssuer)  BY <3>1, <3>2, BackedAt
    <3>. QED  BY <1>3, <3>3, Bodies
  <2>2. CASE d = "token_issuer"
    <3>1. \A k \in DOMAIN Body[c] : Body[c][k] # s
      BY <1>0, <1>3, <2>2, Bodies DEF CreateIssuer
    <3>. QED  BY <3>1, BackedWithout
  <2>. QED  BY <1>0, <2>1, <2>2
<1>4. CASE c = "guardian"
  <2>1. \A k \in DOMAIN Body[c] : Body[c][k] # s
    BY <1>0, <1>4, Bodies DEF CreateGuardian, CreateImageGuardian
  <2>. QED  BY <2>1, BackedWithout
<1>5. CASE c = "token_issuer"
  <2>1. CASE s = <<"approve", "token_issuer">>
    <3>1. \A k \in DOMAIN CreateTokenIssuer : CreateTokenIssuer[k] = s => k = 7
      BY <2>1, TokenIssuerParts
    <3>2. CreateTokenIssuer[1] \in {<<"deploy", d>>}  BY <1>0, <2>1, TokenIssuerParts
    <3>3. Backed({<<"deploy", d>>}, s, {}, P, CreateTokenIssuer)
      BY <3>1, <3>2, BackedAt
    <3>. QED  BY <1>5, <3>3, Bodies
  <2>2. CASE s = <<"add_endpoint", "guardian">>
    <3>1. \A k \in DOMAIN CreateTokenIssuer : CreateTokenIssuer[k] = s => k = 3
      BY <2>2, TokenIssuerParts
    <3>2. CreateTokenIssuer[1] \in {<<"deploy", d>>}  BY <1>0, <2>2, TokenIssuerParts
    <3>3. Backed({<<"deploy", d>>}, s, {}, P, CreateTokenIssuer)
      BY <3>1, <3>2, BackedAt
    <3>. QED  BY <1>5, <3>3, Bodies
  <2>3. CASE s = <<"verifying_key", "issuer">>
    <3>1. \A k \in DOMAIN CreateTokenIssuer : CreateTokenIssuer[k] # s
      BY <2>3, TokenIssuerParts
    <3>. QED  BY <1>5, <3>1, Bodies, BackedWithout
  <2>. QED  BY <1>0, <2>1, <2>2, <2>3
<1>. QED  BY <1>1, <1>2, <1>3, <1>4, <1>5 DEF Contexts

\* A body initializes with an authority right after it got it.
LEMMA AuthorizedBody ==
  ASSUME NEW c \in Contexts, NEW d \in Issuing, NEW P
  PROVE  Backed({<<"authority", d>>}, <<"initialize", d>>, {"create", "deploy"} \X Contexts,
                P, Body[c])
<1>1. CASE c = "asset_type"  BY <1>1, Bodies DEF Backed, CreateAssetType, Issuing
<1>2. CASE c = "vetting"
  <2>1. \A k \in DOMAIN Body[c] : Body[c][k] # <<"initialize", d>>
    BY <1>2, Bodies, VettingParts DEF Issuing
  <2>. QED  BY <2>1, BackedWithout
<1>3. CASE c = "issuer"  BY <1>3, Bodies DEF Backed, CreateIssuer
<1>4. CASE c = "guardian"  BY <1>4, Bodies DEF Backed, CreateGuardian, CreateImageGuardian, Issuing
<1>5. CASE c = "token_issuer"
  <2>1. CASE d = "token_issuer"
    <3>1. \A k \in DOMAIN CreateTokenIssuer : CreateTokenIssuer[k] = <<"initialize", d>> => k = 9
      BY TokenIssuerParts
    <3>2. /\ CreateTokenIssuer[8] \in {<<"authority", d>>}
          /\ \A k \in 8 + 1 .. 9 - 1 : CreateTokenIssuer[k] \notin {"create", "deploy"} \X Contexts
      BY <2>1, TokenIssuerParts
    <3>3. Backed({<<"authority", d>>}, <<"initialize", d>>, {"create", "deploy"} \X Contexts, P,
                 CreateTokenIssuer)
      BY <3>1, <3>2, BackedAt
    <3>. QED  BY <1>5, <3>3, Bodies
  <2>2. CASE d # "token_issuer"
    <3>1. \A k \in DOMAIN CreateTokenIssuer : CreateTokenIssuer[k] # <<"initialize", d>>
      BY <2>2, TokenIssuerParts
    <3>. QED  BY <1>5, <3>1, Bodies, BackedWithout
  <2>. QED  BY <2>1, <2>2
<1>. QED  BY <1>1, <1>2, <1>3, <1>4, <1>5 DEF Contexts

\* A body initializes the token issuer with the key its guardian gave it.
LEMMA ProvisionedBody ==
  ASSUME NEW c \in Contexts, NEW P
  PROVE  Backed({<<"provision", "guardian">>}, <<"initialize", "token_issuer">>,
                {"create", "deploy"} \X {"guardian", "token_issuer"}, P, Body[c])
<1>1. CASE c = "asset_type"  BY <1>1, Bodies DEF Backed, CreateAssetType
<1>2. CASE c = "vetting"
  <2>1. \A k \in DOMAIN Body[c] : Body[c][k] # <<"initialize", "token_issuer">>
    BY <1>2, Bodies, VettingParts
  <2>. QED  BY <2>1, BackedWithout
<1>3. CASE c = "issuer"  BY <1>3, Bodies DEF Backed, CreateIssuer
<1>4. CASE c = "guardian"  BY <1>4, Bodies DEF Backed, CreateGuardian, CreateImageGuardian
<1>5. CASE c = "token_issuer"
  <2>1. \A k \in DOMAIN CreateTokenIssuer :
          CreateTokenIssuer[k] = <<"initialize", "token_issuer">> => k = 9
    BY TokenIssuerParts
  <2>2. \A k \in 4 + 1 .. 9 - 1 :
          CreateTokenIssuer[k] \notin {"create", "deploy"} \X {"guardian", "token_issuer"}
    BY TokenIssuerParts
  <2>3. CreateTokenIssuer[4] \in {<<"provision", "guardian">>}  BY TokenIssuerParts
  <2>4. Backed({<<"provision", "guardian">>}, <<"initialize", "token_issuer">>,
               {"create", "deploy"} \X {"guardian", "token_issuer"}, P, CreateTokenIssuer)
    BY <2>1, <2>2, <2>3, BackedAt
  <2>. QED  BY <1>5, <2>4, Bodies
<1>. QED  BY <1>1, <1>2, <1>3, <1>4, <1>5 DEF Contexts

\* No body notes that the issuer is initialized.
LEMMA MarkedBody ==
  ASSUME NEW c \in Contexts, NEW P
  PROVE  Backed({<<"initialize", "issuer">>}, <<"mark", "issuer">>,
                {"create", "deploy"} \X Contexts, P, Body[c])
<1>1. CASE c = "asset_type"  BY <1>1, Bodies DEF Backed, CreateAssetType
<1>2. CASE c = "vetting"
  <2>1. \A k \in DOMAIN Body[c] : Body[c][k] # <<"mark", "issuer">>
    BY <1>2, Bodies, VettingParts
  <2>. QED  BY <2>1, BackedWithout
<1>3. CASE c = "issuer"  BY <1>3, Bodies DEF Backed, CreateIssuer
<1>4. CASE c = "guardian"  BY <1>4, Bodies DEF Backed, CreateGuardian, CreateImageGuardian
<1>5. CASE c = "token_issuer"
  <2>1. \A k \in DOMAIN Body[c] : Body[c][k] # <<"mark", "issuer">>
    BY <1>5, Bodies, TokenIssuerParts
  <2>. QED  BY <2>1, BackedWithout
<1>. QED  BY <1>1, <1>2, <1>3, <1>4, <1>5 DEF Contexts

\* What a body leaves alone.
LEMMA BodyKeeps ==
  ASSUME NEW c \in Contexts
  PROVE  \A n \in 1 .. Len(Body[c]) :
           /\ c = "asset_type" => Body[c][n] \in Operations \X {"asset_type"}
           /\ Body[c][n] \notin {"save"} \X Contexts
           /\ c \notin {"guardian", "token_issuer"} =>
                Body[c][n] \notin {"create", "deploy"} \X {"guardian", "token_issuer"}
<1>1. DOMAIN Body[c] = 1 .. Len(Body[c])  BY Bodies
<1>2. CASE c = "asset_type"
  <2>1. \A n \in DOMAIN CreateAssetType :
           /\ CreateAssetType[n] \in Operations \X {"asset_type"}
           /\ CreateAssetType[n] \notin {"save"} \X Contexts
           /\ CreateAssetType[n] \notin {"create", "deploy"} \X {"guardian", "token_issuer"}
    BY DEF CreateAssetType, Operations
  <2>. QED  BY <1>1, <1>2, <2>1, Bodies
<1>3. CASE c = "vetting"
  <2>1. \A n \in DOMAIN CreateVetting :
           /\ CreateVetting[n] \notin {"save"} \X Contexts
           /\ CreateVetting[n] \notin {"create", "deploy"} \X {"guardian", "token_issuer"}
    BY VettingParts
  <2>. QED  BY <1>1, <1>3, <2>1, Bodies
<1>4. CASE c = "issuer"
  <2>1. \A n \in DOMAIN CreateIssuer :
           /\ CreateIssuer[n] \notin {"save"} \X Contexts
           /\ CreateIssuer[n] \notin {"create", "deploy"} \X {"guardian", "token_issuer"}
    BY DEF CreateIssuer
  <2>. QED  BY <1>1, <1>4, <2>1, Bodies
<1>5. CASE c = "guardian"
  <2>1. /\ \A n \in DOMAIN CreateGuardian : CreateGuardian[n] \notin {"save"} \X Contexts
        /\ \A n \in DOMAIN CreateImageGuardian : CreateImageGuardian[n] \notin {"save"} \X Contexts
    BY DEF CreateGuardian, CreateImageGuardian
  <2>. QED  BY <1>1, <1>5, <2>1, Bodies
<1>6. CASE c = "token_issuer"
  <2>1. \A n \in DOMAIN CreateTokenIssuer : CreateTokenIssuer[n] \notin {"save"} \X Contexts
    BY TokenIssuerParts
  <2>. QED  BY <1>1, <1>6, <2>1, Bodies
<1>. QED  BY <1>2, <1>3, <1>4, <1>5, <1>6 DEF Contexts

-----------------------------------------------------------------------------
(* What a step does to the steps after it. *)

\* A step that leaves the context and the file alone.
LEMMA StepOn ==
  ASSUME StepsInv, todo \in Seq(Steps), todo # <<>>, todo' = Tail(todo),
         context' = context, file' = file,
         ready \subseteq ready', approved \subseteq approved',
         endpoints \subseteq endpoints', chain \subseteq chain',
         \A c \in Contexts : Head(todo) # <<"deploy", c>>,
         Head(todo) = <<"type_identifier", "asset_type">> => Object("asset_type") \in ready,
         \A c \in Issuing : Head(todo) = <<"authority", c>> => Authorized(c),
         Head(todo) = <<"provision", "guardian">> => Provisioned,
         Head(todo) = <<"initialize", "issuer">> => <<Object("issuer"), Object("vetting")>> \in chain'
  PROVE  StepsInv'
<1>1. FreshInv'
  <2>1. SUFFICES ASSUME NEW c \in Contexts
                 PROVE  Backed({}, <<"deploy", c>>,
                               Steps \ (IF c = "vetting" THEN Operations \X {"asset_type"} ELSE {}),
                               Object(c) = NoObject, todo)'
    BY DEF FreshInv
  <2>. DEFINE undo == Steps \ (IF c = "vetting" THEN Operations \X {"asset_type"} ELSE {})
              P == Object(c) = NoObject
  <2>2. Backed({}, <<"deploy", c>>, undo, P, todo)  BY DEF StepsInv, FreshInv
  <2>3. P' <=> P  BY DEF Object
  <2>. HIDE DEF undo, P
  <2>4. Backed({}, <<"deploy", c>>, undo, P, Tail(todo))  BY <2>2, BackedTail
  <2>. QED  BY <2>3, <2>4 DEF undo, P, Backed
<1>2. TypeFirstInv'
  <2>1. SUFFICES ASSUME NEW op \in {"deploy", "initialize"}
                 PROVE  Backed({<<"type_identifier", "asset_type">>}, <<op, "vetting">>,
                               ({"create"} \X Contexts) \cup {<<"deploy", "asset_type">>},
                               Object("asset_type") \in ready, todo)'
    BY DEF TypeFirstInv
  <2>. DEFINE P == Object("asset_type") \in ready
              Q == P'
  <2>2. Backed({<<"type_identifier", "asset_type">>}, <<op, "vetting">>,
               ({"create"} \X Contexts) \cup {<<"deploy", "asset_type">>}, P, todo)
    BY DEF StepsInv, TypeFirstInv
  <2>3. P => Q  BY DEF Object
  <2>4. Head(todo) \in {<<"type_identifier", "asset_type">>} => Q  BY <2>3
  <2>. HIDE DEF P, Q
  <2>5. Backed({<<"type_identifier", "asset_type">>}, <<op, "vetting">>,
               ({"create"} \X Contexts) \cup {<<"deploy", "asset_type">>}, Q, Tail(todo))
    BY <2>2, <2>3, <2>4, BackedTail
  <2>. QED  BY <2>5 DEF P, Q
<1>3. UnsavedInv'
  <2>1. SUFFICES ASSUME NEW c \in Contexts \ {"issuer"}
                 PROVE  Backed({<<"deploy", c>>}, <<"initialize", c>>, {"save"} \X Contexts,
                               Object(c) # NoObject /\ file.context[c] = NoObject, todo)'
    BY DEF UnsavedInv
  <2>. DEFINE P == Object(c) # NoObject /\ file.context[c] = NoObject
              Q == P'
  <2>2. Backed({<<"deploy", c>>}, <<"initialize", c>>, {"save"} \X Contexts, P, todo)
    BY DEF StepsInv, UnsavedInv
  <2>3. P => Q  BY DEF Object
  <2>4. Head(todo) \notin {<<"deploy", c>>}  OBVIOUS
  <2>. HIDE DEF P, Q
  <2>5. Backed({<<"deploy", c>>}, <<"initialize", c>>, {"save"} \X Contexts, Q, Tail(todo))
    BY <2>2, <2>3, <2>4, BackedTail
  <2>. QED  BY <2>5 DEF P, Q
<1>4. DeployedInv'
  <2>1. SUFFICES ASSUME NEW d \in Issuing, NEW s \in Uses[d]
                 PROVE  Backed({<<"deploy", d>>}, s, {},
                               Object(d) # NoObject, todo)'
    BY DEF DeployedInv
  <2>. DEFINE P == Object(d) # NoObject
              Q == P'
  <2>2. Backed({<<"deploy", d>>}, s, {}, P, todo)  BY DEF StepsInv, DeployedInv
  <2>3. P => Q  BY DEF Object
  <2>4. Head(todo) \notin {<<"deploy", d>>}  BY DEF Contexts, Issuing
  <2>. HIDE DEF P, Q
  <2>5. Backed({<<"deploy", d>>}, s, {}, Q, Tail(todo))
    BY <2>2, <2>3, <2>4, BackedTail
  <2>. QED  BY <2>5 DEF P, Q
<1>5. AuthorizedInv'
  <2>1. SUFFICES ASSUME NEW c \in Issuing
                 PROVE  Backed({<<"authority", c>>}, <<"initialize", c>>,
                               {"create", "deploy"} \X Contexts, Authorized(c), todo)'
    BY DEF AuthorizedInv
  <2>. DEFINE P == Authorized(c)
              Q == P'
  <2>2. Backed({<<"authority", c>>}, <<"initialize", c>>, {"create", "deploy"} \X Contexts, P, todo)
    BY DEF StepsInv, AuthorizedInv
  <2>3. P => Q  BY DEF Object, Authorized
  <2>4. Head(todo) \in {<<"authority", c>>} => Q  BY <2>3
  <2>. HIDE DEF P, Q
  <2>5. Backed({<<"authority", c>>}, <<"initialize", c>>, {"create", "deploy"} \X Contexts, Q,
               Tail(todo))
    BY <2>2, <2>3, <2>4, BackedTail
  <2>. QED  BY <2>5 DEF P, Q
<1>6. ProvisionedInv'
  <2>. DEFINE P == Provisioned
              Q == P'
  <2>2. Backed({<<"provision", "guardian">>}, <<"initialize", "token_issuer">>,
               {"create", "deploy"} \X {"guardian", "token_issuer"}, P, todo)
    BY DEF StepsInv, ProvisionedInv
  <2>3. P => Q  BY DEF Object, Provisioned
  <2>4. Head(todo) \in {<<"provision", "guardian">>} => Q  BY <2>3
  <2>. HIDE DEF P, Q
  <2>5. Backed({<<"provision", "guardian">>}, <<"initialize", "token_issuer">>,
               {"create", "deploy"} \X {"guardian", "token_issuer"}, Q, Tail(todo))
    BY <2>2, <2>3, <2>4, BackedTail
  <2>. QED  BY <2>5 DEF P, Q, ProvisionedInv
<1>7. MarkedInv'
  <2>. DEFINE P == <<Object("issuer"), Object("vetting")>> \in chain
              Q == P'
  <2>2. Backed({<<"initialize", "issuer">>}, <<"mark", "issuer">>,
               {"create", "deploy"} \X Contexts, P, todo)
    BY DEF StepsInv, MarkedInv
  <2>3. P => Q  BY DEF Object
  <2>4. Head(todo) \in {<<"initialize", "issuer">>} => Q  BY DEF Object
  <2>. HIDE DEF P, Q
  <2>5. Backed({<<"initialize", "issuer">>}, <<"mark", "issuer">>,
               {"create", "deploy"} \X Contexts, Q, Tail(todo))
    BY <2>2, <2>3, <2>4, BackedTail
  <2>. QED  BY <2>5 DEF P, Q, MarkedInv
<1>. QED  BY <1>1, <1>2, <1>3, <1>4, <1>5, <1>6, <1>7 DEF StepsInv

\* A step that is next has its premise.
LEMMA BackedNow ==
  ASSUME NEW steps \in Seq(Steps), steps # <<>>, NEW first, NEW undo, NEW P,
         Backed(first, Head(steps), undo, P, steps)
  PROVE  P
<1>1. 1 \in DOMAIN steps /\ steps[1] = Head(steps)  OBVIOUS
<1>. QED  BY <1>1 DEF Backed

\* A contract object is made only where the context has none.
LEMMA FreshNow ==
  ASSUME StepsInv, todo \in Seq(Steps), NEW c \in Contexts, At("deploy", c)
  PROVE  Object(c) = NoObject
<1>. DEFINE undo == Steps \ (IF c = "vetting" THEN Operations \X {"asset_type"} ELSE {})
            P == Object(c) = NoObject
<1>1. Backed({}, <<"deploy", c>>, undo, P, todo)  BY DEF StepsInv, FreshInv
<1>2. todo # <<>> /\ Head(todo) = <<"deploy", c>>  BY DEF At
<1>. HIDE DEF undo, P
<1>3. P  BY <1>1, <1>2, BackedNow
<1>. QED  BY <1>3 DEF P

\* A new object in the context.
LEMMA DeploySteps ==
  ASSUME StepsInv, SetupTypeOK, ContextInv, NEW c \in Contexts, Deploy(c)
  PROVE  StepsInv'
<1>1. /\ todo \in Seq(Steps) /\ todo # <<>> /\ todo' = Tail(todo)
      /\ Head(todo) = <<"deploy", c>> /\ c \in Contexts
      /\ context' = [context EXCEPT ![c] = made + 1]
      /\ file' = file /\ ready' = ready /\ chain' = chain /\ endpoints' = endpoints
  BY DEF Deploy, At, Proceed, SetupTypeOK
<1>2. file.context[c] = NoObject /\ made + 1 # 0
  <2>1. Object(c) = NoObject  BY <1>1, FreshNow DEF Deploy
  <2>. QED  BY <2>1 DEF ContextInv, Object, SetupTypeOK
<1>3. FreshInv'
  <2>1. SUFFICES ASSUME NEW d \in Contexts
                 PROVE  Backed({}, <<"deploy", d>>,
                               Steps \ (IF d = "vetting" THEN Operations \X {"asset_type"} ELSE {}),
                               Object(d) = NoObject, todo)'
    BY DEF FreshInv
  <2>. DEFINE undo == Steps \ (IF d = "vetting" THEN Operations \X {"asset_type"} ELSE {})
              P == Object(d) = NoObject
              Q == P'
  <2>2. Backed({}, <<"deploy", d>>, undo, P, todo)  BY DEF StepsInv, FreshInv
  <2>3. Head(todo) \notin {}  OBVIOUS
  <2>4. P /\ Head(todo) \notin undo => Q
    <3>1. CASE d = c  BY <1>1, <3>1 DEF Steps, Operations
    <3>2. CASE d # c  BY <1>1, <3>2 DEF Object, SetupTypeOK, Remembered
    <3>. QED  BY <3>1, <3>2
  <2>. HIDE DEF undo, P, Q
  <2>9. Backed({}, <<"deploy", d>>, undo, Q, Tail(todo))
    BY <1>1, <2>2, <2>3, <2>4, BackedTail
  <2>. QED  BY <1>1, <2>9 DEF undo, P, Q
<1>4. TypeFirstInv'
  <2>1. SUFFICES ASSUME NEW op \in {"deploy", "initialize"}
                 PROVE  Backed({<<"type_identifier", "asset_type">>}, <<op, "vetting">>,
                               ({"create"} \X Contexts) \cup {<<"deploy", "asset_type">>},
                               Object("asset_type") \in ready, todo)'
    BY DEF TypeFirstInv
  <2>. DEFINE undo == ({"create"} \X Contexts) \cup {<<"deploy", "asset_type">>}
              P == Object("asset_type") \in ready
              Q == P'
  <2>2. Backed({<<"type_identifier", "asset_type">>}, <<op, "vetting">>, undo, P, todo)
    BY DEF StepsInv, TypeFirstInv
  <2>3. Head(todo) \notin {<<"type_identifier", "asset_type">>}  BY <1>1
  <2>4. P /\ Head(todo) \notin undo => Q  BY <1>1 DEF Object, SetupTypeOK, Remembered, Contexts
  <2>. HIDE DEF undo, P, Q
  <2>9. Backed({<<"type_identifier", "asset_type">>}, <<op, "vetting">>, undo, Q, Tail(todo))
    BY <1>1, <2>2, <2>3, <2>4, BackedTail
  <2>. QED  BY <1>1, <2>9 DEF undo, P, Q
<1>5. UnsavedInv'
  <2>1. SUFFICES ASSUME NEW d \in Contexts \ {"issuer"}
                 PROVE  Backed({<<"deploy", d>>}, <<"initialize", d>>,
                               {"save"} \X Contexts,
                               Object(d) # NoObject /\ file.context[d] = NoObject, todo)'
    BY DEF UnsavedInv
  <2>. DEFINE undo == {"save"} \X Contexts
              P == Object(d) # NoObject /\ file.context[d] = NoObject
              Q == P'
  <2>2. Backed({<<"deploy", d>>}, <<"initialize", d>>, undo, P, todo)  BY DEF StepsInv, UnsavedInv
  <2>3. Head(todo) \in {<<"deploy", d>>} => Q
    <3>1. Head(todo) \in {<<"deploy", d>>} => d = c  BY <1>1
    <3>. QED  BY <1>1, <1>2, <3>1 DEF Object, SetupTypeOK, Remembered, NoObject
  <2>4. P /\ Head(todo) \notin undo => Q
    <3>1. CASE d = c  BY <1>1, <1>2, <3>1 DEF Object, SetupTypeOK, Remembered, NoObject
    <3>2. CASE d # c  BY <1>1, <3>2 DEF Object, SetupTypeOK, Remembered
    <3>. QED  BY <3>1, <3>2
  <2>. HIDE DEF undo, P, Q
  <2>9. Backed({<<"deploy", d>>}, <<"initialize", d>>, undo, Q, Tail(todo))
    BY <1>1, <2>2, <2>3, <2>4, BackedTail
  <2>. QED  BY <1>1, <2>9 DEF undo, P, Q
<1>6. DeployedInv'
  <2>1. SUFFICES ASSUME NEW d \in Issuing, NEW s \in Uses[d]
                 PROVE  Backed({<<"deploy", d>>}, s, {}, Object(d) # NoObject, todo)'
    BY DEF DeployedInv
  <2>. DEFINE undo == {}
              P == Object(d) # NoObject
              Q == P'
  <2>2. Backed({<<"deploy", d>>}, s, undo, P, todo)  BY DEF StepsInv, DeployedInv
  <2>3. Head(todo) \in {<<"deploy", d>>} => Q
    BY <1>1, <1>2 DEF Object, SetupTypeOK, Remembered, NoObject
  <2>4. P /\ Head(todo) \notin undo => Q
    BY <1>1, <1>2 DEF Object, SetupTypeOK, Remembered, NoObject, Contexts
  <2>. HIDE DEF undo, P, Q
  <2>9. Backed({<<"deploy", d>>}, s, undo, Q, Tail(todo))
    BY <1>1, <2>2, <2>3, <2>4, BackedTail
  <2>. QED  BY <1>1, <2>9 DEF undo, P, Q
<1>7. AuthorizedInv'
  <2>1. SUFFICES ASSUME NEW d \in Issuing
                 PROVE  Backed({<<"authority", d>>}, <<"initialize", d>>,
                               {"create", "deploy"} \X Contexts, Authorized(d), todo)'
    BY DEF AuthorizedInv
  <2>. DEFINE undo == {"create", "deploy"} \X Contexts
              P == Authorized(d)
              Q == P'
  <2>2. Backed({<<"authority", d>>}, <<"initialize", d>>, undo, P, todo)
    BY DEF StepsInv, AuthorizedInv
  <2>3. Head(todo) \notin {<<"authority", d>>}  BY <1>1
  <2>4. Head(todo) \in undo  BY <1>1
  <2>. HIDE DEF undo, P, Q
  <2>9. Backed({<<"authority", d>>}, <<"initialize", d>>, undo, Q, Tail(todo))
    BY <1>1, <2>2, <2>3, <2>4, BackedTail
  <2>. QED  BY <1>1, <2>9 DEF undo, P, Q
<1>8. ProvisionedInv'
  <2>. DEFINE undo == {"create", "deploy"} \X {"guardian", "token_issuer"}
              P == Provisioned
              Q == P'
  <2>2. Backed({<<"provision", "guardian">>}, <<"initialize", "token_issuer">>, undo, P, todo)
    BY DEF StepsInv, ProvisionedInv
  <2>3. Head(todo) \notin {<<"provision", "guardian">>}  BY <1>1
  <2>4. P /\ Head(todo) \notin undo => Q
    <3>1. c \in {"guardian", "token_issuer"} => Head(todo) \in undo
      <4>1. c \in {"guardian", "token_issuer"} => <<"deploy", c>> \in undo  OBVIOUS
      <4>. HIDE DEF undo
      <4>. QED  BY <1>1, <4>1
    <3>2. c \notin {"guardian", "token_issuer"} =>
            /\ context'["guardian"] = context["guardian"]
            /\ context'["token_issuer"] = context["token_issuer"]
      BY <1>1 DEF SetupTypeOK, Remembered, Contexts
    <3>3. c \notin {"guardian", "token_issuer"} /\ P => Q
      BY <1>1, <3>2 DEF Provisioned, Object
    <3>. HIDE DEF undo, P, Q
    <3>. QED  BY <3>1, <3>3
  <2>. HIDE DEF undo, P, Q
  <2>9. Backed({<<"provision", "guardian">>}, <<"initialize", "token_issuer">>,
               undo, Q, Tail(todo))
    BY <1>1, <2>2, <2>3, <2>4, BackedTail
  <2>. QED  BY <1>1, <2>9 DEF undo, P, Q, ProvisionedInv
<1>9. MarkedInv'
  <2>. DEFINE undo == {"create", "deploy"} \X Contexts
              P == <<Object("issuer"), Object("vetting")>> \in chain
              Q == P'
  <2>2. Backed({<<"initialize", "issuer">>}, <<"mark", "issuer">>, undo, P, todo)
    BY DEF StepsInv, MarkedInv
  <2>3. Head(todo) \notin {<<"initialize", "issuer">>}  BY <1>1
  <2>4. Head(todo) \in undo  BY <1>1
  <2>. HIDE DEF undo, P, Q
  <2>9. Backed({<<"initialize", "issuer">>}, <<"mark", "issuer">>, undo, Q, Tail(todo))
    BY <1>1, <2>2, <2>3, <2>4, BackedTail
  <2>. QED  BY <1>1, <2>9 DEF undo, P, Q, MarkedInv
<1>. QED  BY <1>3, <1>4, <1>5, <1>6, <1>7, <1>8, <1>9 DEF StepsInv

\* The file as the context is.
LEMMA SaveSteps ==
  ASSUME StepsInv, SetupTypeOK, NEW c \in Contexts, SaveContextFile(c)
  PROVE  StepsInv'
<1>1. /\ todo \in Seq(Steps) /\ todo # <<>> /\ todo' = Tail(todo)
      /\ Head(todo) = <<"save", c>> /\ c \in Contexts
      /\ UNCHANGED <<context, ready, approved, chain, endpoints>>
  BY DEF SaveContextFile, At, SetupTypeOK, contracts
<1>2. FreshInv'
  <2>1. SUFFICES ASSUME NEW d \in Contexts
                 PROVE  Backed({}, <<"deploy", d>>,
                               Steps \ (IF d = "vetting" THEN Operations \X {"asset_type"} ELSE {}),
                               Object(d) = NoObject, todo)'
    BY DEF FreshInv
  <2>. DEFINE undo == Steps \ (IF d = "vetting" THEN Operations \X {"asset_type"} ELSE {})
              P == Object(d) = NoObject
              Q == P'
  <2>2. Backed({}, <<"deploy", d>>, undo, P, todo)  BY DEF StepsInv, FreshInv
  <2>3. Head(todo) \notin {} /\ (P <=> Q)  BY <1>1 DEF Object
  <2>. HIDE DEF undo, P, Q
  <2>9. Backed({}, <<"deploy", d>>, undo, Q, Tail(todo))
    BY <1>1, <2>2, <2>3, BackedTail
  <2>. QED  BY <1>1, <2>9 DEF undo, P, Q
<1>3. TypeFirstInv'
  <2>1. SUFFICES ASSUME NEW op \in {"deploy", "initialize"}
                 PROVE  Backed({<<"type_identifier", "asset_type">>}, <<op, "vetting">>,
                               ({"create"} \X Contexts) \cup {<<"deploy", "asset_type">>},
                               Object("asset_type") \in ready, todo)'
    BY DEF TypeFirstInv
  <2>. DEFINE undo == ({"create"} \X Contexts) \cup {<<"deploy", "asset_type">>}
              P == Object("asset_type") \in ready
              Q == P'
  <2>2. Backed({<<"type_identifier", "asset_type">>}, <<op, "vetting">>, undo, P, todo)
    BY DEF StepsInv, TypeFirstInv
  <2>3. Head(todo) \notin {<<"type_identifier", "asset_type">>} /\ (P <=> Q)  BY <1>1 DEF Object
  <2>. HIDE DEF undo, P, Q
  <2>9. Backed({<<"type_identifier", "asset_type">>}, <<op, "vetting">>, undo, Q, Tail(todo))
    BY <1>1, <2>2, <2>3, BackedTail
  <2>. QED  BY <1>1, <2>9 DEF undo, P, Q
<1>4. UnsavedInv'
  <2>1. SUFFICES ASSUME NEW d \in Contexts \ {"issuer"}
                 PROVE  Backed({<<"deploy", d>>}, <<"initialize", d>>,
                               {"save"} \X Contexts,
                               Object(d) # NoObject /\ file.context[d] = NoObject, todo)'
    BY DEF UnsavedInv
  <2>. DEFINE undo == {"save"} \X Contexts
              P == Object(d) # NoObject /\ file.context[d] = NoObject
              Q == P'
  <2>2. Backed({<<"deploy", d>>}, <<"initialize", d>>, undo, P, todo)  BY DEF StepsInv, UnsavedInv
  <2>3. Head(todo) \notin {<<"deploy", d>>} /\ Head(todo) \in undo  BY <1>1
  <2>. HIDE DEF undo, P, Q
  <2>9. Backed({<<"deploy", d>>}, <<"initialize", d>>, undo, Q, Tail(todo))
    BY <1>1, <2>2, <2>3, BackedTail
  <2>. QED  BY <1>1, <2>9 DEF undo, P, Q
<1>5. DeployedInv'
  <2>1. SUFFICES ASSUME NEW d \in Issuing, NEW s \in Uses[d]
                 PROVE  Backed({<<"deploy", d>>}, s, {}, Object(d) # NoObject, todo)'
    BY DEF DeployedInv
  <2>. DEFINE undo == {}
              P == Object(d) # NoObject
              Q == P'
  <2>2. Backed({<<"deploy", d>>}, s, undo, P, todo)  BY DEF StepsInv, DeployedInv
  <2>3. Head(todo) \notin {<<"deploy", d>>} /\ (P <=> Q)  BY <1>1 DEF Object
  <2>. HIDE DEF undo, P, Q
  <2>9. Backed({<<"deploy", d>>}, s, undo, Q, Tail(todo))
    BY <1>1, <2>2, <2>3, BackedTail
  <2>. QED  BY <1>1, <2>9 DEF undo, P, Q
<1>6. AuthorizedInv'
  <2>1. SUFFICES ASSUME NEW d \in Issuing
                 PROVE  Backed({<<"authority", d>>}, <<"initialize", d>>,
                               {"create", "deploy"} \X Contexts, Authorized(d), todo)'
    BY DEF AuthorizedInv
  <2>. DEFINE undo == {"create", "deploy"} \X Contexts
              P == Authorized(d)
              Q == P'
  <2>2. Backed({<<"authority", d>>}, <<"initialize", d>>, undo, P, todo)
    BY DEF StepsInv, AuthorizedInv
  <2>3. Head(todo) \notin {<<"authority", d>>} /\ (P <=> Q)  BY <1>1 DEF Object, Authorized
  <2>. HIDE DEF undo, P, Q
  <2>9. Backed({<<"authority", d>>}, <<"initialize", d>>, undo, Q, Tail(todo))
    BY <1>1, <2>2, <2>3, BackedTail
  <2>. QED  BY <1>1, <2>9 DEF undo, P, Q
<1>7. ProvisionedInv'
  <2>. DEFINE undo == {"create", "deploy"} \X {"guardian", "token_issuer"}
              P == Provisioned
              Q == P'
  <2>2. Backed({<<"provision", "guardian">>}, <<"initialize", "token_issuer">>, undo, P, todo)
    BY DEF StepsInv, ProvisionedInv
  <2>3. Head(todo) \notin {<<"provision", "guardian">>} /\ (P <=> Q)
    BY <1>1 DEF Object, Provisioned
  <2>. HIDE DEF undo, P, Q
  <2>9. Backed({<<"provision", "guardian">>}, <<"initialize", "token_issuer">>,
               undo, Q, Tail(todo))
    BY <1>1, <2>2, <2>3, BackedTail
  <2>. QED  BY <1>1, <2>9 DEF undo, P, Q, ProvisionedInv
<1>8. MarkedInv'
  <2>. DEFINE undo == {"create", "deploy"} \X Contexts
              P == <<Object("issuer"), Object("vetting")>> \in chain
              Q == P'
  <2>2. Backed({<<"initialize", "issuer">>}, <<"mark", "issuer">>, undo, P, todo)
    BY DEF StepsInv, MarkedInv
  <2>3. Head(todo) \notin {<<"initialize", "issuer">>} /\ (P <=> Q)  BY <1>1 DEF Object
  <2>. HIDE DEF undo, P, Q
  <2>9. Backed({<<"initialize", "issuer">>}, <<"mark", "issuer">>, undo, Q, Tail(todo))
    BY <1>1, <2>2, <2>3, BackedTail
  <2>. QED  BY <1>1, <2>9 DEF undo, P, Q, MarkedInv
<1>. QED  BY <1>2, <1>3, <1>4, <1>5, <1>6, <1>7, <1>8 DEF StepsInv

\* The body of another command, or nothing where the context has an object.
LEMMA CreateSteps ==
  ASSUME StepsInv, SetupTypeOK, NEW c \in Contexts, Create(c)
  PROVE  StepsInv'
<1>1. /\ todo \in Seq(Steps) /\ todo # <<>> /\ Tail(todo) \in Seq(Steps)
      /\ Head(todo) = <<"create", c>> /\ c \in Contexts
      /\ Object(c) = NoObject => todo' = Body[c] \o Tail(todo)
      /\ Object(c) # NoObject => todo' = Tail(todo)
      /\ UNCHANGED <<context, file, ready, approved, chain, endpoints>>
  <2>1. todo \in Seq(Steps) /\ todo # <<>> /\ Tail(todo) \in Seq(Steps)
    BY DEF Create, At, SetupTypeOK
  <2>2. <<>> \o Tail(todo) = Tail(todo)  BY <2>1, ConcatEmptySeq
  <2>. QED  BY <2>1, <2>2 DEF Create, At, contracts
<1>2. Body[c] \in Seq(Steps)  BY Bodies
<1>3. FreshInv'
  <2>1. SUFFICES ASSUME NEW d \in Contexts
                 PROVE  Backed({}, <<"deploy", d>>,
                               Steps \ (IF d = "vetting" THEN Operations \X {"asset_type"} ELSE {}),
                               Object(d) = NoObject, todo)'
    BY DEF FreshInv
  <2>. DEFINE undo == Steps \ (IF d = "vetting" THEN Operations \X {"asset_type"} ELSE {})
              P == Object(d) = NoObject
              Q == P'
  <2>2. Backed({}, <<"deploy", d>>, undo, P, todo)  BY DEF StepsInv, FreshInv
  <2>3. P <=> Q  BY <1>1 DEF Object
  <2>4. ASSUME Object(c) = NoObject
        PROVE  Backed({}, <<"deploy", d>>, undo, P, Body[c] \o Tail(todo))
    <3>1. Backed({}, <<"deploy", d>>, undo, P, Body[c])
      <4>1. c = d => P  BY <2>4
      <4>. HIDE DEF P
      <4>. QED  BY <4>1, FreshBody DEF undo
    <3>2. Head(todo) \notin undo => \A n \in 1 .. Len(Body[c]) : Body[c][n] \notin undo
      BY <1>1, BodyKeeps DEF Steps, Operations
    <3>3. Head(todo) \notin {}  BY <1>1
    <3>. HIDE DEF undo, P
    <3>. QED  BY <1>1, <1>2, <2>2, <3>1, <3>2, <3>3, BackedBody
  <2>5. Backed({}, <<"deploy", d>>, undo, P, Tail(todo))
    <3>1. Head(todo) \notin {}  BY <1>1
    <3>. HIDE DEF undo, P
    <3>. QED  BY <1>1, <2>2, <3>1, BackedTail
  <2>. HIDE DEF undo, P, Q
  <2>9. Backed({}, <<"deploy", d>>, undo, Q, todo')
    BY <1>1, <2>3, <2>4, <2>5 DEF Backed
  <2>. QED  BY <1>1, <2>9 DEF undo, P, Q
<1>4. TypeFirstInv'
  <2>1. SUFFICES ASSUME NEW op \in {"deploy", "initialize"}
                 PROVE  Backed({<<"type_identifier", "asset_type">>}, <<op, "vetting">>,
                               ({"create"} \X Contexts) \cup {<<"deploy", "asset_type">>},
                               Object("asset_type") \in ready, todo)'
    BY DEF TypeFirstInv
  <2>. DEFINE undo == ({"create"} \X Contexts) \cup {<<"deploy", "asset_type">>}
              P == Object("asset_type") \in ready
              Q == P'
  <2>2. Backed({<<"type_identifier", "asset_type">>}, <<op, "vetting">>, undo, P, todo)
    BY DEF StepsInv, TypeFirstInv
  <2>3. P <=> Q  BY <1>1 DEF Object
  <2>4. ASSUME Object(c) = NoObject
        PROVE  Backed({<<"type_identifier", "asset_type">>}, <<op, "vetting">>,
                      undo, P, Body[c] \o Tail(todo))
    <3>1. Backed({<<"type_identifier", "asset_type">>}, <<op, "vetting">>, undo, P, Body[c])
      <4>. HIDE DEF P
      <4>. QED  BY TypeFirstBody DEF undo
    <3>2. Head(todo) \in undo
      <4>1. Head(todo) \in {"create"} \X Contexts  BY <1>1
      <4>. QED  BY <4>1
    <3>3. Head(todo) \notin {<<"type_identifier", "asset_type">>}  BY <1>1
    <3>. HIDE DEF undo, P
    <3>. QED  BY <1>1, <1>2, <2>2, <3>1, <3>2, <3>3, BackedBody
  <2>5. Backed({<<"type_identifier", "asset_type">>}, <<op, "vetting">>, undo, P, Tail(todo))
    <3>1. Head(todo) \notin {<<"type_identifier", "asset_type">>}  BY <1>1
    <3>. HIDE DEF undo, P
    <3>. QED  BY <1>1, <2>2, <3>1, BackedTail
  <2>. HIDE DEF undo, P, Q
  <2>9. Backed({<<"type_identifier", "asset_type">>}, <<op, "vetting">>, undo, Q, todo')
    BY <1>1, <2>3, <2>4, <2>5 DEF Backed
  <2>. QED  BY <1>1, <2>9 DEF undo, P, Q
<1>5. UnsavedInv'
  <2>1. SUFFICES ASSUME NEW d \in Contexts \ {"issuer"}
                 PROVE  Backed({<<"deploy", d>>}, <<"initialize", d>>,
                               {"save"} \X Contexts,
                               Object(d) # NoObject /\ file.context[d] = NoObject, todo)'
    BY DEF UnsavedInv
  <2>. DEFINE undo == {"save"} \X Contexts
              P == Object(d) # NoObject /\ file.context[d] = NoObject
              Q == P'
  <2>2. Backed({<<"deploy", d>>}, <<"initialize", d>>, undo, P, todo)  BY DEF StepsInv, UnsavedInv
  <2>3. P <=> Q  BY <1>1 DEF Object
  <2>4. ASSUME Object(c) = NoObject
        PROVE  Backed({<<"deploy", d>>}, <<"initialize", d>>, undo, P, Body[c] \o Tail(todo))
    <3>1. Backed({<<"deploy", d>>}, <<"initialize", d>>, undo, P, Body[c])
      <4>. HIDE DEF P
      <4>. QED  BY UnsavedBody DEF undo
    <3>2. \A n \in 1 .. Len(Body[c]) : Body[c][n] \notin undo  BY BodyKeeps
    <3>3. Head(todo) \notin {<<"deploy", d>>}  BY <1>1
    <3>. HIDE DEF undo, P
    <3>. QED  BY <1>1, <1>2, <2>2, <3>1, <3>2, <3>3, BackedBody
  <2>5. Backed({<<"deploy", d>>}, <<"initialize", d>>, undo, P, Tail(todo))
    <3>1. Head(todo) \notin {<<"deploy", d>>}  BY <1>1
    <3>. HIDE DEF undo, P
    <3>. QED  BY <1>1, <2>2, <3>1, BackedTail
  <2>. HIDE DEF undo, P, Q
  <2>9. Backed({<<"deploy", d>>}, <<"initialize", d>>, undo, Q, todo')
    BY <1>1, <2>3, <2>4, <2>5 DEF Backed
  <2>. QED  BY <1>1, <2>9 DEF undo, P, Q
<1>6. DeployedInv'
  <2>1. SUFFICES ASSUME NEW d \in Issuing, NEW s \in Uses[d]
                 PROVE  Backed({<<"deploy", d>>}, s, {}, Object(d) # NoObject, todo)'
    BY DEF DeployedInv
  <2>. DEFINE undo == {}
              P == Object(d) # NoObject
              Q == P'
  <2>2. Backed({<<"deploy", d>>}, s, undo, P, todo)  BY DEF StepsInv, DeployedInv
  <2>3. P <=> Q  BY <1>1 DEF Object
  <2>4. ASSUME Object(c) = NoObject
        PROVE  Backed({<<"deploy", d>>}, s, undo, P, Body[c] \o Tail(todo))
    <3>1. Backed({<<"deploy", d>>}, s, undo, P, Body[c])
      <4>. HIDE DEF P
      <4>. QED  BY DeployedBody DEF undo
    <3>2. \A n \in 1 .. Len(Body[c]) : Body[c][n] \notin undo  OBVIOUS
    <3>3. Head(todo) \notin {<<"deploy", d>>}  BY <1>1
    <3>. HIDE DEF undo, P
    <3>. QED  BY <1>1, <1>2, <2>2, <3>1, <3>2, <3>3, BackedBody
  <2>5. Backed({<<"deploy", d>>}, s, undo, P, Tail(todo))
    <3>1. Head(todo) \notin {<<"deploy", d>>}  BY <1>1
    <3>. HIDE DEF undo, P
    <3>. QED  BY <1>1, <2>2, <3>1, BackedTail
  <2>. HIDE DEF undo, P, Q
  <2>9. Backed({<<"deploy", d>>}, s, undo, Q, todo')
    BY <1>1, <2>3, <2>4, <2>5 DEF Backed
  <2>. QED  BY <1>1, <2>9 DEF undo, P, Q
<1>7. AuthorizedInv'
  <2>1. SUFFICES ASSUME NEW d \in Issuing
                 PROVE  Backed({<<"authority", d>>}, <<"initialize", d>>,
                               {"create", "deploy"} \X Contexts, Authorized(d), todo)'
    BY DEF AuthorizedInv
  <2>. DEFINE undo == {"create", "deploy"} \X Contexts
              P == Authorized(d)
              Q == P'
  <2>2. Backed({<<"authority", d>>}, <<"initialize", d>>, undo, P, todo)
    BY DEF StepsInv, AuthorizedInv
  <2>3. P <=> Q  BY <1>1 DEF Object, Authorized
  <2>4. ASSUME Object(c) = NoObject
        PROVE  Backed({<<"authority", d>>}, <<"initialize", d>>, undo, P, Body[c] \o Tail(todo))
    <3>1. Backed({<<"authority", d>>}, <<"initialize", d>>, undo, P, Body[c])
      <4>. HIDE DEF P
      <4>. QED  BY AuthorizedBody DEF undo
    <3>2. Head(todo) \in undo  BY <1>1
    <3>3. Head(todo) \notin {<<"authority", d>>}  BY <1>1
    <3>. HIDE DEF undo, P
    <3>. QED  BY <1>1, <1>2, <2>2, <3>1, <3>2, <3>3, BackedBody
  <2>5. Backed({<<"authority", d>>}, <<"initialize", d>>, undo, P, Tail(todo))
    <3>1. Head(todo) \notin {<<"authority", d>>}  BY <1>1
    <3>. HIDE DEF undo, P
    <3>. QED  BY <1>1, <2>2, <3>1, BackedTail
  <2>. HIDE DEF undo, P, Q
  <2>9. Backed({<<"authority", d>>}, <<"initialize", d>>, undo, Q, todo')
    BY <1>1, <2>3, <2>4, <2>5 DEF Backed
  <2>. QED  BY <1>1, <2>9 DEF undo, P, Q
<1>8. ProvisionedInv'
  <2>. DEFINE undo == {"create", "deploy"} \X {"guardian", "token_issuer"}
              P == Provisioned
              Q == P'
  <2>2. Backed({<<"provision", "guardian">>}, <<"initialize", "token_issuer">>, undo, P, todo)
    BY DEF StepsInv, ProvisionedInv
  <2>3. P <=> Q  BY <1>1 DEF Object, Provisioned
  <2>4. ASSUME Object(c) = NoObject
        PROVE  Backed({<<"provision", "guardian">>}, <<"initialize", "token_issuer">>,
                      undo, P, Body[c] \o Tail(todo))
    <3>1. Backed({<<"provision", "guardian">>}, <<"initialize", "token_issuer">>,
                 undo, P, Body[c])
      <4>. HIDE DEF P
      <4>. QED  BY ProvisionedBody DEF undo
    <3>2. Head(todo) \notin undo => \A n \in 1 .. Len(Body[c]) : Body[c][n] \notin undo
      BY <1>1, BodyKeeps
    <3>3. Head(todo) \notin {<<"provision", "guardian">>}  BY <1>1
    <3>. HIDE DEF undo, P
    <3>. QED  BY <1>1, <1>2, <2>2, <3>1, <3>2, <3>3, BackedBody
  <2>5. Backed({<<"provision", "guardian">>}, <<"initialize", "token_issuer">>,
               undo, P, Tail(todo))
    <3>1. Head(todo) \notin {<<"provision", "guardian">>}  BY <1>1
    <3>. HIDE DEF undo, P
    <3>. QED  BY <1>1, <2>2, <3>1, BackedTail
  <2>. HIDE DEF undo, P, Q
  <2>9. Backed({<<"provision", "guardian">>}, <<"initialize", "token_issuer">>, undo, Q, todo')
    BY <1>1, <2>3, <2>4, <2>5 DEF Backed
  <2>. QED  BY <1>1, <2>9 DEF undo, P, Q, ProvisionedInv
<1>9. MarkedInv'
  <2>. DEFINE undo == {"create", "deploy"} \X Contexts
              P == <<Object("issuer"), Object("vetting")>> \in chain
              Q == P'
  <2>2. Backed({<<"initialize", "issuer">>}, <<"mark", "issuer">>, undo, P, todo)
    BY DEF StepsInv, MarkedInv
  <2>3. P <=> Q  BY <1>1 DEF Object
  <2>4. ASSUME Object(c) = NoObject
        PROVE  Backed({<<"initialize", "issuer">>}, <<"mark", "issuer">>,
                      undo, P, Body[c] \o Tail(todo))
    <3>1. Backed({<<"initialize", "issuer">>}, <<"mark", "issuer">>, undo, P, Body[c])
      <4>. HIDE DEF P
      <4>. QED  BY MarkedBody DEF undo
    <3>2. Head(todo) \in undo  BY <1>1
    <3>3. Head(todo) \notin {<<"initialize", "issuer">>}  BY <1>1
    <3>. HIDE DEF undo, P
    <3>. QED  BY <1>1, <1>2, <2>2, <3>1, <3>2, <3>3, BackedBody
  <2>5. Backed({<<"initialize", "issuer">>}, <<"mark", "issuer">>, undo, P, Tail(todo))
    <3>1. Head(todo) \notin {<<"initialize", "issuer">>}  BY <1>1
    <3>. HIDE DEF undo, P
    <3>. QED  BY <1>1, <2>2, <3>1, BackedTail
  <2>. HIDE DEF undo, P, Q
  <2>9. Backed({<<"initialize", "issuer">>}, <<"mark", "issuer">>, undo, Q, todo')
    BY <1>1, <2>3, <2>4, <2>5 DEF Backed
  <2>. QED  BY <1>1, <2>9 DEF undo, P, Q, MarkedInv
<1>. QED  BY <1>3, <1>4, <1>5, <1>6, <1>7, <1>8, <1>9 DEF StepsInv

\* Steps that need none before them.
Plain == ({"create", "save"} \X Contexts) \cup {<<"approve", "issuer">>, <<"authority", "issuer">>}

LEMMA PlainSteps ==
  ASSUME \A n \in DOMAIN todo' : todo'[n] \in Plain
  PROVE  StepsInv'
<1>1. /\ \A op \in {"deploy", "initialize", "mark", "add_endpoint"} :
           \A c \in Contexts : <<op, c>> \notin Plain
      /\ \A d \in Issuing : \A s \in Uses[d] : s \notin Plain
  BY DEF Plain, Issuing, Uses
<1>2. FreshInv'  BY <1>1 DEF FreshInv, Backed
<1>3. TypeFirstInv'  BY <1>1 DEF TypeFirstInv, Backed, Contexts
<1>4. UnsavedInv'  BY <1>1 DEF UnsavedInv, Backed
<1>5. DeployedInv'  BY <1>1 DEF DeployedInv, Backed
<1>6. AuthorizedInv'  BY <1>1 DEF AuthorizedInv, Backed, Contexts, Issuing
<1>7. ProvisionedInv'  BY <1>1 DEF ProvisionedInv, Backed, Contexts
<1>8. MarkedInv'  BY <1>1 DEF MarkedInv, Backed, Contexts
<1>. QED  BY <1>2, <1>3, <1>4, <1>5, <1>6, <1>7, <1>8 DEF StepsInv

\* The issuer is initialized, and noted to be, right after it got its authority.
LEMMA IssuerSteps ==
  ASSUME NEW n \in Nat \ {0}, todo'[n - 1] = <<"authority", "issuer">>,
         \A k \in DOMAIN todo' :
           \/ todo'[k] \in Plain
           \/ k = n /\ todo'[k] = <<"initialize", "issuer">>
           \/ k = n + 1 /\ todo'[k] = <<"mark", "issuer">> /\ todo'[n] = <<"initialize", "issuer">>,
         n - 1 \in DOMAIN todo', n - 1 \in Nat \ {0}
  PROVE  StepsInv'
<1>1. /\ \A op \in {"deploy", "initialize", "mark", "add_endpoint"} :
           \A c \in Contexts : <<op, c>> \notin Plain
      /\ \A d \in Issuing : \A s \in Uses[d] : s \notin Plain
  BY DEF Plain, Issuing, Uses
<1>2. FreshInv'  BY <1>1 DEF FreshInv, Backed
<1>3. TypeFirstInv'  BY <1>1 DEF TypeFirstInv, Backed, Contexts
<1>4. UnsavedInv'  BY <1>1 DEF UnsavedInv, Backed
<1>5. DeployedInv'
  <2>1. \A d \in Issuing : \A s \in Uses[d] :
          s # <<"initialize", "issuer">> /\ s # <<"mark", "issuer">>
    BY DEF Issuing, Uses
  <2>. QED  BY <1>1, <2>1 DEF DeployedInv, Backed
<1>6. AuthorizedInv'
  <2>1. SUFFICES ASSUME NEW d \in Issuing
                 PROVE  Backed({<<"authority", d>>}, <<"initialize", d>>,
                               {"create", "deploy"} \X Contexts, Authorized(d)', todo')
    BY DEF AuthorizedInv, Backed
  <2>2. CASE d = "issuer"
    <3>1. \A k \in DOMAIN todo' : todo'[k] = <<"initialize", "issuer">> => k = n
      BY <1>1 DEF Contexts
    <3>2. n - 1 \in 1 .. n - 1 /\ \A k \in (n - 1) + 1 .. n - 1 : FALSE  OBVIOUS
    <3>. QED  BY <2>2, <3>1, <3>2 DEF Backed
  <2>3. CASE d # "issuer"
    <3>1. \A k \in DOMAIN todo' : todo'[k] # <<"initialize", d>>
      BY <1>1, <2>3 DEF Contexts, Issuing
    <3>. QED  BY <3>1 DEF Backed
  <2>. QED  BY <2>2, <2>3
<1>7. ProvisionedInv'  BY <1>1 DEF ProvisionedInv, Backed, Contexts
<1>8. MarkedInv'
  <2>1. \A k \in DOMAIN todo' : todo'[k] = <<"mark", "issuer">> =>
                                  k = n + 1 /\ todo'[n] = <<"initialize", "issuer">>
    BY <1>1 DEF Contexts
  <2>2. n \in 1 .. (n + 1) - 1 /\ \A k \in n + 1 .. (n + 1) - 1 : FALSE  OBVIOUS
  <2>. QED  BY <2>1, <2>2 DEF MarkedInv, Backed
<1>. QED  BY <1>2, <1>3, <1>4, <1>5, <1>6, <1>7, <1>8 DEF StepsInv

LEMMA NotebookSteps ==
  /\ IssuerNotebook \in Seq(Steps)
  /\ Len(IssuerNotebook) = (IF Initialized THEN 8 ELSE 12)
  /\ \A n \in 1 .. 8 : IssuerNotebook[n] \in Plain
  /\ ~ Initialized => /\ IssuerNotebook[9] = <<"authority", "issuer">>
                      /\ IssuerNotebook[10] = <<"initialize", "issuer">>
                      /\ IssuerNotebook[11] = <<"mark", "issuer">>
                      /\ IssuerNotebook[12] = <<"save", "issuer">>
<1> DEFINE first == << <<"create", "asset_type">>, <<"save", "asset_type">>, <<"create", "vetting">>,
                       <<"save", "vetting">>, <<"create", "issuer">>, <<"save", "issuer">> >>
                      \o ApproveIssuer("issuer")
           second == InitializeIssuer \o << <<"mark", "issuer">>, <<"save", "issuer">> >>
           rest == IF Initialized THEN <<>> ELSE second
<1>1. \A op \in Operations : \A c \in Contexts : <<op, c>> \in Steps  BY DEF Steps
<1>2. ApproveIssuer("issuer") \in Seq(Steps) /\ InitializeIssuer \in Seq(Steps)
  BY <1>1 DEF ApproveIssuer, InitializeIssuer, Operations, Contexts
<1>3. /\ first \in Seq(Steps) /\ Len(first) = 8
      /\ first[1] = <<"create", "asset_type">> /\ first[2] = <<"save", "asset_type">>
      /\ first[3] = <<"create", "vetting">> /\ first[4] = <<"save", "vetting">>
      /\ first[5] = <<"create", "issuer">> /\ first[6] = <<"save", "issuer">>
      /\ first[7] = <<"create", "vetting">> /\ first[8] = <<"approve", "issuer">>
  <2>1. first \in Seq(Steps)  BY <1>1, <1>2 DEF Operations, Contexts
  <2>2. Len(first) = 8  BY DEF ApproveIssuer
  <2>. QED  BY <2>1, <2>2 DEF ApproveIssuer
<1>4. \A n \in 1 .. 8 : first[n] \in Plain
  <2>1. \A op \in {"create", "save"} : \A c \in Contexts : <<op, c>> \in Plain
    BY DEF Plain
  <2>2. <<"approve", "issuer">> \in Plain  BY DEF Plain, Contexts
  <2>. HIDE DEF first
  <2>3. /\ <<"create", "asset_type">> \in Plain /\ <<"save", "asset_type">> \in Plain
        /\ <<"create", "vetting">> \in Plain /\ <<"save", "vetting">> \in Plain
        /\ <<"create", "issuer">> \in Plain /\ <<"save", "issuer">> \in Plain
    BY <2>1 DEF Contexts
  <2>4. \A n \in 1 .. 8 : n \in {1, 2, 3, 4, 5, 6, 7, 8}  OBVIOUS
  <2>. QED  BY <1>3, <2>2, <2>3, <2>4
<1>5. /\ second \in Seq(Steps) /\ Len(second) = 4
      /\ second[1] = <<"authority", "issuer">> /\ second[2] = <<"initialize", "issuer">>
      /\ second[3] = <<"mark", "issuer">> /\ second[4] = <<"save", "issuer">>
  <2>1. second \in Seq(Steps)  BY <1>1, <1>2 DEF Operations, Contexts
  <2>. QED  BY <2>1 DEF InitializeIssuer
<1>6. IssuerNotebook = first \o rest  BY Zenon DEF IssuerNotebook
<1>. HIDE DEF first, second
<1>7. CASE Initialized
  <2>1. first \o <<>> = first  BY <1>3, ConcatEmptySeq
  <2>. QED  BY <1>3, <1>4, <1>6, <1>7, <2>1
<1>8. CASE ~ Initialized
  <2>1. IssuerNotebook = first \o second  BY <1>6, <1>8
  <2>2. /\ IssuerNotebook \in Seq(Steps) /\ Len(IssuerNotebook) = 12
        /\ \A n \in 1 .. 12 : IssuerNotebook[n] = IF n <= 8 THEN first[n] ELSE second[n - 8]
    <3>1. /\ first \o second \in Seq(Steps)
          /\ Len(first \o second) = Len(first) + Len(second)
          /\ \A n \in 1 .. Len(first) + Len(second) :
               (first \o second)[n] = IF n <= Len(first) THEN first[n] ELSE second[n - Len(first)]
      BY <1>3, <1>5, ConcatProperties
    <3>2. Len(first) = 8 /\ Len(second) = 4 /\ 8 + 4 = 12  BY <1>3, <1>5
    <3>. QED  BY <2>1, <3>1, <3>2
  <2>. QED  BY <1>3, <1>4, <1>5, <1>8, <2>2
<1>. QED  BY <1>7, <1>8

LEMMA CommandSteps ==
  ASSUME Command
  PROVE  /\ StepsInv' /\ todo' \in Seq(Steps)
         /\ \A n \in DOMAIN todo' :
              todo'[n] \in Plain \cup {<<"initialize", "issuer">>, <<"mark", "issuer">>}
<1>0. /\ \A op \in Operations : \A c \in Contexts : <<op, c>> \in Steps
      /\ \A op \in {"create", "save"} : \A c \in Contexts : <<op, c>> \in Plain
      /\ <<"approve", "issuer">> \in Plain /\ <<"authority", "issuer">> \in Plain
  BY DEF Steps, Plain, Contexts
<1>1. CASE \E c \in Contexts : Begin(<< <<"create", c>> >>)
  <2>1. PICK c \in Contexts : todo' = << <<"create", c>> >>  BY <1>1 DEF Begin
  <2>2. todo' \in Seq(Steps)  BY <1>0, <2>1 DEF Operations
  <2>3. \A n \in DOMAIN todo' : todo'[n] \in Plain  BY <1>0, <2>1
  <2>. QED  BY <2>2, <2>3, PlainSteps
<1>2. CASE Begin(ApproveIssuer("issuer"))
  <2>1. todo' = << <<"create", "vetting">>, <<"approve", "issuer">> >>
    BY <1>2 DEF Begin, ApproveIssuer
  <2>2. todo' \in Seq(Steps)  BY <1>0, <2>1 DEF Operations, Contexts
  <2>3. <<"create", "vetting">> \in Plain /\ <<"approve", "issuer">> \in Plain
    BY <1>0 DEF Contexts
  <2>4. \A n \in DOMAIN todo' : todo'[n] \in Plain  BY <2>1, <2>3
  <2>. QED  BY <2>2, <2>4, PlainSteps
<1>3. CASE Begin(InitializeIssuer)
  <2>1. todo' = << <<"authority", "issuer">>, <<"initialize", "issuer">> >>
    BY <1>3 DEF Begin, InitializeIssuer
  <2>2. todo' \in Seq(Steps)  BY <1>0, <2>1 DEF Operations, Contexts
  <2>3. <<"authority", "issuer">> \in Plain  BY <1>0 DEF Contexts
  <2>4. /\ todo'[2 - 1] = <<"authority", "issuer">>
        /\ 2 - 1 \in DOMAIN todo' /\ 2 \in Nat \ {0} /\ 2 - 1 \in Nat \ {0}
        /\ \A k \in DOMAIN todo' :
             \/ todo'[k] \in Plain
             \/ k = 2 /\ todo'[k] = <<"initialize", "issuer">>
    BY <2>1, <2>3
  <2>5. StepsInv'  BY <2>4, IssuerSteps
  <2>. QED  BY <2>2, <2>4, <2>5
<1>4. CASE Begin(IssuerNotebook)
  <2>1. todo' = IssuerNotebook  BY <1>4 DEF Begin
  <2>2. DOMAIN IssuerNotebook = 1 .. Len(IssuerNotebook)
    <3>1. IssuerNotebook \in Seq(Steps)  BY NotebookSteps
    <3>. QED  BY <3>1
  <2>3. CASE Initialized
    <3>1. \A n \in DOMAIN todo' : todo'[n] \in Plain  BY <2>1, <2>2, <2>3, NotebookSteps
    <3>. QED  BY <2>1, <3>1, NotebookSteps, PlainSteps
  <2>4. CASE ~ Initialized
    <3>1. DOMAIN todo' = 1 .. 12  BY <2>1, <2>2, <2>4, NotebookSteps
    <3>2. <<"authority", "issuer">> \in Plain /\ <<"save", "issuer">> \in Plain
      BY <1>0 DEF Contexts
    <3>3. \A k \in DOMAIN todo' :
             \/ todo'[k] \in Plain
             \/ k = 10 /\ todo'[k] = <<"initialize", "issuer">>
             \/ k = 10 + 1 /\ todo'[k] = <<"mark", "issuer">> /\ todo'[10] = <<"initialize", "issuer">>
      <4>1. \A k \in 1 .. 12 : k \in 1 .. 8 \/ k = 9 \/ k = 10 \/ k = 11 \/ k = 12  OBVIOUS
      <4>2. /\ \A k \in 1 .. 8 : todo'[k] \in Plain
            /\ todo'[9] \in Plain /\ todo'[10] = <<"initialize", "issuer">>
            /\ todo'[11] = <<"mark", "issuer">> /\ todo'[12] \in Plain
        BY <2>1, <2>4, <3>2, NotebookSteps
      <4>. QED  BY <3>1, <4>1, <4>2
    <3>4. /\ todo'[10 - 1] = <<"authority", "issuer">>
          /\ 10 - 1 \in DOMAIN todo' /\ 10 \in Nat \ {0} /\ 10 - 1 \in Nat \ {0}
      BY <2>1, <2>4, <3>1, NotebookSteps
    <3>5. StepsInv'  BY <3>3, <3>4, IssuerSteps
    <3>. QED  BY <2>1, <3>3, <3>5, NotebookSteps
  <2>. QED  BY <2>3, <2>4
<1>5. CASE Begin(TokenIssuerNotebook)
  <2>1. todo' = << <<"create", "token_issuer">>, <<"save", "token_issuer">> >>
    BY <1>5 DEF Begin, TokenIssuerNotebook
  <2>2. todo' \in Seq(Steps)  BY <1>0, <2>1 DEF Operations, Contexts
  <2>3. <<"create", "token_issuer">> \in Plain /\ <<"save", "token_issuer">> \in Plain
    BY <1>0 DEF Contexts
  <2>4. \A n \in DOMAIN todo' : todo'[n] \in Plain  BY <2>1, <2>3
  <2>. QED  BY <2>2, <2>4, PlainSteps
<1>. QED  BY <1>1, <1>2, <1>3, <1>4, <1>5 DEF Command

-----------------------------------------------------------------------------
(* The inductive invariant. *)

LEMMA SetupStarts == SetupInit => SetupInv
<1>. SUFFICES ASSUME SetupInit  PROVE SetupInv
  OBVIOUS
<1>. USE DEF SetupInit, NoObject
<1>1. SetupTypeOK
  <2>1. context \in [Contexts -> 0 .. made]  OBVIOUS
  <2>2. [context |-> context, notes |-> notes] \in Remembered  BY <2>1 DEF Remembered
  <2>. QED  BY <2>2, SetupAssumption DEF SetupTypeOK
<1>2. StepsInv
  BY DEF StepsInv, FreshInv, TypeFirstInv, UnsavedInv, DeployedInv, AuthorizedInv,
         ProvisionedInv, MarkedInv, Backed
<1>3. ContextInv  BY DEF ContextInv, Coherent, Contexts
<1>4. AuthorityGrounded /\ ContextFits
  BY DEF AuthorityGrounded, ContextFits, Fits
<1>. QED  BY <1>1, <1>2, <1>3, <1>4 DEF SetupInv

\* Nothing but the steps still to make changes.
LEMMA QuietInv ==
  ASSUME SetupInv, UNCHANGED <<contracts, border, context, notes, file>>,
         todo' \in Seq(Steps), failures' \in 0 .. MaxFailures, StepsInv'
  PROVE  SetupInv'
<1>. USE DEF SetupInv, contracts
<1>1. SetupTypeOK'  BY DEF SetupTypeOK, Remembered
<1>2. ContextInv'  BY DEF ContextInv, Coherent
<1>3. AuthorityGrounded' /\ ContextFits'  BY DEF AuthorityGrounded, ContextFits, Fits
<1>. QED  BY <1>1, <1>2, <1>3

LEMMA NextStep ==
  ASSUME SetupInv, NEW op, NEW c, At(op, c), Proceed
  PROVE  /\ todo \in Seq(Steps) /\ todo # <<>> /\ Head(todo) = <<op, c>>
         /\ todo' = Tail(todo) /\ todo' \in Seq(Steps)
         /\ file' = file /\ border' = border /\ failures' = failures
BY DEF At, Proceed, SetupInv, SetupTypeOK

\* A command that ends early leaves nothing to make.
LEMMA StopInv ==
  ASSUME SetupInv, Raise, failures' \in 0 .. MaxFailures
  PROVE  SetupInv'
<1>1. StepsInv'  BY PlainSteps DEF Raise
<1>. QED  BY <1>1, QuietInv DEF Raise

LEMMA CommandInv ==
  ASSUME SetupInv, Command
  PROVE  SetupInv'
<1>1. UNCHANGED <<contracts, border, context, notes, file, failures>>  BY DEF Command, Begin
<1>2. failures' \in 0 .. MaxFailures  BY <1>1 DEF SetupInv, SetupTypeOK
<1>. QED  BY <1>1, <1>2, CommandSteps, QuietInv

LEMMA CreateInv ==
  ASSUME SetupInv, NEW c \in Contexts, Create(c)
  PROVE  SetupInv'
<1>1. UNCHANGED <<contracts, border, context, notes, file, failures>>  BY DEF Create
<1>2. failures' \in 0 .. MaxFailures  BY <1>1 DEF SetupInv, SetupTypeOK
<1>3. todo' \in Seq(Steps)
  <2>1. Tail(todo) \in Seq(Steps) /\ Body[c] \in Seq(Steps) /\ <<>> \in Seq(Steps)
    BY Bodies DEF Create, At, SetupInv, SetupTypeOK
  <2>. QED  BY <2>1 DEF Create
<1>4. StepsInv'  BY CreateSteps DEF SetupInv
<1>. QED  BY <1>1, <1>2, <1>3, <1>4, QuietInv

\* Steps that only read.
LEMMA ReadInv ==
  ASSUME SetupInv,
         \/ GetTypeIdentifier \/ PushImage \/ ProvisionTokenIssuer
         \/ \E c \in Issuing : GetAuthority(c)
  PROVE  SetupInv'
<1>1. /\ UNCHANGED <<contracts, border, context, notes, file, failures>>
      /\ todo \in Seq(Steps) /\ todo # <<>> /\ todo' = Tail(todo) /\ todo' \in Seq(Steps)
  BY NextStep DEF GetTypeIdentifier, PushImage, ProvisionTokenIssuer, GetAuthority
<1>2. failures' \in 0 .. MaxFailures  BY <1>1 DEF SetupInv, SetupTypeOK
<1>3. /\ \A c \in Contexts : Head(todo) # <<"deploy", c>>
      /\ Head(todo) # <<"initialize", "issuer">>
      /\ Head(todo) = <<"type_identifier", "asset_type">> => Object("asset_type") \in ready
      /\ \A c \in Issuing : Head(todo) = <<"authority", c>> => Authorized(c)
      /\ Head(todo) = <<"provision", "guardian">> => Provisioned
  <2>1. CASE GetTypeIdentifier  BY <2>1 DEF GetTypeIdentifier, At
  <2>2. CASE PushImage  BY <2>2 DEF PushImage, At
  <2>3. CASE ProvisionTokenIssuer  BY <2>3 DEF ProvisionTokenIssuer, At, Provisioned
  <2>4. CASE \E c \in Issuing : GetAuthority(c)
    <3>1. PICK c \in Issuing : GetAuthority(c)  BY <2>4
    <3>2. Head(todo) = <<"authority", c>> /\ Authorized(c)
      BY <3>1 DEF GetAuthority, At, Authorized
    <3>. QED  BY <3>2
  <2>. QED  BY <2>1, <2>2, <2>3, <2>4
<1>4. StepsInv'  BY <1>1, <1>3, StepOn DEF SetupInv, contracts
<1>. QED  BY <1>1, <1>2, <1>4, QuietInv

\* What a step finds when its turn comes.
LEMMA DeployedNow ==
  ASSUME SetupInv, todo # <<>>, NEW c \in Issuing, Head(todo) \in Uses[c]
  PROVE  Object(c) # NoObject
<1>. DEFINE P == Object(c) # NoObject
<1>1. Backed({<<"deploy", c>>}, Head(todo), {}, P, todo)
  BY DEF SetupInv, StepsInv, DeployedInv
<1>2. todo \in Seq(Steps)  BY DEF SetupInv, SetupTypeOK
<1>. HIDE DEF P
<1>3. P  BY <1>1, <1>2, BackedNow
<1>. QED  BY <1>3 DEF P

LEMMA TypeFirstNow ==
  ASSUME SetupInv, NEW op \in {"deploy", "initialize"}, At(op, "vetting")
  PROVE  Object("asset_type") \in ready
<1>. DEFINE undo == ({"create"} \X Contexts) \cup {<<"deploy", "asset_type">>}
            P == Object("asset_type") \in ready
<1>1. Backed({<<"type_identifier", "asset_type">>}, <<op, "vetting">>, undo, P, todo)
  BY DEF SetupInv, StepsInv, TypeFirstInv
<1>2. todo \in Seq(Steps) /\ todo # <<>> /\ Head(todo) = <<op, "vetting">>
  BY DEF SetupInv, SetupTypeOK, At
<1>. HIDE DEF undo, P
<1>3. P  BY <1>1, <1>2, BackedNow
<1>. QED  BY <1>3 DEF P

LEMMA UnsavedNow ==
  ASSUME SetupInv, NEW c \in Contexts \ {"issuer"}, At("initialize", c)
  PROVE  Object(c) # NoObject /\ file.context[c] = NoObject
<1>. DEFINE undo == {"save"} \X Contexts
            P == Object(c) # NoObject /\ file.context[c] = NoObject
<1>1. Backed({<<"deploy", c>>}, <<"initialize", c>>, undo, P, todo)
  BY DEF SetupInv, StepsInv, UnsavedInv
<1>2. todo \in Seq(Steps) /\ todo # <<>> /\ Head(todo) = <<"initialize", c>>
  BY DEF SetupInv, SetupTypeOK, At
<1>. HIDE DEF undo, P
<1>3. P  BY <1>1, <1>2, BackedNow
<1>. QED  BY <1>3 DEF P

LEMMA AuthorizedNow ==
  ASSUME SetupInv, NEW c \in Issuing, At("initialize", c)
  PROVE  Authorized(c)
<1>. DEFINE undo == {"create", "deploy"} \X Contexts
            P == Authorized(c)
<1>1. Backed({<<"authority", c>>}, <<"initialize", c>>, undo, P, todo)
  BY DEF SetupInv, StepsInv, AuthorizedInv
<1>2. todo \in Seq(Steps) /\ todo # <<>> /\ Head(todo) = <<"initialize", c>>
  BY DEF SetupInv, SetupTypeOK, At
<1>. HIDE DEF undo, P
<1>3. P  BY <1>1, <1>2, BackedNow
<1>. QED  BY <1>3 DEF P

LEMMA ProvisionedNow ==
  ASSUME SetupInv, At("initialize", "token_issuer")
  PROVE  Provisioned
<1>. DEFINE undo == {"create", "deploy"} \X {"guardian", "token_issuer"}
            P == Provisioned
<1>1. Backed({<<"provision", "guardian">>}, <<"initialize", "token_issuer">>, undo, P, todo)
  BY DEF SetupInv, StepsInv, ProvisionedInv
<1>2. todo \in Seq(Steps) /\ todo # <<>> /\ Head(todo) = <<"initialize", "token_issuer">>
  BY DEF SetupInv, SetupTypeOK, At
<1>. HIDE DEF undo, P
<1>3. P  BY <1>1, <1>2, BackedNow
<1>. QED  BY <1>3 DEF P

LEMMA MarkedNow ==
  ASSUME SetupInv, At("mark", "issuer")
  PROVE  <<Object("issuer"), Object("vetting")>> \in chain
<1>. DEFINE undo == {"create", "deploy"} \X Contexts
            P == <<Object("issuer"), Object("vetting")>> \in chain
<1>1. Backed({<<"initialize", "issuer">>}, <<"mark", "issuer">>, undo, P, todo)
  BY DEF SetupInv, StepsInv, MarkedInv
<1>2. todo \in Seq(Steps) /\ todo # <<>> /\ Head(todo) = <<"mark", "issuer">>
  BY DEF SetupInv, SetupTypeOK, At
<1>. HIDE DEF undo, P
<1>3. P  BY <1>1, <1>2, BackedNow
<1>. QED  BY <1>3 DEF P

\* Entries of the context and pairs of the relations are objects.
LEMMA ObjectTypes ==
  ASSUME SetupInv, NEW c \in Contexts
  PROVE  /\ made \in Nat /\ Object(c) \in 0 .. made
         /\ Object(c) # NoObject => Object(c) \in 1 .. made
         /\ Object(c) \in ready => Object(c) \in 1 .. made
         /\ NoObject \notin ready
         /\ \A r \in {vets, approved, chain, endpoints, managed} : \A pair \in r :
              pair[1] # NoObject /\ pair[2] # NoObject
<1>. USE DEF SetupInv, SetupTypeOK, NoObject
<1>1. made \in Nat  BY SetupAssumption
<1>2. Object(c) \in 0 .. made  BY DEF Remembered, Object
<1>. QED  BY <1>1, <1>2

\* The entries of the issuer context.
LEMMA NoteInv ==
  ASSUME SetupInv, KeepVerifyingKey \/ MarkInitialized
  PROVE  SetupInv'
<1>1. /\ UNCHANGED <<contracts, context, file, border, failures>>
      /\ todo \in Seq(Steps) /\ todo # <<>> /\ todo' = Tail(todo) /\ todo' \in Seq(Steps)
      /\ Head(todo) \in {<<"verifying_key", "issuer">>, <<"mark", "issuer">>}
  BY NextStep DEF KeepVerifyingKey, MarkInitialized
<1>2. StepsInv'  BY <1>1, StepOn DEF SetupInv, contracts
<1>3. \/ KeepVerifyingKey /\ notes' = notes \cup {"verifying_key"} /\ Object("issuer") # NoObject
      \/ /\ MarkInitialized /\ notes' = notes \cup {"initialized"}
         /\ <<Object("issuer"), Object("vetting")>> \in chain
  <2>1. CASE KeepVerifyingKey
    <3>1. todo # <<>> /\ Head(todo) \in Uses["issuer"]
      BY <2>1 DEF KeepVerifyingKey, At, Uses
    <3>2. Object("issuer") # NoObject  BY <3>1, DeployedNow DEF Issuing
    <3>. QED  BY <2>1, <3>2 DEF KeepVerifyingKey
  <2>2. CASE MarkInitialized  BY <2>2, MarkedNow DEF MarkInitialized
  <2>. QED  BY <2>1, <2>2
<1>4. SetupTypeOK'  BY <1>1, <1>3 DEF SetupInv, SetupTypeOK, Remembered, contracts
<1>5. ContextInv'
  BY <1>1, <1>3 DEF SetupInv, ContextInv, Coherent, Object
<1>6. AuthorityGrounded'  BY <1>1 DEF SetupInv, AuthorityGrounded, contracts
<1>7. ContextFits'  BY <1>1, <1>3 DEF SetupInv, ContextFits, Fits, Object, contracts
<1>8. \A pair \in vets' : pair[2] \in ready'  BY <1>1 DEF SetupInv, contracts
<1>. QED  BY <1>2, <1>4, <1>5, <1>6, <1>7, <1>8 DEF SetupInv

LEMMA ApproveInv ==
  ASSUME SetupInv, NEW c \in Issuing, Approve(c)
  PROVE  SetupInv'
<1>1. /\ UNCHANGED <<made, ready, vets, chain, endpoints, managed, context, notes, file,
                   border, failures>>
      /\ todo \in Seq(Steps) /\ todo # <<>> /\ todo' = Tail(todo) /\ todo' \in Seq(Steps)
      /\ Head(todo) = <<"approve", c>>
      /\ approved' = approved \cup {<<Object("vetting"), Object(c)>>}
  BY NextStep DEF Approve
<1>2. StepsInv'  BY <1>1, StepOn DEF SetupInv
<1>3. Object("vetting") \in 1 .. made /\ Object(c) \in 1 .. made
  <2>1. Object("vetting") \in 1 .. made  BY ObjectTypes DEF Approve, Approvable, Contexts
  <2>2. Object(c) # NoObject
    <3>1. CASE c = "issuer"
      BY <3>1 DEF Approve, Approvable, SetupInv, ContextInv, Coherent, Object
    <3>2. CASE c = "token_issuer"
      <4>1. Head(todo) \in Uses[c]  BY <1>1, <3>2 DEF Uses
      <4>. QED  BY <1>1, <4>1, DeployedNow
    <3>. QED  BY <3>1, <3>2 DEF Issuing
  <2>. QED  BY <2>1, <2>2, ObjectTypes DEF Contexts, Issuing
<1>4. SetupTypeOK'
  <2>1. approved' \subseteq (1 .. made) \X (1 .. made)
    BY <1>1, <1>3 DEF SetupInv, SetupTypeOK
  <2>. QED  BY <1>1, <2>1 DEF SetupInv, SetupTypeOK, Remembered
<1>5. ContextInv'  BY <1>1 DEF SetupInv, ContextInv, Coherent
<1>6. AuthorityGrounded'  BY <1>1 DEF SetupInv, AuthorityGrounded
<1>7. ContextFits'  BY <1>1 DEF SetupInv, ContextFits, Fits
<1>. QED  BY <1>1, <1>2, <1>4, <1>5, <1>6, <1>7 DEF SetupInv

LEMMA AddEndpointInv ==
  ASSUME SetupInv, AddEndpoint
  PROVE  SetupInv'
<1>1. /\ UNCHANGED <<made, ready, vets, approved, chain, managed, context, notes, file,
                   border, failures>>
      /\ todo \in Seq(Steps) /\ todo # <<>> /\ todo' = Tail(todo) /\ todo' \in Seq(Steps)
      /\ Head(todo) = <<"add_endpoint", "guardian">>
      /\ endpoints' = endpoints \cup {<<Object("guardian"), Object("token_issuer")>>}
  BY NextStep DEF AddEndpoint
<1>2. StepsInv'  BY <1>1, StepOn DEF SetupInv
<1>3. Object("guardian") \in 1 .. made /\ Object("token_issuer") \in 1 .. made
  <2>1. Object("guardian") \in 1 .. made  BY ObjectTypes DEF AddEndpoint, Contexts
  <2>2. Head(todo) \in Uses["token_issuer"]  BY <1>1 DEF Uses
  <2>3. Object("token_issuer") # NoObject  BY <1>1, <2>2, DeployedNow DEF Issuing
  <2>. QED  BY <2>1, <2>3, ObjectTypes DEF Contexts
<1>4. SetupTypeOK'
  <2>1. endpoints' \subseteq (1 .. made) \X (1 .. made)
    BY <1>1, <1>3 DEF SetupInv, SetupTypeOK
  <2>. QED  BY <1>1, <2>1 DEF SetupInv, SetupTypeOK, Remembered
<1>5. ContextInv'  BY <1>1 DEF SetupInv, ContextInv, Coherent
<1>6. AuthorityGrounded'  BY <1>1 DEF SetupInv, AuthorityGrounded
<1>7. ContextFits'  BY <1>1 DEF SetupInv, ContextFits, Fits
<1>. QED  BY <1>1, <1>2, <1>4, <1>5, <1>6, <1>7 DEF SetupInv

\* An object is initialized with the relations its context needs.
LEMMA StartInv ==
  ASSUME SetupInv, NEW c \in Contexts, Start(c),
         Object(c) # NoObject, c # "issuer" => file.context[c] = NoObject,
         UNCHANGED <<made, approved, endpoints, context, notes>>,
         vets' \in {vets, vets \cup {<<Object("vetting"), Object("asset_type")>>}},
         vets' # vets => Object("vetting") # NoObject /\ Object("asset_type") \in ready,
         c = "vetting" => <<Object("vetting"), Object("asset_type")>> \in vets',
         chain' \in {chain, chain \cup {<<Object(c), Object("vetting")>>}},
         chain' # chain => c \in Issuing /\ Authorized(c),
         c \in Issuing => <<Object(c), Object("vetting")>> \in chain',
         managed' \in {managed, managed \cup {<<Object("token_issuer"), Object("guardian")>>}},
         managed' # managed => Object("token_issuer") # NoObject /\ Provisioned,
         c = "token_issuer" => <<Object("token_issuer"), Object("guardian")>> \in managed'
  PROVE  SetupInv'
<1>1. /\ todo \in Seq(Steps) /\ todo # <<>> /\ todo' = Tail(todo) /\ todo' \in Seq(Steps)
      /\ Head(todo) = <<"initialize", c>> /\ ready' = ready \cup {Object(c)}
      /\ Object(c) \notin ready
      /\ file' = file /\ border' = border /\ failures' = failures
  BY NextStep DEF Start
<1>2. /\ ready \subseteq ready' /\ vets \subseteq vets' /\ chain \subseteq chain'
      /\ managed \subseteq managed'
  BY <1>1
<1>3. StepsInv'
  <2>1. Head(todo) = <<"initialize", "issuer">> => c = "issuer"  BY <1>1
  <2>2. Head(todo) = <<"initialize", "issuer">> =>
          <<Object("issuer"), Object("vetting")>> \in chain'
    BY <2>1 DEF Issuing
  <2>. QED  BY <1>1, <1>2, <2>2, StepOn DEF SetupInv
<1>4. SetupTypeOK'
  <2>1. Object(c) \in 1 .. made /\ ready' \subseteq 1 .. made
    BY <1>1, ObjectTypes DEF SetupInv, SetupTypeOK
  <2>2. vets' \subseteq (1 .. made) \X (1 .. made)
    <3>1. vets' # vets => Object("vetting") \in 1 .. made /\ Object("asset_type") \in 1 .. made
      BY ObjectTypes DEF Contexts
    <3>. QED  BY <3>1 DEF SetupInv, SetupTypeOK
  <2>3. chain' \subseteq (1 .. made) \X (1 .. made)
    <3>1. chain' # chain => Object("vetting") \in 1 .. made
      BY ObjectTypes DEF Contexts, Authorized
    <3>. QED  BY <2>1, <3>1 DEF SetupInv, SetupTypeOK
  <2>4. managed' \subseteq (1 .. made) \X (1 .. made)
    <3>1. managed' # managed =>
            Object("token_issuer") \in 1 .. made /\ Object("guardian") \in 1 .. made
      BY ObjectTypes DEF Contexts, Provisioned
    <3>. QED  BY <3>1 DEF SetupInv, SetupTypeOK
  <2>. QED  BY <1>1, <2>1, <2>2, <2>3, <2>4 DEF SetupInv, SetupTypeOK, Remembered
<1>5. ContextInv'  BY <1>1 DEF SetupInv, ContextInv, Coherent
<1>6. \A pair \in vets' : pair[2] \in ready'  BY <1>2 DEF SetupInv
<1>7. AuthorityGrounded'
  <2>1. ASSUME NEW link \in chain'
        PROVE  /\ <<link[2], link[1]>> \in approved /\ link[2] \in ready
               /\ \E type \in ready : <<link[2], type>> \in vets
    <3>1. CASE link \in chain  BY <3>1 DEF SetupInv, AuthorityGrounded
    <3>2. CASE link \notin chain
      <4>1. link = <<Object(c), Object("vetting")>> /\ Authorized(c)  BY <3>2
      <4>2. <<Object("vetting"), Object("asset_type")>> \in vets
        BY <4>1 DEF Authorized, SetupInv, ContextFits, Fits, Object
      <4>3. Object("asset_type") \in ready  BY <4>2 DEF SetupInv
      <4>. QED  BY <4>1, <4>2, <4>3 DEF Authorized
    <3>. QED  BY <3>1, <3>2
  <2>2. ASSUME NEW link \in managed'
        PROVE  link[2] \in ready /\ <<link[2], link[1]>> \in endpoints
    BY DEF SetupInv, AuthorityGrounded, Provisioned
  <2>. QED  BY <1>2, <2>1, <2>2 DEF AuthorityGrounded
<1>8. ContextFits'
  <2>. DEFINE o == Object(c)
  <2>1. \A d \in Contexts : context[d] = o => d = c
    BY DEF SetupInv, ContextInv, Coherent, Object
  <2>2. \A d \in Contexts : file.context[d] = o => d = "issuer" /\ c = "issuer"
    <3>. TAKE d \in Contexts
    <3>. HAVE file.context[d] = o
    <3>1. context[d] = o  BY DEF SetupInv, ContextInv
    <3>2. d = c  BY <2>1, <3>1
    <3>. QED  BY <3>2
  <2>3. Fits(context, notes)'
    <3>1. context["vetting"] \in ready' =>
            <<context["vetting"], context["asset_type"]>> \in vets'
      <4>1. CASE context["vetting"] \in ready
        BY <1>2, <4>1 DEF SetupInv, ContextFits, Fits
      <4>2. CASE context["vetting"] = o
        BY <2>1, <4>2 DEF Contexts, Object
      <4>. QED  BY <1>1, <4>1, <4>2
    <3>2. context["token_issuer"] \in ready' =>
            /\ <<context["token_issuer"], context["vetting"]>> \in chain'
            /\ <<context["token_issuer"], context["guardian"]>> \in managed'
      <4>1. CASE context["token_issuer"] \in ready
        BY <1>2, <4>1 DEF SetupInv, ContextFits, Fits
      <4>2. CASE context["token_issuer"] = o
        <5>1. c = "token_issuer"  BY <2>1, <4>2 DEF Contexts
        <5>. QED  BY <5>1 DEF Object, Issuing
      <4>. QED  BY <1>1, <4>1, <4>2
    <3>3. "initialized" \in notes => <<context["issuer"], context["vetting"]>> \in chain'
      BY <1>2 DEF SetupInv, ContextFits, Fits
    <3>. QED  BY <3>1, <3>2, <3>3 DEF Fits
  <2>4. Fits(file.context, file.notes)'
    <3>1. \A d \in {"vetting", "token_issuer"} :
            file.context[d] \in ready' => file.context[d] \in ready
      BY <1>1, <2>2 DEF Contexts
    <3>. QED  BY <1>1, <1>2, <3>1 DEF SetupInv, ContextFits, Fits
  <2>. QED  BY <2>3, <2>4 DEF ContextFits
<1>. QED  BY <1>3, <1>4, <1>5, <1>6, <1>7, <1>8 DEF SetupInv

LEMMA InitializeInv ==
  ASSUME SetupInv,
         \/ InitializeAssetType \/ InitializeVetting \/ InitializeGuardian
         \/ InitializeWithAuthority \/ InitializeTokenIssuer
  PROVE  SetupInv'
<1>1. CASE InitializeAssetType
  <2>1. Object("asset_type") # NoObject /\ file.context["asset_type"] = NoObject
    BY <1>1, UnsavedNow DEF InitializeAssetType, Start, Contexts
  <2>. QED  BY <1>1, <2>1, StartInv DEF InitializeAssetType, Contexts, Issuing
<1>2. CASE InitializeVetting
  <2>1. Object("vetting") # NoObject /\ file.context["vetting"] = NoObject
    BY <1>2, UnsavedNow DEF InitializeVetting, Start, Contexts
  <2>2. Object("asset_type") \in ready  BY <1>2, TypeFirstNow DEF InitializeVetting, Start
  <2>. QED  BY <1>2, <2>1, <2>2, StartInv DEF InitializeVetting, Contexts, Issuing
<1>3. CASE InitializeGuardian
  <2>1. Object("guardian") # NoObject /\ file.context["guardian"] = NoObject
    BY <1>3, UnsavedNow DEF InitializeGuardian, Start, Contexts
  <2>. QED  BY <1>3, <2>1, StartInv DEF InitializeGuardian, Contexts, Issuing
<1>4. CASE InitializeWithAuthority
  <2>1. Authorized("issuer")
    BY <1>4, AuthorizedNow DEF InitializeWithAuthority, Start, Issuing
  <2>. QED  BY <1>4, <2>1, StartInv DEF InitializeWithAuthority, Contexts, Issuing, Authorized
<1>5. CASE InitializeTokenIssuer
  <2>1. Object("token_issuer") # NoObject /\ file.context["token_issuer"] = NoObject
    BY <1>5, UnsavedNow DEF InitializeTokenIssuer, Start, Contexts
  <2>2. Authorized("token_issuer") /\ Provisioned
    BY <1>5, AuthorizedNow, ProvisionedNow DEF InitializeTokenIssuer, Start, Issuing
  <2>. QED  BY <1>5, <2>1, <2>2, StartInv DEF InitializeTokenIssuer, Contexts, Issuing
<1>. QED  BY <1>1, <1>2, <1>3, <1>4, <1>5

LEMMA DeployInv ==
  ASSUME SetupInv, NEW c \in Contexts, Deploy(c)
  PROVE  SetupInv'
<1>1. /\ todo \in Seq(Steps) /\ todo # <<>> /\ todo' = Tail(todo) /\ todo' \in Seq(Steps)
      /\ file' = file /\ border' = border /\ failures' = failures
      /\ made < MaxObjects /\ made' = made + 1
      /\ UNCHANGED <<ready, vets, approved, chain, endpoints, managed, notes>>
  BY NextStep DEF Deploy
<1>2. /\ made \in Nat /\ Object(c) = NoObject /\ file.context[c] = NoObject
      /\ made + 1 # NoObject /\ made + 1 \notin ready
  <2>1. made \in Nat  BY ObjectTypes
  <2>2. Object(c) = NoObject  BY <1>1, FreshNow DEF Deploy, SetupInv
  <2>3. made + 1 \notin ready  BY <2>1 DEF SetupInv, SetupTypeOK
  <2>. QED  BY <2>1, <2>2, <2>3 DEF SetupInv, ContextInv, Object, NoObject
<1>3. /\ context' \in [Contexts -> 0 .. made + 1] /\ context \in [Contexts -> 0 .. made]
      /\ context'[c] = made + 1
      /\ \A d \in Contexts \ {c} : context'[d] = context[d]
  <2>1. context \in [Contexts -> 0 .. made]  BY DEF SetupInv, SetupTypeOK, Remembered
  <2>2. context' = [context EXCEPT ![c] = made + 1]  BY DEF Deploy
  <2>. QED  BY <1>2, <2>1, <2>2
<1>4. \A d \in Contexts : context[d] # NoObject => context'[d] = context[d]
  BY <1>2, <1>3 DEF Object
<1>5. \A d \in Contexts : context'[d] \in ready => context'[d] = context[d] /\ d # c
  BY <1>2, <1>3
<1>6. StepsInv'  BY DeploySteps DEF SetupInv
<1>7. SetupTypeOK'
  <2>1. made' \in 0 .. MaxObjects  BY <1>1, <1>2, SetupAssumption
  <2>2. 1 .. made \subseteq 1 .. made' /\ 0 .. made \subseteq 0 .. made'  BY <1>1, <1>2
  <2>3. ready' \subseteq 1 .. made'  BY <1>1, <2>2 DEF SetupInv, SetupTypeOK
  <2>4. \A r \in {vets', approved', chain', endpoints', managed'} :
          r \subseteq (1 .. made') \X (1 .. made')
    <3>1. \A r \in {vets, approved, chain, endpoints, managed} :
            r \subseteq (1 .. made') \X (1 .. made')
      BY <2>2 DEF SetupInv, SetupTypeOK
    <3>. QED  BY <1>1, <3>1
  <2>5. [context |-> context', notes |-> notes'] \in Remembered'
    BY <1>1, <1>3 DEF SetupInv, SetupTypeOK, Remembered
  <2>6. file' \in Remembered'
    BY <1>1, <2>2 DEF SetupInv, SetupTypeOK, Remembered
  <2>. QED  BY <1>1, <2>1, <2>3, <2>4, <2>5, <2>6 DEF SetupInv, SetupTypeOK
<1>8. ContextInv'
  <2>1. \A d, e \in Contexts : context'[d] = context'[e] /\ context'[d] # NoObject => d = e
    BY <1>2, <1>3 DEF SetupInv, ContextInv, Coherent
  <2>2. context'["vetting"] # NoObject => context'["asset_type"] # NoObject
    <3>1. CASE c = "vetting"
      <4>1. Object("asset_type") \in ready  BY <3>1, TypeFirstNow DEF Deploy
      <4>2. Object("asset_type") # NoObject  BY <4>1, ObjectTypes DEF Contexts
      <4>. QED  BY <1>4, <4>2 DEF Object, Contexts
    <3>2. CASE c # "vetting"
      BY <1>3, <1>4, <3>2 DEF SetupInv, ContextInv, Coherent, Contexts
    <3>. QED  BY <3>1, <3>2
  <2>3. "verifying_key" \in notes => context'["issuer"] # NoObject
    BY <1>4 DEF SetupInv, ContextInv, Coherent, Contexts
  <2>4. \A d \in Contexts : file.context[d] \in {NoObject, context'[d]}
    BY <1>2, <1>3 DEF SetupInv, ContextInv
  <2>. QED  BY <1>1, <2>1, <2>2, <2>3, <2>4 DEF SetupInv, ContextInv, Coherent
<1>9. AuthorityGrounded' /\ \A pair \in vets' : pair[2] \in ready'
  BY <1>1 DEF SetupInv, AuthorityGrounded
<1>10. ContextFits'
  <2>1. \A r \in {vets, approved, chain, endpoints, managed} : \A pair \in r :
          pair[1] # NoObject /\ pair[2] # NoObject
    BY ObjectTypes
  <2>2. \A d, e \in Contexts : \A r \in {vets, chain, managed} :
          <<context[d], context[e]>> \in r => <<context'[d], context'[e]>> \in r
    <3>. TAKE d, e \in Contexts
    <3>. TAKE r \in {vets, chain, managed}
    <3>. HAVE <<context[d], context[e]>> \in r
    <3>1. context[d] # NoObject /\ context[e] # NoObject  BY <2>1
    <3>. QED  BY <1>4, <3>1
  <2>3. context'["vetting"] \in ready => <<context'["vetting"], context'["asset_type"]>> \in vets
    BY <1>5, <2>2 DEF SetupInv, ContextFits, Fits, Contexts
  <2>4. "initialized" \in notes => <<context'["issuer"], context'["vetting"]>> \in chain
    BY <2>2 DEF SetupInv, ContextFits, Fits, Contexts
  <2>5. context'["token_issuer"] \in ready =>
          /\ <<context'["token_issuer"], context'["vetting"]>> \in chain
          /\ <<context'["token_issuer"], context'["guardian"]>> \in managed
    BY <1>5, <2>2 DEF SetupInv, ContextFits, Fits, Contexts
  <2>6. Fits(context, notes)'  BY <1>1, <2>3, <2>4, <2>5 DEF Fits
  <2>7. Fits(file.context, file.notes)'  BY <1>1 DEF SetupInv, ContextFits, Fits
  <2>. QED  BY <2>6, <2>7 DEF ContextFits
<1>. QED  BY <1>6, <1>7, <1>8, <1>9, <1>10 DEF SetupInv

\* What is in memory goes to the file, or is read from it again.
LEMMA SaveInv ==
  ASSUME SetupInv, NEW c \in Contexts, SaveContextFile(c)
  PROVE  SetupInv'
<1>1. /\ todo' = Tail(todo) /\ todo' \in Seq(Steps)
      /\ file' = [context |-> context, notes |-> notes]
      /\ UNCHANGED <<contracts, border, context, notes, failures>>
  BY DEF SaveContextFile, At, SetupInv, SetupTypeOK
<1>2. file'.context = context /\ file'.notes = notes  BY <1>1
<1>3. StepsInv'  BY SaveSteps DEF SetupInv
<1>4. SetupTypeOK'  BY <1>1 DEF SetupInv, SetupTypeOK, Remembered, contracts
<1>5. ContextInv'  BY <1>1, <1>2 DEF SetupInv, ContextInv, Coherent
<1>6. AuthorityGrounded' /\ \A pair \in vets' : pair[2] \in ready'
  BY <1>1 DEF SetupInv, AuthorityGrounded, contracts
<1>7. ContextFits'  BY <1>1, <1>2 DEF SetupInv, ContextFits, Fits, contracts
<1>. QED  BY <1>3, <1>4, <1>5, <1>6, <1>7 DEF SetupInv

LEMMA RestartInv ==
  ASSUME SetupInv, Restart
  PROVE  SetupInv'
<1>1. /\ todo' = <<>> /\ context' = file.context /\ notes' = file.notes /\ file' = file
      /\ UNCHANGED <<contracts, border>> /\ failures' \in 0 .. MaxFailures
  <2>1. failures' \in 0 .. MaxFailures
    BY SetupAssumption DEF Restart, SetupInv, SetupTypeOK
  <2>. QED  BY <2>1 DEF Restart
<1>2. StepsInv'  BY <1>1, PlainSteps
<1>3. SetupTypeOK'
  <2>1. file = [context |-> file.context, notes |-> file.notes]
    BY DEF SetupInv, SetupTypeOK, Remembered
  <2>2. [context |-> context', notes |-> notes'] \in Remembered
    BY <1>1, <2>1 DEF SetupInv, SetupTypeOK
  <2>3. todo' \in Seq(Steps)  BY <1>1
  <2>. QED  BY <1>1, <2>2, <2>3 DEF SetupInv, SetupTypeOK, Remembered, contracts
<1>4. ContextInv'  BY <1>1 DEF SetupInv, ContextInv, Coherent
<1>5. AuthorityGrounded' /\ \A pair \in vets' : pair[2] \in ready'
  BY <1>1 DEF SetupInv, AuthorityGrounded, contracts
<1>6. ContextFits'  BY <1>1 DEF SetupInv, ContextFits, Fits, contracts
<1>. QED  BY <1>2, <1>3, <1>4, <1>5, <1>6 DEF SetupInv

LEMMA SetupStep == SetupInv /\ [SetupNext]_setupVars => SetupInv'
<1>. SUFFICES ASSUME SetupInv, [SetupNext]_setupVars  PROVE SetupInv'
  OBVIOUS
<1>1. CASE Command  BY <1>1, CommandInv
<1>2. CASE Step
  <2>1. CASE \E c \in Contexts : Create(c) \/ Deploy(c) \/ SaveContextFile(c)
    BY <2>1, CreateInv, DeployInv, SaveInv
  <2>2. CASE \E c \in Issuing : Approve(c) \/ GetAuthority(c)
    BY <2>2, ApproveInv, ReadInv
  <2>3. CASE GetTypeIdentifier \/ PushImage \/ ProvisionTokenIssuer  BY <2>3, ReadInv
  <2>4. CASE \/ InitializeAssetType \/ InitializeVetting \/ InitializeGuardian
             \/ InitializeWithAuthority \/ InitializeTokenIssuer
    BY <2>4, InitializeInv
  <2>5. CASE KeepVerifyingKey \/ MarkInitialized  BY <2>5, NoteInv
  <2>6. CASE AddEndpoint  BY <2>6, AddEndpointInv
  <2>. QED  BY <1>2, <2>1, <2>2, <2>3, <2>4, <2>5, <2>6 DEF Step
<1>3. CASE Refused
  <2>1. Raise /\ failures' \in 0 .. MaxFailures
    BY <1>3 DEF Refused, SetupInv, SetupTypeOK
  <2>. QED  BY <2>1, StopInv
<1>4. CASE Fail
  <2>1. Raise /\ failures' \in 0 .. MaxFailures
    BY <1>4, SetupAssumption DEF Fail, SetupInv, SetupTypeOK
  <2>. QED  BY <2>1, StopInv
<1>5. CASE Restart  BY <1>5, RestartInv
<1>6. CASE UNCHANGED setupVars
  <2>1. UNCHANGED <<contracts, border, context, notes, file, todo, failures>>
    BY <1>6 DEF setupVars
  <2>2. StepsInv'
    BY <2>1 DEF SetupInv, StepsInv, FreshInv, TypeFirstInv, UnsavedInv, DeployedInv,
             AuthorizedInv, ProvisionedInv, MarkedInv, Backed, Object, Authorized,
             Provisioned, contracts
  <2>. QED  BY <2>1, <2>2, QuietInv DEF SetupInv, SetupTypeOK
<1>. QED  BY <1>1, <1>2, <1>3, <1>4, <1>5, <1>6 DEF SetupNext

\* However commands of the user follow on one another, stop at any step, are
\* repeated, or lose what the context file does not have: a command that comes to a
\* step has made sure of what the step needs, and the context and its file name
\* objects that belong together.
THEOREM SetupInvariant == SetupSpec => []SetupInv
BY SetupStarts, SetupStep, PTL DEF SetupSpec

\* "All issuers must be vetted": every authority an issuer or a token issuer was
\* initialized with comes from an approving, initialized vetting organization of an
\* initialized asset type, every management key from a guardian that knows its holder.
THEOREM AuthoritiesAreGrounded == SetupSpec => []AuthorityGrounded
<1>1. SetupInv => AuthorityGrounded  BY DEF SetupInv
<1>. QED  BY <1>1, SetupInvariant, PTL

\* The contract objects that a context names, in memory or in the file, belong
\* together, although the notebooks write the file only now and then.
THEOREM ContextsFit == SetupSpec => []ContextFits
<1>1. SetupInv => ContextFits  BY DEF SetupInv
<1>. QED  BY <1>1, SetupInvariant, PTL

-----------------------------------------------------------------------------
(* Where nothing fails, no command stops between the deployment of an object *)
(* and its initialization.                                                   *)

\* A step is made only where it is possible, so no step is both made and refused.
LEMMA MadeIfPossible == Step => Possible
<1>. SUFFICES ASSUME Step  PROVE Possible
  OBVIOUS
<1>1. CASE \E c \in Contexts : Create(c) \/ Deploy(c) \/ SaveContextFile(c)
  BY <1>1 DEF Create, Deploy, SaveContextFile, Possible
<1>2. CASE \E c \in Issuing : Approve(c) \/ GetAuthority(c)
  BY <1>2 DEF Approve, GetAuthority, Possible
<1>3. CASE GetTypeIdentifier \/ PushImage \/ ProvisionTokenIssuer \/ KeepVerifyingKey
           \/ MarkInitialized \/ AddEndpoint
  BY <1>3 DEF GetTypeIdentifier, PushImage, ProvisionTokenIssuer, KeepVerifyingKey,
         MarkInitialized, AddEndpoint, Possible
<1>4. CASE \/ InitializeAssetType \/ InitializeVetting \/ InitializeGuardian
           \/ InitializeWithAuthority \/ InitializeTokenIssuer
  BY <1>4 DEF InitializeAssetType, InitializeVetting, InitializeGuardian,
         InitializeWithAuthority, InitializeTokenIssuer, Start, Contexts, Possible
<1>. QED  BY <1>1, <1>2, <1>3, <1>4 DEF Step

\* What a step is and does, as far as it matters to the steps after it.
StepEffect ==
  \/ /\ \E c \in Contexts :
          /\ Head(todo) = <<"create", c>>
          /\ Object(c) = NoObject => todo' = Body[c] \o Tail(todo)
          /\ Object(c) # NoObject => todo' = Tail(todo)
     /\ UNCHANGED <<made, context, ready, approved, endpoints>>
  \/ /\ todo' = Tail(todo)
     /\ \E c \in Contexts :
          /\ Head(todo) = <<"deploy", c>>
          /\ Object(c) = NoObject
          /\ made' = made + 1
          /\ context' = [context EXCEPT ![c] = made + 1]
     /\ UNCHANGED <<ready, approved, endpoints>>
  \/ /\ todo' = Tail(todo)
     /\ \E c \in Contexts :
          /\ Head(todo) = <<"initialize", c>>
          /\ Object(c) \notin ready \cup {NoObject}
          /\ ready' = ready \cup {Object(c)}
     /\ UNCHANGED <<made, context, approved, endpoints>>
  \/ /\ todo' = Tail(todo)
     /\ \E c \in Issuing :
          /\ Head(todo) = <<"approve", c>>
          /\ Object("vetting") \in ready /\ Object(c) # NoObject
          /\ approved' = approved \cup {<<Object("vetting"), Object(c)>>}
     /\ UNCHANGED <<made, context, ready, endpoints>>
  \/ /\ todo' = Tail(todo)
     /\ Head(todo) = <<"add_endpoint", "guardian">>
     /\ Object("guardian") \in ready
     /\ endpoints' = endpoints \cup {<<Object("guardian"), Object("token_issuer")>>}
     /\ UNCHANGED <<made, context, ready, approved>>
  \/ /\ todo' = Tail(todo)
     /\ \A c \in Contexts : Head(todo) \notin {"create", "deploy", "initialize", "approve"} \X {c}
     /\ Head(todo) # <<"add_endpoint", "guardian">>
     /\ UNCHANGED <<made, context, ready, approved, endpoints>>

LEMMA StepEffects ==
  ASSUME SetupInv, Step
  PROVE  /\ todo \in Seq(Steps) /\ todo # <<>> /\ Tail(todo) \in Seq(Steps) /\ Head(todo) \in Steps
         /\ failures' = failures /\ border' = border
         /\ StepEffect
<1>1. /\ todo \in Seq(Steps) /\ todo # <<>>
      /\ failures' = failures /\ border' = border
  BY DEF SetupInv, SetupTypeOK, Step, Create, Deploy, SaveContextFile, Approve, GetAuthority,
         InitializeAssetType, GetTypeIdentifier, InitializeVetting, PushImage, KeepVerifyingKey,
         InitializeWithAuthority, MarkInitialized, InitializeGuardian, AddEndpoint,
         ProvisionTokenIssuer, InitializeTokenIssuer, Start, At, Proceed
<1>2. Tail(todo) \in Seq(Steps) /\ Head(todo) \in Steps  BY <1>1
<1>3. StepEffect
  <2>1. CASE \E c \in Contexts : Create(c)
    <3>1. <<>> \o Tail(todo) = Tail(todo)  BY <1>2, ConcatEmptySeq
    <3>. QED  BY <2>1, <3>1 DEF Create, At, contracts, StepEffect
  <2>2. CASE \E c \in Contexts : Deploy(c)
    <3>1. PICK c \in Contexts : Deploy(c)  BY <2>2
    <3>2. Object(c) = NoObject  BY <1>1, <3>1, FreshNow DEF Deploy, SetupInv
    <3>. QED  BY <3>1, <3>2 DEF Deploy, At, Proceed, StepEffect
  <2>3. CASE \/ InitializeAssetType \/ InitializeVetting \/ InitializeGuardian
             \/ InitializeWithAuthority \/ InitializeTokenIssuer
    <3>1. PICK c \in Contexts : Start(c) /\ UNCHANGED <<made, context, approved, endpoints>>
      BY <2>3 DEF InitializeAssetType, InitializeVetting, InitializeGuardian,
             InitializeWithAuthority, InitializeTokenIssuer, Contexts
    <3>2. At("initialize", c)  BY <3>1 DEF Start
    <3>3. Object(c) # NoObject
      <4>1. CASE c = "issuer"  BY <3>2, <4>1, AuthorizedNow DEF Issuing, Authorized
      <4>2. CASE c # "issuer"  BY <3>2, <4>2, UnsavedNow
      <4>. QED  BY <4>1, <4>2
    <3>. QED  BY <3>1, <3>3 DEF Start, At, Proceed, StepEffect
  <2>4. CASE \E c \in Issuing : Approve(c)
    <3>1. PICK c \in Issuing : Approve(c)  BY <2>4
    <3>2. Object(c) # NoObject
      <4>1. CASE c = "issuer"
        BY <3>1, <4>1 DEF Approve, Approvable, SetupInv, ContextInv, Coherent, Object
      <4>2. CASE c = "token_issuer"
        <5>1. Head(todo) \in Uses[c]  BY <3>1, <4>2 DEF Approve, At, Uses
        <5>. QED  BY <1>1, <5>1, DeployedNow
      <4>. QED  BY <4>1, <4>2 DEF Issuing
    <3>. QED  BY <3>1, <3>2 DEF Approve, Approvable, At, Proceed, StepEffect
  <2>5. CASE AddEndpoint  BY <2>5 DEF AddEndpoint, At, Proceed, StepEffect
  <2>6. CASE \/ \E c \in Contexts : SaveContextFile(c)
             \/ \E c \in Issuing : GetAuthority(c)
             \/ GetTypeIdentifier \/ PushImage \/ ProvisionTokenIssuer
             \/ KeepVerifyingKey \/ MarkInitialized
    <3>1. /\ todo' = Tail(todo)
          /\ UNCHANGED <<made, context, ready, approved, endpoints>>
      BY <2>6 DEF SaveContextFile, GetAuthority, GetTypeIdentifier, PushImage,
             ProvisionTokenIssuer, KeepVerifyingKey, MarkInitialized, Proceed, contracts
    <3>2. \E op \in {"save", "authority", "type_identifier", "push", "provision",
                     "verifying_key", "mark"} : \E c \in Contexts : Head(todo) = <<op, c>>
      BY <2>6 DEF SaveContextFile, GetAuthority, GetTypeIdentifier, PushImage,
             ProvisionTokenIssuer, KeepVerifyingKey, MarkInitialized, At, Contexts, Issuing
    <3>3. /\ \A c \in Contexts :
               Head(todo) \notin {"create", "deploy", "initialize", "approve"} \X {c}
          /\ Head(todo) # <<"add_endpoint", "guardian">>
      BY <3>2
    <3>. QED  BY <3>1, <3>3 DEF StepEffect
  <2>. QED  BY <2>1, <2>2, <2>3, <2>4, <2>5, <2>6 DEF Step
<1>. QED  BY <1>1, <1>2, <1>3

\* A create command whose body ends with a step that prepares s.
LEMMA BackedCreate ==
  ASSUME NEW steps \in Seq(Steps), steps # <<>>, NEW body \in Seq(Steps), body # <<>>,
         NEW first, NEW s, NEW undo, NEW P, NEW Q, Backed(first, s, undo, P, steps),
         body[Len(body)] \in first, \A n \in 1 .. Len(body) : body[n] # s
  PROVE  Backed(first, s, undo, Q, body \o Tail(steps))
<1> DEFINE left == Tail(steps)
           all == body \o left
           l == Len(body)
<1>1. /\ Len(steps) \in Nat \ {0} /\ left \in Seq(Steps)
      /\ Len(left) = Len(steps) - 1
      /\ \A n \in 1 .. Len(steps) - 1 : left[n] = steps[n + 1]
      /\ DOMAIN steps = 1 .. Len(steps)
  OBVIOUS
<1>2. /\ l \in Nat \ {0} /\ DOMAIN all = 1 .. l + Len(left)
      /\ \A n \in 1 .. l : all[n] = body[n]
      /\ \A n \in 1 .. Len(left) : all[l + n] = left[n]
  BY <1>1
<1>. HIDE DEF left, all, l
<1>3. SUFFICES ASSUME NEW n \in 1 .. l + Len(left), all[n] = s
               PROVE \E m \in 1 .. n - 1 : /\ all[m] \in first
                                           /\ \A k \in m + 1 .. n - 1 : all[k] \notin undo
  BY <1>2 DEF Backed, all, left
<1>4. PICK j \in 1 .. Len(left) : n = l + j
  <2>1. n \notin 1 .. l  BY <1>2, <1>3 DEF l
  <2>2. n - l \in 1 .. Len(left) /\ n = l + (n - l)  BY <1>1, <1>2, <2>1
  <2>. QED  BY <2>2
<1>5. j + 1 \in DOMAIN steps /\ (j + 1) - 1 = j /\ steps[j + 1] = s
  BY <1>1, <1>2, <1>3, <1>4
<1>6. \A k \in l + 1 .. n - 1 :
        /\ k - l + 1 \in 2 .. j /\ all[k] = steps[k - l + 1]
  <2>. TAKE k \in l + 1 .. n - 1
  <2>1. k - l \in 1 .. Len(left) /\ l + (k - l) = k /\ k - l + 1 \in 2 .. j
    BY <1>1, <1>2, <1>4
  <2>2. all[k] = left[k - l]  BY <1>2, <2>1
  <2>3. left[k - l] = steps[k - l + 1]  BY <1>1, <2>1
  <2>. QED  BY <2>1, <2>2, <2>3
<1>7. CASE \E m \in 2 .. j : steps[m] \in first /\ \A k \in m + 1 .. j : steps[k] \notin undo
  <2>1. PICK m \in 2 .. j : steps[m] \in first /\ \A k \in m + 1 .. j : steps[k] \notin undo
    BY <1>7
  <2>2. /\ l + m - 1 \in l + 1 .. n - 1 /\ l + m - 1 \in 1 .. n - 1
        /\ (l + m - 1) - l + 1 = m
    BY <1>1, <1>2, <1>4
  <2>3. all[l + m - 1] \in first  BY <1>6, <2>1, <2>2
  <2>4. \A k \in (l + m - 1) + 1 .. n - 1 : all[k] \notin undo
    <3>. TAKE k \in (l + m - 1) + 1 .. n - 1
    <3>1. k \in l + 1 .. n - 1 /\ k - l + 1 \in m + 1 .. j  BY <1>1, <1>2, <1>4
    <3>. QED  BY <1>6, <2>1, <3>1
  <2>. QED  BY <2>2, <2>3, <2>4
<1>8. CASE \A k \in 2 .. j : steps[k] \notin undo
  <2>1. l \in 1 .. n - 1 /\ all[l] \in first  BY <1>1, <1>2, <1>4 DEF l
  <2>2. \A k \in l + 1 .. n - 1 : all[k] \notin undo  BY <1>6, <1>8
  <2>. QED  BY <2>1, <2>2
<1>9. \/ \E m \in 1 .. j : steps[m] \in first /\ \A k \in m + 1 .. j : steps[k] \notin undo
      \/ P /\ \A k \in 1 .. j : steps[k] \notin undo
  BY <1>5 DEF Backed
<1>10. CASE \E m \in 1 .. j : steps[m] \in first /\ \A k \in m + 1 .. j : steps[k] \notin undo
  <2>1. PICK m \in 1 .. j : steps[m] \in first /\ \A k \in m + 1 .. j : steps[k] \notin undo
    BY <1>10
  <2>2. CASE m = 1  BY <1>8, <2>1, <2>2
  <2>3. CASE m # 1
    <3>1. m \in 2 .. j  BY <2>3
    <3>. QED  BY <1>7, <2>1, <3>1
  <2>. QED  BY <2>2, <2>3
<1>11. CASE P /\ \A k \in 1 .. j : steps[k] \notin undo
  <2>1. \A k \in 2 .. j : k \in 1 .. j  OBVIOUS
  <2>. QED  BY <1>8, <1>11, <2>1
<1>. QED  BY <1>9, <1>10, <1>11

\* Whatever step is made: P and Q are what held before and holds after it.
LEMMA BackedStep ==
  ASSUME SetupInv, Step, NEW first, NEW s, NEW undo, NEW P, NEW Q,
         Backed(first, s, undo, P, todo),
         Head(todo) \in first => Q, P /\ Head(todo) \notin undo => Q,
         \A c \in Contexts : Head(todo) = <<"create", c>> /\ Object(c) = NoObject =>
           /\ <<"create", c>> \notin first
           /\ P => Q
           /\ Backed(first, s, undo, Q, Body[c])
           /\ <<"create", c>> \notin undo => \A n \in 1 .. Len(Body[c]) : Body[c][n] \notin undo
  PROVE  Backed(first, s, undo, Q, todo')
<1>1. todo \in Seq(Steps) /\ todo # <<>> /\ StepEffect  BY StepEffects
<1>2. CASE todo' = Tail(todo)
  <2>1. Backed(first, s, undo, Q, Tail(todo))  BY <1>1, BackedTail
  <2>. QED  BY <1>2, <2>1
<1>3. CASE todo' # Tail(todo)
  <2>1. PICK c \in Contexts : /\ Head(todo) = <<"create", c>> /\ Object(c) = NoObject
                              /\ todo' = Body[c] \o Tail(todo)
    BY <1>1, <1>3 DEF StepEffect
  <2>2. Body[c] \in Seq(Steps)  BY Bodies
  <2>3. Backed(first, s, undo, Q, todo)  BY <2>1 DEF Backed
  <2>4. Backed(first, s, undo, Q, Body[c])  BY <2>1
  <2>5. Backed(first, s, undo, Q, Body[c] \o Tail(todo))
    BY <1>1, <2>1, <2>2, <2>3, <2>4, BackedBody
  <2>. QED  BY <2>1, <2>5
<1>. QED  BY <1>2, <1>3

-----------------------------------------------------------------------------
(* What the bodies of the commands have to do with it. *)

LEMMA GuardianParts ==
  /\ Body["guardian"] \in {CreateGuardian, CreateImageGuardian}
  /\ DOMAIN CreateGuardian = 1 .. 2 /\ DOMAIN CreateImageGuardian = 1 .. 3
  /\ CreateGuardian[1] = <<"deploy", "guardian">>
  /\ CreateGuardian[2] = <<"initialize", "guardian">>
  /\ CreateImageGuardian[1] = <<"deploy", "guardian">>
  /\ CreateImageGuardian[2] = <<"push", "guardian">>
  /\ CreateImageGuardian[3] = <<"initialize", "guardian">>
<1>1. Body["guardian"] \in {CreateGuardian, CreateImageGuardian}  BY Bodies DEF Contexts
<1>. QED  BY <1>1 DEF CreateGuardian, CreateImageGuardian

LEMMA AssetTypeParts ==
  /\ Body["asset_type"] = CreateAssetType
  /\ DOMAIN CreateAssetType = 1 .. 2
  /\ CreateAssetType[1] = <<"deploy", "asset_type">>
  /\ CreateAssetType[2] = <<"initialize", "asset_type">>
<1>1. Body["asset_type"] = CreateAssetType  BY Bodies DEF Contexts
<1>. QED  BY <1>1 DEF CreateAssetType

LEMMA IssuerParts ==
  /\ Body["issuer"] = CreateIssuer
  /\ DOMAIN CreateIssuer = 1 .. 2
  /\ CreateIssuer[1] = <<"deploy", "issuer">>
  /\ CreateIssuer[2] = <<"verifying_key", "issuer">>
<1>1. Body["issuer"] = CreateIssuer  BY Bodies DEF Contexts
<1>. QED  BY <1>1 DEF CreateIssuer

\* Every body but the issuer's ends with the initialization of its contract.
LEMMA BodyEnds ==
  ASSUME NEW c \in Contexts \ {"issuer"}
  PROVE  /\ Body[c] \in Seq(Steps) /\ Body[c] # <<>>
         /\ DOMAIN Body[c] = 1 .. Len(Body[c])
         /\ Body[c][Len(Body[c])] = <<"initialize", c>>
<1>1. Body[c] \in Seq(Steps)  BY Bodies
<1>2. Len(Body[c]) \in Nat /\ DOMAIN Body[c] = 1 .. Len(Body[c])  BY <1>1
<1>3. Len(Body[c]) # 0 /\ Body[c][Len(Body[c])] = <<"initialize", c>>
  <2>1. CASE c = "asset_type"
    <3>1. Len(CreateAssetType) = 2  BY DEF CreateAssetType
    <3>2. CreateAssetType[2] = <<"initialize", c>>  BY <2>1, AssetTypeParts
    <3>3. Body[c] = CreateAssetType  BY <2>1, AssetTypeParts
    <3>4. Len(Body[c]) = 2 /\ 2 # 0  BY <3>1, <3>3
    <3>5. Body[c][2] = <<"initialize", c>>  BY <3>2, <3>3
    <3>. QED  BY <3>4, <3>5, Zenon
  <2>2. CASE c = "vetting"
    <3>1. Len(CreateVetting) = 4  BY DEF CreateVetting
    <3>2. CreateVetting[4] = <<"initialize", c>>  BY <2>2, VettingParts
    <3>3. Body[c] = CreateVetting  BY <2>2, Bodies
    <3>4. Len(Body[c]) = 4 /\ 4 # 0  BY <3>1, <3>3
    <3>5. Body[c][4] = <<"initialize", c>>  BY <3>2, <3>3
    <3>. QED  BY <3>4, <3>5, Zenon
  <2>3. CASE c = "guardian"
    <3>1. Len(CreateGuardian) = 2 /\ Len(CreateImageGuardian) = 3
      BY DEF CreateGuardian, CreateImageGuardian
    <3>. QED  BY <2>3, <3>1, GuardianParts
  <2>4. CASE c = "token_issuer"
    <3>1. Len(CreateTokenIssuer) = 9  BY TokenIssuerSteps
    <3>2. CreateTokenIssuer[9] = <<"initialize", c>>  BY <2>4, TokenIssuerParts
    <3>3. Body[c] = CreateTokenIssuer  BY <2>4, Bodies
    <3>4. Len(Body[c]) = 9 /\ 9 # 0  BY <3>1, <3>3
    <3>5. Body[c][9] = <<"initialize", c>>  BY <3>2, <3>3
    <3>. QED  BY <3>4, <3>5, Zenon
  <2>. QED  BY <2>1, <2>2, <2>3, <2>4 DEF Contexts
<1>4. Body[c] # <<>>  BY <1>3
<1>. QED  BY <1>1, <1>2, <1>3, <1>4

\* The steps in the bodies.
LEMMA BodyMembers ==
  ASSUME NEW c \in Contexts, NEW n \in DOMAIN Body[c]
  PROVE  /\ c = "asset_type" =>
              Body[c][n] \in {<<"deploy", "asset_type">>, <<"initialize", "asset_type">>}
         /\ c = "vetting" =>
              Body[c][n] \in {<<"create", "asset_type">>, <<"type_identifier", "asset_type">>,
                              <<"deploy", "vetting">>, <<"initialize", "vetting">>}
         /\ c = "issuer" =>
              Body[c][n] \in {<<"deploy", "issuer">>, <<"verifying_key", "issuer">>}
         /\ c = "guardian" =>
              Body[c][n] \in {<<"deploy", "guardian">>, <<"push", "guardian">>,
                              <<"initialize", "guardian">>}
         /\ c = "token_issuer" =>
              Body[c][n] \in {<<"deploy", "token_issuer">>, <<"create", "guardian">>,
                              <<"add_endpoint", "guardian">>, <<"provision", "guardian">>,
                              <<"create", "vetting">>, <<"approve", "token_issuer">>,
                              <<"authority", "token_issuer">>, <<"initialize", "token_issuer">>}
<1>1. CASE c = "asset_type"
  <2>1. Body[c][n] \in {<<"deploy", "asset_type">>, <<"initialize", "asset_type">>}
    BY <1>1, AssetTypeParts
  <2>. QED  BY <1>1, <2>1
<1>2. CASE c = "vetting"
  <2>1. n \in 1 .. 4 /\ Body[c] = CreateVetting  BY <1>2, Bodies, VettingParts
  <2>2. CreateVetting[n] \in {<<"create", "asset_type">>, <<"type_identifier", "asset_type">>,
                              <<"deploy", "vetting">>, <<"initialize", "vetting">>}
    BY <2>1, VettingParts
  <2>. QED  BY <1>2, <2>1, <2>2
<1>3. CASE c = "issuer"
  <2>1. Body[c][n] \in {<<"deploy", "issuer">>, <<"verifying_key", "issuer">>}
    BY <1>3, IssuerParts
  <2>. QED  BY <1>3, <2>1
<1>4. CASE c = "guardian"
  <2>1. Body[c][n] \in {<<"deploy", "guardian">>, <<"push", "guardian">>,
                        <<"initialize", "guardian">>}
    <3>1. CASE Body[c] = CreateGuardian
      BY <1>4, <3>1, GuardianParts
    <3>2. CASE Body[c] = CreateImageGuardian
      BY <1>4, <3>2, GuardianParts
    <3>. QED  BY <1>4, <3>1, <3>2, GuardianParts
  <2>. QED  BY <1>4, <2>1
<1>5. CASE c = "token_issuer"
  <2>1. n \in 1 .. 9 /\ Body[c] = CreateTokenIssuer  BY <1>5, Bodies, TokenIssuerParts
  <2>2. CreateTokenIssuer[n] \in
          {<<"deploy", "token_issuer">>, <<"create", "guardian">>, <<"add_endpoint", "guardian">>,
           <<"provision", "guardian">>, <<"create", "vetting">>, <<"approve", "token_issuer">>,
           <<"authority", "token_issuer">>, <<"initialize", "token_issuer">>}
    BY <2>1, TokenIssuerParts
  <2>. QED  BY <1>5, <2>1, <2>2
<1>. QED  BY <1>1, <1>2, <1>3, <1>4, <1>5 DEF Contexts

\* A body deploys and initializes its own contract only.
LEMMA BodyOwns ==
  ASSUME NEW c \in Contexts, NEW d \in Contexts, c # d, NEW n \in DOMAIN Body[c]
  PROVE  Body[c][n] \notin {<<"deploy", d>>, <<"initialize", d>>}
<1>1. CASE c = "asset_type"  BY <1>1, BodyMembers
<1>2. CASE c = "vetting"  BY <1>2, BodyMembers
<1>3. CASE c = "issuer"  BY <1>3, BodyMembers
<1>4. CASE c = "guardian"  BY <1>4, BodyMembers
<1>5. CASE c = "token_issuer"  BY <1>5, BodyMembers
<1>. QED  BY <1>1, <1>2, <1>3, <1>4, <1>5 DEF Contexts

\* Those a token issuer's commands call make none but the steps counted as between.
LEMMA BodyBetween ==
  ASSUME NEW c \in Contexts, NEW d \in Contexts, <<"create", c>> \in Between(d),
         NEW n \in DOMAIN Body[c]
  PROVE  Body[c][n] \in Between(d)
<1>1. d = "token_issuer" /\ c \in {"asset_type", "vetting", "guardian"}  BY DEF Between
<1>2. CASE c = "asset_type"  BY <1>1, <1>2, BodyMembers DEF Between
<1>3. CASE c = "vetting"  BY <1>1, <1>3, BodyMembers DEF Between
<1>4. CASE c = "guardian"  BY <1>1, <1>4, BodyMembers DEF Between
<1>. QED  BY <1>1, <1>2, <1>3, <1>4

\* A body initializes what it deployed, with nothing but the steps counted as between.
LEMMA NewBody ==
  ASSUME NEW c \in Contexts, NEW d \in Contexts \ {"issuer"}, NEW P
  PROVE  Backed({<<"deploy", d>>}, <<"initialize", d>>, Steps \ Between(d), P, Body[c])
<1>. DEFINE undo == Steps \ Between(d)
<1>1. CASE c # d
  <2>1. \A n \in DOMAIN Body[c] : Body[c][n] # <<"initialize", d>>  BY <1>1, BodyOwns
  <2>. QED  BY <2>1, BackedWithout
<1>2. CASE c = d
  <2>1. CASE c = "asset_type"
    <3>1. \A k \in DOMAIN CreateAssetType : CreateAssetType[k] = <<"initialize", d>> => k = 2
      BY <1>2, <2>1, AssetTypeParts
    <3>2. CreateAssetType[1] \in {<<"deploy", d>>}  BY <1>2, <2>1, AssetTypeParts
    <3>3. \A k \in 1 + 1 .. 2 - 1 : CreateAssetType[k] \notin undo  OBVIOUS
    <3>. HIDE DEF undo
    <3>4. Backed({<<"deploy", d>>}, <<"initialize", d>>, undo, P, CreateAssetType)
      BY <3>1, <3>2, <3>3, BackedAt
    <3>5. Body[c] = CreateAssetType  BY <2>1, Bodies
    <3>. QED  BY <3>4, <3>5 DEF undo
  <2>2. CASE c = "vetting"
    <3>1. \A k \in DOMAIN CreateVetting : CreateVetting[k] = <<"initialize", d>> => k = 4
      BY <1>2, <2>2, VettingParts
    <3>2. CreateVetting[3] \in {<<"deploy", d>>}  BY <1>2, <2>2, VettingParts
    <3>3. \A k \in 3 + 1 .. 4 - 1 : CreateVetting[k] \notin undo  OBVIOUS
    <3>. HIDE DEF undo
    <3>4. Backed({<<"deploy", d>>}, <<"initialize", d>>, undo, P, CreateVetting)
      BY <3>1, <3>2, <3>3, BackedAt
    <3>5. Body[c] = CreateVetting  BY <2>2, Bodies
    <3>. QED  BY <3>4, <3>5 DEF undo
  <2>3. CASE c = "guardian"
    <3>1. \A k \in DOMAIN CreateGuardian : CreateGuardian[k] = <<"initialize", d>> => k = 2
      BY <1>2, <2>3, GuardianParts
    <3>2. CreateGuardian[1] \in {<<"deploy", d>>}  BY <1>2, <2>3, GuardianParts
    <3>3. \A k \in 1 + 1 .. 2 - 1 : CreateGuardian[k] \notin undo  OBVIOUS
    <3>4. \A k \in DOMAIN CreateImageGuardian :
            CreateImageGuardian[k] = <<"initialize", d>> => k = 3
      BY <1>2, <2>3, GuardianParts
    <3>5. CreateImageGuardian[1] \in {<<"deploy", d>>}  BY <1>2, <2>3, GuardianParts
    <3>6. \A k \in 1 + 1 .. 3 - 1 : CreateImageGuardian[k] \notin undo
      BY <1>2, <2>3, GuardianParts DEF Between
    <3>. HIDE DEF undo
    <3>7. Backed({<<"deploy", d>>}, <<"initialize", d>>, undo, P, CreateGuardian)
      BY <3>1, <3>2, <3>3, BackedAt
    <3>8. Backed({<<"deploy", d>>}, <<"initialize", d>>, undo, P, CreateImageGuardian)
      BY <3>4, <3>5, <3>6, BackedAt
    <3>9. Body[c] \in {CreateGuardian, CreateImageGuardian}  BY <2>3, Bodies
    <3>. QED  BY <3>7, <3>8, <3>9 DEF undo
  <2>4. CASE c = "token_issuer"
    <3>1. \A k \in DOMAIN CreateTokenIssuer : CreateTokenIssuer[k] = <<"initialize", d>> => k = 9
      BY <1>2, <2>4, TokenIssuerParts
    <3>2. CreateTokenIssuer[1] \in {<<"deploy", d>>}  BY <1>2, <2>4, TokenIssuerParts
    <3>3. \A k \in 1 + 1 .. 9 - 1 : CreateTokenIssuer[k] \notin undo
      <4>1. \A k \in 2 .. 8 : CreateTokenIssuer[k] \in Between("token_issuer")
        BY TokenIssuerParts DEF Between
      <4>. QED  BY <1>2, <2>4, <4>1
    <3>. HIDE DEF undo
    <3>4. Backed({<<"deploy", d>>}, <<"initialize", d>>, undo, P, CreateTokenIssuer)
      BY <3>1, <3>2, <3>3, BackedAt
    <3>5. Body[c] = CreateTokenIssuer  BY <2>4, Bodies
    <3>. QED  BY <3>4, <3>5 DEF undo
  <2>. QED  BY <1>2, <2>1, <2>2, <2>3, <2>4 DEF Contexts
<1>. QED  BY <1>1, <1>2

\* A body sees to the object it relies on in the step before.
LEMMA ReadyBody ==
  ASSUME NEW c \in Contexts, NEW d \in DOMAIN Relies, NEW P
  PROVE  /\ Backed({"create", "initialize"} \X {d}, Relies[d], {<<"deploy", d>>}, P, Body[c])
         /\ \A n \in DOMAIN Body[d] : Body[d][n] # Relies[d]
<1>0. \/ d = "asset_type" /\ Relies[d] = <<"type_identifier", "asset_type">>
      \/ d = "vetting" /\ Relies[d] = <<"approve", "token_issuer">>
      \/ d = "guardian" /\ Relies[d] = <<"add_endpoint", "guardian">>
  BY DEF Relies
<1>1. \A n \in DOMAIN Body[d] : Body[d][n] # Relies[d]
  <2>1. CASE d = "asset_type"  BY <1>0, <2>1, BodyMembers DEF Contexts
  <2>2. CASE d = "vetting"  BY <1>0, <2>2, BodyMembers DEF Contexts
  <2>3. CASE d = "guardian"  BY <1>0, <2>3, BodyMembers DEF Contexts
  <2>. QED  BY <1>0, <2>1, <2>2, <2>3
<1>2. CASE c = "vetting" /\ d = "asset_type"
  <2>1. \A k \in DOMAIN CreateVetting : CreateVetting[k] = Relies[d] => k = 2
    BY <1>0, <1>2, VettingParts
  <2>2. CreateVetting[1] \in {"create", "initialize"} \X {d}  BY <1>2, VettingParts
  <2>3. Backed({"create", "initialize"} \X {d}, Relies[d], {<<"deploy", d>>}, P, CreateVetting)
    BY <2>1, <2>2, BackedAt
  <2>4. Body[c] = CreateVetting  BY <1>2, Bodies
  <2>. QED  BY <1>1, <2>3, <2>4
<1>3. CASE c = "token_issuer" /\ d = "vetting"
  <2>1. \A k \in DOMAIN CreateTokenIssuer : CreateTokenIssuer[k] = Relies[d] => k = 7
    BY <1>0, <1>3, TokenIssuerParts
  <2>2. CreateTokenIssuer[6] \in {"create", "initialize"} \X {d}  BY <1>3, TokenIssuerParts
  <2>3. Backed({"create", "initialize"} \X {d}, Relies[d], {<<"deploy", d>>}, P, CreateTokenIssuer)
    BY <2>1, <2>2, BackedAt
  <2>4. Body[c] = CreateTokenIssuer  BY <1>3, Bodies
  <2>. QED  BY <1>1, <2>3, <2>4
<1>4. CASE c = "token_issuer" /\ d = "guardian"
  <2>1. \A k \in DOMAIN CreateTokenIssuer : CreateTokenIssuer[k] = Relies[d] => k = 3
    BY <1>0, <1>4, TokenIssuerParts
  <2>2. CreateTokenIssuer[2] \in {"create", "initialize"} \X {d}  BY <1>4, TokenIssuerParts
  <2>3. Backed({"create", "initialize"} \X {d}, Relies[d], {<<"deploy", d>>}, P, CreateTokenIssuer)
    BY <2>1, <2>2, BackedAt
  <2>4. Body[c] = CreateTokenIssuer  BY <1>4, Bodies
  <2>. QED  BY <1>1, <2>3, <2>4
<1>5. CASE \A n \in DOMAIN Body[c] : Body[c][n] # Relies[d]
  BY <1>1, <1>5, BackedWithout
<1>6. CASE c \in {"asset_type", "issuer", "guardian"}
  <2>1. \A n \in DOMAIN Body[c] : Body[c][n] # Relies[d]
    <3>1. CASE c = "asset_type"  BY <1>0, <3>1, BodyMembers
    <3>2. CASE c = "issuer"  BY <1>0, <3>2, BodyMembers
    <3>3. CASE c = "guardian"  BY <1>0, <3>3, BodyMembers
    <3>. QED  BY <1>6, <3>1, <3>2, <3>3
  <2>. QED  BY <1>5, <2>1
<1>7. CASE c = "vetting" /\ d \in {"vetting", "guardian"}
  <2>1. \A n \in DOMAIN Body[c] : Body[c][n] # Relies[d]  BY <1>0, <1>7, BodyMembers
  <2>. QED  BY <1>5, <2>1
<1>8. CASE c = "token_issuer" /\ d = "asset_type"
  <2>1. \A n \in DOMAIN Body[c] : Body[c][n] # Relies[d]  BY <1>0, <1>8, BodyMembers
  <2>. QED  BY <1>5, <2>1
<1>. QED  BY <1>0, <1>2, <1>3, <1>4, <1>6, <1>7, <1>8 DEF Contexts

\* The token issuer is approved, and known to the guardian, in the step before it asks.
LEMMA AskedBody ==
  ASSUME NEW c \in Contexts, NEW P
  PROVE  /\ Backed({<<"approve", "token_issuer">>}, <<"authority", "token_issuer">>,
                   {"create", "deploy"} \X Contexts, P, Body[c])
         /\ Backed({<<"add_endpoint", "guardian">>}, <<"provision", "guardian">>,
                   {"create", "deploy"} \X Contexts, P, Body[c])
<1>1. CASE c = "token_issuer"
  <2>. DEFINE undo == {"create", "deploy"} \X Contexts
  <2>1. \A k \in DOMAIN CreateTokenIssuer :
          /\ CreateTokenIssuer[k] = <<"authority", "token_issuer">> => k = 8
          /\ CreateTokenIssuer[k] = <<"provision", "guardian">> => k = 4
    BY TokenIssuerParts
  <2>2. /\ CreateTokenIssuer[7] \in {<<"approve", "token_issuer">>}
        /\ CreateTokenIssuer[3] \in {<<"add_endpoint", "guardian">>}
    BY TokenIssuerParts
  <2>3. Body[c] = CreateTokenIssuer  BY <1>1, Bodies
  <2>. HIDE DEF undo
  <2>4. Backed({<<"approve", "token_issuer">>}, <<"authority", "token_issuer">>, undo, P,
               CreateTokenIssuer)
    BY <2>1, <2>2, BackedAt
  <2>5. Backed({<<"add_endpoint", "guardian">>}, <<"provision", "guardian">>, undo, P,
               CreateTokenIssuer)
    BY <2>1, <2>2, BackedAt
  <2>. QED  BY <2>3, <2>4, <2>5 DEF undo
<1>2. CASE c # "token_issuer"
  <2>1. \A n \in DOMAIN Body[c] :
          Body[c][n] \notin {<<"authority", "token_issuer">>, <<"provision", "guardian">>}
    <3>1. CASE c = "asset_type"  BY <3>1, BodyMembers
    <3>2. CASE c = "vetting"  BY <3>2, BodyMembers
    <3>3. CASE c = "issuer"  BY <3>3, BodyMembers
    <3>4. CASE c = "guardian"  BY <3>4, BodyMembers
    <3>. QED  BY <1>2, <3>1, <3>2, <3>3, <3>4 DEF Contexts
  <2>. QED  BY <2>1, BackedWithout
<1>. QED  BY <1>1, <1>2

-----------------------------------------------------------------------------
(* A step that is to follow. *)

LEMMA FollowedBody ==
  ASSUME NEW c \in Contexts, NEW d \in Contexts \ {"issuer"}
  PROVE  Followed(<<"deploy", d>>, <<"initialize", d>>, Body[c])
<1>1. CASE c # d  BY <1>1, BodyOwns DEF Followed
<1>2. CASE c = d
  <2>. DEFINE body == Body[c]
              l == Len(body)
  <2>1. DOMAIN body = 1 .. l /\ l \in Nat /\ body[l] = <<"initialize", d>>
    BY <1>2, BodyEnds
  <2>. HIDE DEF body, l
  <2>2. SUFFICES ASSUME NEW n \in 1 .. l, body[n] = <<"deploy", d>>
                 PROVE  \E m \in n + 1 .. l : body[m] = <<"initialize", d>>
    BY <2>1 DEF Followed, body, l
  <2>3. n # l  BY <2>1, <2>2
  <2>4. l \in n + 1 .. l  BY <2>1, <2>3
  <2>. QED  BY <2>1, <2>4
<1>. QED  BY <1>1, <1>2

LEMMA FollowedTail ==
  ASSUME NEW steps \in Seq(Steps), steps # <<>>, NEW s, NEW t, Followed(s, t, steps)
  PROVE  Followed(s, t, Tail(steps))
<1>1. /\ Len(steps) \in Nat \ {0}
      /\ Len(Tail(steps)) = Len(steps) - 1
      /\ \A n \in 1 .. Len(steps) - 1 : Tail(steps)[n] = steps[n + 1]
      /\ DOMAIN steps = 1 .. Len(steps) /\ DOMAIN Tail(steps) = 1 .. Len(steps) - 1
  OBVIOUS
<1>2. SUFFICES ASSUME NEW n \in 1 .. Len(steps) - 1, steps[n + 1] = s
               PROVE  \E m \in n + 1 .. Len(steps) - 1 : Tail(steps)[m] = t
  BY <1>1 DEF Followed
<1>3. n + 1 \in DOMAIN steps  BY <1>1
<1>4. PICK m \in (n + 1) + 1 .. Len(steps) : steps[m] = t  BY <1>2, <1>3 DEF Followed
<1>5. m - 1 \in n + 1 .. Len(steps) - 1 /\ m - 1 \in 1 .. Len(steps) - 1 /\ (m - 1) + 1 = m
  BY <1>1
<1>6. Tail(steps)[m - 1] = t  BY <1>1, <1>4, <1>5
<1>. QED  BY <1>5, <1>6

LEMMA FollowedBoth ==
  ASSUME NEW body \in Seq(Steps), NEW left \in Seq(Steps), NEW s, NEW t,
         Followed(s, t, body), Followed(s, t, left)
  PROVE  Followed(s, t, body \o left)
<1>. DEFINE all == body \o left
<1>1. /\ Len(body) \in Nat /\ Len(left) \in Nat /\ Len(all) = Len(body) + Len(left)
      /\ DOMAIN body = 1 .. Len(body) /\ DOMAIN left = 1 .. Len(left)
      /\ DOMAIN all = 1 .. Len(body) + Len(left)
      /\ \A n \in 1 .. Len(body) : all[n] = body[n]
      /\ \A n \in 1 .. Len(left) : all[Len(body) + n] = left[n]
  OBVIOUS
<1>. HIDE DEF all
<1>2. SUFFICES ASSUME NEW n \in 1 .. Len(body) + Len(left), all[n] = s
               PROVE  \E m \in n + 1 .. Len(body) + Len(left) : all[m] = t
  BY <1>1 DEF Followed, all
<1>3. CASE n \in 1 .. Len(body)
  <2>1. PICK m \in n + 1 .. Len(body) : body[m] = t  BY <1>1, <1>2, <1>3 DEF Followed
  <2>2. m \in 1 .. Len(body) /\ m \in n + 1 .. Len(body) + Len(left)  BY <1>1, <1>3
  <2>. QED  BY <1>1, <2>1, <2>2
<1>4. CASE n \notin 1 .. Len(body)
  <2>1. n - Len(body) \in 1 .. Len(left) /\ Len(body) + (n - Len(body)) = n
    BY <1>1, <1>4
  <2>2. left[n - Len(body)] = s  BY <1>1, <1>2, <2>1
  <2>3. PICK m \in (n - Len(body)) + 1 .. Len(left) : left[m] = t
    BY <1>1, <2>1, <2>2 DEF Followed
  <2>4. /\ m \in 1 .. Len(left)
        /\ Len(body) + m \in n + 1 .. Len(body) + Len(left)
    BY <1>1, <2>1
  <2>. QED  BY <1>1, <2>3, <2>4
<1>. QED  BY <1>3, <1>4

LEMMA FollowedStep ==
  ASSUME SetupInv, Step, FollowedInv
  PROVE  FollowedInv'
<1>1. todo \in Seq(Steps) /\ todo # <<>> /\ StepEffect /\ Tail(todo) \in Seq(Steps)
  BY StepEffects
<1>2. SUFFICES ASSUME NEW d \in Contexts \ {"issuer"}
               PROVE  Followed(<<"deploy", d>>, <<"initialize", d>>, todo')
  BY DEF FollowedInv, Followed
<1>3. Followed(<<"deploy", d>>, <<"initialize", d>>, Tail(todo))
  BY <1>1, FollowedTail DEF FollowedInv
<1>4. CASE todo' = Tail(todo)  BY <1>3, <1>4
<1>5. CASE todo' # Tail(todo)
  <2>1. PICK c \in Contexts : todo' = Body[c] \o Tail(todo)  BY <1>1, <1>5 DEF StepEffect
  <2>2. Body[c] \in Seq(Steps)  BY Bodies
  <2>3. Followed(<<"deploy", d>>, <<"initialize", d>>, Body[c] \o Tail(todo))
    BY <1>1, <1>3, <2>2, FollowedBody, FollowedBoth
  <2>. QED  BY <2>1, <2>3
<1>. QED  BY <1>4, <1>5

-----------------------------------------------------------------------------
(* What a step does to the objects, and to what the steps after it need. *)

LEMMA StepKinds ==
  ASSUME StepEffect, NEW c \in Contexts
  PROVE  /\ Head(todo) = <<"deploy", c>> =>
              /\ Object(c) = NoObject /\ made' = made + 1 /\ ready' = ready
              /\ context' = [context EXCEPT ![c] = made + 1]
         /\ Head(todo) = <<"initialize", c>> =>
              /\ Object(c) \notin ready \cup {NoObject}
              /\ ready' = ready \cup {Object(c)}
              /\ UNCHANGED <<made, context>>
         /\ Head(todo) = <<"approve", c>> =>
              /\ Object("vetting") \in ready /\ Object(c) # NoObject
              /\ approved' = approved \cup {<<Object("vetting"), Object(c)>>}
              /\ UNCHANGED <<made, context, ready>>
         /\ Head(todo) = <<"add_endpoint", "guardian">> =>
              /\ Object("guardian") \in ready
              /\ endpoints' = endpoints \cup {<<Object("guardian"), Object("token_issuer")>>}
              /\ UNCHANGED <<made, context, ready>>
<1>1. CASE \E d \in Contexts : Head(todo) = <<"create", d>>
  BY <1>1
<1>2. CASE \E d \in Contexts : /\ Head(todo) = <<"deploy", d>>
                               /\ Object(d) = NoObject /\ made' = made + 1 /\ ready' = ready
                               /\ context' = [context EXCEPT ![d] = made + 1]
  <2>1. PICK d \in Contexts : /\ Head(todo) = <<"deploy", d>>
                              /\ Object(d) = NoObject /\ made' = made + 1 /\ ready' = ready
                              /\ context' = [context EXCEPT ![d] = made + 1]
    BY <1>2
  <2>2. CASE c = d  BY <2>1, <2>2
  <2>3. CASE c # d  BY <2>1, <2>3
  <2>. QED  BY <2>2, <2>3
<1>3. CASE \E d \in Contexts : /\ Head(todo) = <<"initialize", d>>
                               /\ Object(d) \notin ready \cup {NoObject}
                               /\ ready' = ready \cup {Object(d)}
                               /\ UNCHANGED <<made, context>>
  BY <1>3
<1>4. CASE \E d \in Issuing : /\ Head(todo) = <<"approve", d>>
                              /\ Object("vetting") \in ready /\ Object(d) # NoObject
                              /\ approved' = approved \cup {<<Object("vetting"), Object(d)>>}
                              /\ UNCHANGED <<made, context, ready>>
  BY <1>4
<1>5. CASE /\ Head(todo) = <<"add_endpoint", "guardian">>
           /\ Object("guardian") \in ready
           /\ endpoints' = endpoints \cup {<<Object("guardian"), Object("token_issuer")>>}
           /\ UNCHANGED <<made, context, ready>>
  BY <1>5
<1>6. CASE /\ \A d \in Contexts :
                Head(todo) \notin {"create", "deploy", "initialize", "approve"} \X {d}
           /\ Head(todo) # <<"add_endpoint", "guardian">>
  <2>1. \A op \in {"create", "deploy", "initialize", "approve"} :
          <<op, c>> \in {"create", "deploy", "initialize", "approve"} \X {c}
    OBVIOUS
  <2>. QED  BY <1>6, <2>1
<1>. QED  BY <1>1, <1>2, <1>3, <1>4, <1>5, <1>6 DEF StepEffect

LEMMA StepCreates ==
  ASSUME StepEffect, NEW c \in Contexts, Head(todo) = <<"create", c>>, Object(c) = NoObject
  PROVE  todo' = Body[c] \o Tail(todo)
<1>1. CASE \E d \in Contexts : /\ Head(todo) = <<"create", d>>
                               /\ Object(d) = NoObject => todo' = Body[d] \o Tail(todo)
  <2>1. PICK d \in Contexts : /\ Head(todo) = <<"create", d>>
                              /\ Object(d) = NoObject => todo' = Body[d] \o Tail(todo)
    BY <1>1
  <2>2. c = d  BY <2>1
  <2>. QED  BY <2>1, <2>2
<1>2. CASE \E op \in {"deploy", "initialize", "approve", "add_endpoint"} : \E d \in Contexts :
             Head(todo) = <<op, d>>
  BY <1>2
<1>3. CASE \A d \in Contexts :
             Head(todo) \notin {"create", "deploy", "initialize", "approve"} \X {d}
  <2>1. <<"create", c>> \in {"create", "deploy", "initialize", "approve"} \X {c}  OBVIOUS
  <2>. QED  BY <1>3, <2>1
<1>. QED  BY <1>1, <1>2, <1>3 DEF StepEffect, Issuing, Contexts

LEMMA StepObjects ==
  ASSUME SetupInv, Step
  PROVE  /\ \A d \in Contexts : Head(todo) = <<"deploy", d>> =>
              /\ Object(d) = NoObject /\ Object(d)' = made + 1
              /\ made + 1 \notin ready' \cup {NoObject}
         /\ \A d \in Contexts : Head(todo) # <<"deploy", d>> => Object(d)' = Object(d)
         /\ \A d \in Contexts : Object(d) # NoObject =>
              (Object(d) \in ready' <=> Object(d) \in ready \/ Head(todo) = <<"initialize", d>>)
         /\ ready \subseteq ready' /\ approved \subseteq approved' /\ endpoints \subseteq endpoints'
<1>1. StepEffect  BY StepEffects
<1>2. /\ ready \subseteq 1 .. made /\ made \in Nat
      /\ context \in [Contexts -> 0 .. made]
  <2>1. made \in Nat  BY ObjectTypes DEF Contexts
  <2>. QED  BY <2>1 DEF SetupInv, SetupTypeOK, Remembered
<1>3. \A c, d \in Contexts : context[c] = context[d] /\ context[c] # NoObject => c = d
  BY DEF SetupInv, ContextInv, Coherent
<1>4. ready \subseteq ready' /\ approved \subseteq approved' /\ endpoints \subseteq endpoints'
  BY <1>1 DEF StepEffect
<1>5. ASSUME NEW d \in Contexts, Head(todo) = <<"deploy", d>>
      PROVE  /\ Object(d) = NoObject /\ Object(d)' = made + 1
             /\ made + 1 \notin ready' \cup {NoObject}
  <2>1. /\ Object(d) = NoObject
        /\ context' = [context EXCEPT ![d] = made + 1]
        /\ ready' = ready
    BY <1>1, <1>5, StepKinds
  <2>2. context'[d] = made + 1  BY <1>2, <2>1
  <2>3. made + 1 \notin ready \cup {NoObject}  BY <1>2 DEF NoObject
  <2>. QED  BY <2>1, <2>2, <2>3 DEF Object
<1>6. ASSUME NEW d \in Contexts, Head(todo) # <<"deploy", d>>
      PROVE  Object(d)' = Object(d)
  <2>1. CASE context' = context  BY <2>1 DEF Object
  <2>2. CASE context' # context
    <3>1. PICK c \in Contexts : /\ Head(todo) = <<"deploy", c>>
                                /\ context' = [context EXCEPT ![c] = made + 1]
      BY <1>1, <2>2 DEF StepEffect
    <3>2. c # d  BY <1>6, <3>1
    <3>. QED  BY <1>2, <3>1, <3>2 DEF Object
  <2>. QED  BY <2>1, <2>2
<1>7. ASSUME NEW d \in Contexts, Object(d) # NoObject
      PROVE  Object(d) \in ready' <=> Object(d) \in ready \/ Head(todo) = <<"initialize", d>>
  <2>1. CASE Head(todo) = <<"initialize", d>>
    <3>1. ready' = ready \cup {Object(d)}  BY <1>1, <2>1, StepKinds
    <3>. QED  BY <2>1, <3>1
  <2>2. CASE Head(todo) # <<"initialize", d>> /\ ready' # ready
    <3>1. PICK c \in Contexts : /\ Head(todo) = <<"initialize", c>>
                                /\ ready' = ready \cup {Object(c)}
      BY <1>1, <2>2 DEF StepEffect
    <3>2. c # d  BY <2>2, <3>1
    <3>3. Object(c) # Object(d)  BY <1>3, <1>7, <3>2 DEF Object
    <3>. QED  BY <2>2, <3>1, <3>3
  <2>3. CASE Head(todo) # <<"initialize", d>> /\ ready' = ready  BY <2>3
  <2>. QED  BY <2>1, <2>2, <2>3
<1>. QED  BY <1>4, <1>5, <1>6, <1>7

\* What is about to be initialized stays the object just deployed.
LEMMA NewStep ==
  ASSUME SetupInv, Step, NewInv
  PROVE  NewInv'
<1>1. SUFFICES ASSUME NEW d \in Contexts \ {"issuer"}
               PROVE  Backed({<<"deploy", d>>}, <<"initialize", d>>, Steps \ Between(d),
                             Object(d) \notin ready \cup {NoObject}, todo)'
  BY DEF NewInv
<1>. DEFINE undo == Steps \ Between(d)
            P == Object(d) \notin ready \cup {NoObject}
            Q == P'
<1>2. Head(todo) \in Steps /\ StepEffect  BY StepEffects
<1>3. Backed({<<"deploy", d>>}, <<"initialize", d>>, undo, P, todo)  BY DEF NewInv
<1>4. Head(todo) \in {<<"deploy", d>>} => Q  BY StepObjects
<1>5. <<"deploy", d>> \notin Between(d) /\ <<"initialize", d>> \notin Between(d)
  BY DEF Between
<1>6. P /\ Head(todo) \notin {<<"deploy", d>>, <<"initialize", d>>} => Q  BY StepObjects
<1>7. P /\ Head(todo) \notin undo => Q  BY <1>2, <1>5, <1>6
<1>8. ASSUME NEW c \in Contexts, Head(todo) = <<"create", c>>
      PROVE  /\ <<"create", c>> \notin {<<"deploy", d>>}
             /\ P => Q
             /\ Backed({<<"deploy", d>>}, <<"initialize", d>>, undo, Q, Body[c])
             /\ <<"create", c>> \notin undo => \A n \in 1 .. Len(Body[c]) : Body[c][n] \notin undo
  <2>1. P => Q  BY <1>6, <1>8
  <2>2. ASSUME <<"create", c>> \notin undo, NEW n \in 1 .. Len(Body[c])
        PROVE  Body[c][n] \notin undo
    <3>1. <<"create", c>> \in Between(d)  BY <1>2, <1>8, <2>2
    <3>2. Body[c] \in Seq(Steps)  BY Bodies
    <3>3. n \in DOMAIN Body[c]  BY <3>2
    <3>. QED  BY <3>1, <3>3, BodyBetween
  <2>3. Backed({<<"deploy", d>>}, <<"initialize", d>>, undo, Q, Body[c])
    <3>. HIDE DEF Q
    <3>. QED  BY NewBody
  <2>. QED  BY <2>1, <2>2, <2>3
<1>. HIDE DEF undo, P, Q
<1>9. Backed({<<"deploy", d>>}, <<"initialize", d>>, undo, Q, todo')
  BY <1>3, <1>4, <1>7, <1>8, BackedStep
<1>. QED  BY <1>9 DEF undo, P, Q, Backed

LEMMA AskedStep ==
  ASSUME SetupInv, Step, AskedInv
  PROVE  AskedInv'
<1>. DEFINE undo == {"create", "deploy"} \X Contexts
            P == Authorized("token_issuer")
            Q == P'
            R == Provisioned
            S == R'
<1>1. /\ Backed({<<"approve", "token_issuer">>}, <<"authority", "token_issuer">>, undo, P, todo)
      /\ Backed({<<"add_endpoint", "guardian">>}, <<"provision", "guardian">>, undo, R, todo)
  BY DEF AskedInv
<1>2. StepEffect /\ Head(todo) \in Steps  BY StepEffects
<1>3. NoObject \notin ready  BY ObjectTypes DEF Contexts
<1>4. Head(todo) \in {<<"approve", "token_issuer">>} => Q
  <2>. SUFFICES ASSUME Head(todo) = <<"approve", "token_issuer">>  PROVE Q
    OBVIOUS
  <2>1. /\ Object("vetting") \in ready /\ Object("token_issuer") # NoObject
        /\ approved' = approved \cup {<<Object("vetting"), Object("token_issuer")>>}
        /\ context' = context /\ ready' = ready
    BY <1>2, StepKinds DEF Contexts
  <2>. QED  BY <1>3, <2>1 DEF Authorized, Object
<1>5. Head(todo) \in {<<"add_endpoint", "guardian">>} => S
  <2>. SUFFICES ASSUME Head(todo) = <<"add_endpoint", "guardian">>  PROVE S
    OBVIOUS
  <2>1. /\ Object("guardian") \in ready
        /\ endpoints' = endpoints \cup {<<Object("guardian"), Object("token_issuer")>>}
        /\ context' = context /\ ready' = ready
    BY <1>2, StepKinds DEF Contexts
  <2>. QED  BY <2>1 DEF Provisioned, Object
<1>6. ASSUME \A c \in Contexts : Head(todo) # <<"deploy", c>>
      PROVE  (P => Q) /\ (R => S)
  <2>1. \A c \in Contexts : Object(c)' = Object(c)  BY <1>6, StepObjects
  <2>2. ready \subseteq ready' /\ approved \subseteq approved' /\ endpoints \subseteq endpoints'
    BY StepObjects
  <2>. QED  BY <2>1, <2>2 DEF Authorized, Provisioned, Contexts
<1>7. Head(todo) \notin undo => (P => Q) /\ (R => S)  BY <1>6
<1>8. ASSUME NEW c \in Contexts, Head(todo) = <<"create", c>>
      PROVE  /\ (P => Q) /\ (R => S)
             /\ <<"create", c>> \in undo
             /\ Backed({<<"approve", "token_issuer">>}, <<"authority", "token_issuer">>, undo, Q,
                       Body[c])
             /\ Backed({<<"add_endpoint", "guardian">>}, <<"provision", "guardian">>, undo, S,
                       Body[c])
  <2>1. (P => Q) /\ (R => S)  BY <1>6, <1>8
  <2>2. /\ Backed({<<"approve", "token_issuer">>}, <<"authority", "token_issuer">>, undo, Q,
                  Body[c])
        /\ Backed({<<"add_endpoint", "guardian">>}, <<"provision", "guardian">>, undo, S, Body[c])
    <3>. HIDE DEF Q, S
    <3>. QED  BY AskedBody
  <2>. QED  BY <2>1, <2>2
<1>. HIDE DEF undo, P, Q, R, S
<1>9. Backed({<<"approve", "token_issuer">>}, <<"authority", "token_issuer">>, undo, Q, todo')
  BY <1>1, <1>4, <1>7, <1>8, BackedStep
<1>10. Backed({<<"add_endpoint", "guardian">>}, <<"provision", "guardian">>, undo, S, todo')
  BY <1>1, <1>5, <1>7, <1>8, BackedStep
<1>. QED  BY <1>9, <1>10 DEF AskedInv, undo, P, Q, R, S, Backed

\* An object that waits for its initialization: until then, the command makes only
\* the steps counted as between.
LEMMA PendingFront ==
  ASSUME SetupInv, NewInv, NEW d \in Contexts \ {"issuer"}, Object(d) \notin ready \cup {NoObject},
         NEW n \in DOMAIN todo, todo[n] = <<"initialize", d>>, NEW k \in 1 .. n - 1
  PROVE  todo[k] \in Between(d)
<1>. DEFINE undo == Steps \ Between(d)
            old == Steps \ (IF d = "vetting" THEN Operations \X {"asset_type"} ELSE {})
            P == Object(d) \notin ready \cup {NoObject}
            none == Object(d) = NoObject
<1>1. todo \in Seq(Steps) /\ DOMAIN todo = 1 .. Len(todo) /\ Len(todo) \in Nat
  <2>1. todo \in Seq(Steps)  BY DEF SetupInv, SetupTypeOK
  <2>. QED  BY <2>1
<1>2. /\ Backed({<<"deploy", d>>}, <<"initialize", d>>, undo, P, todo)
      /\ Backed({}, <<"deploy", d>>, old, none, todo)
  BY DEF NewInv, SetupInv, StepsInv, FreshInv
<1>3. ~ none  OBVIOUS
<1>4. k \in DOMAIN todo /\ todo[k] \in Steps  BY <1>1
<1>. HIDE DEF undo, old, P, none
<1>5. ASSUME NEW m \in 1 .. n - 1, todo[m] = <<"deploy", d>>
      PROVE  FALSE
  <2>1. m \in DOMAIN todo  BY <1>1
  <2>. QED  BY <1>2, <1>3, <1>5, <2>1 DEF Backed
<1>6. todo[k] \notin undo  BY <1>2, <1>5 DEF Backed
<1>. QED  BY <1>4, <1>6 DEF undo

\* A create command that finds an object finds an initialized one.
LEMMA CreateFinds ==
  ASSUME SetupInv, NewInv, PendingInv, NEW c \in DOMAIN Relies, Head(todo) = <<"create", c>>,
         c = "guardian" => ~ BorderRefused
  PROVE  Object(c) \in ready \cup {NoObject}
<1>1. /\ c \in Contexts \ {"issuer"} /\ c # "token_issuer" /\ <<"create", c>> \notin Between(c)
  BY DEF Relies, Contexts, Between
<1>2. SUFFICES ASSUME Object(c) \notin ready \cup {NoObject}  PROVE FALSE
  OBVIOUS
<1>3. PICK n \in DOMAIN todo : todo[n] = <<"initialize", c>>  BY <1>1, <1>2 DEF PendingInv
<1>4. todo \in Seq(Steps)  BY DEF SetupInv, SetupTypeOK
<1>5. DOMAIN todo = 1 .. Len(todo) /\ Len(todo) \in Nat /\ todo[1] = Head(todo)  BY <1>3, <1>4
<1>6. n # 1  BY <1>3, <1>5
<1>7. 1 \in 1 .. n - 1  BY <1>5, <1>6
<1>8. todo[1] \in Between(c)  BY <1>1, <1>2, <1>3, <1>7, PendingFront
<1>. QED  BY <1>1, <1>5, <1>8

LEMMA ReadyStep ==
  ASSUME SetupInv, Step, NewInv, ReadyInv, PendingInv
  PROVE  ReadyInv'
<1>1. /\ todo \in Seq(Steps) /\ todo # <<>> /\ StepEffect /\ border' = border
  BY StepEffects
<1>2. BorderRefused' = BorderRefused
  BY <1>1 DEF BorderRefused, BorderFits, BorderUsed
<1>3. SUFFICES ASSUME NEW d \in DOMAIN Relies, d = "guardian" => ~ BorderRefused
               PROVE  Backed({"create", "initialize"} \X {d}, Relies[d], {<<"deploy", d>>},
                             Object(d) \in ready, todo)'
  BY <1>2 DEF ReadyInv
<1>. DEFINE first == {"create", "initialize"} \X {d}
            P == Object(d) \in ready
            Q == P'
<1>4. d \in Contexts \ {"issuer"}  BY DEF Relies, Contexts
<1>5. Backed(first, Relies[d], {<<"deploy", d>>}, P, todo)  BY <1>3 DEF ReadyInv
<1>6. NoObject \notin ready  BY <1>4, ObjectTypes
<1>7. P /\ Head(todo) # <<"deploy", d>> => Q  BY <1>4, StepObjects
<1>8. CASE Head(todo) = <<"create", d>> /\ Object(d) = NoObject
  <2>1. todo' = Body[d] \o Tail(todo)  BY <1>1, <1>4, <1>8, StepCreates
  <2>2. /\ Body[d] \in Seq(Steps) /\ Body[d] # <<>> /\ Body[d][Len(Body[d])] \in first
        /\ \A n \in 1 .. Len(Body[d]) : Body[d][n] # Relies[d]
    <3>1. /\ Body[d] \in Seq(Steps) /\ Body[d] # <<>> /\ DOMAIN Body[d] = 1 .. Len(Body[d])
          /\ Body[d][Len(Body[d])] = <<"initialize", d>>
      BY <1>4, BodyEnds
    <3>2. <<"initialize", d>> \in first  OBVIOUS
    <3>3. \A n \in DOMAIN Body[d] : Body[d][n] # Relies[d]  BY <1>4, ReadyBody
    <3>. QED  BY <3>1, <3>2, <3>3
  <2>. HIDE DEF first, P, Q
  <2>3. Backed(first, Relies[d], {<<"deploy", d>>}, Q, Body[d] \o Tail(todo))
    BY <1>1, <1>5, <2>2, BackedCreate
  <2>4. Backed(first, Relies[d], {<<"deploy", d>>}, Q, todo')  BY <2>1, <2>3
  <2>. QED  BY <2>4 DEF first, P, Q, Backed
<1>9. CASE ~ (Head(todo) = <<"create", d>> /\ Object(d) = NoObject)
  <2>1. Head(todo) \in first => Q
    <3>1. CASE Head(todo) = <<"create", d>>
      <4>1. P  BY <1>3, <1>9, <3>1, CreateFinds
      <4>. QED  BY <1>7, <3>1, <4>1
    <3>2. CASE Head(todo) = <<"initialize", d>>
      <4>1. Object(d) # NoObject  BY <1>1, <1>4, <3>2, StepKinds
      <4>. QED  BY <1>4, <3>2, <4>1, StepObjects
    <3>. QED  BY <3>1, <3>2
  <2>2. ASSUME NEW c \in Contexts, Head(todo) = <<"create", c>>, Object(c) = NoObject
        PROVE  /\ <<"create", c>> \notin first
               /\ P => Q
               /\ Backed(first, Relies[d], {<<"deploy", d>>}, Q, Body[c])
               /\ \A n \in 1 .. Len(Body[c]) : Body[c][n] \notin {<<"deploy", d>>}
    <3>1. c # d  BY <1>9, <2>2
    <3>2. Body[c] \in Seq(Steps)  BY Bodies
    <3>3. \A n \in 1 .. Len(Body[c]) : n \in DOMAIN Body[c]  BY <3>2
    <3>4. \A n \in 1 .. Len(Body[c]) : Body[c][n] \notin {<<"deploy", d>>}
      BY <1>4, <3>1, <3>3, BodyOwns
    <3>5. <<"create", c>> \notin first /\ (P => Q)  BY <1>7, <2>2, <3>1
    <3>6. Backed(first, Relies[d], {<<"deploy", d>>}, Q, Body[c])
      <4>. HIDE DEF Q
      <4>. QED  BY ReadyBody
    <3>. QED  BY <3>4, <3>5, <3>6
  <2>3. P /\ Head(todo) \notin {<<"deploy", d>>} => Q  BY <1>7
  <2>. HIDE DEF first, P, Q
  <2>4. Backed(first, Relies[d], {<<"deploy", d>>}, Q, todo')
    BY <1>5, <2>1, <2>2, <2>3, BackedStep
  <2>. QED  BY <2>4 DEF first, P, Q, Backed
<1>. QED  BY <1>8, <1>9

\* An object just deployed has its initialization ahead; making it, it is initialized.
LEMMA PendingStep ==
  ASSUME SetupInv, Step, FollowedInv, PendingInv
  PROVE  PendingInv'
<1>1. /\ todo \in Seq(Steps) /\ todo # <<>> /\ StepEffect /\ border' = border
      /\ Tail(todo) \in Seq(Steps)
  BY StepEffects
<1>2. BorderRefused' = BorderRefused
  BY <1>1 DEF BorderRefused, BorderFits, BorderUsed
<1>3. /\ Len(todo) \in Nat \ {0} /\ DOMAIN todo = 1 .. Len(todo) /\ todo[1] = Head(todo)
      /\ DOMAIN Tail(todo) = 1 .. Len(todo) - 1
      /\ \A n \in 1 .. Len(todo) - 1 : Tail(todo)[n] = todo[n + 1]
  BY <1>1
<1>4. ASSUME NEW s, NEW n \in 2 .. Len(todo), todo[n] = s
      PROVE  \E m \in DOMAIN todo' : todo'[m] = s
  <2>1. n - 1 \in 1 .. Len(todo) - 1 /\ (n - 1) + 1 = n  BY <1>3
  <2>2. Tail(todo)[n - 1] = s  BY <1>3, <1>4, <2>1
  <2>3. CASE todo' = Tail(todo)  BY <1>3, <2>1, <2>2, <2>3
  <2>4. CASE todo' # Tail(todo)
    <3>1. PICK c \in Contexts : todo' = Body[c] \o Tail(todo)  BY <1>1, <2>4 DEF StepEffect
    <3>. DEFINE left == Tail(todo)
                body == Body[c]
    <3>2. body \in Seq(Steps) /\ left \in Seq(Steps) /\ Len(left) = Len(todo) - 1
      BY <1>1, Bodies
    <3>3. n - 1 \in 1 .. Len(left) /\ left[n - 1] = s  BY <2>1, <2>2, <3>2
    <3>4. todo' = body \o left  BY <3>1
    <3>. HIDE DEF left, body
    <3>5. /\ Len(body) + (n - 1) \in DOMAIN (body \o left)
          /\ (body \o left)[Len(body) + (n - 1)] = left[n - 1]
      BY <3>2, <3>3
    <3>. QED  BY <3>3, <3>4, <3>5
  <2>. QED  BY <2>3, <2>4
<1>5. SUFFICES ASSUME NEW d \in Contexts \ {"issuer"}
               PROVE  \/ Object(d)' \in ready' \cup {NoObject}
                      \/ \E n \in DOMAIN todo' : todo'[n] = <<"initialize", d>>
                      \/ BorderRefused /\ d \in {"guardian", "token_issuer"}
  BY <1>2 DEF PendingInv
<1>6. CASE Head(todo) = <<"deploy", d>>
  <2>1. Followed(<<"deploy", d>>, <<"initialize", d>>, todo)  BY DEF FollowedInv
  <2>2. PICK m \in 1 + 1 .. Len(todo) : todo[m] = <<"initialize", d>>
    BY <1>3, <1>6, <2>1 DEF Followed
  <2>3. m \in 2 .. Len(todo)  OBVIOUS
  <2>. QED  BY <1>4, <2>2, <2>3
<1>7. CASE Head(todo) # <<"deploy", d>>
  <2>1. Object(d)' = Object(d)  BY <1>7, StepObjects
  <2>2. ready \subseteq ready'  BY StepObjects
  <2>3. CASE Object(d) \in ready \cup {NoObject}  BY <2>1, <2>2, <2>3
  <2>4. CASE Object(d) # NoObject /\ \E n \in DOMAIN todo : todo[n] = <<"initialize", d>>
    <3>1. PICK n \in DOMAIN todo : todo[n] = <<"initialize", d>>  BY <2>4
    <3>2. CASE n = 1
      <4>1. Head(todo) = <<"initialize", d>>  BY <1>3, <3>1, <3>2
      <4>2. Object(d) \in ready'  BY <2>4, <4>1, StepObjects
      <4>. QED  BY <2>1, <4>2
    <3>3. CASE n # 1
      <4>1. n \in 2 .. Len(todo)  BY <1>3, <3>3
      <4>. QED  BY <1>4, <3>1, <4>1
    <3>. QED  BY <3>2, <3>3
  <2>. QED  BY <2>3, <2>4 DEF PendingInv
<1>. QED  BY <1>6, <1>7

LEMMA FiveContexts ==
  /\ IsFiniteSet(Contexts) /\ Cardinality(Contexts) = 5
<1>. DEFINE a == {"asset_type"}
            b == a \cup {"vetting"}
            c == b \cup {"issuer"}
            d == c \cup {"guardian"}
            e == d \cup {"token_issuer"}
<1>1. IsFiniteSet(a) /\ Cardinality(a) = 1  BY FS_Singleton
<1>2. /\ "vetting" \notin a /\ "issuer" \notin b /\ "guardian" \notin c /\ "token_issuer" \notin d
      /\ Contexts = e
  BY DEF Contexts
<1>. HIDE DEF a
<1>3. IsFiniteSet(b) /\ Cardinality(b) = 2  BY <1>1, <1>2, FS_AddElement
<1>. HIDE DEF b
<1>4. IsFiniteSet(c) /\ Cardinality(c) = 3  BY <1>2, <1>3, FS_AddElement
<1>. HIDE DEF c
<1>5. IsFiniteSet(d) /\ Cardinality(d) = 4  BY <1>2, <1>4, FS_AddElement
<1>. HIDE DEF d
<1>6. IsFiniteSet(e) /\ Cardinality(e) = 5  BY <1>2, <1>5, FS_AddElement
<1>. QED  BY <1>2, <1>6

\* Each object is the one its context refers to.
LEMMA CountStep ==
  ASSUME SetupInv, Step, CountInv
  PROVE  CountInv'
<1>. DEFINE S == {c \in Contexts : Object(c) # NoObject}
            T == S'
<1>1. StepEffect /\ made \in Nat  BY StepEffects, ObjectTypes DEF Contexts
<1>2. IsFiniteSet(S) /\ made = Cardinality(S)
  <2>1. IsFiniteSet(Contexts)
    BY FiveContexts
  <2>2. IsFiniteSet(S)  BY <2>1, FS_Subset
  <2>. QED  BY <2>2 DEF CountInv
<1>3. CASE \E c \in Contexts : Head(todo) = <<"deploy", c>>
  <2>1. PICK c \in Contexts : Head(todo) = <<"deploy", c>>  BY <1>3
  <2>2. made' = made + 1  BY <1>1, <2>1, StepKinds
  <2>3. Object(c) = NoObject /\ Object(c)' # NoObject  BY <2>1, StepObjects
  <2>4. \A d \in Contexts \ {c} : Object(d)' = Object(d)  BY <2>1, StepObjects
  <2>5. T = S \cup {c} /\ c \notin S  BY <2>3, <2>4
  <2>. HIDE DEF S, T
  <2>6. Cardinality(T) = Cardinality(S) + 1  BY <1>2, <2>5, FS_AddElement
  <2>. QED  BY <1>2, <2>2, <2>6 DEF CountInv, T, S
<1>4. CASE \A c \in Contexts : Head(todo) # <<"deploy", c>>
  <2>1. \A c \in Contexts : Object(c)' = Object(c)  BY <1>4, StepObjects
  <2>2. T = S  BY <2>1
  <2>3. made' = made
    <3>1. CASE \E c \in Contexts : Head(todo) = <<"deploy", c>>  BY <1>4, <3>1
    <3>. QED  BY <1>1, <3>1 DEF StepEffect
  <2>. HIDE DEF S, T
  <2>. QED  BY <1>2, <2>2, <2>3 DEF CountInv, T, S
<1>. QED  BY <1>3, <1>4

-----------------------------------------------------------------------------
(* Why a command stops. *)

\* With a contract object for each context, there is none left to make.
LEMMA DeployPossible ==
  ASSUME SetupInv, CountInv, 5 <= MaxObjects, NEW c \in Contexts, At("deploy", c)
  PROVE  Possible
<1>. DEFINE S == {d \in Contexts : Object(d) # NoObject}
<1>1. Object(c) = NoObject  BY FreshNow DEF SetupInv, SetupTypeOK
<1>2. S \subseteq Contexts \ {c} /\ made = Cardinality(S)  BY <1>1 DEF CountInv
<1>. HIDE DEF S
<1>3. IsFiniteSet(Contexts \ {c}) /\ Cardinality(Contexts \ {c}) = 4
  BY FiveContexts, FS_RemoveElement
<1>4. Cardinality(S) <= 4  BY <1>2, <1>3, FS_Subset
<1>5. made < MaxObjects  BY <1>2, <1>4, ObjectTypes, SetupAssumption
<1>. QED  BY <1>5 DEF Possible

LEMMA InitializePossible ==
  ASSUME SetupInv, NewInv, NEW c \in Contexts \ {"issuer"}, At("initialize", c)
  PROVE  Possible \/ (c = "guardian" /\ BorderRefused)
<1>. DEFINE undo == Steps \ Between(c)
            P == Object(c) \notin ready \cup {NoObject}
<1>1. Backed({<<"deploy", c>>}, <<"initialize", c>>, undo, P, todo)  BY DEF NewInv
<1>2. todo \in Seq(Steps) /\ todo # <<>> /\ Head(todo) = <<"initialize", c>>
  BY DEF SetupInv, SetupTypeOK, At
<1>. HIDE DEF undo, P
<1>3. P  BY <1>1, <1>2, BackedNow
<1>4. CASE c = "guardian" => ~ BorderRefused
  <2>1. At("initialize", c) /\ Object(c) \notin ready /\ (c = "guardian" => ~ BorderRefused)
    BY <1>3, <1>4 DEF P
  <2>. QED  BY <2>1 DEF Possible
<1>. QED  BY <1>4

LEMMA ReadyNow ==
  ASSUME SetupInv, ReadyInv, todo # <<>>, NEW c \in DOMAIN Relies, Head(todo) = Relies[c],
         c = "guardian" => ~ BorderRefused
  PROVE  Object(c) \in ready
<1>. DEFINE first == {"create", "initialize"} \X {c}
            P == Object(c) \in ready
<1>1. Backed(first, Head(todo), {<<"deploy", c>>}, P, todo)  BY DEF ReadyInv
<1>2. todo \in Seq(Steps)  BY DEF SetupInv, SetupTypeOK
<1>. HIDE DEF first, P
<1>3. P  BY <1>1, <1>2, BackedNow
<1>. QED  BY <1>3 DEF P

LEMMA AskedNow ==
  ASSUME SetupInv, AskedInv, todo # <<>>
  PROVE  /\ Head(todo) = <<"authority", "token_issuer">> => Authorized("token_issuer")
         /\ Head(todo) = <<"provision", "guardian">> => Provisioned
<1>. DEFINE undo == {"create", "deploy"} \X Contexts
            P == Authorized("token_issuer")
            Q == Provisioned
<1>1. /\ Backed({<<"approve", "token_issuer">>}, <<"authority", "token_issuer">>, undo, P, todo)
      /\ Backed({<<"add_endpoint", "guardian">>}, <<"provision", "guardian">>, undo, Q, todo)
  BY DEF AskedInv
<1>2. todo \in Seq(Steps)  BY DEF SetupInv, SetupTypeOK
<1>. HIDE DEF undo, P, Q
<1>3. Head(todo) = <<"authority", "token_issuer">> => P  BY <1>1, <1>2, BackedNow
<1>4. Head(todo) = <<"provision", "guardian">> => Q  BY <1>1, <1>2, BackedNow
<1>. QED  BY <1>3, <1>4 DEF P, Q

\* Undisturbed, a command that comes to a step between a deployment and the
\* initialization can make it, unless the border is refused.
LEMMA BetweenPossible ==
  ASSUME SetupInv, CreationInv, failures = 0, 5 <= MaxObjects, todo # <<>>,
         NEW d \in Contexts \ {"issuer"}, Head(todo) \in Between(d)
  PROVE  Possible \/ (BorderRefused /\ d \in {"guardian", "token_issuer"})
<1>1. NewInv /\ AskedInv /\ ReadyInv /\ CountInv  BY DEF CreationInv
<1>2. CASE Head(todo) = <<"push", "guardian">>
  <2>1. At("push", "guardian")  BY <1>2 DEF At
  <2>. QED  BY <2>1 DEF Possible
<1>3. CASE d # "token_issuer"  BY <1>2, <1>3 DEF Between
<1>4. CASE d = "token_issuer"
  <2>1. CASE \E c \in Contexts : Head(todo) = <<"create", c>>
    <3>1. \E c \in Contexts : At("create", c)  BY <2>1 DEF At
    <3>. QED  BY <3>1 DEF Possible
  <2>2. CASE \E c \in Contexts : Head(todo) = <<"deploy", c>>
    <3>1. PICK c \in Contexts : At("deploy", c)  BY <2>2 DEF At
    <3>. QED  BY <1>1, <3>1, DeployPossible
  <2>3. CASE \E c \in Contexts \ {"issuer"} : Head(todo) = <<"initialize", c>>
    <3>1. PICK c \in Contexts \ {"issuer"} : At("initialize", c)  BY <2>3 DEF At
    <3>. QED  BY <1>1, <1>4, <3>1, InitializePossible
  <2>4. CASE Head(todo) = <<"type_identifier", "asset_type">>
    <3>1. Object("asset_type") \in ready  BY <1>1, <2>4, ReadyNow DEF Relies
    <3>2. At("type_identifier", "asset_type")  BY <2>4 DEF At
    <3>. QED  BY <3>1, <3>2 DEF Possible
  <2>5. CASE Head(todo) = <<"add_endpoint", "guardian">>
    <3>1. ~ BorderRefused => Object("guardian") \in ready  BY <1>1, <2>5, ReadyNow DEF Relies
    <3>2. At("add_endpoint", "guardian")  BY <2>5 DEF At
    <3>. QED  BY <1>4, <3>1, <3>2 DEF Possible
  <2>6. CASE Head(todo) = <<"provision", "guardian">>
    <3>1. Provisioned  BY <1>1, <2>6, AskedNow
    <3>2. At("provision", "guardian")  BY <2>6 DEF At
    <3>. QED  BY <3>1, <3>2 DEF Possible
  <2>7. CASE Head(todo) = <<"approve", "token_issuer">>
    <3>1. Object("vetting") \in ready  BY <1>1, <2>7, ReadyNow DEF Relies
    <3>2. At("approve", "token_issuer") /\ Approvable("token_issuer")
      BY <2>7, <3>1 DEF At, Approvable
    <3>3. "token_issuer" \in Issuing  BY DEF Issuing
    <3>. QED  BY <3>2, <3>3 DEF Possible
  <2>8. CASE Head(todo) = <<"authority", "token_issuer">>
    <3>1. At("authority", "token_issuer") /\ Authorized("token_issuer")
      BY <1>1, <2>8, AskedNow DEF At
    <3>2. "token_issuer" \in Issuing  BY DEF Issuing
    <3>. QED  BY <3>1, <3>2 DEF Possible
  <2>9. {"asset_type", "vetting", "guardian"} \subseteq Contexts \ {"issuer"}  BY DEF Contexts
  <2>10. \/ \E c \in {"asset_type", "vetting", "guardian"} :
               Head(todo) \in {<<"create", c>>, <<"deploy", c>>, <<"initialize", c>>}
         \/ Head(todo) \in {<<"type_identifier", "asset_type">>, <<"push", "guardian">>,
                            <<"add_endpoint", "guardian">>, <<"provision", "guardian">>,
                            <<"approve", "token_issuer">>, <<"authority", "token_issuer">>}
    BY <1>4 DEF Between
  <2>. QED  BY <1>2, <2>1, <2>2, <2>3, <2>4, <2>5, <2>6, <2>7, <2>8, <2>9, <2>10
<1>. QED  BY <1>3, <1>4

\* A command that is refused leaves no object waiting.
LEMMA RefusedEnds ==
  ASSUME SetupInv, CreationInv, failures = 0, 5 <= MaxObjects, todo # <<>>, ~ Possible,
         NEW d \in Contexts \ {"issuer"}
  PROVE  \/ Object(d) \in ready \cup {NoObject}
         \/ BorderRefused /\ d \in {"guardian", "token_issuer"}
<1>1. NewInv /\ PendingInv  BY DEF CreationInv
<1>2. SUFFICES ASSUME Object(d) \notin ready \cup {NoObject},
                      ~ (BorderRefused /\ d \in {"guardian", "token_issuer"})
               PROVE  FALSE
  OBVIOUS
<1>3. PICK n \in DOMAIN todo : todo[n] = <<"initialize", d>>  BY <1>1, <1>2 DEF PendingInv
<1>4. todo \in Seq(Steps)  BY DEF SetupInv, SetupTypeOK
<1>5. DOMAIN todo = 1 .. Len(todo) /\ Len(todo) \in Nat /\ todo[1] = Head(todo)  BY <1>3, <1>4
<1>6. CASE n = 1
  <2>1. At("initialize", d)  BY <1>3, <1>5, <1>6 DEF At
  <2>. QED  BY <1>1, <1>2, <2>1, InitializePossible
<1>7. CASE n # 1
  <2>1. 1 \in 1 .. n - 1  BY <1>5, <1>7
  <2>2. todo[1] \in Between(d)  BY <1>1, <1>2, <1>3, <2>1, PendingFront
  <2>. QED  BY <1>2, <1>5, <2>2, BetweenPossible
<1>. QED  BY <1>6, <1>7

-----------------------------------------------------------------------------

\* Before a command begins and when it ended, no step is left that needs another.
LEMMA QuietSteps ==
  ASSUME \A n \in DOMAIN todo' :
           todo'[n] \in Plain \cup {<<"initialize", "issuer">>, <<"mark", "issuer">>}
  PROVE  NewInv' /\ AskedInv' /\ FollowedInv' /\ ReadyInv'
<1>1. ASSUME NEW c \in Contexts \ {"issuer"}, NEW n \in DOMAIN todo'
      PROVE  todo'[n] \notin {<<"deploy", c>>, <<"initialize", c>>}
  BY DEF Plain
<1>2. ASSUME NEW n \in DOMAIN todo'
      PROVE  todo'[n] \notin {<<"authority", "token_issuer">>, <<"provision", "guardian">>,
                              <<"type_identifier", "asset_type">>, <<"approve", "token_issuer">>,
                              <<"add_endpoint", "guardian">>}
  BY DEF Plain
<1>3. NewInv'  BY <1>1 DEF NewInv, Backed
<1>4. FollowedInv'  BY <1>1 DEF FollowedInv, Followed
<1>5. AskedInv'  BY <1>2 DEF AskedInv, Backed
<1>6. ReadyInv'
  <2>1. \A c \in DOMAIN Relies : \A n \in DOMAIN todo' : todo'[n] # Relies[c]
    BY <1>2 DEF Relies
  <2>. QED  BY <2>1 DEF ReadyInv, Backed
<1>. QED  BY <1>3, <1>4, <1>5, <1>6

LEMMA CreationStarts == SetupInit => CreationInv
<1>. SUFFICES ASSUME SetupInit  PROVE CreationInv
  OBVIOUS
<1>1. todo = <<>> /\ made = 0 /\ \A c \in Contexts : Object(c) = NoObject
  BY DEF SetupInit, Object
<1>2. NewInv /\ AskedInv /\ FollowedInv /\ ReadyInv
  BY <1>1 DEF NewInv, AskedInv, FollowedInv, ReadyInv, Backed, Followed
<1>3. PendingInv  BY <1>1 DEF PendingInv
<1>4. CountInv
  <2>1. {c \in Contexts : Object(c) # NoObject} = {}  BY <1>1
  <2>. QED  BY <1>1, <2>1, FS_EmptySet DEF CountInv
<1>. QED  BY <1>2, <1>3, <1>4 DEF CreationInv

LEMMA CreationStep ==
  ASSUME 5 <= MaxObjects, SetupInv, CreationInv, [SetupNext]_setupVars
  PROVE  CreationInv'
<1>1. CASE Command
  <2>1. UNCHANGED <<contracts, border, context, notes, file, failures>> /\ todo = <<>>
    BY <1>1 DEF Command, Begin
  <2>2. NewInv' /\ AskedInv' /\ FollowedInv' /\ ReadyInv'  BY <1>1, CommandSteps, QuietSteps
  <2>3. failures = 0 => PendingInv' /\ CountInv'
    <3>. SUFFICES ASSUME failures = 0  PROVE PendingInv' /\ CountInv'
      OBVIOUS
    <3>1. \A c \in Contexts \ {"issuer"} :
            \/ Object(c) \in ready \cup {NoObject}
            \/ BorderRefused /\ c \in {"guardian", "token_issuer"}
      BY <2>1 DEF CreationInv, PendingInv
    <3>2. PendingInv'
      BY <2>1, <3>1 DEF PendingInv, contracts, Object, BorderRefused, BorderFits, BorderUsed
    <3>3. CountInv'  BY <2>1 DEF CreationInv, CountInv, contracts, Object
    <3>. QED  BY <3>2, <3>3
  <2>. QED  BY <2>1, <2>2, <2>3 DEF CreationInv
<1>2. CASE Step
  <2>1. failures' = failures  BY <1>2, StepEffects
  <2>2. NewInv' /\ AskedInv' /\ FollowedInv'
    BY <1>2, NewStep, AskedStep, FollowedStep DEF CreationInv
  <2>3. failures = 0 => ReadyInv' /\ PendingInv' /\ CountInv'
    BY <1>2, ReadyStep, PendingStep, CountStep DEF CreationInv
  <2>. QED  BY <2>1, <2>2, <2>3 DEF CreationInv
<1>3. CASE Refused
  <2>1. /\ todo' = <<>> /\ todo # <<>> /\ ~ Possible
        /\ UNCHANGED <<contracts, border, context, notes, file, failures>>
    BY <1>3 DEF Refused, Raise
  <2>2. NewInv' /\ AskedInv' /\ FollowedInv' /\ ReadyInv'  BY <2>1, QuietSteps
  <2>3. failures = 0 => PendingInv' /\ CountInv'
    <3>. SUFFICES ASSUME failures = 0  PROVE PendingInv' /\ CountInv'
      OBVIOUS
    <3>1. \A c \in Contexts \ {"issuer"} :
            \/ Object(c) \in ready \cup {NoObject}
            \/ BorderRefused /\ c \in {"guardian", "token_issuer"}
      BY <2>1, RefusedEnds
    <3>2. PendingInv'
      BY <2>1, <3>1 DEF PendingInv, contracts, Object, BorderRefused, BorderFits, BorderUsed
    <3>3. CountInv'  BY <2>1 DEF CreationInv, CountInv, contracts, Object
    <3>. QED  BY <3>2, <3>3
  <2>. QED  BY <2>1, <2>2, <2>3 DEF CreationInv
<1>4. CASE Fail \/ Restart
  <2>1. todo' = <<>> /\ failures' = failures + 1  BY <1>4 DEF Fail, Raise, Restart
  <2>2. failures' # 0  BY <2>1 DEF SetupInv, SetupTypeOK
  <2>3. NewInv' /\ AskedInv' /\ FollowedInv'  BY <2>1, QuietSteps
  <2>. QED  BY <2>2, <2>3 DEF CreationInv
<1>5. CASE UNCHANGED setupVars
  BY <1>5 DEF setupVars, contracts, CreationInv, NewInv, AskedInv, FollowedInv, ReadyInv,
         PendingInv, CountInv, Backed, Followed, Object, Authorized, Provisioned,
         BorderRefused, BorderFits, BorderUsed
<1>. QED  BY <1>1, <1>2, <1>3, <1>4, <1>5 DEF SetupNext

\* Where nothing fails, a command that has deployed an object has, or sees to,
\* everything that the steps up to its initialization need, however commands follow on
\* one another.  There is an object to be had for each context.
THEOREM CreationInvariant == 5 <= MaxObjects /\ SetupSpec => []CreationInv
<1>. SUFFICES ASSUME 5 <= MaxObjects  PROVE SetupSpec => []CreationInv
  OBVIOUS
<1>1. SetupInv /\ CreationInv /\ [SetupNext]_setupVars => CreationInv'  BY CreationStep
<1>. QED  BY <1>1, CreationStarts, SetupInvariant, PTL DEF SetupSpec

\* Undisturbed, every contract object but the issuer's is initialized when its create
\* command ends, unless the guardian refuses the border.
THEOREM CreatedAreInitialized == 5 <= MaxObjects /\ SetupSpec => []CreatedIsInitialized
<1>1. CreationInv => CreatedIsInitialized  BY DEF CreationInv, PendingInv, CreatedIsInitialized
<1>. QED  BY <1>1, CreationInvariant, PTL

=============================================================================
