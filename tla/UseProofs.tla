------------------------------ MODULE UseProofs ------------------------------
(***************************************************************************)
(* Proofs about the use of tokens, for any parties, tokens and inputs, any *)
(* number of capabilities, handed on and presented by anybody, and         *)
(* transfers at any time.                                                  *)
(***************************************************************************)
EXTENDS TokenUse, FiniteSetTheorems, TLAPS

-----------------------------------------------------------------------------
(* Who is privy to a capability. *)

\* p has owned the token of c, or was handed c along a chain from a party that has.
Reached(p, c) == c.method \in OwnerOnly => \A S \in SUBSET Parties : Privy(S, c) => p \in S

\* The histories only grow: whoever was reached stays so.
LEMMA StillReached ==
  ASSUME \A t \in Tokens : once[t] \subseteq once'[t], handed \subseteq handed',
         NEW p \in Parties, NEW c, c.token \in Tokens, Reached(p, c)
  PROVE  Reached(p, c)'
<1>1. \A S : Privy(S, c)' => Privy(S, c)  BY DEF Privy
<1>. QED  BY <1>1 DEF Reached

\* A party that has owned the token is reached.
LEMMA OwnersReached ==
  ASSUME NEW p, NEW c, c.method \in OwnerOnly => p \in once[c.token]
  PROVE  Reached(p, c)
BY DEF Reached, Privy

\* What a step does that leaves tokens and histories alone and makes no capability.
LEMMA QuietInv ==
  ASSUME UseInv, UNCHANGED <<owner, made, held, once, handed>>, UseTypeOK', CommandsInv',
         \A p \in Parties : answers'[p] \subseteq held[p],
         \A p \in Parties : \A f \in files'[p] : f[2] \in OwnerOnly => p \in once[f[1]]
  PROVE  UseInv'
<1>1. HeldInv'  BY DEF UseInv, HeldInv, Privy
<1>2. OnlyOwnersUse'  BY <1>1 DEF HeldInv, OnlyOwnersUse
<1>. QED  BY <1>1, <1>2 DEF UseInv

-----------------------------------------------------------------------------
(* The capabilities. *)

\* A token makes one more capability for p.
Makes(p, c) ==
  /\ c \in Capability
  /\ c.method \in OwnerOnly => p \in once[c.token]
  /\ made' = made \cup {c}
  /\ held' = [held EXCEPT ![p] = @ \cup {c}]

LEMMA MadeCapability ==
  ASSUME UseInv, NEW p \in Parties, NEW t \in Tokens, NEW method \in Methods,
         NEW input \in Inputs \cup {Nothing}, MayMake(p, t, method),
         made' = made \cup {CreateOperationPackage(p, t, method, input)},
         held' = [held EXCEPT ![p] = @ \cup {CreateOperationPackage(p, t, method, input)}]
  PROVE  Makes(p, CreateOperationPackage(p, t, method, input))
<1>. USE DEF UseInv
<1>1. Cardinality(made) \in Nat  BY FS_CardinalityType
<1>2. Cardinality(made) + 1 \in Nat  BY <1>1
<1>3. CreateOperationPackage(p, t, method, input) \in Capability
  BY <1>2 DEF CreateOperationPackage, Capability
<1>4. CreateOperationPackage(p, t, method, input).method \in OwnerOnly
        => p \in once[CreateOperationPackage(p, t, method, input).token]
  BY DEF CreateOperationPackage, MayMake, HeldInv
<1>. QED  BY <1>3, <1>4 DEF Makes

\* Making it keeps what is known of the capabilities parties hold.
LEMMA MakesInv ==
  ASSUME UseInv, NEW p \in Parties, NEW c, Makes(p, c),
         UNCHANGED <<owner, answers, files, once, handed>>, UseTypeOK', CommandsInv'
  PROVE  UseInv'
<1>. USE DEF UseInv, Makes
<1>1. IsFiniteSet(made')  BY FS_AddElement
<1>2. HeldInv'
  <2>1. Reached(p, c)  BY OwnersReached
  <2>2. ASSUME NEW q \in Parties, NEW d \in held'[q]  PROVE Reached(q, d)
    <3>1. CASE d \in held[q]  BY <3>1 DEF HeldInv, Reached
    <3>2. CASE d \notin held[q]
      <4>1. q = p /\ d = c  BY <2>2, <3>2 DEF UseTypeOK
      <4>. QED  BY <2>1, <4>1
    <3>. QED  BY <3>1, <3>2
  <2>3. \A q \in Parties : held[q] \subseteq held'[q]  BY DEF UseTypeOK
  <2>4. \A q \in Parties : answers'[q] \subseteq held'[q]  BY <2>3 DEF HeldInv
  <2>. QED  BY <2>2, <2>4 DEF HeldInv, Reached, Privy
<1>3. OnlyOwnersUse'  BY DEF OnlyOwnersUse, Privy
<1>. QED  BY <1>1, <1>2, <1>3

\* A command asks, and the token makes the capability.
LEMMA RequestInv ==
  ASSUME UseInv, NEW p \in Parties, Request(p)
  PROVE  UseInv'
<1>. USE DEF UseInv
<1>1. /\ pc[p] = "ask" /\ task[p] \in Task
      /\ task[p].method = "do_inference" => task[p].input \in Inputs
  BY DEF Request, CommandsInv
<1>2. task[p].token \in Tokens /\ task[p].method \in Methods /\ task[p].input \in Inputs \cup {Nothing}
  BY <1>1 DEF Task
<1>3. PICK c : /\ c = CreateOperationPackage(p, task[p].token, task[p].method, task[p].input)
               /\ made' = made \cup {c} /\ hand' = [hand EXCEPT ![p] = c]
               /\ held' = [held EXCEPT ![p] = @ \cup {c}]
               /\ pc' = [pc EXCEPT ![p] = AfterCreation(task[p].method)]
               /\ task' = [task EXCEPT ![p] = Nothing]
               /\ UNCHANGED <<owner, pushed, results, files, answers, once, handed, failures>>
  BY DEF Request
<1>4. Makes(p, c)  BY <1>2, <1>3, MadeCapability DEF Request
<1>5. c.method = task[p].method /\ c.input = task[p].input
  BY <1>3 DEF CreateOperationPackage
<1>6. /\ AfterCreation(task[p].method) \in {"check", "push", "process"}
      /\ AfterCreation(task[p].method) = "push" => c.input \in Inputs
  BY <1>1, <1>5 DEF AfterCreation
<1>7. UseTypeOK'
  <2>1. made' \subseteq Capability /\ c \in made'  BY <1>3, <1>4 DEF UseTypeOK, Makes
  <2>2. hand' \in [Parties -> made' \cup {Nothing}]  BY <1>3, <2>1 DEF UseTypeOK
  <2>3. pc' \in [Parties -> {"idle", "ask", "check", "push", "process", "save"}]
    BY <1>3, <1>6 DEF UseTypeOK
  <2>4. task' \in [Parties -> Task \cup {Nothing}]  BY <1>3 DEF UseTypeOK
  <2>5. held' \in [Parties -> SUBSET made']  BY <1>3, <2>1 DEF UseTypeOK
  <2>6. answers' \in [Parties -> SUBSET made'] /\ results' \subseteq made'
    BY <1>3 DEF UseTypeOK
  <2>. QED  BY <1>3, <2>1, <2>2, <2>3, <2>4, <2>5, <2>6 DEF UseTypeOK
<1>8. CommandsInv'
  <2>1. /\ pc'[p] = AfterCreation(task[p].method) /\ hand'[p] = c /\ c \in held'[p]
        /\ c.method \in OwnerOnly => p \in once'[c.token]
    BY <1>3, <1>4 DEF UseTypeOK, Makes
  <2>2. \A q \in Parties \ {p} :
          pc'[q] = pc[q] /\ task'[q] = task[q] /\ hand'[q] = hand[q] /\ held'[q] = held[q]
    BY <1>3 DEF UseTypeOK
  <2>. QED  BY <1>3, <1>6, <2>1, <2>2 DEF CommandsInv
<1>. QED  BY <1>3, <1>4, <1>7, <1>8, MakesInv

LEMMA OpEchoInv ==
  ASSUME UseInv, NEW p \in Parties, NEW t \in Tokens, OpEcho(p, t)
  PROVE  UseInv'
<1>. USE DEF UseInv
<1>1. PICK c : /\ c = CreateOperationPackage(p, t, "echo", Nothing)
               /\ made' = made \cup {c} /\ held' = [held EXCEPT ![p] = @ \cup {c}]
               /\ UNCHANGED <<owner, pc, task, hand, pushed, results, files, answers, once,
                              handed, failures>>
  BY DEF OpEcho
<1>2. "echo" \in Methods  BY DEF Methods
<1>3. Makes(p, c)  BY <1>1, <1>2, MadeCapability DEF OpEcho
<1>4. UseTypeOK'
  <2>1. made' \subseteq Capability /\ c \in made'  BY <1>1, <1>3 DEF UseTypeOK, Makes
  <2>2. hand' \in [Parties -> made' \cup {Nothing}]  BY <1>1 DEF UseTypeOK
  <2>3. held' \in [Parties -> SUBSET made']  BY <1>1, <2>1 DEF UseTypeOK
  <2>4. answers' \in [Parties -> SUBSET made'] /\ results' \subseteq made'
    BY <1>1 DEF UseTypeOK
  <2>. QED  BY <1>1, <2>1, <2>2, <2>3, <2>4 DEF UseTypeOK
<1>5. \A q \in Parties : held[q] \subseteq held'[q]  BY <1>1 DEF UseTypeOK
<1>6. CommandsInv'  BY <1>1, <1>5 DEF CommandsInv
<1>. QED  BY <1>1, <1>3, <1>4, <1>6, MakesInv

-----------------------------------------------------------------------------
(* The guardian's part. *)

\* A command presents its own capability.
LEMMA PresentInv ==
  ASSUME UseInv, NEW p \in Parties, Present(p)
  PROVE  UseInv'
<1>. USE DEF UseInv
<1>1. pc[p] = "process" /\ hand[p] \in held[p] /\ hand[p] \in made
  BY DEF Present, CommandsInv, UseTypeOK
<1>2. /\ answers' = [answers EXCEPT ![p] = @ \cup {hand[p]}]
      /\ UNCHANGED <<owner, made, held, pushed, files, once, handed, failures>>
  BY DEF Present
<1>3. results' \subseteq made
  BY <1>1 DEF Present, ProcessCapability, UseTypeOK
<1>4. /\ \A q \in Parties \ {p} : pc'[q] = pc[q] /\ task'[q] = task[q] /\ hand'[q] = hand[q]
      /\ \/ pc'[p] = "idle"
         \/ pc'[p] = "save" /\ hand'[p] = hand[p] /\ hand[p].method \in Images
      /\ pc' \in [Parties -> {"idle", "ask", "check", "push", "process", "save"}]
      /\ task' \in [Parties -> Task \cup {Nothing}]
      /\ hand' \in [Parties -> made' \cup {Nothing}]
  <2>1. CASE hand[p].method \in Images  BY <1>2, <2>1 DEF Present, UseTypeOK
  <2>2. CASE hand[p].method \notin Images  BY <1>2, <2>2 DEF Present, End, UseTypeOK
  <2>. QED  BY <2>1, <2>2
<1>5. UseTypeOK'
  <2>1. answers' \in [Parties -> SUBSET made']  BY <1>1, <1>2 DEF UseTypeOK
  <2>. QED  BY <1>2, <1>3, <1>4, <2>1 DEF UseTypeOK
<1>6. CommandsInv'  BY <1>1, <1>2, <1>4 DEF CommandsInv
<1>7. \A q \in Parties : answers'[q] \subseteq held[q]
  BY <1>1, <1>2 DEF HeldInv, UseTypeOK
<1>. QED  BY <1>2, <1>5, <1>6, <1>7, QuietInv DEF OnlyOwnersUse

\* Whoever holds a capability presents it.
LEMMA OpProcessCapabilityInv ==
  ASSUME UseInv, NEW p \in Parties, NEW c \in held[p], OpProcessCapability(p, c)
  PROVE  UseInv'
<1>. USE DEF UseInv
<1>1. c \in made  BY DEF UseTypeOK
<1>2. /\ answers' = [answers EXCEPT ![p] = @ \cup {c}]
      /\ UNCHANGED <<owner, made, pc, task, hand, held, pushed, files, once, handed, failures>>
  BY DEF OpProcessCapability
<1>3. results' \subseteq made
  BY <1>1 DEF OpProcessCapability, ProcessCapability, UseTypeOK
<1>4. UseTypeOK'
  <2>1. answers' \in [Parties -> SUBSET made']  BY <1>1, <1>2 DEF UseTypeOK
  <2>. QED  BY <1>2, <1>3, <2>1 DEF UseTypeOK
<1>5. CommandsInv'  BY <1>2 DEF CommandsInv
<1>6. \A q \in Parties : answers'[q] \subseteq held[q]
  BY <1>2 DEF HeldInv, UseTypeOK
<1>. QED  BY <1>2, <1>4, <1>5, <1>6, QuietInv DEF OnlyOwnersUse

\* An image is saved under the capability the command itself had made.
LEMMA SaveImageInv ==
  ASSUME UseInv, NEW p \in Parties, SaveImage(p)
  PROVE  UseInv'
<1>. USE DEF UseInv
<1>1. /\ pc[p] = "save" /\ hand[p] \in made /\ hand[p].method \in Images
      /\ hand[p].method \in OwnerOnly => p \in once[hand[p].token]
  BY DEF SaveImage, CommandsInv, UseTypeOK
<1>2. hand[p].token \in Tokens  BY <1>1 DEF UseTypeOK, Capability
<1>3. /\ files' = [files EXCEPT ![p] = @ \cup {<<hand[p].token, hand[p].method>>}]
      /\ pc' = [pc EXCEPT ![p] = "idle"]
      /\ task' = [task EXCEPT ![p] = Nothing] /\ hand' = [hand EXCEPT ![p] = Nothing]
      /\ UNCHANGED <<owner, made, held, pushed, results, answers, once, handed, failures>>
  BY DEF SaveImage, End
<1>4. UseTypeOK'
  <2>1. files' \in [Parties -> SUBSET (Tokens \X Images)]  BY <1>1, <1>2, <1>3 DEF UseTypeOK
  <2>2. /\ pc' \in [Parties -> {"idle", "ask", "check", "push", "process", "save"}]
        /\ task' \in [Parties -> Task \cup {Nothing}]
        /\ hand' \in [Parties -> made' \cup {Nothing}]
    BY <1>3 DEF UseTypeOK
  <2>. QED  BY <1>3, <2>1, <2>2 DEF UseTypeOK
<1>5. CommandsInv'  BY <1>3 DEF CommandsInv, UseTypeOK
<1>6. \A q \in Parties : \A f \in files'[q] : f[2] \in OwnerOnly => q \in once[f[1]]
  BY <1>1, <1>3 DEF OnlyOwnersUse, UseTypeOK
<1>7. \A q \in Parties : answers'[q] \subseteq held[q]  BY <1>3 DEF HeldInv
<1>. QED  BY <1>3, <1>4, <1>5, <1>6, <1>7, QuietInv

\* Whatever else a command does leaves what was given out as it is.
LEMMA OtherStepInv ==
  ASSUME UseInv, NEW p \in Parties,
         \/ CheckGuardian(p) \/ PushInput(p) \/ Refused(p) \/ Fail(p)
         \/ \E t \in Tokens, method \in Methods, input \in Inputs \cup {Nothing} :
              /\ method = "do_inference" => input \in Inputs
              /\ Start(p, t, method, input)
  PROVE  UseInv'
<1>. USE DEF UseInv
<1>1. UNCHANGED <<owner, made, held, results, files, answers, once, handed>>
  BY DEF CheckGuardian, PushInput, Refused, Fail, Stop, Start
<1>2. /\ \A q \in Parties \ {p} : pc'[q] = pc[q] /\ task'[q] = task[q] /\ hand'[q] = hand[q]
      /\ \/ pc'[p] = "idle"
         \/ pc[p] \notin {"idle", "ask"} /\ pc'[p] = "process" /\ hand'[p] = hand[p]
         \/ /\ pc'[p] = "ask" /\ task'[p] \in Task
            /\ task'[p].method = "do_inference" => task'[p].input \in Inputs
      /\ pc' \in [Parties -> {"idle", "ask", "check", "push", "process", "save"}]
      /\ task' \in [Parties -> Task \cup {Nothing}]
      /\ hand' \in [Parties -> made \cup {Nothing}]
  <2>1. CASE CheckGuardian(p) \/ PushInput(p)  BY <2>1 DEF CheckGuardian, PushInput, UseTypeOK
  <2>2. CASE Refused(p) \/ Fail(p)  BY <2>2 DEF Refused, Fail, Stop, End, UseTypeOK
  <2>3. CASE \E t \in Tokens, method \in Methods, input \in Inputs \cup {Nothing} :
               /\ method = "do_inference" => input \in Inputs
               /\ Start(p, t, method, input)
    <3>1. PICK t \in Tokens, method \in Methods, input \in Inputs \cup {Nothing} :
            /\ method = "do_inference" => input \in Inputs
            /\ Start(p, t, method, input)
      BY <2>3
    <3>2. [token |-> t, method |-> method, input |-> input] \in Task  BY DEF Task
    <3>. QED  BY <3>1, <3>2 DEF Start, UseTypeOK
  <2>. QED  BY <2>1, <2>2, <2>3
<1>3. pushed' \subseteq Inputs
  BY DEF CommandsInv, UseTypeOK, CheckGuardian, PushInput, Refused, Fail, Stop, Start
<1>4. failures' \in 0 .. MaxFailures
  BY UseAssumption DEF UseTypeOK, CheckGuardian, PushInput, Refused, Fail, Stop, Start
<1>5. UseTypeOK'  BY <1>1, <1>2, <1>3, <1>4 DEF UseTypeOK
<1>6. CommandsInv'  BY <1>1, <1>2 DEF CommandsInv
<1>7. \A q \in Parties : answers'[q] \subseteq held[q]  BY <1>1 DEF HeldInv
<1>. QED  BY <1>1, <1>5, <1>6, <1>7, QuietInv DEF OnlyOwnersUse

-----------------------------------------------------------------------------
(* Capabilities and tokens that change hands. *)

\* Handing a capability on lengthens the chain that reaches its bearers.
LEMMA HandOnInv ==
  ASSUME UseInv, NEW p \in Parties, NEW q \in Parties, NEW c \in held[p], HandOn(p, q, c)
  PROVE  UseInv'
<1>. USE DEF UseInv
<1>1. /\ held' = [held EXCEPT ![q] = @ \cup {c}]
      /\ handed' = handed \cup {[cap |-> c, from |-> p, to |-> q]}
      /\ UNCHANGED <<owner, made, pc, task, hand, pushed, results, files, answers, once, failures>>
  BY DEF HandOn
<1>2. c \in made /\ c \in Capability  BY DEF UseTypeOK
<1>3. \A r \in Parties : held[r] \subseteq held'[r]  BY <1>1 DEF UseTypeOK
<1>4. UseTypeOK'
  <2>1. held' \in [Parties -> SUBSET made']  BY <1>1, <1>2 DEF UseTypeOK
  <2>2. handed' \subseteq Handing  BY <1>1, <1>2 DEF UseTypeOK, Handing
  <2>. QED  BY <1>1, <2>1, <2>2 DEF UseTypeOK
<1>5. CommandsInv'  BY <1>1, <1>3 DEF CommandsInv
<1>6. HeldInv'
  <2>1. ASSUME NEW r \in Parties, NEW d \in held[r]  PROVE Reached(r, d)'
    <3>1. Reached(r, d)  BY DEF HeldInv, Reached
    <3>2. d.token \in Tokens  BY DEF UseTypeOK, Capability
    <3>. QED  BY <1>1, <3>1, <3>2, StillReached
  <2>2. Reached(q, c)'
    <3>1. SUFFICES ASSUME c.method \in OwnerOnly, NEW S \in SUBSET Parties, Privy(S, c)'
                   PROVE  q \in S
      BY DEF Reached
    <3>2. p \in S  BY <2>1, <3>1 DEF Reached
    <3>3. [cap |-> c, from |-> p, to |-> q] \in handed'  BY <1>1
    <3>. QED  BY <3>1, <3>2, <3>3 DEF Privy
  <2>3. ASSUME NEW r \in Parties, NEW d \in held'[r]  PROVE Reached(r, d)'
    <3>1. CASE d \in held[r]  BY <2>1, <3>1
    <3>2. CASE d \notin held[r]
      <4>1. r = q /\ d = c  BY <1>1, <2>3, <3>2 DEF UseTypeOK
      <4>. QED  BY <2>2, <4>1
    <3>. QED  BY <3>1, <3>2
  <2>4. \A r \in Parties : answers'[r] \subseteq held'[r]  BY <1>1, <1>3 DEF HeldInv
  <2>. QED  BY <1>1, <2>3, <2>4 DEF HeldInv, Reached
<1>7. OnlyOwnersUse'  BY <1>1, <1>6 DEF HeldInv, OnlyOwnersUse
<1>. QED  BY <1>1, <1>4, <1>5, <1>6, <1>7

\* Once an owner, always once an owner.
LEMMA TransferTokenInv ==
  ASSUME UseInv, NEW p \in Parties, NEW t \in Tokens, NEW q \in Parties,
         TransferToken(p, t, q)
  PROVE  UseInv'
<1>. USE DEF UseInv
<1>1. /\ owner' = [owner EXCEPT ![t] = q] /\ once' = [once EXCEPT ![t] = @ \cup {q}]
      /\ UNCHANGED <<made, pc, task, hand, held, pushed, results, files, answers, handed, failures>>
  BY DEF TransferToken
<1>2. \A u \in Tokens : once[u] \subseteq once'[u] /\ owner'[u] \in once'[u]
  BY <1>1 DEF HeldInv, UseTypeOK
<1>3. UseTypeOK'
  <2>1. owner' \in [Tokens -> Parties] /\ once' \in [Tokens -> SUBSET Parties]
    BY <1>1 DEF UseTypeOK
  <2>. QED  BY <1>1, <2>1 DEF UseTypeOK
<1>4. CommandsInv'
  <2>1. \A r \in Parties : pc[r] \notin {"idle", "ask"} => hand[r].token \in Tokens
    BY DEF CommandsInv, UseTypeOK, Capability
  <2>. QED  BY <1>1, <1>2, <2>1 DEF CommandsInv
<1>5. HeldInv'
  <2>1. ASSUME NEW r \in Parties, NEW d \in held[r]  PROVE Reached(r, d)'
    <3>1. Reached(r, d)  BY DEF HeldInv, Reached
    <3>2. d.token \in Tokens  BY DEF UseTypeOK, Capability
    <3>. QED  BY <1>1, <1>2, <3>1, <3>2, StillReached
  <2>. QED  BY <1>1, <1>2, <2>1 DEF HeldInv, Reached
<1>6. OnlyOwnersUse'
  <2>1. \A r \in Parties : \A f \in files[r] : f[1] \in Tokens  BY DEF UseTypeOK
  <2>2. \A r \in Parties : \A f \in files'[r] : f[2] \in OwnerOnly => r \in once'[f[1]]
    BY <1>1, <1>2, <2>1 DEF OnlyOwnersUse
  <2>. QED  BY <1>5, <2>2 DEF HeldInv, OnlyOwnersUse
<1>. QED  BY <1>1, <1>3, <1>4, <1>5, <1>6

-----------------------------------------------------------------------------
(* Theorems. *)

LEMMA UseInitInv == UseInit => UseInv
<1>. SUFFICES ASSUME UseInit PROVE UseInv
  OBVIOUS
<1>. USE DEF UseInit
<1>1. UseTypeOK  BY UseAssumption DEF UseTypeOK
<1>2. IsFiniteSet(made)  BY FS_EmptySet
<1>. QED
  BY <1>1, <1>2 DEF UseInv, CommandsInv, HeldInv, OnlyOwnersUse

LEMMA UseNextInv ==
  ASSUME UseInv, [UseNext]_useVars
  PROVE  UseInv'
<1>1. CASE UNCHANGED useVars
  BY <1>1 DEF useVars, UseInv, UseTypeOK, CommandsInv, HeldInv, Privy, OnlyOwnersUse
<1>2. CASE UseNext
  <2>1. PICK p \in Parties :
          \/ \E t \in Tokens :
               \/ Echo(p, t) \/ GetImageMetadata(p, t)
               \/ GetPublicImage(p, t) \/ GetOriginalImage(p, t)
               \/ \E input \in Inputs : DoInference(p, t, input)
               \/ OpEcho(p, t)
               \/ \E q \in Parties : TransferToken(p, t, q)
          \/ \E c \in held[p] :
               OpProcessCapability(p, c) \/ \E q \in Parties : HandOn(p, q, c)
          \/ Proceed(p) \/ Refused(p) \/ Fail(p)
    BY <1>2 DEF UseNext
  <2>2. ASSUME NEW t \in Tokens,
               Echo(p, t) \/ GetImageMetadata(p, t)
               \/ GetPublicImage(p, t) \/ GetOriginalImage(p, t)
        PROVE  UseInv'
    BY <2>2, OtherStepInv DEF Echo, GetImageMetadata, GetPublicImage, GetOriginalImage, Methods
  <2>3. ASSUME NEW t \in Tokens, NEW input \in Inputs, DoInference(p, t, input)
        PROVE  UseInv'
    BY <2>3, OtherStepInv DEF DoInference, Methods
  <2>4. ASSUME Proceed(p)  PROVE UseInv'
    BY <2>4, RequestInv, PresentInv, SaveImageInv, OtherStepInv DEF Proceed
  <2>5. ASSUME NEW c \in held[p],
               OpProcessCapability(p, c) \/ \E q \in Parties : HandOn(p, q, c)
        PROVE  UseInv'
    BY <2>5, OpProcessCapabilityInv, HandOnInv
  <2>. QED
    BY <2>1, <2>2, <2>3, <2>4, <2>5, OpEchoInv, TransferTokenInv, OtherStepInv
<1>. QED  BY <1>1, <1>2

\* However commands, transfers and handings-on interleave, every capability for
\* owners only is held by parties its token was owned by, or to whom it came along a
\* chain from one of them, and commands go on with capabilities of their own.
THEOREM UseInvariant == UseSpec => []UseInv
BY UseInitInv, UseNextInv, PTL DEF UseSpec

\* Though the guardian asks no bearer who they are: what is for owners only reaches
\* owners, past owners and whom they handed a capability, and no one else.
THEOREM OwnersUse == UseSpec => []OnlyOwnersUse
<1>1. UseInv => OnlyOwnersUse  BY DEF UseInv
<1>. QED  BY UseInvariant, <1>1, PTL
=============================================================================
