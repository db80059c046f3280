------------------------------ MODULE TokenUse ------------------------------
(***************************************************************************)
(* Using what a token stands for.  A command of the token_object plugins   *)
(* (exchange, digital asset, inference) has the token object make a        *)
(* capability and presents it to the guardian, which checks that the token *)
(* made it, and deliberately not who presents it: a capability can be      *)
(* handed on, and its bearer present it with process_capability.  Image    *)
(* operations leave their result in a key-value store the client then      *)
(* reads; inference pushes its input to the storage service of the         *)
(* guardian first.  Parties run these commands, hand capabilities on and   *)
(* transfer tokens at the same time.                                       *)
(***************************************************************************)
EXTENDS Naturals, FiniteSets

CONSTANTS
  Parties,
  Users,          \* those that have the contract files: they run commands and own tokens
  Tokens,         \* minted, initialized tokens of one guardian
  FirstOwner,     \* who minted them
  Inputs,         \* images to do inference on
  Configured,     \* parties whose context gives the guardian their identity
  Nothing,
  MaxRequests,    \* bound: capabilities made
  MaxHandings,    \* bound: times a capability is handed on
  MaxFailures     \* bound: spontaneous failures

Methods == {"echo", "get_image_metadata", "get_public_image", "get_original_image", "do_inference"}
OwnerOnly == Methods \ {"get_public_image"}
Images == {"get_public_image", "get_original_image"}

\* What a command asks of a token.
Task == [token : Tokens, method : Methods, input : Inputs \cup {Nothing}]

\* A capability: its random request identifier, the token, and the operation.
Capability ==
  [id : Nat, token : Tokens, method : Methods, input : Inputs \cup {Nothing}]

\* p handed c on to q.
Handing == [cap : Capability, from : Parties, to : Parties]

ASSUME UseAssumption ==
  /\ FirstOwner \in Users /\ Users \subseteq Parties /\ Configured \subseteq Users
  /\ Nothing \notin Capability /\ Nothing \notin Task
  /\ MaxRequests \in Nat /\ MaxHandings \in Nat /\ MaxFailures \in Nat

VARIABLES
  owner,      \* the owner of each token object
  made,       \* capabilities made so far
  pc,         \* what each party's command does next
  task,       \* what the command was given to do
  hand,       \* the capability the command goes on with
  held,       \* capabilities each party had made, which the log shows, or was handed
  pushed,     \* inputs at the guardian's storage service
  results,    \* capabilities whose result store exists
  files,      \* images each party has saved
  answers,    \* capabilities whose answer each party got
  once,       \* history: who has owned each token so far
  handed,     \* history: who handed which capability on to whom
  failures

useVars ==
  <<owner, made, pc, task, hand, held, pushed, results, files, answers, once, handed, failures>>

UseTypeOK ==
  /\ owner \in [Tokens -> Parties]
  /\ made \subseteq Capability
  /\ pc \in [Parties -> {"idle", "ask", "check", "push", "process", "save"}]
  /\ task \in [Parties -> Task \cup {Nothing}]
  /\ hand \in [Parties -> made \cup {Nothing}]
  /\ held \in [Parties -> SUBSET made]
  /\ pushed \subseteq Inputs
  /\ results \subseteq made
  /\ files \in [Parties -> SUBSET (Tokens \X Images)]
  /\ answers \in [Parties -> SUBSET made]
  /\ once \in [Tokens -> SUBSET Parties]
  /\ handed \subseteq Handing
  /\ failures \in 0 .. MaxFailures

UseInit ==
  /\ owner = [t \in Tokens |-> FirstOwner]
  /\ made = {}
  /\ pc = [p \in Parties |-> "idle"]
  /\ task = [p \in Parties |-> Nothing]
  /\ hand = [p \in Parties |-> Nothing]
  /\ held = [p \in Parties |-> {}]
  /\ pushed = {} /\ results = {}
  /\ files = [p \in Parties |-> {}]
  /\ answers = [p \in Parties |-> {}]
  /\ once = [t \in Tokens |-> {FirstOwner}]
  /\ handed = {}
  /\ failures = 0

-----------------------------------------------------------------------------
(* The contracts. *)

\* Mutants of MayMake: everybody may make every capability; only the owner may.
AnyoneMayMake(p, t, method) == method \in Methods
OwnersMayMake(p, t, method) == method \in Methods /\ owner[t] = p

\* The token object makes capabilities for its owner, and for the public image
\* for anybody.
MayMake(p, t, method) == method \in OwnerOnly => owner[t] = p

CreateOperationPackage(p, t, method, input) ==
  [id |-> Cardinality(made) + 1, token |-> t, method |-> method, input |-> input]

\* The guardian performs what a capability of one of its tokens asks for, whoever
\* presents it.  Inference opens the store with the input.
ProcessCapability(c) ==
  /\ c.method = "do_inference" => c.input \in pushed
  /\ results' = results \cup {r \in {c} : r.method \in Images}

-----------------------------------------------------------------------------
(* The commands: echo, get_image_metadata, get_public_image,                  *)
(* get_original_image, do_inference.                                          *)

\* Bound: a command that has its capability to ask for counts as well.
RequestsLeft == Cardinality(made) + Cardinality({p \in Parties : pc[p] = "ask"}) < MaxRequests

\* Somebody starts a command, with any token whose contract file they have.
Start(p, t, method, input) ==
  /\ p \in Users /\ pc[p] = "idle" /\ RequestsLeft
  /\ task' = [task EXCEPT ![p] = [token |-> t, method |-> method, input |-> input]]
  /\ pc' = [pc EXCEPT ![p] = "ask"]
  /\ UNCHANGED <<owner, made, hand, held, pushed, results, files, answers, once, handed, failures>>

Echo(p, t) == Start(p, t, "echo", Nothing)
GetImageMetadata(p, t) == Start(p, t, "get_image_metadata", Nothing)
GetPublicImage(p, t) == Start(p, t, "get_public_image", Nothing)
GetOriginalImage(p, t) == Start(p, t, "get_original_image", Nothing)
DoInference(p, t, input) == Start(p, t, "do_inference", input)

\* The command ends: what it was about is forgotten.
End(p) ==
  /\ pc' = [pc EXCEPT ![p] = "idle"]
  /\ task' = [task EXCEPT ![p] = Nothing] /\ hand' = [hand EXCEPT ![p] = Nothing]

AfterCreation(method) ==
  CASE method = "echo" -> "check"
    [] method = "do_inference" -> "push"
    [] OTHER -> "process"

\* The first transaction of a command; its log shows the capability.
Request(p) ==
  /\ pc[p] = "ask"
  /\ MayMake(p, task[p].token, task[p].method)
  /\ LET c == CreateOperationPackage(p, task[p].token, task[p].method, task[p].input) IN
       /\ made' = made \cup {c}
       /\ hand' = [hand EXCEPT ![p] = c]
       /\ held' = [held EXCEPT ![p] = @ \cup {c}]
  /\ pc' = [pc EXCEPT ![p] = AfterCreation(task[p].method)]
  /\ task' = [task EXCEPT ![p] = Nothing]
  /\ UNCHANGED <<owner, pushed, results, files, answers, once, handed, failures>>

\* The echo command checks the guardian's context once it has the capability.
CheckGuardian(p) ==
  /\ pc[p] = "check" /\ p \in Configured
  /\ pc' = [pc EXCEPT ![p] = "process"]
  /\ UNCHANGED <<owner, made, task, hand, held, pushed, results, files, answers, once, handed, failures>>

PushInput(p) ==
  /\ pc[p] = "push"
  /\ pushed' = pushed \cup {hand[p].input}
  /\ pc' = [pc EXCEPT ![p] = "process"]
  /\ UNCHANGED <<owner, made, task, hand, held, results, files, answers, once, handed, failures>>

\* The second transaction, or the call of the guardian service.
Present(p) ==
  /\ pc[p] = "process"
  /\ ProcessCapability(hand[p])
  /\ answers' = [answers EXCEPT ![p] = @ \cup {hand[p]}]
  /\ IF hand[p].method \in Images
       THEN pc' = [pc EXCEPT ![p] = "save"] /\ UNCHANGED <<task, hand>>
       ELSE End(p)
  /\ UNCHANGED <<owner, made, held, pushed, files, once, handed, failures>>

\* The client reads the store the answer named.
SaveImage(p) ==
  /\ pc[p] = "save" /\ hand[p] \in results
  /\ files' = [files EXCEPT ![p] = @ \cup {<<hand[p].token, hand[p].method>>}]
  /\ End(p)
  /\ UNCHANGED <<owner, made, held, pushed, results, answers, once, handed, failures>>

Proceed(p) == Request(p) \/ CheckGuardian(p) \/ PushInput(p) \/ Present(p) \/ SaveImage(p)

\* The shell operations echo and process_capability are the two halves on their own:
\* the user gets the capability, and whoever has one may present it at any time, and
\* again.
OpEcho(p, t) ==
  /\ p \in Users /\ RequestsLeft
  /\ MayMake(p, t, "echo")
  /\ LET c == CreateOperationPackage(p, t, "echo", Nothing) IN
       made' = made \cup {c} /\ held' = [held EXCEPT ![p] = @ \cup {c}]
  /\ UNCHANGED <<owner, pc, task, hand, pushed, results, files, answers, once, handed, failures>>

OpProcessCapability(p, c) ==
  /\ c \in held[p]
  /\ ProcessCapability(c)
  /\ answers' = [answers EXCEPT ![p] = @ \cup {c}]
  /\ UNCHANGED <<owner, made, pc, task, hand, held, pushed, files, once, handed, failures>>

\* A capability is plain data: whoever has one can give it to anybody.
HandOn(p, q, c) ==
  /\ c \in held[p] /\ c \notin held[q]
  /\ Cardinality(handed) < MaxHandings
  /\ held' = [held EXCEPT ![q] = @ \cup {c}]
  /\ handed' = handed \cup {[cap |-> c, from |-> p, to |-> q]}
  /\ UNCHANGED <<owner, made, pc, task, hand, pushed, results, files, answers, once, failures>>

\* The owner hands the token on, from this process or another.
TransferToken(p, t, q) ==
  /\ owner[t] = p /\ q \in Users \ {p}
  /\ owner' = [owner EXCEPT ![t] = q]
  /\ once' = [once EXCEPT ![t] = @ \cup {q}]
  /\ UNCHANGED <<made, pc, task, hand, held, pushed, results, files, answers, handed, failures>>

Stop(p) ==
  /\ pc[p] # "idle"
  /\ End(p)
  /\ UNCHANGED <<owner, made, held, pushed, results, files, answers, once, handed>>

\* The inference service may still know the identifier of what a bearer presented.
Presented(c) == c.method = "do_inference" /\ \E p \in Parties : c \in answers[p]

\* The token, the context check or the guardian refuses.
Refused(p) ==
  /\ \/ ~ ENABLED Proceed(p)
     \/ pc[p] = "process" /\ Presented(hand[p])
  /\ Stop(p) /\ UNCHANGED failures

Fail(p) == failures < MaxFailures /\ Stop(p) /\ failures' = failures + 1

UseNext ==
  \E p \in Parties :
    \/ \E t \in Tokens :
         \/ Echo(p, t) \/ GetImageMetadata(p, t) \/ GetPublicImage(p, t) \/ GetOriginalImage(p, t)
         \/ \E input \in Inputs : DoInference(p, t, input)
         \/ OpEcho(p, t)
         \/ \E q \in Parties : TransferToken(p, t, q)
    \/ \E c \in held[p] :
         OpProcessCapability(p, c) \/ \E q \in Parties : HandOn(p, q, c)
    \/ Proceed(p) \/ Refused(p) \/ Fail(p)

UseSpec == UseInit /\ [][UseNext]_useVars

\* Commands go on or end.
UseFairness == \A p \in Parties : WF_useVars(Proceed(p)) /\ WF_useVars(Refused(p))

UseFairSpec == UseSpec /\ UseFairness

-----------------------------------------------------------------------------
(* Properties. *)

\* S holds every party that has owned the token of c, and whoever one of S handed c to.
Privy(S, c) ==
  /\ once[c.token] \subseteq S
  /\ \A h \in handed : h.cap = c /\ h.from \in S => h.to \in S

\* The guardian asks nobody who they are.  All the same, however commands, transfers
\* and handings-on interleave, whoever has an answer that is for owners only has
\* owned the token, or was handed the capability along a chain that a party that
\* did began; and the original image is saved by parties that have owned the token.
OnlyOwnersUse ==
  \A p \in Parties :
    /\ \A c \in answers[p] :
         c.method \in OwnerOnly => \A S \in SUBSET Parties : Privy(S, c) => p \in S
    /\ \A f \in files[p] : f[2] \in OwnerOnly => p \in once[f[1]]

\* "Anyone is allowed to get the public image": whoever asks a token for it, owner
\* or not, and whatever becomes of the token meanwhile, saves it unless a command
\* is disturbed.
PublicAvailable ==
  \A p \in Parties, t \in Tokens :
    pc[p] = "ask" /\ task[p].method = "get_public_image" /\ task[p].token = t
      ~> <<t, "get_public_image">> \in files[p] \/ failures > 0

-----------------------------------------------------------------------------
(* The inductive invariant behind OnlyOwnersUse.                             *)

\* A command that asks has something to ask for; one under way has a capability
\* that it had made, with an input where it pushes one, and for an image where it
\* saves one.
CommandsInv ==
  \A p \in Parties :
    /\ pc[p] = "ask" => task[p] \in Task /\ (task[p].method = "do_inference" => task[p].input \in Inputs)
    /\ pc[p] \notin {"idle", "ask"} =>
         /\ hand[p] \in held[p]
         /\ hand[p].method \in OwnerOnly => p \in once[hand[p].token]
    /\ pc[p] = "push" => hand[p].input \in Inputs
    /\ pc[p] = "save" => hand[p].method \in Images

\* Whoever holds a capability that is for owners only is privy to it.
HeldInv ==
  /\ \A t \in Tokens : owner[t] \in once[t]
  /\ \A p \in Parties : \A c \in held[p] :
       c.method \in OwnerOnly => \A S \in SUBSET Parties : Privy(S, c) => p \in S
  /\ \A p \in Parties : answers[p] \subseteq held[p]

UseInv == UseTypeOK /\ IsFiniteSet(made) /\ CommandsInv /\ HeldInv /\ OnlyOwnersUse
=============================================================================
