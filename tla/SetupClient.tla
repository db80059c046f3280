----------------------------- MODULE SetupClient -----------------------------
(***************************************************************************)
(* Setting up an asset family or a token family: the create, approve and   *)
(* initialize commands of the asset_type, vetting, issuer, token_issuer    *)
(* and guardian plugins, and the notebooks that call them.  A command      *)
(* invokes contracts one transaction at a time and calls other commands    *)
(* for the contract objects it needs; what a user has done is remembered   *)
(* only in the context, where the commands look for a save file, and in    *)
(* the context file, which only the notebooks write.  A command can end at *)
(* any step, when a contract refuses it or something fails.  The guardian  *)
(* guards data, or an image of which a border is hidden.                   *)
(***************************************************************************)
EXTENDS Naturals, Sequences, FiniteSets

CONSTANTS
  MaxObjects,    \* bound: contract objects created
  MaxFailures,   \* bound: spontaneous failures and restarts
  ImageSize,     \* the smaller side of the image that a guardian is made for
  Word,          \* number of values of a uint32_t
  Borders,       \* the hidden borders a user may choose
  NoImage        \* the border in the context of a guardian for data

ASSUME SetupAssumption ==
  /\ MaxObjects \in Nat /\ MaxFailures \in Nat
  /\ ImageSize \in Nat /\ Word \in Nat \ {0}
  /\ Borders \subseteq 0 .. Word - 1 /\ NoImage \notin Nat

Contexts == {"asset_type", "vetting", "issuer", "guardian", "token_issuer"}
Issuing == {"issuer", "token_issuer"}
Objects == 1 .. MaxObjects
NoObject == 0

VARIABLES
  made,       \* number of contract objects created so far
  ready,      \* the objects that are initialized
  vets,       \* <<vetting organization, the asset type it vets>>
  approved,   \* <<vetting organization, issuer it approved>>
  chain,      \* <<issuer, vetting organization its authority comes from>>
  endpoints,  \* <<guardian, token issuer registered with it>>
  managed,    \* <<token issuer, guardian whose management key it holds>>
  border,     \* image_border of the guardian context, fixed here
  context,    \* save_file of each context: the object it stands for
  notes,      \* other entries of the issuer context
  file,       \* context and notes as the context file has them
  todo,       \* the steps the running command still has to make
  failures    \* failures so far

contracts == <<made, ready, vets, approved, chain, endpoints, managed>>
setupVars == <<contracts, border, context, notes, file, todo, failures>>

Operations ==
  {"create", "deploy", "initialize", "type_identifier", "verifying_key", "approve",
   "authority", "add_endpoint", "provision", "push", "mark", "save"}
Steps == Operations \X Contexts

Remembered == [context : [Contexts -> 0 .. made], notes : SUBSET {"verifying_key", "initialized"}]

SetupTypeOK ==
  /\ made \in 0 .. MaxObjects
  /\ ready \subseteq 1 .. made
  /\ \A r \in {vets, approved, chain, endpoints, managed} : r \subseteq (1 .. made) \X (1 .. made)
  /\ border \in Borders \cup {NoImage}
  /\ [context |-> context, notes |-> notes] \in Remembered
  /\ file \in Remembered
  /\ todo \in Seq(Steps)
  /\ failures \in 0 .. MaxFailures

SetupInit ==
  /\ made = 0
  /\ ready = {} /\ vets = {} /\ approved = {} /\ chain = {} /\ endpoints = {} /\ managed = {}
  /\ border \in Borders \cup {NoImage}
  /\ context = [c \in Contexts |-> NoObject] /\ notes = {}
  /\ file = [context |-> context, notes |-> notes]
  /\ todo = <<>>
  /\ failures = 0

-----------------------------------------------------------------------------
(* The commands, as the steps they make.  A "create" step is a call of the    *)
(* create command of another plugin.                                         *)

CreateAssetType == << <<"deploy", "asset_type">>, <<"initialize", "asset_type">> >>

CreateVetting ==
  << <<"create", "asset_type">>, <<"type_identifier", "asset_type">>,
     <<"deploy", "vetting">>, <<"initialize", "vetting">> >>

\* Mutant of CreateIssuer: the verifying key is not kept.
CreateIssuerOnly == << <<"deploy", "issuer">> >>

CreateIssuer == << <<"deploy", "issuer">>, <<"verifying_key", "issuer">> >>

\* Mutant of CreateGuardian: the guardian is not initialized.
CreateGuardianOnly == << <<"deploy", "guardian">> >>

CreateGuardian == << <<"deploy", "guardian">>, <<"initialize", "guardian">> >>

\* The guardian of an image: a store with the image is pushed to the service.
CreateImageGuardian ==
  << <<"deploy", "guardian">>, <<"push", "guardian">>, <<"initialize", "guardian">> >>

ProvisionIssuer ==
  << <<"create", "guardian">>, <<"add_endpoint", "guardian">>, <<"provision", "guardian">> >>

ApproveIssuer(c) == << <<"create", "vetting">>, <<"approve", c>> >>

CreateTokenIssuer ==
  << <<"deploy", "token_issuer">> >> \o ProvisionIssuer \o << <<"create", "vetting">> >>
     \o ApproveIssuer("token_issuer")
     \o << <<"authority", "token_issuer">>, <<"initialize", "token_issuer">> >>

InitializeIssuer == << <<"authority", "issuer">>, <<"initialize", "issuer">> >>

Body ==
  [c \in Contexts |->
     CASE c = "asset_type" -> CreateAssetType
       [] c = "vetting" -> CreateVetting
       [] c = "issuer" -> CreateIssuer
       [] c = "guardian" -> IF border = NoImage THEN CreateGuardian ELSE CreateImageGuardian
       [] c = "token_issuer" -> CreateTokenIssuer]

Initialized == "initialized" \in notes

\* Each contract is created and the file saved; then the issuer is approved, and
\* initialized unless the context says that it was.
IssuerNotebook ==
  << <<"create", "asset_type">>, <<"save", "asset_type">>, <<"create", "vetting">>,
     <<"save", "vetting">>, <<"create", "issuer">>, <<"save", "issuer">> >>
     \o ApproveIssuer("issuer")
     \o IF Initialized THEN <<>>
        ELSE InitializeIssuer \o << <<"mark", "issuer">>, <<"save", "issuer">> >>

TokenIssuerNotebook == << <<"create", "token_issuer">>, <<"save", "token_issuer">> >>

-----------------------------------------------------------------------------
(* The steps. *)

At(op, c) == todo # <<>> /\ Head(todo) = <<op, c>>
Object(c) == context[c]
Proceed == todo' = Tail(todo) /\ UNCHANGED <<border, file, failures>>

\* A create command returns at once when the context has a save file.
Create(c) ==
  /\ At("create", c)
  /\ todo' = (IF Object(c) = NoObject THEN Body[c] ELSE <<>>) \o Tail(todo)
  /\ UNCHANGED <<contracts, border, context, notes, file, failures>>

\* A new contract object; the context refers to it from now on.
Deploy(c) ==
  /\ At("deploy", c)
  /\ made < MaxObjects
  /\ made' = made + 1
  /\ context' = [context EXCEPT ![c] = made + 1]
  /\ Proceed
  /\ UNCHANGED <<ready, vets, approved, chain, endpoints, managed, notes>>

Start(c) ==
  /\ At("initialize", c)
  /\ Object(c) \notin ready
  /\ ready' = ready \cup {Object(c)}
  /\ Proceed

InitializeAssetType ==
  /\ Start("asset_type")
  /\ UNCHANGED <<made, vets, approved, chain, endpoints, managed, context, notes>>

GetTypeIdentifier ==
  /\ At("type_identifier", "asset_type")
  /\ Object("asset_type") \in ready
  /\ Proceed
  /\ UNCHANGED <<contracts, context, notes>>

InitializeVetting ==
  /\ Start("vetting")
  /\ vets' = vets \cup {<<Object("vetting"), Object("asset_type")>>}
  /\ UNCHANGED <<made, approved, chain, endpoints, managed, context, notes>>

PushImage ==
  /\ At("push", "guardian")
  /\ Proceed
  /\ UNCHANGED <<contracts, context, notes>>

\* The command takes a border of 0 for none given, and then uses 10.
BorderUsed == IF border = 0 THEN 10 ELSE border

\* The contract refuses a border that leaves nothing of the image, unless twice the
\* border wraps around.
BorderFits == 0 < BorderUsed /\ (2 * BorderUsed) % Word < ImageSize
BorderRefused == border # NoImage /\ ~ BorderFits

InitializeGuardian ==
  /\ Start("guardian")
  /\ ~ BorderRefused
  /\ UNCHANGED <<made, vets, approved, chain, endpoints, managed, context, notes>>

KeepVerifyingKey ==
  /\ At("verifying_key", "issuer")
  /\ notes' = notes \cup {"verifying_key"}
  /\ Proceed
  /\ UNCHANGED <<contracts, context>>

\* Given an issuer's context label, the command needs the verifying key that the
\* context keeps: where it is missing, the command fails.
Approvable(c) ==
  /\ c = "issuer" => "verifying_key" \in notes
  /\ Object("vetting") \in ready

Approve(c) ==
  /\ At("approve", c)
  /\ Approvable(c)
  /\ approved' = approved \cup {<<Object("vetting"), Object(c)>>}
  /\ Proceed
  /\ UNCHANGED <<made, ready, vets, chain, endpoints, managed, context, notes>>

\* Mutant of GetAuthority: an authority for whoever asks.
GetAnyAuthority(c) ==
  /\ At("authority", c)
  /\ Object("vetting") \in ready
  /\ Proceed
  /\ UNCHANGED <<contracts, context, notes>>

Authorized(c) ==
  /\ NoObject \notin {Object(c), Object("vetting")}
  /\ Object("vetting") \in ready
  /\ <<Object("vetting"), Object(c)>> \in approved

GetAuthority(c) ==
  /\ At("authority", c)
  /\ Authorized(c)
  /\ Proceed
  /\ UNCHANGED <<contracts, context, notes>>

InitializeWithAuthority ==
  /\ Start("issuer")
  /\ chain' = chain \cup {<<Object("issuer"), Object("vetting")>>}
  /\ UNCHANGED <<made, vets, approved, endpoints, managed, context, notes>>

AddEndpoint ==
  /\ At("add_endpoint", "guardian")
  /\ Object("guardian") \in ready
  /\ endpoints' = endpoints \cup {<<Object("guardian"), Object("token_issuer")>>}
  /\ Proceed
  /\ UNCHANGED <<made, ready, vets, approved, chain, managed, context, notes>>

Provisioned ==
  /\ Object("guardian") \in ready
  /\ <<Object("guardian"), Object("token_issuer")>> \in endpoints

ProvisionTokenIssuer ==
  /\ At("provision", "guardian")
  /\ Provisioned
  /\ Proceed
  /\ UNCHANGED <<contracts, context, notes>>

InitializeTokenIssuer ==
  /\ Start("token_issuer")
  /\ chain' = chain \cup {<<Object("token_issuer"), Object("vetting")>>}
  /\ managed' = managed \cup {<<Object("token_issuer"), Object("guardian")>>}
  /\ UNCHANGED <<made, vets, approved, endpoints, context, notes>>

MarkInitialized ==
  /\ At("mark", "issuer")
  /\ notes' = notes \cup {"initialized"}
  /\ Proceed
  /\ UNCHANGED <<contracts, context>>

\* Mutant of SaveContextFile: only the entries of the contract just created.
SaveOneContext(c) ==
  /\ At("save", c)
  /\ file' = [context |-> [file.context EXCEPT ![c] = context[c]], notes |-> notes]
  /\ todo' = Tail(todo)
  /\ UNCHANGED <<contracts, border, context, notes, failures>>

SaveContextFile(c) ==
  /\ At("save", c)
  /\ file' = [context |-> context, notes |-> notes]
  /\ todo' = Tail(todo)
  /\ UNCHANGED <<contracts, border, context, notes, failures>>

Step ==
  \/ \E c \in Contexts : Create(c) \/ Deploy(c) \/ SaveContextFile(c)
  \/ \E c \in Issuing : Approve(c) \/ GetAuthority(c)
  \/ InitializeAssetType \/ GetTypeIdentifier \/ InitializeVetting
  \/ PushImage \/ KeepVerifyingKey \/ InitializeWithAuthority \/ MarkInitialized
  \/ InitializeGuardian \/ AddEndpoint \/ ProvisionTokenIssuer \/ InitializeTokenIssuer

-----------------------------------------------------------------------------
(* The user, and what stops a command. *)

Begin(steps) ==
  /\ todo = <<>>
  /\ todo' = steps
  /\ UNCHANGED <<contracts, border, context, notes, file, failures>>

Command ==
  \/ \E c \in Contexts : Begin(<< <<"create", c>> >>)
  \/ Begin(ApproveIssuer("issuer"))
  \/ Begin(InitializeIssuer)
  \/ Begin(IssuerNotebook)
  \/ Begin(TokenIssuerNotebook)

Raise ==
  /\ todo # <<>>
  /\ todo' = <<>>
  /\ UNCHANGED <<contracts, border, context, notes, file>>

\* Whether the next step can be made: the contract accepts the invocation, and the
\* command has what it needs for it.
Possible ==
  \/ \E c \in Contexts :
       \/ At("create", c) \/ At("save", c)
       \/ At("deploy", c) /\ made < MaxObjects
       \/ At("initialize", c) /\ Object(c) \notin ready /\ (c = "guardian" => ~ BorderRefused)
  \/ \E c \in Issuing :
       \/ At("approve", c) /\ Approvable(c)
       \/ At("authority", c) /\ Authorized(c)
  \/ At("type_identifier", "asset_type") /\ Object("asset_type") \in ready
  \/ At("push", "guardian")
  \/ At("add_endpoint", "guardian") /\ Object("guardian") \in ready
  \/ At("provision", "guardian") /\ Provisioned
  \/ At("verifying_key", "issuer") \/ At("mark", "issuer")

\* A contract refuses the next step, or the command cannot make it.
Refused == ~ Possible /\ Raise /\ UNCHANGED failures

\* A service fails, an answer is lost, or the user interrupts the command.
Fail == failures < MaxFailures /\ Raise /\ failures' = failures + 1

\* A new process reads the context file.
Restart ==
  /\ failures < MaxFailures
  /\ failures' = failures + 1
  /\ todo' = <<>>
  /\ context' = file.context /\ notes' = file.notes
  /\ UNCHANGED <<contracts, border, file>>

SetupNext == Command \/ Step \/ Refused \/ Fail \/ Restart

SetupSpec == SetupInit /\ [][SetupNext]_setupVars

\* A command goes on or ends, and the user keeps coming back to the notebook.
SetupFairness ==
  /\ WF_setupVars(Step)
  /\ WF_setupVars(Refused)
  /\ SF_setupVars(Begin(IssuerNotebook))

SetupFairSpec == SetupSpec /\ SetupFairness

-----------------------------------------------------------------------------
(* Properties. *)

\* "All issuers must be vetted": the authority an issuer or a token issuer was
\* initialized with comes from an initialized vetting organization that approved
\* it and vets an initialized asset type, and a token issuer's management key
\* from an initialized guardian that knows it, whatever was interrupted,
\* repeated or lost on the way.
AuthorityGrounded ==
  /\ \A link \in chain :
       /\ <<link[2], link[1]>> \in approved
       /\ link[2] \in ready
       /\ \E type \in ready : <<link[2], type>> \in vets
  /\ \A link \in managed : link[2] \in ready /\ <<link[2], link[1]>> \in endpoints

Fits(objects, entries) ==
  /\ objects["vetting"] \in ready => <<objects["vetting"], objects["asset_type"]>> \in vets
  /\ "initialized" \in entries => <<objects["issuer"], objects["vetting"]>> \in chain
  /\ objects["token_issuer"] \in ready =>
       /\ <<objects["token_issuer"], objects["vetting"]>> \in chain
       /\ <<objects["token_issuer"], objects["guardian"]>> \in managed

\* The contracts a context names belong together, in memory and in the file: the
\* vetting organization vets this asset type, an issuer that is noted to be
\* initialized is, by this vetting organization, and so is a token issuer, which
\* has its key from this guardian.
ContextFits == Fits(context, notes) /\ Fits(file.context, file.notes)

\* Undisturbed, a contract object is initialized when its create command ends.
\* The issuer is initialized by another command; and where the border is refused,
\* the guardian and the token issuer waiting for it stay uninitialized for good.
CreatedIsInitialized ==
  failures = 0 /\ todo = <<>> =>
    \A c \in Contexts \ {"issuer"} :
      \/ Object(c) \in ready \cup {NoObject}
      \/ BorderRefused /\ c \in {"guardian", "token_issuer"}

\* Undisturbed, the notebook sets up the issuer, whatever other commands run
\* before and between.
NotebookCompletes == <>(Object("issuer") \in ready \/ failures > 0)

-----------------------------------------------------------------------------
(* The inductive invariant behind AuthorityGrounded and ContextFits: what a  *)
(* command has already seen to when it comes to a step.                      *)

\* Before step s the command still makes a step of first, or premise holds already;
\* no step of undo comes between.
Backed(first, s, undo, premise, steps) ==
  \A n \in DOMAIN steps : steps[n] = s =>
    \/ \E m \in 1 .. n - 1 : steps[m] \in first /\ \A k \in m + 1 .. n - 1 : steps[k] \notin undo
    \/ premise /\ \A k \in 1 .. n - 1 : steps[k] \notin undo

\* A contract object is made only where the context has none.
FreshInv ==
  \A c \in Contexts :
    Backed({}, <<"deploy", c>>,
           Steps \ (IF c = "vetting" THEN Operations \X {"asset_type"} ELSE {}),
           Object(c) = NoObject, todo)

\* A vetting organization is made for an initialized asset type.
TypeFirstInv ==
  \A op \in {"deploy", "initialize"} :
    Backed({<<"type_identifier", "asset_type">>}, <<op, "vetting">>,
           ({"create"} \X Contexts) \cup {<<"deploy", "asset_type">>},
           Object("asset_type") \in ready, todo)

\* An object is initialized before the file knows of it.
UnsavedInv ==
  \A c \in Contexts \ {"issuer"} :
    Backed({<<"deploy", c>>}, <<"initialize", c>>, {"save"} \X Contexts,
           Object(c) # NoObject /\ file.context[c] = NoObject, todo)

\* Some steps name the object of another context.
Uses ==
  [issuer |-> {<<"verifying_key", "issuer">>},
   token_issuer |-> {<<"approve", "token_issuer">>, <<"add_endpoint", "guardian">>}]

DeployedInv ==
  \A c \in Issuing : \A s \in Uses[c] :
    Backed({<<"deploy", c>>}, s, {}, Object(c) # NoObject, todo)

AuthorizedInv ==
  \A c \in Issuing :
    Backed({<<"authority", c>>}, <<"initialize", c>>, {"create", "deploy"} \X Contexts,
           Authorized(c), todo)

ProvisionedInv ==
  Backed({<<"provision", "guardian">>}, <<"initialize", "token_issuer">>,
         {"create", "deploy"} \X {"guardian", "token_issuer"}, Provisioned, todo)

MarkedInv ==
  Backed({<<"initialize", "issuer">>}, <<"mark", "issuer">>, {"create", "deploy"} \X Contexts,
         <<Object("issuer"), Object("vetting")>> \in chain, todo)

StepsInv ==
  /\ FreshInv /\ TypeFirstInv /\ UnsavedInv /\ DeployedInv
  /\ AuthorizedInv /\ ProvisionedInv /\ MarkedInv

\* What the entries of a context have to do with each other.
Coherent(objects, entries) ==
  /\ \A c, d \in Contexts : objects[c] = objects[d] /\ objects[c] # NoObject => c = d
  /\ objects["vetting"] # NoObject => objects["asset_type"] # NoObject
  /\ "verifying_key" \in entries => objects["issuer"] # NoObject

\* The file is behind the context, and does not contradict it.
ContextInv ==
  /\ Coherent(context, notes) /\ Coherent(file.context, file.notes)
  /\ \A c \in Contexts : file.context[c] \in {NoObject, context[c]}

SetupInv ==
  /\ SetupTypeOK /\ StepsInv /\ ContextInv
  /\ \A pair \in vets : pair[2] \in ready
  /\ AuthorityGrounded /\ ContextFits

-----------------------------------------------------------------------------
(* The inductive invariant behind CreatedIsInitialized: where nothing fails, *)
(* a command that deployed an object has what it needs to initialize it.     *)

\* The steps a create command makes from the deployment of its contract to its
\* initialization, those of the create commands it calls among them.
Between(c) ==
  CASE c = "guardian" -> {<<"push", "guardian">>}
    [] c = "token_issuer" ->
         ({"create", "deploy", "initialize"} \X {"asset_type", "vetting", "guardian"})
         \cup {<<"type_identifier", "asset_type">>, <<"push", "guardian">>,
               <<"add_endpoint", "guardian">>, <<"provision", "guardian">>,
               <<"approve", "token_issuer">>, <<"authority", "token_issuer">>}
    [] OTHER -> {}

\* What is about to be initialized is the object just deployed.
NewInv ==
  \A c \in Contexts \ {"issuer"} :
    Backed({<<"deploy", c>>}, <<"initialize", c>>, Steps \ Between(c),
           Object(c) \notin ready \cup {NoObject}, todo)

\* Some steps need an initialized object, which a create command sees to.
Relies ==
  [asset_type |-> <<"type_identifier", "asset_type">>,
   vetting |-> <<"approve", "token_issuer">>, guardian |-> <<"add_endpoint", "guardian">>]

ReadyInv ==
  \A c \in DOMAIN Relies :
    (c = "guardian" => ~ BorderRefused) =>
      Backed({"create", "initialize"} \X {c}, Relies[c], {<<"deploy", c>>}, Object(c) \in ready, todo)

\* A token issuer is approved, and known to the guardian, before it asks.
AskedInv ==
  /\ Backed({<<"approve", "token_issuer">>}, <<"authority", "token_issuer">>,
            {"create", "deploy"} \X Contexts, Authorized("token_issuer"), todo)
  /\ Backed({<<"add_endpoint", "guardian">>}, <<"provision", "guardian">>,
            {"create", "deploy"} \X Contexts, Provisioned, todo)

\* After step s the command makes step t.
Followed(s, t, steps) ==
  \A n \in DOMAIN steps : steps[n] = s => \E m \in n + 1 .. Len(steps) : steps[m] = t

FollowedInv ==
  \A c \in Contexts \ {"issuer"} : Followed(<<"deploy", c>>, <<"initialize", c>>, todo)

PendingInv ==
  \A c \in Contexts \ {"issuer"} :
    \/ Object(c) \in ready \cup {NoObject}
    \/ \E n \in DOMAIN todo : todo[n] = <<"initialize", c>>
    \/ BorderRefused /\ c \in {"guardian", "token_issuer"}

\* No object is forgotten.
CountInv == made = Cardinality({c \in Contexts : Object(c) # NoObject})

CreationInv ==
  /\ NewInv /\ AskedInv /\ FollowedInv
  /\ failures = 0 => ReadyInv /\ PendingInv /\ CountInv
=============================================================================
