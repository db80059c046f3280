------------------------- MODULE GuardianProvisioning -------------------------
(***************************************************************************)
(* How a guardian service and the token contracts come to share keys.      *)
(* Clients call the service over HTTP.  A call may be lost, its answer may *)
(* come after the client has given up, and the service may be stopped and  *)
(* started again; it keeps its keys and the endpoints it was told of in    *)
(* two files.  An operation of the guardian_service plugin makes two       *)
(* calls: a new GuardianServiceClient asks for the service's metadata      *)
(* before the operation itself is posted.                                  *)
(*                                                                         *)
(* Keys are numbered as they are generated.  A package for a token object  *)
(* or issuer is sealed for one key and given as that key and its content.  *)
(***************************************************************************)
EXTENDS Naturals, Sequences

CONSTANTS
  Clients,        \* processes that run the plugin's commands
  TokenIssuers,   \* token issuer contracts
  Authorized,     \* those the service's configuration lets register
  Tokens,         \* minted token objects
  IssuerOf,       \* the issuer that minted each
  NoContract,     \* the subject of a client that runs no command
  MaxCalls,       \* bound: calls made
  MaxStartups     \* bound: starts of the service

ASSUME ProvisioningAssumption ==
  /\ Authorized \subseteq TokenIssuers
  /\ IssuerOf \in [Tokens -> TokenIssuers]
  /\ TokenIssuers \cap Tokens = {} /\ NoContract \notin TokenIssuers \cup Tokens
  /\ MaxCalls \in Nat /\ MaxStartups \in Nat

Keys == Nat
NoKey == 0

Verbs == {"info", "add_endpoint", "provision_token_issuer", "provision_token_object"}

VARIABLES
  up,          \* is the service running?
  startups,    \* how often it was started
  generated,   \* number of keys generated
  management,  \* key store: management_capability_key
  service,     \* key store: service_capability_key
  keystore,    \* key store: the key of each token's minted identity
  endpoints,   \* endpoint registry
  held,        \* management key each token issuer was initialized with
  generation,  \* capability generation key each token was initialized with
  plan,        \* the operations each client's command has still to make
  subject,     \* the contract they are about
  metadata,    \* does the client know the service's metadata?
  waiting,     \* the number of the call whose answer it waits for, or 0
  sent,        \* number of calls made
  calls,       \* calls the service has not handled
  answers,     \* answers on their way back to a client that waits for them
  asked        \* history: how often a key was made for each token

store == <<generated, management, service, keystore, endpoints, asked>>
network == <<sent, calls, answers>>
client == <<plan, subject, metadata, waiting>>
provisioningVars == <<up, startups, store, held, generation, client, network>>

Call == [n : Nat, verb : Verbs, about : TokenIssuers \cup Tokens, seal : Keys]
Answer == [n : Nat, ok : BOOLEAN, key : Keys]

ProvisioningTypeOK ==
  /\ up \in BOOLEAN /\ startups \in 0 .. MaxStartups
  /\ generated \in Nat
  /\ management \in 0 .. generated /\ service \in 0 .. generated
  /\ keystore \in [Tokens -> 0 .. generated]
  /\ endpoints \subseteq Authorized
  /\ held \in [TokenIssuers -> 0 .. generated]
  /\ generation \in [Tokens -> 0 .. generated]
  /\ plan \in [Clients -> Seq(Verbs)]
  /\ subject \in [Clients -> TokenIssuers \cup Tokens \cup {NoContract}]
  /\ metadata \in [Clients -> BOOLEAN]
  /\ sent \in 0 .. MaxCalls
  /\ waiting \in [Clients -> 0 .. sent]
  /\ calls \subseteq Call /\ answers \subseteq Answer
  /\ asked \in [Tokens -> Nat]

ProvisioningInit ==
  /\ up = FALSE /\ startups = 0 /\ generated = 0
  /\ management = NoKey /\ service = NoKey
  /\ keystore = [t \in Tokens |-> NoKey]
  /\ endpoints = {}
  /\ held = [i \in TokenIssuers |-> NoKey]
  /\ generation = [t \in Tokens |-> NoKey]
  /\ plan = [c \in Clients |-> <<>>]
  /\ subject = [c \in Clients |-> NoContract]
  /\ metadata = [c \in Clients |-> FALSE]
  /\ waiting = [c \in Clients |-> 0]
  /\ sent = 0
  /\ calls = {} /\ answers = {}
  /\ asked = [t \in Tokens |-> 0]

-----------------------------------------------------------------------------
(* The service starts and stops. *)

\* Mutant of OpenKeyStore: the keys are generated whether the file has them or not.
GenerateKeys ==
  /\ generated' = generated + 2
  /\ management' = generated + 1 /\ service' = generated + 2
  /\ UNCHANGED keystore

\* The key store creates its own two keys unless the file has them.
OpenKeyStore ==
  IF management = NoKey
  THEN /\ generated' = generated + 2
       /\ management' = generated + 1 /\ service' = generated + 2
       /\ UNCHANGED keystore
  ELSE UNCHANGED <<generated, management, service, keystore>>

StartService ==
  /\ ~ up /\ startups < MaxStartups
  /\ up' = TRUE
  /\ startups' = startups + 1
  /\ OpenKeyStore
  /\ UNCHANGED <<endpoints, asked, held, generation, client, network>>

\* The files are closed; the calls under way end without an answer.
StopService ==
  /\ up
  /\ up' = FALSE
  /\ calls' = {} /\ answers' = {}
  /\ UNCHANGED <<startups, store, held, generation, client, sent>>

-----------------------------------------------------------------------------
(* The handlers. *)

\* The answer to a call that was given up goes nowhere.
Reply(call, ok, key) ==
  /\ calls' = calls \ {call}
  /\ answers' = answers \cup {a \in {[n |-> call.n, ok |-> ok, key |-> key]} :
                                 \E c \in Clients : waiting[c] = a.n}
  /\ UNCHANGED <<up, startups, held, generation, client, sent>>

Info(call) ==
  /\ call.verb = "info"
  /\ Reply(call, TRUE, service)
  /\ UNCHANGED store

\* The configuration may restrict code and contract; an endpoint replaces an
\* earlier one of its name.
AddEndpoint(call) ==
  /\ call.verb = "add_endpoint"
  /\ Reply(call, call.about \in Authorized, NoKey)
  /\ endpoints' = endpoints \cup ({call.about} \cap Authorized)
  /\ UNCHANGED <<generated, management, service, keystore, asked>>

ProvisionTokenIssuer(call) ==
  /\ call.verb = "provision_token_issuer"
  /\ Reply(call, call.about \in endpoints, IF call.about \in endpoints THEN management ELSE NoKey)
  /\ UNCHANGED store

\* Mutant of ProvisionTokenObject: the answer has the key made before, the store
\* the new one.
ProvisionStaleKey(call) ==
  /\ call.verb = "provision_token_object"
  /\ call.seal = management
  /\ generated' = generated + 1
  /\ keystore' = [keystore EXCEPT ![call.about] = generated + 1]
  /\ asked' = [asked EXCEPT ![call.about] = @ + 1]
  /\ Reply(call, TRUE, generated)
  /\ UNCHANGED <<management, service, endpoints>>

\* The package must be sealed for the management key.  The token gets a new key
\* each time.
ProvisionTokenObject(call) ==
  /\ call.verb = "provision_token_object"
  /\ IF call.seal = management
     THEN /\ generated' = generated + 1
          /\ keystore' = [keystore EXCEPT ![call.about] = generated + 1]
          /\ asked' = [asked EXCEPT ![call.about] = @ + 1]
          /\ Reply(call, TRUE, generated + 1)
          /\ UNCHANGED <<management, service, endpoints>>
     ELSE Reply(call, FALSE, NoKey) /\ UNCHANGED store

Handle ==
  /\ up
  /\ \E call \in calls :
       Info(call) \/ AddEndpoint(call) \/ ProvisionTokenIssuer(call) \/ ProvisionTokenObject(call)

-----------------------------------------------------------------------------
(* The clients. *)

Quiet(c) == subject[c] = NoContract

Begin(c, operations, about) ==
  /\ Quiet(c)
  /\ plan' = [plan EXCEPT ![c] = operations]
  /\ subject' = [subject EXCEPT ![c] = about]
  /\ UNCHANGED <<up, startups, store, held, generation, metadata, waiting, network>>

\* A token issuer is provisioned before it is initialized.
ProvisionIssuerCommand(c, i) ==
  Begin(c, <<"add_endpoint", "provision_token_issuer">>, i)

\* A minted token is, by its issuer's package, as often as someone asks.
ProvisionTokenCommand(c, t) ==
  /\ held[IssuerOf[t]] # NoKey
  /\ Begin(c, <<"provision_token_object">>, t)

Send(c, verb, seal) ==
  /\ up /\ ~ Quiet(c) /\ waiting[c] = 0
  /\ sent < MaxCalls
  /\ sent' = sent + 1
  /\ waiting' = [waiting EXCEPT ![c] = sent + 1]
  /\ calls' = calls \cup {[n |-> sent + 1, verb |-> verb, about |-> subject[c], seal |-> seal]}
  /\ UNCHANGED <<up, startups, store, held, generation, plan, subject, metadata, answers>>

\* A new service client.
Connect(c) == ~ metadata[c] /\ Send(c, "info", NoKey)

\* The package of a token is sealed with the key its issuer holds.
Post(c) ==
  /\ metadata[c] /\ ~ Quiet(c)
  /\ Send(c, Head(plan[c]), IF subject[c] \in Tokens THEN held[IssuerOf[subject[c]]] ELSE NoKey)

\* What the command does with the answer to an operation: contracts are
\* initialized once, with the key in the package.
Use(c, key) ==
  LET verb == Head(plan[c])  about == subject[c] IN
  /\ held' = IF verb = "provision_token_issuer" /\ held[about] = NoKey
             THEN [held EXCEPT ![about] = key] ELSE held
  /\ generation' = IF verb = "provision_token_object" /\ generation[about] = NoKey
                   THEN [generation EXCEPT ![about] = key] ELSE generation

Accept(c) ==
  \E a \in answers :
    /\ a.n = waiting[c] /\ a.ok
    /\ answers' = answers \ {a}
    /\ waiting' = [waiting EXCEPT ![c] = 0]
    /\ metadata' = [metadata EXCEPT ![c] = ~ @]
    /\ IF ~ metadata[c]
       THEN UNCHANGED <<plan, subject, held, generation>>
       ELSE /\ plan' = [plan EXCEPT ![c] = Tail(@)]
            /\ subject' = [subject EXCEPT ![c] = IF Len(plan[c]) = 1 THEN NoContract ELSE @]
            /\ Use(c, a.key)
    /\ UNCHANGED <<up, startups, store, sent, calls>>

\* A command ends when the answer is an error, the connection fails or no answer
\* comes in time.  The call may still be handled.
GiveUp(c) ==
  /\ ~ Quiet(c)
  /\ plan' = [plan EXCEPT ![c] = <<>>]
  /\ subject' = [subject EXCEPT ![c] = NoContract]
  /\ metadata' = [metadata EXCEPT ![c] = FALSE]
  /\ waiting' = [waiting EXCEPT ![c] = 0]
  /\ answers' = {a \in answers : a.n # waiting[c]}
  /\ UNCHANGED <<up, startups, store, held, generation, sent, calls>>

Progress(c) == Connect(c) \/ Post(c) \/ Accept(c)

ProvisioningNext ==
  \/ StartService \/ StopService \/ Handle
  \/ \E c \in Clients :
       \/ \E i \in TokenIssuers : ProvisionIssuerCommand(c, i)
       \/ \E t \in Tokens : ProvisionTokenCommand(c, t)
       \/ Progress(c) \/ GiveUp(c)

ProvisioningSpec == ProvisioningInit /\ [][ProvisioningNext]_provisioningVars

-----------------------------------------------------------------------------
(* Properties. *)

\* Whatever is stopped, lost or repeated, a token issuer that was initialized is
\* known to the service, and holds the key the service opens its packages with.
IssuersServed ==
  \A i \in TokenIssuers : held[i] # NoKey => i \in endpoints /\ held[i] = management

\* A token that was provisioned once can be used: the key it seals its operations
\* with is the one the service has for it, however late the answer came.  In any case
\* this key is not another token's, nor one of the service's own.
OnceProvisionedUsable ==
  \A t \in Tokens : generation[t] # NoKey =>
    /\ asked[t] = 1 => generation[t] = keystore[t]
    /\ generation[t] \notin {management, service}
    /\ \A u \in Tokens \ {t} : generation[t] \notin {generation[u], keystore[u]}

-----------------------------------------------------------------------------
(* The inductive invariant behind them. *)

\* A service that ever ran has its own keys; a stopped one talks to nobody.
ServiceInv ==
  /\ (generated = 0) = (management = NoKey)
  /\ up => management # NoKey
  /\ ~ up => calls = {} /\ answers = {}

\* What a command has still to do follows from the contract it is about.
PlansInv ==
  \A c \in Clients :
    /\ subject[c] \in TokenIssuers =>
         plan[c] \in {<<"add_endpoint", "provision_token_issuer">>, <<"provision_token_issuer">>}
    /\ subject[c] \in Tokens => plan[c] = <<"provision_token_object">>
    /\ Quiet(c) => waiting[c] = 0

\* A call under way is the one its client is waiting for, if it still waits.
CallsInv ==
  /\ \A a \in answers : a.n \in 1 .. sent
  /\ \A call \in calls :
       /\ call.n \in 1 .. sent
       /\ call.verb = "provision_token_object" => call.about \in Tokens
       /\ \A c \in Clients : waiting[c] = call.n =>
            /\ call.about = subject[c]
            /\ call.verb = IF metadata[c] THEN Head(plan[c]) ELSE "info"

\* c's operation has succeeded, and a is the answer.
Answers(a, c) == a \in answers /\ a.ok /\ metadata[c] /\ waiting[c] = a.n

IssuersInv ==
  \A c \in Clients : \A a \in answers :
    Answers(a, c) /\ subject[c] \in TokenIssuers /\ Head(plan[c]) = "provision_token_issuer"
      => subject[c] \in endpoints /\ a.key = management

\* The keys made for t that the service, the token or a client may use yet.
KeysOf(t) ==
  ({keystore[t], generation[t]}
     \cup {a.key : a \in {b \in answers : \E c \in Clients : Answers(b, c) /\ subject[c] = t}})
    \ {NoKey}

KeysInv ==
  \A t \in Tokens :
    /\ KeysOf(t) \subseteq (1 .. generated) \ {management, service}
    /\ \A u \in Tokens \ {t} : KeysOf(t) \cap KeysOf(u) = {}
    /\ asked[t] = 0 => KeysOf(t) = {}
    /\ asked[t] = 1 => KeysOf(t) = {keystore[t]}

ProvisioningInv ==
  /\ ProvisioningTypeOK
  /\ ServiceInv /\ PlansInv /\ CallsInv
  /\ IssuersInv /\ IssuersServed
  /\ KeysInv
================================================================================
