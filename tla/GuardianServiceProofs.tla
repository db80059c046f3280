----------------------- MODULE GuardianServiceProofs -----------------------
(***************************************************************************)
(* Proofs about the guardian service: its request registry, for any number *)
(* of threads, identities, requests and starts; and provisioning, for any  *)
(* number of clients, token issuers and tokens, any number of calls and    *)
(* starts of the service, and whatever is lost or late between them.       *)
(***************************************************************************)
EXTENDS GuardianService, GuardianProvisioning, TLAPS

LEMMA EmptySetIsASet == {} # NoSet
BY GuardianAssumption

LEMMA RequestParts ==
  ASSUME NEW r \in Request
  PROVE  r.minted \in Identities /\ r.id \in RequestIds /\ KeyOf(r) \in Key
BY DEF Request, Key, KeyOf

-----------------------------------------------------------------------------
(* Types and the account of the registry, for any number of threads. *)

RegistryInv == TypeOK /\ Registered /\ RefusedOnlyDuplicates

LEMMA RegistryInit == Init => RegistryInv
BY GuardianAssumption
DEF Init, RegistryInv, TypeOK, Registered, RefusedOnlyDuplicates, EmptyRegistry

\* Every step of a thread keeps it.
LEMMA StepKeeps ==
  ASSUME RegistryInv, NEW w \in Workers, Step(w), UNCHANGED pool
  PROVE  RegistryInv'
<1>. USE DEF RegistryInv, GoTo
<1>1. CASE \E r \in packages : Receive(w, r)
  BY <1>1 DEF Receive, TypeOK, Registered, RefusedOnlyDuplicates
<1>2. CASE Lookup(w)
  BY <1>2 DEF Lookup, TypeOK, Registered, RefusedOnlyDuplicates
<1>3. CASE Create(w)
  <2>1. request[w] \in Request  BY <1>3 DEF Create, TypeOK
  <2>. QED
    BY <1>3, <2>1, RequestParts, EmptySetIsASet
    DEF Create, TypeOK, Registered, RefusedOnlyDuplicates
<1>4. CASE Check(w)
  <2>1. request[w] \in Request  BY <1>4 DEF Check, TypeOK
  <2>2. registry[request[w].minted] # NoSet  BY <1>4 DEF Check, Registered
  <2>3. TypeOK'  BY <1>4, <2>1, RequestParts DEF Check, TypeOK
  <2>4. Registered'  BY <1>4 DEF Check, TypeOK, Registered
  <2>5. Seen(request[w]) => accepted[starts][KeyOf(request[w])] > 0
    BY <2>1, <2>2, RequestParts DEF Seen, Registered, KeyOf
  <2>. QED  BY <1>4, <2>3, <2>4, <2>5 DEF Check, RefusedOnlyDuplicates
<1>5. CASE Record(w)
  <2>. DEFINE t == request[w].minted
              k == KeyOf(request[w])
  <2>1. /\ request[w] \in Request /\ t \in Identities
        /\ request[w].id \in RequestIds /\ k \in Key
    BY <1>5, RequestParts DEF Record, TypeOK
  <2>2. registry[t] \in SUBSET RequestIds
    BY <1>5, <2>1 DEF Record, Registered, TypeOK
  <2>3. registry'[t] = registry[t] \cup {request[w].id} /\ registry'[t] # NoSet
    BY <1>5, <2>1, <2>2, GuardianAssumption DEF Record, TypeOK
  <2>4. \A l \in Key : accepted'[starts][l] = IF l = k THEN accepted[starts][l] + 1
                                                        ELSE accepted[starts][l]
    BY <1>5, <2>1 DEF Record, TypeOK
  <2>5. TypeOK'
    BY <1>5, <2>1, <2>2 DEF Record, TypeOK
  <2>6. \A l \in Key : accepted[starts][l] \in Nat  BY DEF TypeOK
  <2>7. \A l \in Key : accepted[starts][l] > 0 => accepted'[starts][l] > 0
    BY <2>4, <2>6
  <2>8. accepted'[starts][k] > 0  BY <2>1, <2>4, <2>6
  <2>9. Registered'
    <3>1. ASSUME NEW v \in Workers, pc'[v] \in {"check", "record"}
          PROVE  registry'[request'[v].minted] # NoSet
      BY <1>5, <2>1, <2>3, <3>1 DEF Record, Registered, TypeOK
    <3>2. ASSUME NEW u \in Identities, NEW id \in RequestIds,
                 registry'[u] # NoSet, id \in registry'[u]
          PROVE  accepted'[starts'][<<u, id>>] > 0
      <4>1. <<u, id>> \in Key /\ starts' = starts  BY <1>5 DEF Key, Record
      <4>2. CASE u = t /\ id = request[w].id
        BY <2>8, <4>1, <4>2 DEF KeyOf
      <4>3. CASE ~ (u = t /\ id = request[w].id)
        <5>1. registry[u] # NoSet /\ id \in registry[u]
          BY <1>5, <2>1, <2>2, <2>3, <3>2, <4>3, GuardianAssumption DEF Record, TypeOK
        <5>. QED  BY <2>7, <4>1, <5>1 DEF Registered
      <4>. QED  BY <4>2, <4>3
    <3>. QED  BY <3>1, <3>2 DEF Registered
  <2>10. RefusedOnlyDuplicates'
    BY <1>5, <2>7 DEF Record, RefusedOnlyDuplicates, TypeOK
  <2>. QED  BY <2>5, <2>9, <2>10
<1>6. CASE Dispatch(w)
  BY <1>6 DEF Dispatch, TypeOK, Registered, RefusedOnlyDuplicates
<1>. QED  BY <1>1, <1>2, <1>3, <1>4, <1>5, <1>6 DEF Step

LEMMA NextKeeps ==
  ASSUME RegistryInv, [Next]_vars
  PROVE  RegistryInv'
<1>. USE DEF RegistryInv
<1>1. CASE (\E r \in Request : CreateOperationPackage(r)) /\ UNCHANGED pool
  BY <1>1 DEF CreateOperationPackage, TypeOK, Registered, RefusedOnlyDuplicates
<1>2. CASE \E w \in pool : Step(w) /\ UNCHANGED pool
  BY <1>2, StepKeeps DEF TypeOK
<1>3. CASE Restart /\ UNCHANGED pool
  BY <1>3, GuardianAssumption
  DEF Restart, EmptyRegistry, TypeOK, Registered, RefusedOnlyDuplicates
<1>4. CASE UNCHANGED vars
  BY <1>4 DEF vars, TypeOK, Registered, RefusedOnlyDuplicates
<1>. QED  BY <1>1, <1>2, <1>3, <1>4 DEF Next

LEMMA RegistryInvariant == Spec => []RegistryInv
BY RegistryInit, NextKeeps, PTL DEF Spec

\* The service's variables, process_capability's registry included, keep their
\* types: a thread never tests or extends a set that does not exist.
THEOREM ServiceTypeCorrect == Spec => []TypeOK
<1>1. RegistryInv => TypeOK  BY DEF RegistryInv
<1>. QED  BY RegistryInvariant, <1>1, PTL

\* However many threads race on the registry, a request is refused as a duplicate
\* only if one with its identifier and identity was let through.
THEOREM RefusesOnlyDuplicates == Spec => []RefusedOnlyDuplicates
<1>1. RegistryInv => RefusedOnlyDuplicates  BY DEF RegistryInv
<1>. QED  BY RegistryInvariant, <1>1, PTL

-----------------------------------------------------------------------------
(* What may be forgotten, for any number of threads. *)

\* Only a restart, or a thread about to create the set of an identity, makes the
\* registry lose identifiers of that identity.
THEOREM ForgetsOnlyThen == Spec => ForgetsOnlyWhileCreating
<1>. DEFINE Forgets == \A t \in Identities :
                 \/ registry[t] = NoSet
                 \/ registry'[t] # NoSet /\ registry[t] \subseteq registry'[t]
                 \/ starts' # starts
                 \/ \E w \in Workers : Creating(w, t)
<1>1. ASSUME RegistryInv, Next  PROVE Forgets
  <2>. SUFFICES ASSUME NEW t \in Identities, registry[t] # NoSet, starts' = starts,
                       \A w \in Workers : ~ Creating(w, t)
                PROVE  registry'[t] # NoSet /\ registry[t] \subseteq registry'[t]
    OBVIOUS
  <2>. USE <1>1 DEF RegistryInv
  <2>1. CASE UNCHANGED registry  BY <2>1
  <2>2. ASSUME NEW w \in Workers, Create(w)  PROVE registry'[t] = registry[t]
    BY <2>2 DEF Create, Creating, TypeOK
  <2>3. ASSUME NEW w \in Workers, Record(w)
        PROVE  registry'[t] # NoSet /\ registry[t] \subseteq registry'[t]
    <3>1. /\ request[w] \in Request /\ request[w].id \in RequestIds
          /\ registry[t] \in SUBSET RequestIds
      BY <2>3, RequestParts DEF Record, TypeOK
    <3>. QED  BY <2>3, <3>1, GuardianAssumption DEF Record, TypeOK
  <2>4. CASE Restart
    <3>1. starts \in Nat  BY GuardianAssumption DEF TypeOK
    <3>. QED  BY <2>4, <3>1 DEF Restart
  <2>5. pool \subseteq Workers  BY DEF TypeOK
  <2>. QED
    BY <1>1, <2>1, <2>2, <2>3, <2>4, <2>5
    DEF Next, Step, CreateOperationPackage, Receive, Lookup, Check, Dispatch
<1>2. RegistryInv /\ [Next]_vars => [Forgets]_vars  BY <1>1
<1>. QED  BY RegistryInvariant, <1>2, PTL DEF Spec, ForgetsOnlyWhileCreating, Forgets

\* Once an identity has a set and no thread is about to create one, none will be.
THEOREM NoSetIsCreatedLate == Spec => NoLateCreation
<1>. DEFINE Settled == \A t \in Identities :
                 registry[t] # NoSet /\ (\A w \in Workers : ~ Creating(w, t))
                   => \A w \in Workers : ~ Creating(w, t)'
<1>1. ASSUME RegistryInv, Next  PROVE Settled
  <2>. SUFFICES ASSUME NEW t \in Identities, registry[t] # NoSet,
                       \A w \in Workers : ~ Creating(w, t),
                       NEW v \in Workers
                PROVE  ~ Creating(v, t)'
    OBVIOUS
  <2>. USE <1>1 DEF RegistryInv, GoTo, Creating
  <2>1. CASE UNCHANGED <<pc, request>>  BY <2>1
  <2>2. ASSUME NEW w \in Workers, \E r \in packages : Receive(w, r)
        PROVE  ~ Creating(v, t)'
    BY <2>2 DEF Receive, TypeOK
  <2>3. ASSUME NEW w \in Workers, Lookup(w)  PROVE ~ Creating(v, t)'
    BY <2>3 DEF Lookup, TypeOK
  <2>4. ASSUME NEW w \in Workers, Create(w) \/ Check(w) \/ Record(w) \/ Dispatch(w)
        PROVE  ~ Creating(v, t)'
    BY <2>4 DEF Create, Check, Record, Dispatch, TypeOK
  <2>5. CASE Restart  BY <2>5 DEF Restart
  <2>6. pool \subseteq Workers  BY DEF TypeOK
  <2>. QED
    BY <1>1, <2>1, <2>2, <2>3, <2>4, <2>5, <2>6 DEF Next, Step, CreateOperationPackage
<1>2. RegistryInv /\ [Next]_vars => [Settled]_vars  BY <1>1
<1>. QED  BY RegistryInvariant, <1>2, PTL DEF Spec, NoLateCreation, Settled

-----------------------------------------------------------------------------
(* What a service with a single thread, which does not race, does. *)

SerialInv(w) == RegistryInv /\ pool = {w} /\ Serial(w) /\ AcceptedOnce

LEMMA SerialInit ==
  ASSUME NEW w \in Workers, Init, pool = {w}
  PROVE  SerialInv(w)
<1>1. RegistryInv  BY RegistryInit
<1>2. starts \in 1 .. MaxStarts /\ 1 .. MaxStarts \subseteq Nat
  BY GuardianAssumption DEF Init
<1>. QED
  BY <1>1, <1>2
  DEF Init, SerialInv, Serial, AcceptedOnce, EmptyRegistry, Key

LEMMA SerialStep ==
  ASSUME NEW w \in Workers, SerialInv(w), [Next]_vars
  PROVE  SerialInv(w)'
<1>1. RegistryInv' /\ pool' = {w}  BY NextKeeps DEF SerialInv, Next, vars
<1>. USE DEF SerialInv, RegistryInv, GoTo
<1>2. /\ 1 .. MaxStarts \subseteq Nat /\ starts \in 1 .. MaxStarts
      /\ \A n \in 1 .. MaxStarts, k \in Key : accepted[n][k] \in Nat
      /\ \A t \in Identities, id \in RequestIds : <<t, id>> \in Key
  BY DEF TypeOK, Key
<1>3. CASE UNCHANGED <<registry, pc, request, starts, accepted>>
  BY <1>1, <1>3 DEF Serial, AcceptedOnce
<1>4. CASE Step(w)
  <2>1. CASE (\E r \in packages : Receive(w, r)) \/ Lookup(w) \/ Check(w) \/ Dispatch(w)
    <3>1. /\ UNCHANGED <<registry, starts, accepted>>
          /\ pc'[w] = "create" => registry[request'[w].minted] = NoSet
          /\ pc'[w] = "record" => request'[w].id \notin registry[request'[w].minted]
      BY <2>1 DEF Receive, Lookup, Check, Seen, Dispatch, TypeOK
    <3>. QED  BY <1>1, <3>1 DEF Serial, AcceptedOnce
  <2>2. CASE Create(w)
    <3>. DEFINE t == request[w].minted
    <3>1. t \in Identities /\ registry[t] = NoSet /\ UNCHANGED <<starts, accepted>>
      BY <2>2, RequestParts DEF Create, Serial, TypeOK
    <3>2. \A u \in Identities : u # t => registry'[u] = registry[u]
      BY <2>2, <3>1 DEF Create, TypeOK
    <3>3. pc'[w] = "check"  BY <2>2 DEF Create, TypeOK
    <3>. QED  BY <1>1, <3>1, <3>2, <3>3 DEF Serial, AcceptedOnce
  <2>3. CASE Record(w)
    <3>. DEFINE t == request[w].minted
                id == request[w].id
                k == KeyOf(request[w])
    <3>1. /\ t \in Identities /\ id \in RequestIds /\ k \in Key /\ k = <<t, id>>
          /\ id \notin registry[t] /\ registry[t] # NoSet
          /\ registry[t] \in SUBSET RequestIds
      BY <2>3, RequestParts DEF Record, KeyOf, Serial, Registered, TypeOK
    <3>2. accepted[starts][k] = 0  BY <1>2, <3>1 DEF Serial
    <3>3. /\ starts' = starts
          /\ \A n \in 1 .. MaxStarts, l \in Key :
               accepted'[n][l] = IF n = starts /\ l = k THEN accepted[n][l] + 1
                                                       ELSE accepted[n][l]
      BY <1>2, <2>3, <3>1 DEF Record, TypeOK
    <3>4. AcceptedOnce'
      <4>1. ASSUME NEW n \in 1 .. MaxStarts, NEW l \in Key  PROVE accepted'[n][l] <= 1
        BY <3>2, <3>3 DEF AcceptedOnce
      <4>. QED  BY <4>1 DEF AcceptedOnce
    <3>5. /\ registry'[t] # NoSet /\ registry'[t] = registry[t] \cup {id}
          /\ \A u \in Identities : u # t => registry'[u] = registry[u]
      BY <2>3, <3>1, GuardianAssumption DEF Record, TypeOK
    <3>6. ASSUME NEW u \in Identities, NEW i \in RequestIds,
                 accepted'[starts'][<<u, i>>] > 0
          PROVE  registry'[u] # NoSet /\ i \in registry'[u]
      BY <1>2, <3>1, <3>3, <3>5, <3>6 DEF Serial
    <3>7. \A n \in 1 .. MaxStarts, l \in Key : n > starts' => accepted'[n][l] = 0
      BY <1>2, <3>3 DEF Serial
    <3>8. pc'[w] = "dispatch"  BY <2>3 DEF Record, TypeOK
    <3>. QED  BY <1>1, <3>4, <3>6, <3>7, <3>8 DEF Serial
  <2>. QED  BY <1>4, <2>1, <2>2, <2>3 DEF Step
<1>5. CASE Restart
  <2>1. /\ starts' = starts + 1 /\ starts' \in 1 .. MaxStarts /\ accepted' = accepted
        /\ pc'[w] = "idle"
    BY <1>2, <1>5, GuardianAssumption DEF Restart
  <2>2. \A l \in Key : accepted'[starts'][l] = 0  BY <1>2, <2>1 DEF Serial
  <2>3. \A n \in 1 .. MaxStarts, l \in Key : n > starts' => accepted'[n][l] = 0
    BY <1>2, <2>1 DEF Serial
  <2>. QED  BY <1>1, <1>2, <2>1, <2>2, <2>3 DEF Serial, AcceptedOnce
<1>. QED
  BY <1>3, <1>4, <1>5 DEF Next, CreateOperationPackage, vars

\* If the pool has one thread, a request is let through at most once between two
\* starts of the service.
THEOREM SerialAccepts == Spec => []SerialAcceptsOnce
<1>. DEFINE Serially == \A w \in Workers : pool = {w} => SerialInv(w)
<1>1. Init => Serially  BY SerialInit
<1>2. Serially /\ [Next]_vars => Serially'
  <2>. SUFFICES ASSUME Serially, [Next]_vars, NEW w \in Workers, pool' = {w}
                PROVE  SerialInv(w)'
    OBVIOUS
  <2>1. pool = {w}  BY DEF Next, vars
  <2>. QED  BY <2>1, SerialStep
<1>3. Serially => SerialAcceptsOnce  BY DEF SerialInv, SerialAcceptsOnce
<1>. QED  BY <1>1, <1>2, <1>3, PTL DEF Spec

-----------------------------------------------------------------------------
(* Provisioning. *)

LEMMA PlanFacts ==
  /\ Head(<<"add_endpoint", "provision_token_issuer">>) = "add_endpoint"
  /\ Tail(<<"add_endpoint", "provision_token_issuer">>) = <<"provision_token_issuer">>
  /\ Len(<<"add_endpoint", "provision_token_issuer">>) = 2
  /\ Head(<<"provision_token_issuer">>) = "provision_token_issuer"
  /\ Len(<<"provision_token_issuer">>) = 1
  /\ Head(<<"provision_token_object">>) = "provision_token_object"
  /\ Len(<<"provision_token_object">>) = 1
  /\ <<>> \in Seq(Verbs)
  /\ Tail(<<"provision_token_issuer">>) = <<>>
  /\ Tail(<<"provision_token_object">>) = <<>>
  /\ <<"add_endpoint", "provision_token_issuer">> \in Seq(Verbs)
  /\ <<"provision_token_issuer">> \in Seq(Verbs)
  /\ <<"provision_token_object">> \in Seq(Verbs)
BY DEF Verbs

\* A client that is not quiet has something to do, and of the right kind.
LEMMA PlanOf ==
  ASSUME ProvisioningTypeOK, PlansInv, NEW c \in Clients, ~ Quiet(c)
  PROVE  /\ Head(plan[c]) \in Verbs /\ Tail(plan[c]) \in Seq(Verbs)
         /\ Head(plan[c]) = "provision_token_object" => subject[c] \in Tokens
         /\ Head(plan[c]) # "provision_token_object" => subject[c] \in TokenIssuers
         /\ subject[c] \in TokenIssuers \cup Tokens
BY PlanFacts DEF ProvisioningTypeOK, PlansInv, Quiet, Verbs

\* What the handlers have in common, and what they do to the store.
Handled(call, ok, key) ==
  /\ ok \in BOOLEAN /\ key \in {service, management, NoKey, generated + 1}
  /\ Reply(call, ok, key)
  /\ UNCHANGED <<management, service>>
  /\ \/ UNCHANGED <<generated, keystore, endpoints, asked>>
     \/ /\ call.verb = "add_endpoint"
        /\ endpoints' = endpoints \cup ({call.about} \cap Authorized)
        /\ UNCHANGED <<generated, keystore, asked>>
     \/ /\ call.verb = "provision_token_object" /\ ok
        /\ generated' = generated + 1
        /\ keystore' = [keystore EXCEPT ![call.about] = generated + 1]
        /\ asked' = [asked EXCEPT ![call.about] = @ + 1]
        /\ UNCHANGED endpoints
  /\ ok /\ call.verb = "provision_token_issuer" => call.about \in endpoints /\ key = management
  /\ ok /\ call.verb = "provision_token_object" =>
       generated' = generated + 1 /\ key = generated + 1

LEMMA HandlerCases ==
  ASSUME NEW call \in calls,
         Info(call) \/ AddEndpoint(call) \/ ProvisionTokenIssuer(call) \/ ProvisionTokenObject(call)
  PROVE  \E ok, key : Handled(call, ok, key)
<1>1. CASE Info(call)
  <2>1. Handled(call, TRUE, service)  BY <1>1 DEF Info, store, Handled
  <2>. QED  BY <2>1
<1>2. CASE AddEndpoint(call)
  <2>1. Reply(call, call.about \in Authorized, NoKey)  BY <1>2 DEF AddEndpoint
  <2>2. (call.about \in Authorized) \in BOOLEAN  OBVIOUS
  <2>. DEFINE ok == call.about \in Authorized
  <2>. HIDE DEF ok
  <2>3. ok \in BOOLEAN /\ Reply(call, ok, NoKey)  BY <2>1, <2>2 DEF ok
  <2>4. Handled(call, ok, NoKey)  BY <1>2, <2>3 DEF AddEndpoint, Handled
  <2>. QED  BY <2>4
<1>3. CASE ProvisionTokenIssuer(call)
  <2>. DEFINE ok == call.about \in endpoints
              key == IF ok THEN management ELSE NoKey
  <2>1. ok \in BOOLEAN /\ key \in {management, NoKey}  OBVIOUS
  <2>2. ok => call.about \in endpoints /\ key = management  OBVIOUS
  <2>3. Reply(call, ok, key)  BY <1>3 DEF ProvisionTokenIssuer
  <2>. HIDE DEF ok, key
  <2>4. Handled(call, ok, key)
    BY <1>3, <2>1, <2>2, <2>3 DEF ProvisionTokenIssuer, store, Handled
  <2>. QED  BY <2>4
<1>4. CASE ProvisionTokenObject(call)
  <2>1. CASE call.seal = management
    <3>1. Handled(call, TRUE, generated + 1)  BY <1>4, <2>1 DEF ProvisionTokenObject, Handled
    <3>. QED  BY <3>1
  <2>2. CASE call.seal # management
    <3>1. Handled(call, FALSE, NoKey)  BY <1>4, <2>2 DEF ProvisionTokenObject, store, Handled
    <3>. QED  BY <3>1
  <2>. QED  BY <2>1, <2>2
<1>. QED  BY <1>1, <1>2, <1>3, <1>4

\* What an accepted answer does: the client's next operation, or the end of the command.
Accepted(c, a) ==
  /\ Answers(a, c) \/ (a \in answers /\ a.n = waiting[c] /\ ~ metadata[c])
  /\ answers' = answers \ {a}
  /\ waiting' = [waiting EXCEPT ![c] = 0]
  /\ metadata' = [metadata EXCEPT ![c] = ~ @]
  /\ \/ /\ ~ metadata[c]
        /\ UNCHANGED <<plan, subject, held, generation>>
     \/ /\ metadata[c]
        /\ plan' = [plan EXCEPT ![c] = Tail(@)]
        /\ subject' = [subject EXCEPT ![c] = IF Len(plan[c]) = 1 THEN NoContract ELSE @]
        /\ \/ UNCHANGED held
           \/ /\ Head(plan[c]) = "provision_token_issuer"
              /\ held' = [held EXCEPT ![subject[c]] = a.key]
        /\ \/ UNCHANGED generation
           \/ /\ Head(plan[c]) = "provision_token_object"
              /\ generation' = [generation EXCEPT ![subject[c]] = a.key]
  /\ UNCHANGED <<up, startups, store, sent, calls>>

LEMMA AcceptCases ==
  ASSUME NEW c \in Clients, Accept(c)
  PROVE  \E a \in answers : Accepted(c, a)
<1>1. PICK a \in answers :
        /\ a.n = waiting[c] /\ a.ok
        /\ answers' = answers \ {a}
        /\ waiting' = [waiting EXCEPT ![c] = 0]
        /\ metadata' = [metadata EXCEPT ![c] = ~ @]
        /\ IF ~ metadata[c]
           THEN UNCHANGED <<plan, subject, held, generation>>
           ELSE /\ plan' = [plan EXCEPT ![c] = Tail(@)]
                /\ subject' = [subject EXCEPT ![c] = IF Len(plan[c]) = 1 THEN NoContract ELSE @]
                /\ Use(c, a.key)
        /\ UNCHANGED <<up, startups, store, sent, calls>>
  BY DEF Accept
<1>2. Accepted(c, a)
  BY <1>1 DEF Accepted, Answers, Use
<1>. QED  BY <1>2

\* The two commands begin, and the two calls of an operation are sent.
Begun(c, about) ==
  /\ about \in TokenIssuers \cup Tokens
  /\ Begin(c, IF about \in Tokens THEN <<"provision_token_object">>
                                ELSE <<"add_endpoint", "provision_token_issuer">>, about)

Sent(c, seal) ==
  /\ seal \in Keys
  /\ Send(c, IF metadata[c] THEN Head(plan[c]) ELSE "info", seal)

LEMMA NextCases ==
  ASSUME ProvisioningTypeOK, [ProvisioningNext]_provisioningVars
  PROVE  \/ StartService \/ StopService
         \/ up /\ \E call \in calls : \E ok, key : Handled(call, ok, key)
         \/ \E c \in Clients :
              \/ \E about : Begun(c, about)
              \/ \E seal : Sent(c, seal)
              \/ \E a \in answers : Accepted(c, a)
              \/ GiveUp(c)
         \/ UNCHANGED provisioningVars
<1>1. ASSUME NEW c \in Clients, NEW i \in TokenIssuers, ProvisionIssuerCommand(c, i)
      PROVE  Begun(c, i)
  BY <1>1, ProvisioningAssumption DEF ProvisionIssuerCommand, Begun
<1>2. ASSUME NEW c \in Clients, NEW t \in Tokens, ProvisionTokenCommand(c, t)
      PROVE  Begun(c, t)
  BY <1>2 DEF ProvisionTokenCommand, Begun
<1>3. ASSUME NEW c \in Clients, Connect(c)
      PROVE  Sent(c, NoKey)
  BY <1>3 DEF Connect, Sent, Keys, NoKey
<1>4. ASSUME NEW c \in Clients, Post(c)
      PROVE  \E seal : Sent(c, seal)
  <2>. DEFINE seal == IF subject[c] \in Tokens THEN held[IssuerOf[subject[c]]] ELSE NoKey
  <2>1. seal \in Keys  BY ProvisioningAssumption DEF ProvisioningTypeOK, Keys, NoKey
  <2>2. metadata[c] /\ Send(c, Head(plan[c]), seal)  BY <1>4 DEF Post
  <2>. HIDE DEF seal
  <2>3. Sent(c, seal)  BY <2>1, <2>2 DEF Sent
  <2>. QED  BY <2>3
<1>. QED  BY <1>1, <1>2, <1>3, <1>4, HandlerCases, AcceptCases DEF ProvisioningNext, Handle, Progress

-----------------------------------------------------------------------------
(* Types, and what commands and calls are about. *)

LEMMA StartCases ==
  ASSUME ProvisioningTypeOK, ServiceInv, StartService
  PROVE  /\ up' /\ ~ up /\ management' # NoKey /\ generated' \in Nat /\ generated' # 0
         /\ calls = {} /\ answers = {}
         /\ management' \in 0 .. generated' /\ service' \in 0 .. generated'
         /\ startups' \in 0 .. MaxStartups
         /\ UNCHANGED <<keystore, endpoints, asked, held, generation, client, network>>
         /\ \/ UNCHANGED <<generated, management, service>>
            \/ generated = 0 /\ management = NoKey
<1>1. startups' \in 0 .. MaxStartups  BY ProvisioningAssumption DEF StartService, ProvisioningTypeOK
<1>2. CASE management = NoKey
  BY <1>1, <1>2 DEF StartService, OpenKeyStore, ServiceInv, ProvisioningTypeOK, NoKey
<1>3. CASE management # NoKey
  BY <1>1, <1>3 DEF StartService, OpenKeyStore, ServiceInv, ProvisioningTypeOK, NoKey
<1>. QED  BY <1>2, <1>3

\* The answer a reply makes.
LEMMA ReplyAnswers ==
  ASSUME ProvisioningTypeOK, NEW call \in calls, NEW ok, NEW key, Reply(call, ok, key)
  PROVE  \A a \in answers' : \/ a \in answers
                             \/ a = [n |-> call.n, ok |-> ok, key |-> key]
BY DEF Reply

LEMMA NextType ==
  ASSUME ProvisioningInv, [ProvisioningNext]_provisioningVars
  PROVE  ProvisioningTypeOK'
<1>. ProvisioningTypeOK /\ ServiceInv /\ PlansInv  BY DEF ProvisioningInv
<1>. USE DEF ProvisioningTypeOK
<1>1. CASE StartService
  <2>1. /\ up' \in BOOLEAN /\ generated' \in Nat
        /\ management' \in 0 .. generated' /\ service' \in 0 .. generated'
        /\ startups' \in 0 .. MaxStartups
        /\ UNCHANGED <<keystore, endpoints, asked, held, generation, client, network>>
    BY <1>1, StartCases
  <2>2. generated' = generated \/ generated = 0  BY <1>1, StartCases
  <2>3. /\ keystore \in [Tokens -> 0 .. generated'] /\ held \in [TokenIssuers -> 0 .. generated']
        /\ generation \in [Tokens -> 0 .. generated']
    BY <2>1, <2>2
  <2>. QED  BY <2>1, <2>3 DEF client, network
<1>2. CASE StopService
  BY <1>2 DEF StopService, store, client
<1>3. ASSUME NEW call \in calls, NEW ok, NEW key, Handled(call, ok, key)
      PROVE  ProvisioningTypeOK'
  <2>1. /\ UNCHANGED <<up, startups, held, generation, client, sent, management, service>>
        /\ calls' \subseteq calls
    BY <1>3 DEF Handled, Reply
  <2>2. generated' \in {generated, generated + 1}  BY <1>3 DEF Handled
  <2>3. /\ generated' \in Nat
        /\ 0 .. generated \subseteq 0 .. generated'
    BY <2>2
  <2>4. keystore' \in [Tokens -> 0 .. generated']
    <3>1. CASE keystore' = keystore  BY <2>3, <3>1
    <3>2. CASE /\ generated' = generated + 1
               /\ keystore' = [keystore EXCEPT ![call.about] = generated + 1]
      <4>1. generated + 1 \in 0 .. generated'  BY <3>2
      <4>. QED  BY <2>3, <3>2, <4>1
    <3>. QED  BY <1>3, <3>1, <3>2 DEF Handled
  <2>5. asked' \in [Tokens -> Nat]  BY <1>3 DEF Handled
  <2>6. endpoints' \subseteq Authorized  BY <1>3 DEF Handled
  <2>7. answers' \subseteq Answer
    <3>1. call.n \in Nat  BY DEF Call
    <3>2. ok \in BOOLEAN /\ key \in Nat  BY <1>3 DEF Handled, NoKey
    <3>3. [n |-> call.n, ok |-> ok, key |-> key] \in Answer  BY <3>1, <3>2 DEF Answer, Keys
    <3>. QED  BY <1>3, <3>3, ReplyAnswers DEF Handled
  <2>. QED  BY <2>1, <2>3, <2>4, <2>5, <2>6, <2>7 DEF client
<1>4. ASSUME NEW c \in Clients, NEW about, Begun(c, about)
      PROVE  ProvisioningTypeOK'
  <2>1. (IF about \in Tokens THEN <<"provision_token_object">>
                              ELSE <<"add_endpoint", "provision_token_issuer">>) \in Seq(Verbs)
    BY PlanFacts
  <2>. QED  BY <1>4, <2>1 DEF Begun, Begin, store, network
<1>5. ASSUME NEW c \in Clients, NEW seal, Sent(c, seal)
      PROVE  ProvisioningTypeOK'
  <2>. DEFINE verb == IF metadata[c] THEN Head(plan[c]) ELSE "info"
  <2>1. ~ Quiet(c) /\ Send(c, verb, seal) /\ seal \in Keys  BY <1>5 DEF Sent, Send
  <2>2. verb \in Verbs /\ subject[c] \in TokenIssuers \cup Tokens  BY <2>1, PlanOf DEF Verbs
  <2>. HIDE DEF verb
  <2>3. sent' = sent + 1 /\ sent' \in 0 .. MaxCalls  BY <2>1, ProvisioningAssumption DEF Send
  <2>4. [n |-> sent + 1, verb |-> verb, about |-> subject[c], seal |-> seal] \in Call
    BY <2>1, <2>2 DEF Call
  <2>5. calls' \subseteq Call  BY <2>1, <2>4 DEF Send
  <2>6. waiting' \in [Clients -> 0 .. sent']  BY <2>1, <2>3 DEF Send
  <2>. QED  BY <2>1, <2>3, <2>5, <2>6 DEF Send, store
<1>6. ASSUME NEW c \in Clients, NEW a \in answers, Accepted(c, a)
      PROVE  ProvisioningTypeOK'
  <2>1. waiting[c] # 0 /\ ~ Quiet(c)
    BY <1>6 DEF Accepted, Answers, ProvisioningInv, CallsInv, PlansInv
  <2>2. plan' \in [Clients -> Seq(Verbs)]
    <3>1. Tail(plan[c]) \in Seq(Verbs)  BY <2>1, PlanOf
    <3>2. plan' = plan \/ plan' = [plan EXCEPT ![c] = Tail(plan[c])]  BY <1>6 DEF Accepted
    <3>. QED  BY <3>1, <3>2
  <2>3. held' \in [TokenIssuers -> 0 .. generated]
    <3>1. CASE /\ metadata[c] /\ Head(plan[c]) = "provision_token_issuer"
               /\ held' = [held EXCEPT ![subject[c]] = a.key]
      <4>1. a.key = management
        BY <1>6, <2>1, <3>1, PlanOf DEF Accepted, ProvisioningInv, IssuersInv
      <4>. QED  BY <3>1, <4>1
    <3>. QED  BY <1>6, <3>1 DEF Accepted
  <2>4. generation' \in [Tokens -> 0 .. generated]
    <3>1. CASE /\ metadata[c] /\ Head(plan[c]) = "provision_token_object"
               /\ generation' = [generation EXCEPT ![subject[c]] = a.key]
      <4>1. subject[c] \in Tokens /\ Answers(a, c)  BY <1>6, <2>1, <3>1, PlanOf DEF Accepted
      <4>2. a.key = NoKey \/ a.key \in KeysOf(subject[c])  BY <4>1 DEF KeysOf
      <4>3. a.key \in 0 .. generated  BY <4>1, <4>2 DEF ProvisioningInv, KeysInv, NoKey
      <4>. QED  BY <3>1, <4>3
    <3>. QED  BY <1>6, <3>1 DEF Accepted
  <2>5. subject' \in [Clients -> TokenIssuers \cup Tokens \cup {NoContract}]
    <3>1. PICK s \in {NoContract, subject[c]} : subject' \in {subject, [subject EXCEPT ![c] = s]}
      BY <1>6 DEF Accepted
    <3>. QED  BY <3>1
  <2>6. waiting' \in [Clients -> 0 .. sent] /\ metadata' \in [Clients -> BOOLEAN]
    BY <1>6 DEF Accepted
  <2>7. answers' \subseteq Answer /\ UNCHANGED <<up, startups, store, sent, calls>>
    BY <1>6 DEF Accepted
  <2>. QED  BY <2>2, <2>3, <2>4, <2>5, <2>6, <2>7 DEF store
<1>7. ASSUME NEW c \in Clients, GiveUp(c)
      PROVE  ProvisioningTypeOK'
  BY <1>7, PlanFacts DEF GiveUp, store
<1>8. CASE UNCHANGED provisioningVars
  BY <1>8 DEF provisioningVars, store, network, client
<1>. QED  BY <1>1, <1>2, <1>3, <1>4, <1>5, <1>6, <1>7, <1>8, NextCases

LEMMA NextService ==
  ASSUME ProvisioningInv, [ProvisioningNext]_provisioningVars
  PROVE  ServiceInv'
<1>. ProvisioningTypeOK /\ ServiceInv  BY DEF ProvisioningInv
<1>1. CASE StartService
  <2>1. up' /\ management' # NoKey /\ generated' # 0  BY <1>1, StartCases
  <2>. QED  BY <2>1 DEF ServiceInv
<1>2. CASE StopService
  BY <1>2 DEF StopService, ServiceInv, store
<1>3. ASSUME up, NEW call \in calls, NEW ok, NEW key, Handled(call, ok, key)
      PROVE  ServiceInv'
  <2>1. up' = up /\ management' = management  BY <1>3 DEF Handled, Reply
  <2>2. generated # 0 /\ management # NoKey  BY <1>3 DEF ServiceInv
  <2>3. generated' # 0  BY <1>3, <2>2 DEF Handled, ProvisioningTypeOK
  <2>. QED  BY <1>3, <2>1, <2>2, <2>3 DEF ServiceInv
<1>4. ASSUME NEW c \in Clients,
             \/ \E about : Begun(c, about)
             \/ \E seal : Sent(c, seal)
             \/ \E a \in answers : Accepted(c, a)
             \/ GiveUp(c)
      PROVE  ServiceInv'
  <2>1. UNCHANGED <<up, generated, management>>
    BY <1>4 DEF Begun, Begin, Sent, Send, Accepted, GiveUp, store
  <2>2. ~ up => calls' = {} /\ answers' = {}
    BY <1>4 DEF Begun, Begin, Sent, Send, Accepted, GiveUp, network, ServiceInv
  <2>. QED  BY <2>1, <2>2 DEF ServiceInv
<1>5. CASE UNCHANGED provisioningVars
  BY <1>5 DEF provisioningVars, store, network, ServiceInv
<1>. QED  BY <1>1, <1>2, <1>3, <1>4, <1>5, NextCases

LEMMA NextPlans ==
  ASSUME ProvisioningInv, [ProvisioningNext]_provisioningVars
  PROVE  PlansInv'
<1>. ProvisioningTypeOK /\ ServiceInv /\ PlansInv  BY DEF ProvisioningInv
<1>1. CASE UNCHANGED client
  BY <1>1 DEF client, PlansInv, Quiet
<1>2. ASSUME NEW c \in Clients, NEW about, Begun(c, about)
      PROVE  PlansInv'
  <2>. DEFINE operations == IF about \in Tokens THEN <<"provision_token_object">>
                            ELSE <<"add_endpoint", "provision_token_issuer">>
  <2>1. /\ plan' = [plan EXCEPT ![c] = operations]
        /\ subject' = [subject EXCEPT ![c] = about]
        /\ waiting' = waiting /\ about \in TokenIssuers \cup Tokens
    BY <1>2 DEF Begun, Begin
  <2>2. about \in TokenIssuers => operations = <<"add_endpoint", "provision_token_issuer">>
    BY ProvisioningAssumption
  <2>3. about \in Tokens => operations = <<"provision_token_object">>
    OBVIOUS
  <2>4. about # NoContract  BY <2>1, ProvisioningAssumption
  <2>. HIDE DEF operations
  <2>. QED  BY <2>1, <2>2, <2>3, <2>4 DEF PlansInv, Quiet, ProvisioningTypeOK
<1>3. ASSUME NEW c \in Clients, NEW seal, Sent(c, seal)
      PROVE  PlansInv'
  BY <1>3 DEF Sent, Send, PlansInv, Quiet, ProvisioningTypeOK
<1>4. ASSUME NEW c \in Clients, NEW a \in answers, Accepted(c, a)
      PROVE  PlansInv'
  <2>1. ~ Quiet(c)
    BY <1>4 DEF Accepted, Answers, ProvisioningInv, CallsInv, PlansInv
  <2>2. waiting'[c] = 0 /\ \A d \in Clients \ {c} : waiting'[d] = waiting[d]
    BY <1>4 DEF Accepted, ProvisioningTypeOK
  <2>3. CASE ~ metadata[c]
    BY <1>4, <2>2, <2>3 DEF Accepted, PlansInv, Quiet
  <2>4. CASE metadata[c]
    <3>1. /\ plan'[c] = Tail(plan[c])
          /\ subject'[c] = IF Len(plan[c]) = 1 THEN NoContract ELSE subject[c]
          /\ \A d \in Clients \ {c} : plan'[d] = plan[d] /\ subject'[d] = subject[d]
      BY <1>4, <2>4 DEF Accepted, ProvisioningTypeOK
    <3>2. NoContract \notin TokenIssuers /\ NoContract \notin Tokens  BY ProvisioningAssumption
    <3>3. CASE plan[c] = <<"add_endpoint", "provision_token_issuer">>
      <4>1. subject[c] \notin Tokens
        <5>1. Head(plan[c]) # "provision_token_object"  BY <3>3, PlanFacts
        <5>. QED  BY <2>1, <5>1, PlanFacts DEF PlansInv
      <4>2. plan'[c] = <<"provision_token_issuer">> /\ subject'[c] = subject[c]
        BY <3>1, <3>3, PlanFacts
      <4>. QED  BY <2>1, <2>2, <3>1, <4>1, <4>2 DEF PlansInv, Quiet
    <3>4. CASE plan[c] # <<"add_endpoint", "provision_token_issuer">>
      <4>1. Len(plan[c]) = 1
        BY <2>1, <3>4, PlanFacts, PlanOf DEF PlansInv
      <4>2. subject'[c] = NoContract  BY <3>1, <4>1
      <4>. QED  BY <2>2, <3>1, <3>2, <4>2 DEF PlansInv, Quiet
    <3>. QED  BY <3>3, <3>4
  <2>. QED  BY <2>3, <2>4
<1>5. ASSUME NEW c \in Clients, GiveUp(c)
      PROVE  PlansInv'
  <2>1. /\ subject'[c] = NoContract /\ waiting'[c] = 0
        /\ \A d \in Clients \ {c} :
             plan'[d] = plan[d] /\ subject'[d] = subject[d] /\ waiting'[d] = waiting[d]
    BY <1>5 DEF GiveUp, ProvisioningTypeOK
  <2>. QED  BY <2>1, ProvisioningAssumption DEF PlansInv, Quiet
<1>6. CASE StartService \/ StopService \/ UNCHANGED provisioningVars
  BY <1>1, <1>6 DEF StartService, StopService, provisioningVars
<1>7. ASSUME NEW call \in calls, NEW ok, NEW key, Handled(call, ok, key)
      PROVE  PlansInv'
  BY <1>1, <1>7 DEF Handled, Reply
<1>. QED  BY <1>2, <1>3, <1>4, <1>5, <1>6, <1>7, NextCases

LEMMA NextCalls ==
  ASSUME ProvisioningInv, [ProvisioningNext]_provisioningVars
  PROVE  CallsInv'
<1>. ProvisioningTypeOK /\ ServiceInv /\ PlansInv /\ CallsInv  BY DEF ProvisioningInv
<1>1. ASSUME sent' = sent, calls' \subseteq calls, UNCHANGED client,
             \A a \in answers' : a \in answers \/ \E call \in calls : a.n = call.n
      PROVE  CallsInv'
  BY <1>1 DEF CallsInv, client
<1>2. CASE StartService \/ UNCHANGED provisioningVars
  BY <1>1, <1>2 DEF StartService, provisioningVars, network
<1>3. CASE StopService
  BY <1>1, <1>3 DEF StopService
<1>4. ASSUME NEW call \in calls, NEW ok, NEW key, Handled(call, ok, key)
      PROVE  CallsInv'
  <2>1. sent' = sent /\ calls' \subseteq calls /\ UNCHANGED client
    BY <1>4 DEF Handled, Reply
  <2>2. \A a \in answers' : a \in answers \/ a.n = call.n
    BY <1>4, ReplyAnswers DEF Handled
  <2>. QED  BY <1>1, <2>1, <2>2
<1>5. ASSUME NEW c \in Clients, NEW about, Begun(c, about)
      PROVE  CallsInv'
  <2>1. /\ UNCHANGED <<sent, calls, answers, waiting, metadata>> /\ waiting[c] = 0
        /\ \A d \in Clients \ {c} : subject'[d] = subject[d] /\ plan'[d] = plan[d]
    BY <1>5 DEF Begun, Begin, PlansInv, network, ProvisioningTypeOK
  <2>2. \A call \in calls : call.n # 0  BY DEF CallsInv
  <2>. QED  BY <2>1, <2>2 DEF CallsInv
<1>6. ASSUME NEW c \in Clients, NEW seal, Sent(c, seal)
      PROVE  CallsInv'
  <2>. DEFINE verb == IF metadata[c] THEN Head(plan[c]) ELSE "info"
              new == [n |-> sent + 1, verb |-> verb, about |-> subject[c], seal |-> seal]
  <2>1. ~ Quiet(c) /\ Send(c, verb, seal)  BY <1>6 DEF Sent, Send
  <2>2. verb = "provision_token_object" => subject[c] \in Tokens  BY <2>1, PlanOf
  <2>3. /\ sent' = sent + 1 /\ calls' = calls \cup {new}
        /\ UNCHANGED <<answers, plan, subject, metadata>>
    BY <2>1 DEF Send
  <2>4. waiting'[c] = sent + 1 /\ \A d \in Clients \ {c} : waiting'[d] = waiting[d]
    BY <2>1 DEF Send, ProvisioningTypeOK
  <2>5. new.n = sent + 1 /\ new.verb = verb /\ new.about = subject[c]
    OBVIOUS
  <2>6. \A d \in Clients \ {c} : waiting'[d] # sent + 1
    BY <2>4 DEF ProvisioningTypeOK
  <2>7. \A m \in 1 .. sent : m \in 1 .. sent' /\ m # sent + 1
    BY <2>3 DEF ProvisioningTypeOK
  <2>8. sent + 1 \in 1 .. sent'  BY <2>3 DEF ProvisioningTypeOK
  <2>9. /\ \A d \in Clients : waiting'[d] = new.n =>
              new.about = subject'[d] /\ new.verb = IF metadata'[d] THEN Head(plan'[d]) ELSE "info"
        /\ new.verb = "provision_token_object" => new.about \in Tokens
        /\ new.n \in 1 .. sent'
    BY <2>2, <2>3, <2>5, <2>6, <2>8
  <2>. HIDE DEF new, verb
  <2>10. \A call \in calls :
          /\ call.n \in 1 .. sent'
          /\ call.verb = "provision_token_object" => call.about \in Tokens
          /\ \A d \in Clients : waiting'[d] = call.n =>
               /\ call.about = subject'[d]
               /\ call.verb = IF metadata'[d] THEN Head(plan'[d]) ELSE "info"
    BY <2>3, <2>4, <2>7 DEF CallsInv
  <2>11. \A a \in answers' : a.n \in 1 .. sent'  BY <2>3, <2>7 DEF CallsInv
  <2>. QED  BY <2>3, <2>9, <2>10, <2>11 DEF CallsInv
<1>7. ASSUME NEW c \in Clients,
             waiting'[c] = 0, UNCHANGED <<sent, calls>>, answers' \subseteq answers,
             \A d \in Clients \ {c} : /\ waiting'[d] = waiting[d] /\ subject'[d] = subject[d]
                                     /\ metadata'[d] = metadata[d] /\ plan'[d] = plan[d]
      PROVE  CallsInv'
  <2>1. \A call \in calls : call.n # 0  BY DEF CallsInv
  <2>. QED  BY <1>7, <2>1 DEF CallsInv
<1>8. ASSUME NEW c \in Clients, NEW a \in answers, Accepted(c, a)
      PROVE  CallsInv'
  BY <1>7, <1>8 DEF Accepted, ProvisioningTypeOK
<1>9. ASSUME NEW c \in Clients, GiveUp(c)
      PROVE  CallsInv'
  BY <1>7, <1>9 DEF GiveUp, ProvisioningTypeOK
<1>. QED  BY <1>2, <1>3, <1>4, <1>5, <1>6, <1>8, <1>9, NextCases

-----------------------------------------------------------------------------
(* Answers and keys. *)

\* Only a handler answers; an answer is about what its client is about.
LEMMA NoNewAnswers ==
  ASSUME ProvisioningInv, NEW c \in Clients,
         \/ \E about : Begun(c, about)
         \/ \E seal : Sent(c, seal)
         \/ \E a \in answers : Accepted(c, a)
         \/ GiveUp(c),
         NEW d \in Clients, NEW a, Answers(a, d)'
  PROVE  Answers(a, d) /\ subject'[d] = subject[d] /\ plan'[d] = plan[d]
<1>. ProvisioningTypeOK /\ PlansInv /\ CallsInv  BY DEF ProvisioningInv
<1>1. a \in answers
  BY DEF Answers, Begun, Begin, Sent, Send, Accepted, GiveUp, network
<1>2. a.n \in 1 .. sent /\ a.n # 0 /\ a.n # sent + 1
  BY <1>1 DEF CallsInv, ProvisioningTypeOK
<1>3. d # c
  <2>1. ASSUME NEW about, Begun(c, about) PROVE waiting'[c] = 0
    BY <2>1 DEF Begun, Begin, PlansInv
  <2>2. ASSUME NEW seal, Sent(c, seal) PROVE waiting'[c] = sent + 1
    BY <2>2 DEF Sent, Send, ProvisioningTypeOK
  <2>3. ASSUME NEW b \in answers, Accepted(c, b) PROVE waiting'[c] = 0
    BY <2>3 DEF Accepted, ProvisioningTypeOK
  <2>4. ASSUME GiveUp(c) PROVE waiting'[c] = 0
    BY <2>4 DEF GiveUp, ProvisioningTypeOK
  <2>. QED  BY <1>2, <2>1, <2>2, <2>3, <2>4 DEF Answers
<1>4. /\ waiting'[d] = waiting[d] /\ metadata'[d] = metadata[d]
      /\ subject'[d] = subject[d] /\ plan'[d] = plan[d]
  BY <1>3 DEF Begun, Begin, Sent, Send, Accepted, GiveUp, ProvisioningTypeOK
<1>. QED  BY <1>1, <1>4 DEF Answers

LEMMA HandledAnswers ==
  ASSUME ProvisioningInv, NEW call \in calls, NEW ok, NEW key, Handled(call, ok, key),
         NEW c \in Clients, NEW a, Answers(a, c)'
  PROVE  \/ Answers(a, c)
         \/ a.key = key /\ ok /\ call.about = subject[c] /\ call.verb = Head(plan[c])
<1>. ProvisioningTypeOK /\ CallsInv  BY DEF ProvisioningInv
<1>1. UNCHANGED <<waiting, metadata>>  BY DEF Handled, Reply, client
<1>2. CASE a \in answers
  BY <1>1, <1>2 DEF Answers
<1>3. CASE a = [n |-> call.n, ok |-> ok, key |-> key]
  BY <1>1, <1>3 DEF Answers, CallsInv
<1>4. a \in answers'  BY DEF Answers
<1>. QED  BY <1>2, <1>3, <1>4, ReplyAnswers DEF Handled

LEMMA NextIssuers ==
  ASSUME ProvisioningInv, [ProvisioningNext]_provisioningVars
  PROVE  IssuersInv' /\ IssuersServed'
<1>. ProvisioningTypeOK /\ ServiceInv /\ PlansInv /\ IssuersInv /\ IssuersServed
  BY DEF ProvisioningInv
<1>1. CASE StartService
  <2>1. /\ answers' = {} /\ UNCHANGED <<held, endpoints>>
        /\ management' = management \/ generated = 0
    BY <1>1, StartCases DEF network
  <2>2. generated = 0 => \A i \in TokenIssuers : held[i] = NoKey
    BY DEF ProvisioningTypeOK, NoKey
  <2>. QED  BY <2>1, <2>2 DEF IssuersInv, IssuersServed
<1>2. CASE StopService
  BY <1>2 DEF StopService, store, IssuersInv, IssuersServed
<1>3. ASSUME NEW call \in calls, NEW ok, NEW key, Handled(call, ok, key)
      PROVE  IssuersInv' /\ IssuersServed'
  <2>1. /\ UNCHANGED <<management, held, subject, plan>>
        /\ endpoints \subseteq endpoints'
    BY <1>3 DEF Handled, Reply, client
  <2>2. ASSUME NEW c \in Clients, NEW a \in answers', Answers(a, c)', subject[c] \in TokenIssuers,
               Head(plan[c]) = "provision_token_issuer"
        PROVE  subject[c] \in endpoints /\ a.key = management
    <3>1. CASE Answers(a, c)  BY <2>2, <3>1 DEF IssuersInv, Answers
    <3>2. CASE a.key = key /\ ok /\ call.about = subject[c] /\ call.verb = Head(plan[c])
      BY <1>3, <2>2, <3>2 DEF Handled
    <3>. QED  BY <1>3, <2>2, <3>1, <3>2, HandledAnswers
  <2>3. IssuersInv'  BY <2>1, <2>2 DEF IssuersInv
  <2>. QED  BY <2>1, <2>3 DEF IssuersServed
<1>4. ASSUME NEW c \in Clients,
             \/ \E about : Begun(c, about)
             \/ \E seal : Sent(c, seal)
             \/ \E a \in answers : Accepted(c, a)
             \/ GiveUp(c)
      PROVE  IssuersInv' /\ IssuersServed'
  <2>1. UNCHANGED <<management, endpoints>>
    BY <1>4 DEF Begun, Begin, Sent, Send, Accepted, GiveUp, store
  <2>2. IssuersInv'
    BY <1>4, <2>1, NoNewAnswers DEF IssuersInv, Answers
  <2>3. ASSUME NEW a \in answers, Accepted(c, a) PROVE IssuersServed'
    <3>1. CASE held' = held  BY <2>1, <3>1 DEF IssuersServed
    <3>2. CASE /\ metadata[c] /\ Head(plan[c]) = "provision_token_issuer"
               /\ held' = [held EXCEPT ![subject[c]] = a.key]
      <4>1. ~ Quiet(c) /\ Answers(a, c)
        BY <2>3, <3>2 DEF Accepted, Answers, ProvisioningInv, CallsInv, PlansInv
      <4>2. subject[c] \in TokenIssuers  BY <3>2, <4>1, PlanOf
      <4>3. subject[c] \in endpoints /\ a.key = management
        BY <3>2, <4>1, <4>2 DEF IssuersInv
      <4>. QED  BY <2>1, <3>2, <4>2, <4>3 DEF IssuersServed, ProvisioningTypeOK
    <3>. QED  BY <2>3, <3>1, <3>2 DEF Accepted
  <2>4. CASE UNCHANGED held  BY <2>1, <2>2, <2>4 DEF IssuersServed
  <2>. QED  BY <1>4, <2>2, <2>3, <2>4 DEF Begun, Begin, Sent, Send, GiveUp
<1>5. CASE UNCHANGED provisioningVars
  BY <1>5 DEF provisioningVars, store, network, client, IssuersInv, IssuersServed, Answers
<1>. QED  BY <1>1, <1>2, <1>3, <1>4, <1>5, NextCases

\* Keys that are given up or handed on make no difference.
LEMMA KeysStay ==
  ASSUME ProvisioningTypeOK, KeysInv,
         UNCHANGED <<keystore, asked, generated, management, service>>,
         \A t \in Tokens : KeysOf(t)' \subseteq KeysOf(t)
  PROVE  KeysInv'
<1>1. ASSUME NEW t \in Tokens, asked[t] = 1 PROVE KeysOf(t)' = {keystore[t]}
  <2>1. keystore[t] # NoKey  BY <1>1 DEF KeysInv, KeysOf
  <2>2. keystore'[t] \in KeysOf(t)'  BY <2>1 DEF KeysOf
  <2>. QED  BY <1>1, <2>2 DEF KeysInv
<1>. QED  BY <1>1 DEF KeysInv

LEMMA NextKeys ==
  ASSUME ProvisioningInv, [ProvisioningNext]_provisioningVars
  PROVE  KeysInv'
<1>. ProvisioningTypeOK /\ ServiceInv /\ PlansInv /\ CallsInv /\ KeysInv
  BY DEF ProvisioningInv
<1>1. CASE StartService
  <2>1. /\ answers = {} /\ answers' = {}
        /\ UNCHANGED <<keystore, asked, generation>>
        /\ \/ UNCHANGED <<generated, management, service>>
           \/ generated = 0
    BY <1>1, StartCases DEF network
  <2>2. \A t \in Tokens : KeysOf(t)' = KeysOf(t)
    BY <2>1 DEF KeysOf, Answers
  <2>3. CASE UNCHANGED <<generated, management, service>>
    BY <2>1, <2>2, <2>3, KeysStay
  <2>4. CASE generated = 0
    <3>1. \A t \in Tokens : KeysOf(t) = {}  BY <2>4 DEF KeysInv
    <3>. QED  BY <2>1, <2>2, <3>1 DEF KeysInv
  <2>. QED  BY <2>1, <2>3, <2>4
<1>2. CASE StopService
  <2>1. UNCHANGED <<keystore, asked, generated, management, service, generation>> /\ answers' = {}
    BY <1>2 DEF StopService, store
  <2>2. \A t \in Tokens : KeysOf(t)' \subseteq KeysOf(t)
    BY <2>1 DEF KeysOf, Answers
  <2>. QED  BY <2>1, <2>2, KeysStay
<1>3. ASSUME NEW call \in calls, NEW ok, NEW key, Handled(call, ok, key)
      PROVE  KeysInv'
  <2>1. UNCHANGED <<management, service, generation, subject>>
    BY <1>3 DEF Handled, Reply, client
  <2>2. ASSUME NEW t \in Tokens, NEW c \in Clients, NEW a \in answers',
               Answers(a, c)', subject[c] = t, ~ Answers(a, c)
        PROVE  /\ ok /\ call.verb = "provision_token_object" /\ call.about = t
               /\ a.key = generated + 1 /\ generated' = generated + 1
    <3>1. a.key = key /\ ok /\ call.about = t /\ call.verb = Head(plan[c])
      BY <1>3, <2>2, HandledAnswers
    <3>2. call.verb = "provision_token_object"
      BY <2>2, <3>1, PlanFacts DEF PlansInv
    <3>. QED  BY <1>3, <3>1, <3>2 DEF Handled
  <2>3. CASE UNCHANGED <<generated, keystore, asked>>
    <3>1. generated' # generated + 1  BY <2>3 DEF ProvisioningTypeOK
    <3>2. \A t \in Tokens : KeysOf(t)' \subseteq KeysOf(t)
      BY <2>1, <2>2, <2>3, <3>1 DEF KeysOf, Answers
    <3>. QED  BY <2>1, <2>3, <3>2, KeysStay
  <2>4. CASE /\ call.verb = "provision_token_object"
             /\ generated' = generated + 1
             /\ keystore' = [keystore EXCEPT ![call.about] = generated + 1]
             /\ asked' = [asked EXCEPT ![call.about] = @ + 1]
    <3>. DEFINE t == call.about
    <3>1. t \in Tokens  BY <2>4 DEF CallsInv
    <3>2. \A u \in Tokens \ {t} : KeysOf(u)' \subseteq KeysOf(u) /\ keystore'[u] = keystore[u]
      BY <2>1, <2>2, <2>4 DEF KeysOf, Answers, ProvisioningTypeOK
    <3>3. KeysOf(t)' \subseteq KeysOf(t) \cup {generated + 1}
      BY <2>1, <2>2, <2>4, <3>1 DEF KeysOf, Answers, ProvisioningTypeOK
    <3>4. keystore'[t] = generated + 1 /\ asked'[t] = asked[t] + 1 /\ asked[t] \in Nat
      BY <2>4, <3>1 DEF ProvisioningTypeOK
    <3>. HIDE DEF t
    <3>5. generated + 1 # NoKey  BY DEF ProvisioningTypeOK, NoKey
    <3>6. keystore'[t] \in KeysOf(t)'  BY <3>4, <3>5 DEF KeysOf
    <3>7. asked'[t] # 0 /\ (asked'[t] = 1 => KeysOf(t)' = {keystore'[t]})
      <4>1. asked'[t] # 0 /\ (asked'[t] = 1 => asked[t] = 0)  BY <3>4
      <4>2. asked[t] = 0 => KeysOf(t) = {}  BY <3>1 DEF KeysInv
      <4>. QED  BY <3>3, <3>4, <3>6, <4>1, <4>2
    <3>8. \A u \in Tokens \ {t} : asked'[u] = asked[u]
      BY <2>4 DEF ProvisioningTypeOK, t
    <3>9. \A u \in Tokens \ {t} : asked[u] = 1 => KeysOf(u)' = {keystore'[u]}
      <4>1. SUFFICES ASSUME NEW u \in Tokens \ {t}, asked[u] = 1 PROVE KeysOf(u)' = {keystore'[u]}
        OBVIOUS
      <4>2. KeysOf(u) = {keystore[u]}  BY <4>1 DEF KeysInv
      <4>3. keystore[u] # NoKey  BY <4>2 DEF KeysOf
      <4>4. keystore'[u] \in KeysOf(u)'  BY <3>2, <4>3 DEF KeysOf
      <4>. QED  BY <3>2, <4>2, <4>4
    <3>10. \A u \in Tokens : /\ generated + 1 \notin KeysOf(u)
                             /\ KeysOf(u) \subseteq (1 .. generated') \ {management, service}
      <4>1. SUFFICES ASSUME NEW u \in Tokens, NEW k \in KeysOf(u)
                     PROVE  k # generated + 1 /\ k \in (1 .. generated') \ {management, service}
        OBVIOUS
      <4>2. k \in (1 .. generated) \ {management, service}  BY DEF KeysInv
      <4>. QED  BY <2>4, <4>2 DEF ProvisioningTypeOK
    <3>11. generated + 1 \in (1 .. generated') \ {management, service}
      BY <2>4 DEF ProvisioningTypeOK
    <3>12. \A u \in Tokens : KeysOf(u)' \subseteq (1 .. generated') \ {management', service'}
      BY <2>1, <3>2, <3>3, <3>10, <3>11
    <3>13. \A u \in Tokens : \A v \in Tokens \ {u} : KeysOf(u)' \cap KeysOf(v)' = {}
      <4>1. \A u \in Tokens : \A v \in Tokens \ {u} : KeysOf(u) \cap KeysOf(v) = {}
        BY DEF KeysInv
      <4>. QED  BY <3>1, <3>2, <3>3, <3>10, <4>1
    <3>14. \A u \in Tokens \ {t} : asked[u] = 0 => KeysOf(u)' = {}
      BY <3>2 DEF KeysInv
    <3>. QED  BY <3>7, <3>8, <3>9, <3>12, <3>13, <3>14 DEF KeysInv
  <2>. QED  BY <1>3, <2>3, <2>4 DEF Handled
<1>4. ASSUME NEW c \in Clients,
             \/ \E about : Begun(c, about)
             \/ \E seal : Sent(c, seal)
             \/ \E a \in answers : Accepted(c, a)
             \/ GiveUp(c)
      PROVE  KeysInv'
  <2>1. UNCHANGED <<keystore, asked, generated, management, service>>
    BY <1>4 DEF Begun, Begin, Sent, Send, Accepted, GiveUp, store
  <2>2. \A t \in Tokens : generation'[t] \in KeysOf(t) \cup {generation[t], NoKey}
    <3>1. CASE generation' = generation  BY <3>1
    <3>2. ASSUME NEW a \in answers, Accepted(c, a), generation' # generation
          PROVE  \A t \in Tokens : generation'[t] \in KeysOf(t) \cup {generation[t], NoKey}
      <4>1. /\ Answers(a, c) /\ Head(plan[c]) = "provision_token_object"
            /\ generation' = [generation EXCEPT ![subject[c]] = a.key]
        BY <3>2 DEF Accepted, Answers
      <4>2. subject[c] \in Tokens => a.key \in KeysOf(subject[c]) \cup {NoKey}
        BY <4>1 DEF KeysOf, Answers
      <4>. QED  BY <4>1, <4>2 DEF ProvisioningTypeOK
    <3>. QED  BY <1>4, <3>1, <3>2 DEF Begun, Begin, Sent, Send, GiveUp
  <2>3. \A t \in Tokens : KeysOf(t)' \subseteq KeysOf(t)
    <3>1. ASSUME NEW t \in Tokens, NEW d \in Clients, NEW a, Answers(a, d)', subject'[d] = t
          PROVE  Answers(a, d) /\ subject[d] = t
      BY <1>4, <3>1, NoNewAnswers
    <3>2. SUFFICES ASSUME NEW t \in Tokens, NEW k \in KeysOf(t)' PROVE k \in KeysOf(t)
      OBVIOUS
    <3>3. /\ k # NoKey
          /\ \/ k \in {keystore[t], generation'[t]}
             \/ \E a, d : /\ d \in Clients /\ Answers(a, d)' /\ subject'[d] = t
                         /\ k = a.key
      BY <2>1 DEF KeysOf
    <3>4. CASE k \in {keystore[t], generation'[t]}
      BY <2>2, <3>3, <3>4 DEF KeysOf
    <3>5. CASE \E a, d : d \in Clients /\ Answers(a, d)' /\ subject'[d] = t /\ k = a.key
      <4>1. PICK a, d : d \in Clients /\ Answers(a, d) /\ subject[d] = t /\ k = a.key
        BY <3>1, <3>5
      <4>. QED  BY <3>3, <4>1 DEF KeysOf, Answers
    <3>. QED  BY <3>3, <3>4, <3>5
  <2>. QED  BY <2>1, <2>3, KeysStay
<1>5. CASE UNCHANGED provisioningVars
  <2>1. UNCHANGED <<keystore, asked, generated, management, service>>
    BY <1>5 DEF provisioningVars, store
  <2>2. \A t \in Tokens : KeysOf(t)' = KeysOf(t)
    BY <1>5 DEF provisioningVars, store, network, client, KeysOf, Answers
  <2>. QED  BY <2>1, <2>2, KeysStay
<1>. QED  BY <1>1, <1>2, <1>3, <1>4, <1>5, NextCases

-----------------------------------------------------------------------------
(* The invariant, and the properties of the runs. *)

LEMMA InitInv == ProvisioningInit => ProvisioningInv
<1>. SUFFICES ASSUME ProvisioningInit PROVE ProvisioningInv
  OBVIOUS
<1>. USE DEF ProvisioningInit, NoKey
<1>1. ProvisioningTypeOK
  <2>1. <<>> \in Seq(Verbs)  BY PlanFacts
  <2>2. plan \in [Clients -> Seq(Verbs)]  BY <2>1
  <2>3. /\ up \in BOOLEAN /\ metadata \in [Clients -> BOOLEAN]
        /\ subject \in [Clients -> TokenIssuers \cup Tokens \cup {NoContract}]
        /\ endpoints \subseteq Authorized /\ calls \subseteq Call /\ answers \subseteq Answer
    OBVIOUS
  <2>4. /\ startups \in 0 .. MaxStartups /\ sent \in 0 .. MaxCalls
        /\ waiting \in [Clients -> 0 .. sent] /\ asked \in [Tokens -> Nat]
    BY ProvisioningAssumption
  <2>5. /\ generated \in Nat /\ management \in 0 .. generated /\ service \in 0 .. generated
        /\ keystore \in [Tokens -> 0 .. generated]
        /\ held \in [TokenIssuers -> 0 .. generated]
        /\ generation \in [Tokens -> 0 .. generated]
    OBVIOUS
  <2>. QED  BY <2>2, <2>3, <2>4, <2>5 DEF ProvisioningTypeOK
<1>2. ServiceInv /\ CallsInv /\ IssuersInv /\ IssuersServed
  BY DEF ServiceInv, CallsInv, IssuersInv, IssuersServed
<1>3. PlansInv  BY ProvisioningAssumption DEF PlansInv, Quiet
<1>4. \A t \in Tokens : KeysOf(t) = {}  BY DEF KeysOf, Answers
<1>5. KeysInv  BY <1>4 DEF KeysInv
<1>. QED  BY <1>1, <1>2, <1>3, <1>5 DEF ProvisioningInv

LEMMA NextInv == ProvisioningInv /\ [ProvisioningNext]_provisioningVars => ProvisioningInv'
<1>. SUFFICES ASSUME ProvisioningInv, [ProvisioningNext]_provisioningVars
              PROVE  ProvisioningInv'
  OBVIOUS
<1>. QED
  BY NextType, NextService, NextPlans, NextCalls, NextIssuers, NextKeys DEF ProvisioningInv

\* The inductive invariant of provisioning: each answer under way fits what its
\* client is about, and each key generated belongs to one token at most.
THEOREM ProvisioningInvariant == ProvisioningSpec => []ProvisioningInv
BY InitInv, NextInv, PTL DEF ProvisioningSpec

\* However the service is stopped and its answers are lost or late, an initialized
\* token issuer holds the service's management key and has an endpoint there.
THEOREM IssuersAreServed == ProvisioningSpec => []IssuersServed
<1>1. ProvisioningInv => IssuersServed  BY DEF ProvisioningInv
<1>. QED  BY <1>1, ProvisioningInvariant, PTL

\* A token that was provisioned once holds the key the service has for it; in any
\* case no other token has its key, and the service does not use it for itself.
THEOREM ProvisionedTokensUsable == ProvisioningSpec => []OnceProvisionedUsable
<1>1. ASSUME ProvisioningInv PROVE OnceProvisionedUsable
  <2>1. SUFFICES ASSUME NEW t \in Tokens, generation[t] # NoKey
                 PROVE  /\ asked[t] = 1 => generation[t] = keystore[t]
                        /\ generation[t] \notin {management, service}
                        /\ \A u \in Tokens \ {t} : generation[t] \notin {generation[u], keystore[u]}
    BY DEF OnceProvisionedUsable
  <2>2. generation[t] \in KeysOf(t)  BY <2>1 DEF KeysOf
  <2>3. \A u \in Tokens \ {t} : generation[t] \notin {generation[u], keystore[u]}
    <3>1. SUFFICES ASSUME NEW u \in Tokens \ {t}, generation[t] \in {generation[u], keystore[u]}
                   PROVE  FALSE
      OBVIOUS
    <3>2. generation[t] \in KeysOf(u)  BY <2>1, <3>1 DEF KeysOf
    <3>. QED  BY <1>1, <2>2, <3>2 DEF ProvisioningInv, KeysInv
  <2>. QED  BY <1>1, <2>2, <2>3 DEF ProvisioningInv, KeysInv
<1>. QED  BY <1>1, ProvisioningInvariant, PTL
=============================================================================
