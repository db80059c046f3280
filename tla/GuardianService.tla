-------------------------- MODULE GuardianService --------------------------
(***************************************************************************)
(* The web service of a guardian: the threads that process capabilities,   *)
(* and the registry by which they recognize a request they have seen.      *)
(*                                                                         *)
(* A capability is an operation package a token object made.  It is        *)
(* encrypted for the guardian and carries a request identifier; whoever    *)
(* holds it may submit it late, or several times at once.  Requests that   *)
(* are turned down before the registry is consulted (malformed, unknown    *)
(* identity or method) change nothing and are left out.                    *)
(*                                                                         *)
(* The threads share a dictionary without a lock.  A step is one access to *)
(* it: looking up a set and then testing or extending that set could be    *)
(* two, but with the set replaced in between the outcome is that of the    *)
(* whole access made before the replacement.                               *)
(***************************************************************************)
EXTENDS Naturals

CONSTANTS
  Identities,     \* minted identities of token objects
  Methods,        \* operations in capability_handler_map
  UniqueMethods,  \* those with unique_requests set
  RequestIds,     \* request identifiers
  Workers,        \* threads the service's pool may have
  NoSet,          \* an identity without an entry in the registry
  NoRequest,      \* an idle thread's request
  MaxStarts       \* bound: how often the service is started

Request == [minted: Identities, id: RequestIds, method: Methods]

ASSUME GuardianAssumption ==
  /\ UniqueMethods \subseteq Methods
  /\ \A S \in SUBSET RequestIds : NoSet # S
  /\ NoRequest \notin Request
  /\ MaxStarts \in Nat \ {0}

VARIABLES
  pool,       \* the threads the service's configuration gives it
  packages,   \* the capabilities token objects have made
  registry,   \* request_registry, in memory only
  pc,         \* what each thread does next
  request,    \* the request each thread is processing
  starts,     \* how often the service has been started
  accepted,   \* history: per start, how often each request was let through
  refused     \* history: the requests turned down as duplicates since the start

vars == <<pool, packages, registry, pc, request, starts, accepted, refused>>

Key == Identities \X RequestIds
KeyOf(r) == <<r.minted, r.id>>

TypeOK ==
  /\ pool \subseteq Workers
  /\ packages \subseteq Request
  /\ registry \in [Identities -> {NoSet} \cup SUBSET RequestIds]
  /\ pc \in [Workers -> {"idle", "lookup", "create", "check", "record", "dispatch"}]
  /\ request \in [Workers -> Request \cup {NoRequest}]
  /\ \A w \in Workers : pc[w] # "idle" => request[w] \in Request
  /\ starts \in 1 .. MaxStarts
  /\ accepted \in [1 .. MaxStarts -> [Key -> Nat]]
  /\ refused \subseteq Key

EmptyRegistry == [t \in Identities |-> NoSet]

Init ==
  /\ pool \in SUBSET Workers \ {{}}
  /\ packages = {}
  /\ registry = EmptyRegistry
  /\ pc = [w \in Workers |-> "idle"]
  /\ request = [w \in Workers |-> NoRequest]
  /\ starts = 1
  /\ accepted = [n \in 1 .. MaxStarts |-> [k \in Key |-> 0]]
  /\ refused = {}

-----------------------------------------------------------------------------
(* A token object makes a package.  Contracts may also choose the request    *)
(* identifier, so that several packages share one.                           *)

CreateOperationPackage(r) ==
  /\ packages' = packages \cup {r}
  /\ UNCHANGED <<registry, pc, request, starts, accepted, refused>>

-----------------------------------------------------------------------------
(* The steps of a thread. *)

GoTo(w, label) == pc' = [pc EXCEPT ![w] = label]

\* Decrypts the operation and finds its handler.
Receive(w, r) ==
  /\ pc[w] = "idle"
  /\ request' = [request EXCEPT ![w] = r]
  /\ GoTo(w, IF r.method \in UniqueMethods THEN "lookup" ELSE "dispatch")
  /\ UNCHANGED <<packages, registry, starts, accepted, refused>>

\* Mutant of Lookup: the set is created whether it exists or not.
LookupNothing(w) ==
  /\ pc[w] = "lookup"
  /\ GoTo(w, "create")
  /\ UNCHANGED <<packages, registry, request, starts, accepted, refused>>

\* Does the identity have an entry in the registry?
Lookup(w) ==
  /\ pc[w] = "lookup"
  /\ GoTo(w, IF registry[request[w].minted] = NoSet THEN "create" ELSE "check")
  /\ UNCHANGED <<packages, registry, request, starts, accepted, refused>>

Create(w) ==
  /\ pc[w] = "create"
  /\ registry' = [registry EXCEPT ![request[w].minted] = {}]
  /\ GoTo(w, "check")
  /\ UNCHANGED <<packages, request, starts, accepted, refused>>

\* Mutant of Seen: one set for the requests of all identities.
SeenAnywhere(r) == \E t \in Identities : registry[t] # NoSet /\ r.id \in registry[t]

Seen(r) == r.id \in registry[r.minted]

Check(w) ==
  /\ pc[w] = "check"
  /\ IF Seen(request[w])
     THEN /\ refused' = refused \cup {KeyOf(request[w])}
          /\ request' = [request EXCEPT ![w] = NoRequest]
          /\ GoTo(w, "idle")
     ELSE GoTo(w, "record") /\ UNCHANGED <<request, refused>>
  /\ UNCHANGED <<packages, registry, starts, accepted>>

\* Mutant of Record: the identifier is not kept.
RecordNothing(w) ==
  /\ pc[w] = "record"
  /\ accepted' = [accepted EXCEPT ![starts][KeyOf(request[w])] = @ + 1]
  /\ GoTo(w, "dispatch")
  /\ UNCHANGED <<packages, registry, request, starts, refused>>

\* From here on the request is let through.
Record(w) ==
  /\ pc[w] = "record"
  /\ registry' = [registry EXCEPT ![request[w].minted] = @ \cup {request[w].id}]
  /\ accepted' = [accepted EXCEPT ![starts][KeyOf(request[w])] = @ + 1]
  /\ GoTo(w, "dispatch")
  /\ UNCHANGED <<packages, request, starts, refused>>

\* Mutant of Dispatch: the identifier of an operation that fails is forgotten.
DispatchForgets(w) ==
  /\ pc[w] = "dispatch"
  /\ registry' = [registry EXCEPT ![request[w].minted] =
                     IF @ = NoSet THEN @ ELSE @ \ {request[w].id}]
  /\ request' = [request EXCEPT ![w] = NoRequest]
  /\ GoTo(w, "idle")
  /\ UNCHANGED <<packages, starts, accepted, refused>>

\* The operation runs; the registry is the same whether it succeeds or fails.
Dispatch(w) ==
  /\ pc[w] = "dispatch"
  /\ request' = [request EXCEPT ![w] = NoRequest]
  /\ GoTo(w, "idle")
  /\ UNCHANGED <<packages, registry, starts, accepted, refused>>

\* The service is shut down or killed, and started again.
Restart ==
  /\ starts < MaxStarts
  /\ starts' = starts + 1
  /\ registry' = EmptyRegistry
  /\ pc' = [w \in Workers |-> "idle"]
  /\ request' = [w \in Workers |-> NoRequest]
  /\ refused' = {}
  /\ UNCHANGED <<packages, accepted>>

Step(w) ==
  \/ \E r \in packages : Receive(w, r)
  \/ Lookup(w) \/ Create(w) \/ Check(w) \/ Record(w) \/ Dispatch(w)

Next ==
  /\ UNCHANGED pool
  /\ \/ \E r \in Request : CreateOperationPackage(r)
     \/ \E w \in pool : Step(w)
     \/ Restart

Spec == Init /\ [][Next]_vars

-----------------------------------------------------------------------------
(* Properties. *)

\* Between two starts a unique operation's request is let through at most once,
\* however often and by however many holders its package is submitted.
AcceptedOnce ==
  \A n \in 1 .. MaxStarts, k \in Key : accepted[n][k] <= 1

\* With a single thread it is so; threads race.
SerialAcceptsOnce == \A w \in Workers : pool = {w} => AcceptedOnce

\* Nobody's request is turned down as a duplicate unless a request with its
\* identifier, for its own token, was let through since the start.  Request
\* identifiers need only be unique per token.
RefusedOnlyDuplicates ==
  \A k \in refused : accepted[starts][k] > 0

\* Thread w is about to create the set of identity t.
Creating(w, t) == pc[w] = "create" /\ request[w].minted = t

\* The registry forgets an identifier in two ways only: by a restart, or because
\* a thread that found no set for the identity replaces the set another thread
\* has created and filled meanwhile.
ForgetsOnlyWhileCreating ==
  [][\A t \in Identities :
       \/ registry[t] = NoSet
       \/ registry'[t] # NoSet /\ registry[t] \subseteq registry'[t]
       \/ starts' # starts
       \/ \E w \in Workers : Creating(w, t)]_vars

\* That second way is open only until the first requests for an identity are
\* through: a thread about to create a set saw none, so once a set exists and
\* nobody is creating it, nobody will before the next start.
NoLateCreation ==
  [][\A t \in Identities :
       registry[t] # NoSet /\ (\A w \in Workers : ~ Creating(w, t))
         => \A w \in Workers : ~ Creating(w, t)']_vars

-----------------------------------------------------------------------------
(* The inductive invariant behind them.                                      *)

\* A thread tests and extends a set that exists, and what is in it was let
\* through since the start.
Registered ==
  /\ \A w \in Workers :
       pc[w] \in {"check", "record"} => registry[request[w].minted] # NoSet
  /\ \A t \in Identities, id \in RequestIds :
       registry[t] # NoSet /\ id \in registry[t] => accepted[starts][<<t, id>>] > 0

\* With a single thread the converse holds as well.
Serial(w) ==
  /\ \A n \in 1 .. MaxStarts, k \in Key : n > starts => accepted[n][k] = 0
  /\ \A t \in Identities, id \in RequestIds :
       accepted[starts][<<t, id>>] > 0 => registry[t] # NoSet /\ id \in registry[t]
  /\ pc[w] = "create" => registry[request[w].minted] = NoSet
  /\ pc[w] = "record" => request[w].id \notin registry[request[w].minted]
=============================================================================
