----------------------------- MODULE TokenMinting -----------------------------
(***************************************************************************)
(* The mint_tokens command: for each token it creates a token object,      *)
(* registers and mints it at the token issuer, has the data guardian make  *)
(* its capability key, and initializes it.  Several processes of the       *)
(* issuer's owner may run it, each with a context of its own in memory;    *)
(* the notebook writes the context file when the command has returned.     *)
(* The guardian is the data guardian contract.                             *)
(***************************************************************************)
EXTENDS Naturals, Sequences, FiniteSets, Functions

CONSTANTS
  Clients,
  Count,        \* tokens to mint: count in the issuer's context, and the contract's limit
  MaxObjects,   \* bound: token objects created
  MaxFailures   \* bound: spontaneous failures and restarts

ASSUME MintingAssumption == Count \in Nat \ {0} /\ MaxObjects \in Nat /\ MaxFailures \in Nat

Objects == 1 .. MaxObjects
NoObject == 0
NoKey == 0

VARIABLES
  made,          \* number of token objects created
  registered,    \* token issuer: objects with an endpoint
  minted,        \* token issuer: objects with a minted identity
  approved,      \* token issuer: objects approved as issuers
  remaining,     \* token issuer: current_token_count
  identity,      \* data guardian: the capability key of each minted identity
  generated,     \* data guardian: number of keys generated
  packages,      \* initialization packages it handed out: <<object, key>>
  generation,    \* capability_generation_key of each token object
  pc,            \* the step each client's command makes next
  current,       \* the token object it is minting
  list,          \* minted_tokens
  attested,      \* is the ledger's attestation it holds that of the issuer's state?
  context,       \* its context: token_1, token_2, ... and token_save_file_list
  file,          \* the context file
  failures

issuerVars == <<registered, minted, approved, remaining>>
guardianVars == <<identity, generated, packages>>
clientVars == <<pc, current, list, attested, context, file, failures>>
mintingVars == <<made, issuerVars, guardianVars, generation, clientVars>>

Steps == {"loop", "add_endpoint", "mint", "attest", "package", "approve", "authority",
          "provision", "initialize", "record", "save"}

Lists == {l \in Seq(Objects) : Len(l) <= Count}
Contexts == [entries : [1 .. Count -> Objects \cup {NoObject}], list : Lists]

MintingTypeOK ==
  /\ made \in 0 .. MaxObjects
  /\ approved \subseteq registered /\ minted \subseteq registered /\ registered \subseteq 1 .. made
  /\ remaining \in 0 .. Count
  /\ generated \in Nat /\ identity \in [Objects -> 0 .. generated]
  /\ packages \subseteq minted \X (1 .. generated)
  /\ generation \in [Objects -> 0 .. generated]
  /\ pc \in [Clients -> Steps \cup {"idle"}]
  /\ current \in [Clients -> 0 .. made]
  /\ list \in [Clients -> Lists]
  /\ attested \in [Clients -> BOOLEAN]
  /\ context \in [Clients -> Contexts]
  /\ file \in Contexts
  /\ failures \in 0 .. MaxFailures

NoTokens == [entries |-> [n \in 1 .. Count |-> NoObject], list |-> <<>>]

MintingInit ==
  /\ made = 0
  /\ registered = {} /\ minted = {} /\ approved = {} /\ remaining = Count
  /\ generated = 0 /\ identity = [o \in Objects |-> NoKey] /\ packages = {}
  /\ generation = [o \in Objects |-> NoKey]
  /\ pc = [c \in Clients |-> "idle"]
  /\ current = [c \in Clients |-> NoObject]
  /\ list = [c \in Clients |-> <<>>]
  /\ attested = [c \in Clients |-> FALSE]
  /\ context = [c \in Clients |-> NoTokens]
  /\ file = NoTokens
  /\ failures = 0

-----------------------------------------------------------------------------
(* The contracts. *)

\* Every transaction of the issuer outdates the attestations of its state.
IssuerChanges == attested' = [c \in Clients |-> FALSE]

\* Mutant of Mint: the count may go below zero, and wraps.
MintUncounted(o) ==
  /\ o \in registered \ minted
  /\ minted' = minted \cup {o}
  /\ approved' = approved \cup {o}
  /\ remaining' = (remaining + Count) % (Count + 1)
  /\ IssuerChanges
  /\ UNCHANGED registered

Mint(o) ==
  /\ o \in registered \ minted
  /\ remaining > 0
  /\ minted' = minted \cup {o}
  /\ approved' = approved \cup {o}
  /\ remaining' = remaining - 1
  /\ IssuerChanges
  /\ UNCHANGED registered

\* Mutant of Provision: a new key each time.
ProvisionNewKey(o) ==
  /\ generated' = generated + 1
  /\ identity' = [identity EXCEPT ![o] = generated + 1]
  /\ packages' = packages \cup {<<o, generated + 1>>}

\* The guardian makes a key for an identity that has none.
Provision(o) ==
  LET key == IF identity[o] = NoKey THEN generated + 1 ELSE identity[o] IN
  /\ generated' = IF identity[o] = NoKey THEN key ELSE generated
  /\ identity' = [identity EXCEPT ![o] = key]
  /\ packages' = packages \cup {<<o, key>>}

\* A token object is initialized once, with an authority and a package meant for it.
InitializeToken(o) ==
  /\ o \in approved
  /\ generation[o] = NoKey
  /\ \E package \in packages :
       package[1] = o /\ generation' = [generation EXCEPT ![o] = package[2]]

-----------------------------------------------------------------------------
(* mint_tokens *)

Goto(c, step) == pc' = [pc EXCEPT ![c] = step]

BeginMinting(c) ==
  /\ pc[c] = "idle"
  /\ list' = [list EXCEPT ![c] = context[c].list]
  /\ Goto(c, "loop")
  /\ UNCHANGED <<made, issuerVars, guardianVars, generation, current, attested, context, file, failures>>

CreateToken(c) ==
  /\ pc[c] = "loop" /\ Len(list[c]) < Count
  /\ made < MaxObjects
  /\ made' = made + 1
  /\ current' = [current EXCEPT ![c] = made + 1]
  /\ Goto(c, "add_endpoint")
  /\ UNCHANGED <<issuerVars, guardianVars, generation, list, attested, context, file, failures>>

AddEndpoint(c) ==
  /\ pc[c] = "add_endpoint"
  /\ registered' = registered \cup {current[c]}
  /\ IssuerChanges
  /\ Goto(c, "mint")
  /\ UNCHANGED <<made, minted, approved, remaining, guardianVars, generation, current, list,
                 context, file, failures>>

MintToken(c) ==
  /\ pc[c] = "mint"
  /\ Mint(current[c])
  /\ Goto(c, "attest")
  /\ UNCHANGED <<made, guardianVars, generation, current, list, context, file, failures>>

AttestState(c) ==
  /\ pc[c] = "attest"
  /\ attested' = [attested EXCEPT ![c] = TRUE]
  /\ Goto(c, "package")
  /\ UNCHANGED <<made, issuerVars, guardianVars, generation, current, list, context, file, failures>>

\* The issuer makes the package for the guardian only if its present state is
\* the attested one.
PackageToken(c) ==
  /\ pc[c] = "package"
  /\ attested[c] /\ current[c] \in minted
  /\ Goto(c, "approve")
  /\ UNCHANGED <<made, issuerVars, guardianVars, generation, current, list, attested, context, file,
                 failures>>

ApproveToken(c) ==
  /\ pc[c] = "approve"
  /\ approved' = approved \cup {current[c]}
  /\ IssuerChanges
  /\ Goto(c, "authority")
  /\ UNCHANGED <<made, registered, minted, remaining, guardianVars, generation, current, list,
                 context, file, failures>>

GetAuthority(c) ==
  /\ pc[c] = "authority"
  /\ current[c] \in approved
  /\ Goto(c, "provision")
  /\ UNCHANGED <<made, issuerVars, guardianVars, generation, current, list, attested, context, file,
                 failures>>

ProvisionToken(c) ==
  /\ pc[c] = "provision"
  /\ Provision(current[c])
  /\ Goto(c, "initialize")
  /\ UNCHANGED <<made, issuerVars, generation, current, list, attested, context, file, failures>>

OpInitialize(c) ==
  /\ pc[c] = "initialize"
  /\ InitializeToken(current[c])
  /\ Goto(c, "record")
  /\ UNCHANGED <<made, issuerVars, guardianVars, current, list, attested, context, file, failures>>

Recorded(c) == [context[c] EXCEPT !.entries[Len(list[c]) + 1] = current[c]]

\* The token's entry is made in the context at once, the list is kept aside.
RecordToken(c) ==
  /\ pc[c] = "record"
  /\ list' = [list EXCEPT ![c] = Append(@, current[c])]
  /\ context' = [context EXCEPT ![c] = Recorded(c)]
  /\ Goto(c, "loop")
  /\ UNCHANGED <<made, issuerVars, guardianVars, generation, current, attested, file, failures>>

\* Mutant of FinishMinting: the list is not put into the context.
FinishUnlisted(c) ==
  /\ pc[c] = "loop" /\ Len(list[c]) = Count
  /\ Goto(c, "save")
  /\ UNCHANGED <<made, issuerVars, guardianVars, generation, current, list, attested, context, file,
                 failures>>

FinishMinting(c) ==
  /\ pc[c] = "loop" /\ Len(list[c]) = Count
  /\ context' = [context EXCEPT ![c].list = list[c]]
  /\ Goto(c, "save")
  /\ UNCHANGED <<made, issuerVars, guardianVars, generation, current, list, attested, file, failures>>

SaveContextFile(c) ==
  /\ pc[c] = "save"
  /\ file' = context[c]
  /\ Goto(c, "idle")
  /\ UNCHANGED <<made, issuerVars, guardianVars, generation, current, list, attested, context, failures>>

MintingStep(c) ==
  \/ CreateToken(c) \/ AddEndpoint(c) \/ MintToken(c) \/ AttestState(c) \/ PackageToken(c)
  \/ ApproveToken(c) \/ GetAuthority(c) \/ ProvisionToken(c) \/ OpInitialize(c)
  \/ RecordToken(c) \/ FinishMinting(c) \/ SaveContextFile(c)

-----------------------------------------------------------------------------
(* What else happens. *)

\* provision_token, from the shell: the package of a minted token is given to the
\* guardian again.
ProvisionAgain(o) ==
  /\ identity[o] # NoKey
  /\ generated < MaxObjects
  /\ Provision(o)
  /\ UNCHANGED <<made, issuerVars, generation, clientVars>>

\* Mutant of Raise: a command that fails writes what it has to the context.
RaiseAndKeepList(c) ==
  /\ pc[c] # "idle"
  /\ Goto(c, "idle")
  /\ context' = [context EXCEPT ![c].list =
                   IF current[c] = NoObject \/ Len(list[c]) = Count \/ current[c] \in Range(list[c])
                   THEN list[c] ELSE Append(list[c], current[c])]
  /\ current' = [current EXCEPT ![c] = NoObject]
  /\ list' = [list EXCEPT ![c] = <<>>]
  /\ attested' = [attested EXCEPT ![c] = FALSE]
  /\ UNCHANGED <<made, issuerVars, guardianVars, generation, file>>

Raise(c) ==
  /\ pc[c] # "idle"
  /\ Goto(c, "idle")
  /\ current' = [current EXCEPT ![c] = NoObject]
  /\ list' = [list EXCEPT ![c] = <<>>]
  /\ attested' = [attested EXCEPT ![c] = FALSE]
  /\ UNCHANGED <<made, issuerVars, guardianVars, generation, context, file>>

\* A contract refuses the next step.
Refused(c) == ~ ENABLED MintingStep(c) /\ Raise(c) /\ UNCHANGED failures

\* A service fails, an answer is lost, or the user interrupts the command.
Fail(c) == failures < MaxFailures /\ Raise(c) /\ failures' = failures + 1

\* A new process, with the context of the file.
Restart(c) ==
  /\ failures < MaxFailures
  /\ failures' = failures + 1
  /\ Goto(c, "idle")
  /\ current' = [current EXCEPT ![c] = NoObject]
  /\ list' = [list EXCEPT ![c] = <<>>]
  /\ attested' = [attested EXCEPT ![c] = FALSE]
  /\ context' = [context EXCEPT ![c] = file]
  /\ UNCHANGED <<made, issuerVars, guardianVars, generation, file>>

MintingNext ==
  \/ \E c \in Clients :
       BeginMinting(c) \/ MintingStep(c) \/ Refused(c) \/ Fail(c) \/ Restart(c)
  \/ \E o \in Objects : ProvisionAgain(o)

MintingSpec == MintingInit /\ [][MintingNext]_mintingVars

\* Commands go on or end.
MintingFairness ==
  \A c \in Clients : WF_mintingVars(MintingStep(c)) /\ WF_mintingVars(Refused(c))

MintingFairSpec == MintingSpec /\ MintingFairness

-----------------------------------------------------------------------------
(* Properties. *)

Ready == {o \in Objects : generation[o] # NoKey}

\* However often the command is interrupted, repeated or run twice at a time, no
\* more than Count tokens come into being, and each was minted, approved and
\* counted by the issuer.
LimitKept ==
  /\ Cardinality(minted) + remaining = Count
  /\ Ready \subseteq minted \cap approved

\* A token seals its operations with the key the guardian opens them with, and
\* no other token has that key, though packages may be asked for repeatedly.
TokensUsable ==
  \A o \in Ready :
    /\ generation[o] = identity[o]
    /\ \A q \in Ready \ {o} : generation[q] # generation[o]

Sound(record) ==
  /\ (Range(record.entries) \cup Range(record.list)) \ {NoObject} \subseteq Ready
  /\ IsInjective(record.list)
  /\ record.list # <<>> => record.list = record.entries

\* A context, in memory or in the file, names only tokens that are ready for use,
\* and its list is either missing or complete and in step with its entries.
RecordsSound == Sound(file) /\ \A c \in Clients : Sound(context[c])

-----------------------------------------------------------------------------
(* The inductive invariant behind LimitKept, TokensUsable and RecordsSound.  *)

InProgress == Steps \ {"loop", "save"}

\* How far the token a command is minting has come, by the command's next step.
PlacesInv ==
  \A c \in Clients :
    /\ pc[c] \in InProgress =>
         current[c] \in 1 .. made /\ current[c] \notin Range(list[c]) /\ Len(list[c]) < Count
    /\ pc[c] \in InProgress \ {"add_endpoint", "mint"} => current[c] \in minted
    /\ pc[c] = "record" => current[c] \in Ready

\* The guardian gave out one key for each minted identity, and tokens have theirs.
KeysInv ==
  /\ \A o \in Objects : identity[o] # NoKey =>
       o \in minted /\ \A q \in Objects \ {o} : identity[q] # identity[o]
  /\ \A package \in packages : package[2] = identity[package[1]]
  /\ \A o \in Ready : generation[o] = identity[o] /\ o \in minted \cap approved

\* The list a command keeps aside is in step with the entries it makes.
ListsInv ==
  \A c \in Clients :
    /\ Range(list[c]) \subseteq Ready /\ IsInjective(list[c])
    /\ pc[c] # "idle" => \A n \in 1 .. Len(list[c]) : list[c][n] = context[c].entries[n]
    /\ pc[c] # "idle" => context[c].list \in {<<>>, list[c]}

MintingInv ==
  /\ MintingTypeOK
  /\ PlacesInv /\ KeysInv /\ ListsInv
  /\ IsFiniteSet(minted) /\ LimitKept
  /\ RecordsSound

-----------------------------------------------------------------------------
(* Liveness. *)

\* Undisturbed, a client that mints alone mints all the tokens and records them.
MintsAll ==
  \A c \in Clients :
    [](\A d \in Clients \ {c} : pc[d] = "idle") /\ <>(pc[c] # "idle")
      => <>(Len(file.list) = Count \/ failures > 0)
=============================================================================
