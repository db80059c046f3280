# A TLA+ model of pdo-contracts

pdo-contracts is a collection of contract families for Private Data Objects: C++ contract
objects that run in enclaves and whose states are committed to a ledger, Python client plugins
and notebooks that drive them, and a web service (the guardian) that serves the digital assets the
contracts control. This directory models the exchange of assets from the contracts' ledgers up to the
clients' commands and notebooks, the authority behind the assets, and the tokens a guardian serves.
Paths below are relative to `src/`.

## 1. Inventory

| Component | State | Operations | Interacts with |
| --- | --- | --- | --- |
| Issuer (`exchange-contract/exchange/contracts/issuer.cpp`, `common/{Asset,LedgerEntry,LedgerStore,Escrow}`) | a ledger store: per owner an entry with a balance and a list of escrows; the stored authority | initialize, issue, transfer, escrow, escrow_attestation, release, claim | attestations go by way of clients to exchange objects; releases and claims come back from them |
| Exchange (`contracts/exchange.cpp`, `common/{AssetRequest,AuthoritativeAsset}`) | current state, request, offered asset, exchanged asset and its owner | initialize, cancel_exchange, cancel_exchange_attestation, exchange_asset, claim_exchanged_asset, claim_offered_asset, release_asset | checks issuers' signatures and authority chains, signs releases and claims |
| Token object (`contracts/token_object.cpp`) | the issuer's ledger for one asset, the contract owner, the capability generation key | initialize, transfer, escrow, escrow_attestation, release, claim, operation packages | the issuer's methods; the guardian executes the packages |
| Issuer authority (`issuer_authority_base.cpp`, `vetting_organization.cpp`, `asset_type.cpp`, `common/IssuerAuthority*.cpp`) | asset type, approved issuer keys, the authority chain | initialize_root/derived_authority, add_approved_issuer, get_(issuer_)authority | the chain an exchange object matches a request against |
| Token issuer, data guardian (`token_issuer.cpp`, `data_guardian.cpp`) | registered endpoints, minted identities, how many tokens remain; capability keys | initialize, add_endpoint, mint, provision | token objects, the guardian service |
| Guardian service (`common-contract/pdo/contracts/guardian/wsgi`, `common`) | capability key store and endpoint registry (files), request registry (memory) | info, add_endpoint, provision_token_issuer, provision_token_object, process_capability | token holders' clients, over HTTP, several threads |
| Client plugins (`exchange-contract/pdo/exchange/plugins`, `digital-asset-contract`, `inference-contract`) | the context of the client process and its file | multi-transaction commands: set up issuers; create, match, cancel and claim an order; provision, mint and use tokens | all contracts, the guardian service |
| Notebooks and widgets (`*/pdo/*/jupyter`, `docs/notebooks/templates`) | key files, the wallet's context and its file, what forms show | set up, transfer, import, generate keys | the plugins |
| Digital asset, inference and counter contracts | image and border; none; one `uint32_t` | specializations of guardian and token object; inc/get | as the base contracts |
| Runtime and ledger (external) | contract states and their commit | invoke, commit with dependencies | everything |

How the parts interact. No contract calls another. A client invokes one method of one object,
receives a signed statement (an *escrow attestation* from an issuer, a *release* or *claim* from
an exchange object, an *authority chain*, a *capability*) and presents it, whenever it likes and as often
as it likes, to another object. The atomic exchange of two assets is therefore a sequence of at
least eight invocations by two parties on three objects, any of which may be interleaved with the
invocations of everybody else, be repeated, or never happen; and each is made on a contract state
the ledger commits later, or not at all.

What is hard: parties that race for one offer; statements that are presented late, twice, or after
their opposite; one of two deliveries succeeding long before the other; approvals and decisions
of states that are never committed; `uint32_t` balances with no bound on issuance; two records of one fact (a
token's ledger and its owner; a context and its file); threads of the guardian service
that share its request registry, lost calls and late answers, and restarts; commands that stop between two
transactions and are repeated; two processes that mint at a time; forms that show what is no longer so.

What makes each component correct:

- *Issuer*: assets are created by issue only and lost by nobody but their claimer; an owner has at most one escrow
  per agent; an attested asset stays in escrow until its agent decides; an escrow is settled
  once, whole, and only as the agent signed.
- *Exchange*: both sides receive their assets or neither does; never two dispositions of one
  asset; the creator gets what it asked for; whoever lost the race gets its asset back.
- *Token object*: the ledger and the owner agree; ownership changes only by the owner's transfer or
  the escrow agent's claim.
- *Authority and commitment*: what the ledger commits rests on approvals and decisions it has committed.
- *Guardian service*: a unique request is executed at most once per start, others are never refused; keys
  survive lost replies and restarts.
- *Commands*: one that stops half way can be repeated, strands no asset it need not strand, and
  leaves a context that names only contracts which belong together.
- *Tokens*: no more than were allowed, each usable with a key of its own, and by its owners and whom they pass a
  capability to.
- *Wallet*: imports are kept, and the assets that move are those the user saw.

`PROJECT.json` lists the components with their status and the hazards line by line.

## 2. Modules

Definitions whose comment begins "Mutant of" are not part of any specification. Each is a
plausible error in the definition after it, kept to demonstrate that a property fails
when the code is wrong in that way.

### Contracts

- `Issuer`: any number of issuers. An action is one invocation of a method, which runs on one
  state and, when it fails, changes nothing; hence guards are the code's assertions. The map
  `balance` is `LedgerEntry.asset_.count_`, `escrowed` the union of the entries' `escrow_list_`s,
  `entries` the owners with an entry. `Asset` carries the escrow identifier the code draws at
  random (32 bytes; here a counter, so identifiers are fresh: `MaxEscrows` bounds how many are
  drawn). A signature is membership in `attested` (issuers) or `signed` (agents), which only
  grow: whatever was signed may be presented at any later time, by whoever the code lets present
  it. What is covered by a signature is what the code serializes: the whole asset with its
  identifier, and for a claim the new owner. The claim's count is not covered (`EscrowClaim::serialize_for_signing`):
  the claimer puts it beside the statement, and the ledger accepts the escrow's count and 0. `Claim` takes it as a parameter. A claim
  of 0 removes the escrow and credits nothing. `supply`, `redeemed` and `forfeited`, which keeps such claims,
  are history variables no guard reads.
  On its own, `Issuer` lets agents sign anything at all about assets escrowed to them.
- `FairExchange`: composes `Issuer` with exchange objects; every agent is one, so `signed` has only
  what their methods sign. The attestation methods do not write the state; they sign in
  whatever state they read. `ChainOf` stands for the keys in an issuer's authority chain.
- `FairSwap`: what `exchange-contract/README.md:148-150` promises, in terms of two legs
  and where each is. `FairExchange`, and `OrderClient` above it, implement it under the mapping `Swap`: the place of an
  asset is read off the issuers' ledgers (in escrow, claimed by the owed party, forfeited by it with a claim of 0, released)
  and is `"lost"`, which `FairSwap` has no state for, when it is none of these.
- `TokenObject`: issuers of which some are token objects: one asset each, plus the contract owner. Escrow,
  attestation and release are the issuer's actions for the owner; initialize, transfer and claim are its own.
- `Authority`: contract states as values. An invocation makes a new state of any existing one
  (`states`); the ledger (`Commit`) commits it after its predecessor, if nothing else was, and after the states it
  recorded as dependencies. So any number of branches of one contract exist at a time and contracts sign
  in all of them. A state contains its whole history, like a state hash. `Chains` are the chains a
  client can put together from links that were signed in some state; `Validates` is
  `validate_issuer_key`, which stops at the first link that names the key. `needs` is what
  `add_to_response` and `add_dependencies_to_response` record, method by method: also where they record nothing.
  Counts, balances and requests are left to the modules above.

### The guardian

- `GuardianService`: `process_capability` in the threads of the service's pool
  (`guardianCLI.py:92-124`), and the restart. `registry` is `request_registry`; `pc` and `request` are a
  thread's place in `ProcessCapabilityApp.__call__` and its message. A thread's steps are its accesses to
  the shared dictionary: `Lookup` (`:126`), `Create` (`:127`), `Check` (`:130`), `Record` (`:135`), each of
  which the interpreter performs without interruption except that `:130` and `:135` fetch the set and
  then use it. If the set is replaced in between, the thread works on the old one, with the same outcome
  as if it had done so just before the replacement, so one step is enough. Operations with
  `unique_requests` set are a subset of the methods: the attribute is for the operations a deployment
  configures, and no operation in the repository sets it. `pool` is the part of the threads that the configuration
  grants (`WorkerThreads`); it never changes. `Restart` is a shutdown or a kill: the
  dictionary and the threads are gone, the packages clients hold are not. `accepted` and `refused` are
  history variables no guard reads.
- `GuardianProvisioning`: the handlers `info`, `add_endpoint`, `provision_token_issuer` and
  `provision_token_object` with the two files they write, and the client's operations of two calls each.
  `calls` and `answers` are in flight; `GiveUp` is a timeout, after which the call may still be handled;
  a stop of the service loses what is in flight.

### Commands and notebooks

- `OrderClient`: the commands of the exchange and issuer plugins on top of `FairExchange`. `pc` is the
  invocation a command makes next, `paper` the statement it holds meanwhile, `order` the save file in a party's context and
  `stored` the one in its context file. Issuers that are not yet authorized when the commands begin may become so at
  any time. `Accepted` says whether the contract answers the next invocation; where it does not, `Refused` ends the command.
- `SetupClient`: the create, approve and initialize commands and the notebooks. A command is a sequence of
  steps (`todo`), and calls the create commands of other plugins. Contract objects are numbers; what they know of
  each other is in `vets`, `approved`, `chain`, `endpoints`, `managed`. `Word` is the width of the guardian's `uint32_t` border.
  `Possible` says when the next step can be made, and `Refused` ends a command where it cannot. On the run's instance it holds exactly
  where `Step` is enabled; `MadeIfPossible` proves that no step is made elsewhere.
- `TokenMinting`: the `mint_tokens` command, the token issuer and the data guardian. `attested` is false
  once another process' transaction has outdated the ledger's attestation a client holds.
- `TokenUse`: operations of the three token families: making a capability, presenting it, and fetching its
  result from the store a guardian operation leaves; at the same time tokens change hands. A command asks the token
  for its capability (`Request`) in a step of its own, after it was started. The guardian checks the capability and deliberately not who presents
  it (`digital_asset/contracts/guardian.cpp:337-339`), so whoever holds one, having made it or been given it (`HandOn`),
  can present it at any time and again (`OpProcessCapability`). `Users` have the contract files of tokens; the other parties
  are bearers of capabilities only.
- `Wallet`: on top of `Issuer`, with keys as the parties: key files along a search path (`KeyMap`), the context and its
  file, contract states a kernel has cached (`stale` when the ledger moved on), and what the transfer form shows.
  `WalletInit` admits any well-typed ledgers to begin with, and any rest of the bounds. `Over` is how the code merges what it finds in two places: the
  first one counts. `Moves` tells a transfer from an issue. Where there is no private key file the import form offers
  `Unspecified`, and the import goes through; the initialization of a context overwrites the entry `identity`, which may be
  a handle's (`Personalize`). What a widget shows of a handle that cannot be looked up (`Fails`) is left open where it depends on the
  runtime: the exception may leave the form as it was, keep it from being made, or count as a balance of 0 (`SourceShown`, `Tabled`, `OpenWith`).

`MC*` are the instances TLC checks. The proofs are in `IssuerProofs`; `ExchangeProofs` (exchange objects and order
commands); `LedgerProofs` (token objects and wallets, which are both built on the issuers' ledgers); `AuthorityProofs`;
`GuardianServiceProofs` (service and provisioning); `SetupProofs`; `MintingProofs`; and `UseProofs`.

## 3. What is checked

| Run | Instance | Shows |
| --- | --- | --- |
| `exchange` | 3 parties, 1 exchange object for an offer already in escrow, 2 competitors, 2 issuers, requests of three kinds, 3 escrows, fairness | `OneDisposition`, `PaymentAsRequested`, `PaidToNamed`; `SwapSettles`, `BystandersReleased` |
| `ledgers` | 1 issuer, 1 token object, 2 parties, 2 agents that sign anything, words of 4 values, 2 escrows; from creation on | `EscrowUnique`, `OneOutcome`, `HeldUntilSigned`, `IssuersConserve`, and for tokens `OwnerInPossession`, `OwnershipHandedOver` |
| `service` | a pool of 1 or 2 threads, 2 tokens that share a request identifier, a unique and a repeatable operation, 2 starts | `SerialAcceptsOnce` (one thread), `RefusedOnlyDuplicates`; what a race can make the registry forget, and until when: `ForgetsOnlyWhileCreating`, `NoLateCreation` |
| `replay_race` | 2 threads, 1 token, 1 request | finding 1 |
| `orders` | 2 parties that run all order commands, 1 exchange object, 2 issuers, 3 escrows, 2 failures or restarts, fairness | `StrayOnlyIfRefused`, `PaperHolds`, `FiledIsInitialized`; the commands implement `FairSwap` (`SwapRefined`); `ClaimsComplete`, `CancelCompletes` |
| `setup` | the commands for all five contexts, 6 objects, 1 failure or restart, a guardian for data or for an image with one of three borders, fairness | `AuthorityGrounded`, `ContextFits`, `CreatedIsInitialized`, `NotebookCompletes` |
| `provisioning` | 2 clients, 2 token issuers of which one is configured, 2 tokens, 2 starts; 6 calls of a fresh service, and 6, or 5 with a restart, of one with an initialized issuer | `OnceProvisionedUsable`, `IssuersServed` |
| `minting` | 2 clients, 2 tokens to mint, 4 objects, 2 failures, fairness | `LimitKept`, `TokensUsable`, `RecordsSound`, `MintsAll` |
| `token_use` | 2 users and a third party, 1 token, 2 capabilities, 2 handings-on, 1 failure, fairness | `OnlyOwnersUse`, `PublicAvailable` |
| `wallet` | 2 wallets, one of a user without a private key file, 2 issuers, 4 keys of which one is shadowed, 2 handles of which one is called `identity`, 3 imports, 1 new key file or 1 failure | `ListedUsable`, `ImportsKept`, `PaidToListed`, `PaidAsShown` |
| `authority` | 2 roots with an asset type each, an issuer, a token object, an exchange object, chains of up to 2 links, 15 states | `Vetted`, `TradesVetted`, `OneDecision` |
| `uncommitted` | as `authority` | finding 2 |

Bounds. `Word` is 4 or 2 and `IntMax` 2 or 1, so balances reach the largest word and wrap around
within a few issues; `IssuersConserve` distinguishes the exact and the wrapped case. It adds counts up by counting units
(`Total`); that this is the sum is an assumption `MCTokenObject` has TLC evaluate (`TotalIsSum`). Two escrows are
enough for an identifier to be drawn again for the same owner and agent after a settlement, which
is when a stale statement could be mistaken for a current one; three admit an offer and two payments at once.
`ledgers` starts from contract creation and `orders` after the issuers are authorized; `exchange` starts with the
creator's asset in escrow, since the steps to it are those of `ledgers` and `orders`. In `orders` red assets are issued while the commands run.
In `orders` one of the issuers is authorized while the commands run, too.
Two starts (`MaxStarts`, `MaxStartups`) are one restart. In `setup` six objects are one more than a notebook needs, so
one creation can be repeated after a loss; the borders are one that is replaced by the default, one that fits, and one
whose double wraps. In `provisioning` an issuer takes four calls and a token two. Six calls of a fresh service provision an issuer with
interference and then a token. The run also begins where an issuer is provisioned and initialized (`Provisioned`); from there six calls, or five and a restart, provision
a token again after a lost answer, by either client, and another token besides.
In `token_use` two handings-on make a chain by way of the third party or give one capability to both others, and one token changes hands
under them; what happens to one token depends on no other. `wallet` has no symmetry to use, since its users differ; a key file is made or a failure happens, not both
(both together were checked as well, on almost four times the states; the proofs have no such bound). In `minting` four objects
allow both clients to lose one each. In `authority` the run starts from two situations, each a few
invocations short of what the properties are about (a chain of two links; two contrary decisions, one of
them still speculative, and their settlements), and leaves three invocations on any of the states, with commits in any order; from the initial
state alone the same behaviours need more than a dozen states, most of which are the same preparations.
It stops when the states are used up, therefore `CHECK_DEADLOCK FALSE` in its two configurations. Deadlock
is checked in every other run. Symmetry is used in runs of safety properties only, over what the instance treats alike.

Type invariants (`TypeOK`, `IssuerTypeOK`, ...) say what the variables hold. They are proved, alone or as the first
conjunct of a module's inductive invariant (section 4), and are not among the runs' properties. The
inductive invariants (`Custody`, `OrderInv`, `SetupInv`, `WalletInv`, ...) were found by checking them on the runs' instances: to
repeat that, name one of them under `INVARIANTS` in the run's configuration.

Fairness. Nothing obliges anybody to offer, answer, cancel or begin a command. Contracts have no agenda of
their own, so fairness is an assumption on users and their processes:
- `FairExchange.Fairness`: users fetch what a settled exchange owes them and present it to the issuer. The code supports
  it because an owed call stays possible once it is: a settled exchange never changes its state, and a
  signed statement does not expire. Weak fairness suffices for that reason.
- `OrderFairness`, `SetupFairness`, `MintingFairness`, `UseFairness`: a command that has begun makes its next
  step or ends with the refusal it met (weak). Claim and cancel commands, and the setup notebook, are begun again
  and again by the user who is owed something; strongly fair, since other commands of the same user, which occupy
  its process, disable them now and then.

### Findings

1. `replay_race`. The handler tests the registry for a request identifier
   (`common-contract/pdo/contracts/guardian/wsgi/process_capability.py:130`) and adds it five lines later, without a
   lock, in one of by default up to 8 threads: two copies of one request of a unique operation may both pass. The
   same holds of the test for the identity's set (`:126`) and its creation (`:127`), and there the set that is
   replaced may already hold identifiers. `NoLateCreation` shows that this second window closes once the
   first requests for an identity are through; the first one does not.
2. `uncommitted`. `exchange::initialize` and `exchange_asset` record the states of the authority chain as
   dependencies (`exchange.cpp:159`, `:355`), but never the proof's own state reference, the state of the issuer
   in which the asset is in escrow. `exchange-contract/README.md:176-181` says that the proof of escrow holds only
   if this state has been committed and that transaction dependencies capture it. The ledger may commit an offer, or a match,
   without the escrow. `Vetted`, `TradesVetted` and `OneDecision` hold nevertheless: what is recorded is
   enough for authority and for the decisions issuers act on.

### Limitations of the code met while modelling

Each is a behaviour of the models, and the properties are stated so as to hold with it.

- *Ledgers.* A claim presented with the count 0 (the default of `EscrowClaim`) empties the escrow and credits nothing
  (`issuer.cpp:410`, `LedgerEntry.cpp:218-227`). The exchange contract fills the count in, but no signature covers it
  (`Escrow.cpp:186-213`), so it is the claimer's to change, at its own expense: only the party the agent named can claim.
  `PaidToNamed` and `IssuersConserve` admit exactly this, and nothing paid in part. `token_object::transfer` looks at
  neither balance nor escrows (`token_object.cpp:249`): a token in escrow can be handed on, and is then in two
  places. Further assets that the creator or the matched owner escrow to an exchange object cannot be released
  (`exchange.cpp:310-311` says so). Issuance is unbounded and `uint32_t` sums wrap (`issuer.cpp:201`), as does the example counter.
- *Authority.* `token_object::claim` records no dependency (`token_object.cpp:460`), so `OneDecision` is about issuers
  only. A chain's links after the first that names the key are stored unverified
  (`IssuerAuthorityChain.cpp:133-134`), and `AuthoritativeAsset::validate` compares the chain's asset type with nothing.
- *Guardian service.* The request registry is lost at a restart (`process_capability.py:69`); the identifier is recorded
  before the operation runs, so a failed one cannot be repeated (`:135`). A second provisioning of a token, after a lost
  answer, replaces the key in the web service (`provision_token_object.py:72`), whereas the data guardian contract keeps the first
  (`data_guardian.cpp:191-193`). A client told to retry (429) does so without a bound (`guardian_service.py:85`).
- *Orders.* The cancel command cannot be repeated after it failed between its two
  invocations (`plugins/exchange.py:115`), the release command has no body that releases (`:652`), and the save file is recorded
  before the offer is in escrow (`:367`).
- *Setup.* An issuer created without its verifying key noted is never approved (`vetting.py:223`). A refused image border leaves the
  guardian and the token issuer that waits for it uninitialized for good, and a border of 0 becomes 10
  (`digital_asset/plugins/guardian.py:188`). Twice the border is computed in a `uint32_t` (`contracts/guardian.cpp:160`).
- *Tokens.* A failure while minting loses the list of what was minted (`plugins/token_object.py:288`). A capability made by an owner
  is honoured after the token changed hands (`digital_asset/plugins/token_object.py:191`), and by whoever presents it;
  `OnlyOwnersUse` says that a party with no part in the token comes by one only along a chain of handings-on that an owner began.
- *Wallet.* A user without a private key file can import an asset as 'unspecified' (`wallet.py:366`, `:394`), a handle it cannot sign
  for. A handle called `identity` is overwritten at the next start (`templates/wallet.py:80-84`), and either may keep the widgets from showing
  anything. `ListedUsable` names both exceptions. A handle that is imported again changes its meaning under a transfer form that was not refreshed. A transfer
  whose answer was lost is made twice when repeated. A context file that cannot be read is taken for a new one
  and overwritten (`common.py:66-70`); so it is by a second notebook on the same file. A generated key replaces an existing pair.

## 4. What is proved

The proofs hold for every value of the constants that satisfies the module's assumption, which says no more than
what the code's types and configuration say: `IssuerAssumption` (a type per issuer,
`IntMax < Word`), `TokenAssumption` (tokens are issuers, and a count of one can be read), `ExchangeAssumption` (each exchange has a
creator, requests and chains are well typed), `OrderAssumption` (what each party offers and asks for is a request of the model),
`WalletAssumption` (a creator per issuer, key files are functions on names, and users begin with the private keys in their private key
files), `GuardianAssumption` (at least one start), `ProvisioningAssumption` (a token's issuer is known, and issuers are not tokens),
`SetupAssumption` (borders fit a word), `MintingAssumption` (at least one token to mint), `UseAssumption` (a first owner), or
`AuthorityAssumption` (contracts of different kinds are different); and that null values are distinct from the rest.
The bounds (`MaxEscrows`, `MaxChain`, `MaxStates`, `MaxFailures`, ...) are any natural numbers.

`IssuerProofs` proves `IssuerTypeCorrect`, and `EscrowsAreUnique`, `SettledOnce`, `AttestationsHold`,
`PaysWhomTheAgentNames` from the inductive invariant `Custody`. None of the properties is inductive
alone. That no escrow is settled twice needs that a settled identifier is not in escrow again
(`SettledGone`); that needs identifiers to be drawn in order (`IdsDrawn`) and escrows to be unique by
identifier (`EscrowUnique`), so that settling one leaves no other with the same; and that what was honoured was signed (`StatementsSigned`).
`AssetsConserved` says that nothing is made, and nothing lost but to claims of 0 by the party they name. A total over parties and escrows is the number of their units, a cardinality, so
that moving an amount from one to another is a lemma about finite sets and not an induction. The invariant is `Accounted`: what was
issued and is neither held nor forfeited (`Accountable`) is a multiple of `Word`, since a balance that wraps around loses a whole word
and no other step loses anything.

`LedgerProofs` extends `Custody` to token objects beside issuers: escrow, attestation and release are the issuer's
methods, and what initialization, transfer and claim do otherwise leaves escrows, statements and settlements
alone or settles one escrow, so that the issuer's lemmas apply (`TokenEscrowsAreUnique`, `TokensSettledOnce`,
`TokenAttestationsHold`), and the issuers' books are kept beside token objects as well (`IssuersKeepTheirBooks`; a token object's own
ledger is not conserved, its transfer makes a balance). `OwnershipIsHandedOver` needs it too: that the statement behind a claim is newly honoured follows from
`SettledGone`. `OwnersPossess` rests on `Possession`, an invariant that counts: a transfer sets a balance to one whatever it was,
so an owner who escrows, transfers to itself and is released collects assets, one at most per escrow. The count is what a
release must not wrap around to zero; the theorem therefore assumes `MaxEscrows + 1 < Word`, fewer escrows than
2^32 - 1. Without the assumption the property is false (with `Word` 2 and one escrow: escrow, transfer to
oneself, release).

`ExchangeProofs` reuses the issuer's step lemmas and adds `Arbitration`: what `exchange_state`
records in each state (`Recorded`) and, for every signed statement, why the object could have signed it
given its state *now* (`Justified`). It is inductive with `Custody` and the types
(`ExchangeInvariant`): a state change of the object must keep every earlier signature
justified, which is why cancelling is confined to a standing offer and why a release of a losing
party's asset is signed only after the exchange is settled. From it follow `DisposesOnce`,
`CreatorIsPaid` and `SwapImplemented`, the refinement of `FairSwap`: a ledger's release or claim moves one leg
of the swap of its agent, because its statement is justified in one way only, and every
other step moves no leg. `ExchangesAreAgents` is the refinement in the other direction, down to the ledgers: an exchange object is an
escrow agent as `Issuer` allows them, so what holds of issuers under any agents holds under exchange objects, conservation among it
(`ExchangesConserve`).

Its second part is about the order commands. `CommandsAreExchanges` is a refinement: whatever the commands do, fail
to do or repeat, is something the contracts allow, so `ExchangeInvariant` and the swap hold below them (`CommandsSwap`).
`OrderInv` adds what a command relies on between two invocations (`Ready`): that its order was
created and not yet initialized, that the attested asset it holds is in escrow to this order and has not been accepted, that the
statement it is about to present was signed. Other parties' commands, which may race for the same order, must not disturb this.
What keeps the asset in escrow is `SignedAccepted`: exchange objects sign only about assets they accepted. From
`OrderInv` follow `PapersHold` and `FiledOrdersAreOpen`. `StrayInv` is for a time in which no service fails: an asset in escrow is the
one its order holds, is on its way there with a command, or is not wanted there any more (`Tended`), since its owner has not lost the
order (`OwnersKnow`) and nobody has an order before its create command has ended (`SharedAfterwards`). So what a command leaves behind when it is
refused is a stray as `StrayOnlyIfRefused` describes it (`StraysWereRefused`).

`GuardianServiceProofs` has two invariants. `RegistryInv`, for any number of threads: a thread that
tests or extends an identity's set finds one (`Create` only ever stores a set, and only a restart, which
also stops the threads, takes it away), and what a set holds was let through since the start (`Registered`).
From it follow `ServiceTypeCorrect`, `RefusesOnlyDuplicates`, `ForgetsOnlyThen` and
`NoSetIsCreatedLate`. `SerialInv` adds the converse for a service with a single thread: what was let through is
recorded, a set about to be created does not exist, and an identifier about to be recorded is new. That
gives `SerialAccepts` (`SerialAcceptsOnce`), where the race of finding 1 is impossible.

Its second part, about provisioning, has `ProvisioningInv`. A late answer may belong to an operation its client has given up and begun anew,
about another contract; `CallsInv` and `PlansInv` say that an answer the client still waits for is about the contract and the
operation the client is at. `KeysInv` gives every token a set of keys, those the service, the token or an unread answer have for it, and
says that these sets never meet, that a token that was never asked for has none, and that one asked for once has only the key
in the store. `IssuersAreServed` and `ProvisionedTokensUsable` follow.

`MintingProofs` has `MintingInv`. Any number of clients mint for one token issuer, each with a context of its own, so what one knows of the
others is in the contracts: a minted identity has one key, packages carry the key of the identity they are for, and a
token that is ready has it (`KeysInv`). `PlacesInv` says, by the command's next step, how far its token has come and that
the token is not in its list yet; `ListsInv` that the list kept aside and the context's entries are in step, which they are not
when a failure has interrupted a command and the next begins. `LimitKept` counts a set, and is proved with the library's cardinality facts.

`UseProofs` has `UseInv`. Nothing keeps a capability where it was made, so the invariant is about whoever holds one (`HeldInv`): that
party is in every set that contains the token's owners so far and whoever a member handed the capability to (`Privy`), which is how
`OnlyOwnersUse` states that a chain of handings-on leads there from an owner without recursion. A command itself goes on
with a capability its party had made, as an owner where it is for owners (`CommandsInv`). `OwnersUse` follows, for transfers and
handings-on at any time in between.

`SetupProofs` has `SetupInv`. A command is a sequence of steps still to make, so the invariant is about sequences. `Backed` says of every
step in it that what it needs was prepared, by a step that comes before it in the sequence or by one already made, and that no
step in between undoes it. One such conjunct each concerns the deployment of an object, the vetting organization's asset
type, authorities, provisioning, the file and the marks in it (`StepsInv`); each is shown for the sequences the commands begin with, for the
sequence that is left after a step, and for what a failure or a restart leaves. `ContextInv` says that the file is behind the context
and never contradicts it. `AuthoritiesAreGrounded` and `ContextsFit` follow.
`CreationInv` adds what is true as long as nothing failed, and why a command is not refused half way: between the deployment of an object and its
initialization a command makes certain steps only (`Between`), each of which finds what it needs (`ReadyInv`, `AskedInv`), and an
object that is not initialized has its initialization ahead (`PendingInv`). `CreatedAreInitialized` follows, for a number of objects that
admits one per context: `CountInv` says that no object is forgotten, so five are enough.

The second half of `LedgerProofs` has `WalletInv`, for any number of users with any key files, over ledgers in any state. A form, a cache and
a wallet are refreshed apart, so the invariant says how far apart they can come (`Offers`): handles a form shows stay listed, names it
offers stay in the key list (`SaveKeyFiles`: a new file may shadow or replace one, but no name disappears), and the selected
handle's issuer is the wallet's unless the list has grown since. `Sound`, `Usable` and `Fits` say the same of the wallets, forms and files a
start or an import leaves, with the entries that are overwritten or that nobody can sign for among them. `KeysInv` ties private key files to the keys a user has; that the key list
shows the key that a command finds is `KeyMapFinds`, a lemma about the search path. `HandlesUsable` follows, and
the action properties `ImportsStay`, `PaymentsAreListed` and `PaymentsAreShown`; the last two need that only an answered or unanswered
submission moves assets (`MovesBySubmit`).

`AuthorityProofs` has one invariant, `AuthorityInv` (`LedgerGrounded`). Every state that ever comes to exist,
committed or not, is `Grounded`: its authority, its offer and its payment were validated, and the approvals they rest on
are among its dependencies, or it has them from its predecessor; and nothing follows a decision of an exchange
object. The ledger part says that a committed state's dependencies and predecessor are committed and that a decision is the head of its object.
Grounding alone says nothing of commitment, and commitment nothing of validity: `VettedHolds` and
`TradesVettedHolds` follow by induction along the commits, the state committed last having its
approvals from its own dependencies or from the head it replaces. `DecidesOnce` follows because two settlements depend on two
committed decisions of one object, and both are its head.

Model-checked only:
- liveness (`SwapSettles`, `BystandersReleased`, `ClaimsComplete`, `CancelCompletes`, `NotebookCompletes`, `MintsAll`,
  `PublicAvailable`): fairness is beyond the prover;
- that `Possible` holds wherever `Step` is enabled, and the two findings, which are counterexamples.

Every invariant and every action property of the passing runs is stated by a theorem. The only theorems with an assumption of their own
are `OwnersPossess` (`MaxEscrows + 1 < Word`), `CreationInvariant` and `CreatedAreInitialized` (`5 <= MaxObjects`): bounds of the model.

## 5. What is abstracted or not modelled

Keys and signatures are ideal. Asset type, issuer and owner identities are values, and
JSON schemas, inspection methods (`get_balance`, `examine_*`) and messages are left out. In `Issuer`, `FairExchange` and the modules
on top of them every invocation counts as committed, and the authority chain of an issuer is a constant set of
keys; `Authority` drops both simplifications and leaves out counts, balances and `release_asset` in exchange.
Encryption in the guardian's packages is a key number beside the content.

Not modelled: the asset type contract beyond its identifier (a name and a description nothing reads), token metadata, what guardian
operations compute on images and model servers beyond the border check, service group and registry widgets, the import
widgets of the digital asset family, the example counter (one `uint32_t`, nothing to interleave), build and container files. The PDO
runtime and ledger are outside the repository: one invocation is one atomic step, a failed one changes nothing, and a state
update is committed as `Commit` says.

## 6. What could follow

`Authority` could be composed with
`FairExchange` by giving each exchange object's state its ledger, at the price of a much larger instance.
