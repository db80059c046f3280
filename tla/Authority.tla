------------------------------ MODULE Authority ------------------------------
(***************************************************************************)
(* Authority over speculative and committed states.  An invocation that    *)
(* changes a contract object makes a new state of it from one that exists, *)
(* and the ledger commits the new state later, or never: it commits a      *)
(* state only after its predecessor, only if nothing else was committed    *)
(* after that predecessor, and only after the states of other contracts    *)
(* the invocation recorded as its dependencies.                            *)
(*                                                                         *)
(* A state is the record of all that its contract has done to get there,   *)
(* its predecessor included, as a state hash is.  Methods that only read   *)
(* may be invoked on any state, so that what a contract may ever have      *)
(* signed is what some state lets it sign: signed statements need no       *)
(* variable.  Each names the state it was signed in (StateReference).      *)
(*                                                                         *)
(* Counts, balances and what a request asks for are left to Issuer,        *)
(* TokenObject and FairExchange; so is release_asset.                      *)
(***************************************************************************)
EXTENDS Naturals, FiniteSets, SequencesExt

CONSTANTS
  Roots,        \* vetting organizations
  Issuers,      \* issuers, token issuers and token objects
  Tokens,       \* the token objects
  Exchanges,    \* exchange objects
  Types,        \* asset type identifiers
  Owners,       \* identities that own assets
  Approvable,   \* keys the owners of authorities approve
  Trusted,      \* the key each exchange object's request names
  None,
  MaxChain,     \* bound: links of an authority chain that is presented
  MaxStates     \* bound: states, the created ones included

Contracts == Roots \cup Issuers \cup Exchanges

ASSUME AuthorityAssumption ==
  /\ Tokens \subseteq Issuers /\ Approvable \subseteq Issuers
  /\ Roots \cap (Issuers \cup Exchanges) = {}
  /\ Issuers \cap Exchanges = {}
  /\ Trusted \in [Exchanges -> Roots \cup Issuers]
  /\ None \notin Contracts
  /\ MaxChain \in Nat

VARIABLES
  states,       \* every state some invocation has made
  committed,    \* those the ledger has committed
  head          \* the ledger's current state of each contract

authorityVars == <<states, committed, head>>

\* What a contract's first state has for a predecessor.
NoState == [contract |-> None]

\* A contract as it is created; its creation is committed when it is registered.
Created(c) ==
  [contract |-> c, previous |-> NoState, needs |-> {}, chain |-> None,
   approved |-> {}, escrows |-> {}, settles |-> None,
   phase |-> "start", offer |-> None, payment |-> None]

AuthorityInit ==
  /\ states = {Created(c) : c \in Contracts}
  /\ committed = states
  /\ head = [c \in Contracts |-> Created(c)]

\* The state an invocation makes of s if it changes nothing else.
After(s, needs) ==
  [contract |-> s.contract, previous |-> s, needs |-> needs, chain |-> s.chain,
   approved |-> s.approved, escrows |-> s.escrows, settles |-> None,
   phase |-> s.phase, offer |-> s.offer, payment |-> s.payment]

Make(s) ==
  /\ states' = states \cup {s}
  /\ UNCHANGED <<committed, head>>

-----------------------------------------------------------------------------
(* Authority chains: a root key, an asset type, and links, each the key it *)
(* approves and the state of the approving contract that says so.          *)

\* get_issuer_authority: the contract with key k signed the link, for its own
\* asset type, in the state the link refers to.
LinkHolds(S, k, type, link) ==
  /\ link.ref \in S
  /\ link.ref.contract = k
  /\ link.ref.chain # None
  /\ link.ref.chain.type = type
  /\ link.issuer \in link.ref.approved

\* The key that verifies link n: that of the link before it.
Signer(chain, n) == IF n = 1 THEN chain.root ELSE chain.links[n - 1].issuer

\* IssuerAuthorityChain::validate_issuer_key, which stops at the first link that
\* names the key and leaves the links after it unverified.
Validates(S, chain, key) ==
  \E n \in DOMAIN chain.links :
    /\ chain.links[n].issuer = key
    /\ \A m \in 1 .. n : LinkHolds(S, Signer(chain, m), chain.type, chain.links[m])

\* add_dependencies_to_response
Dependencies(chain) == {chain.links[n].ref : n \in DOMAIN chain.links}

Links == UNION {[issuer : s.approved, ref : {s}] : s \in states}

\* The chains a client can put together from links that were signed.  Their root
\* and type are those the first link was signed for: with another root or type any
\* chain is refused at that link.
Chains ==
  {[type |-> links[1].ref.chain.type, root |-> links[1].ref.contract, links |-> links] :
     links \in SeqOf(Links, MaxChain) \ {<<>>}}

-----------------------------------------------------------------------------
(* Vetting organizations and issuers.  A contract is initialized once it   *)
(* has a chain.                                                            *)

InitializeRootAuthority(s, type) ==
  /\ s.contract \in Roots
  /\ s.chain = None
  /\ Make([After(s, {}) EXCEPT
             !.chain = [type |-> type, root |-> s.contract, links |-> <<>>]])

\* Mutant of InitializeDerivedAuthority: no dependency on the approvals.
InitializeUndepended(s) ==
  /\ s.contract \in Issuers
  /\ s.chain = None
  /\ \E chain \in Chains :
       /\ Validates(states, chain, s.contract)
       /\ Make([After(s, {}) EXCEPT !.chain = chain])

InitializeDerivedAuthority(s) ==
  /\ s.contract \in Issuers
  /\ s.chain = None
  /\ \E chain \in Chains :
       /\ Validates(states, chain, s.contract)
       /\ Make([After(s, Dependencies(chain)) EXCEPT !.chain = chain])

AddApprovedIssuer(s, key) ==
  /\ s.contract \in (Roots \cup Issuers) \ Tokens
  /\ s.chain # None
  /\ Make([After(s, {}) EXCEPT !.approved = @ \cup {key}])

\* The state the escrow is made in stands for the random escrow identifier.
Escrow(s, p, x) ==
  /\ s.contract \in Issuers
  /\ s.chain # None
  /\ ~ \E a \in s.escrows : a.owner = p /\ a.agent = x
  /\ Make([After(s, {}) EXCEPT
             !.escrows = @ \cup {[owner |-> p, agent |-> x, id |-> s]}])

-----------------------------------------------------------------------------
(* Exchange objects.  A proof of escrow is the asset, the state of the     *)
(* issuer that attested it, and a chain for the issuer's key.              *)

IssuerOf(chain) == Last(chain.links).issuer

\* The proofs of what was escrowed to x.
ProofsFor(x) ==
  UNION {[ref : {s}, asset : {a \in s.escrows : a.agent = x}, chain : Chains] :
           s \in {r \in states : \E a \in r.escrows : a.agent = x}}

\* AuthoritativeAsset::validate: the chain establishes its last key, which signed
\* the asset and the state it is escrowed in.
Authoritative(S, proof) ==
  /\ proof.ref.contract = IssuerOf(proof.chain)
  /\ Validates(S, proof.chain, IssuerOf(proof.chain))

\* Mutant of Initialize: no dependency on the approvals.
OfferUndepended(s) ==
  /\ s.contract \in Exchanges
  /\ s.phase = "start"
  /\ \E proof \in ProofsFor(s.contract) :
       /\ Authoritative(states, proof)
       /\ Make([After(s, {}) EXCEPT !.phase = "offered", !.offer = proof])

\* The dependencies are those of the chain; the state the proof was signed in is
\* not one of them.
Initialize(s) ==
  /\ s.contract \in Exchanges
  /\ s.phase = "start"
  /\ \E proof \in ProofsFor(s.contract) :
       /\ Authoritative(states, proof)
       /\ Make([After(s, Dependencies(proof.chain)) EXCEPT
                  !.phase = "offered", !.offer = proof])

CancelExchange(s) ==
  /\ s.phase = "offered"
  /\ Make([After(s, {}) EXCEPT !.phase = "cancelled"])

\* AssetRequest::check_for_match, of the key the request names
Trusts(S, x, chain) == Trusted[x] = chain.root \/ Validates(S, chain, Trusted[x])

ExchangeAsset(s) ==
  /\ s.phase = "offered"
  /\ \E proof \in ProofsFor(s.contract) :
       /\ proof.asset.owner # s.offer.asset.owner
       /\ Authoritative(states, proof)
       /\ Trusts(states, s.contract, proof.chain)
       /\ Make([After(s, Dependencies(proof.chain)) EXCEPT
                  !.phase = "completed", !.payment = proof])

-----------------------------------------------------------------------------
(* Settlement at the issuer, by what the exchange object signed in state d *)

\* Mutant of Release: no dependency on the agent's state.
ReleaseUndepended(s, d) ==
  /\ s.contract \in Issuers
  /\ d.phase = "cancelled"
  /\ d.offer.asset \in s.escrows
  /\ Make([After(s, {}) EXCEPT
             !.escrows = @ \ {d.offer.asset}, !.settles = d])

Release(s, d) ==
  /\ s.contract \in Issuers
  /\ d.phase = "cancelled"
  /\ d.offer.asset \in s.escrows
  /\ Make([After(s, {d}) EXCEPT
             !.escrows = @ \ {d.offer.asset}, !.settles = d])

\* token_object::claim records no dependency.
Claim(s, d, asset) ==
  /\ s.contract \in Issuers
  /\ d.phase = "completed"
  /\ asset \in s.escrows \cap {d.offer.asset, d.payment.asset}
  /\ Make([After(s, IF s.contract \in Tokens THEN {} ELSE {d}) EXCEPT
             !.escrows = @ \ {asset}, !.settles = d])

-----------------------------------------------------------------------------
(* The ledger. *)

Commit(s) ==
  /\ s \notin committed
  /\ s.previous = head[s.contract]
  /\ s.needs \subseteq committed
  /\ committed' = committed \cup {s}
  /\ head' = [head EXCEPT ![s.contract] = s]
  /\ UNCHANGED states

Invocation(s) ==
  \/ \E type \in Types : InitializeRootAuthority(s, type)
  \/ InitializeDerivedAuthority(s)
  \/ \E key \in Approvable : AddApprovedIssuer(s, key)
  \/ \E p \in Owners, x \in Exchanges : Escrow(s, p, x)
  \/ Initialize(s)
  \/ ExchangeAsset(s)
  \/ CancelExchange(s)
  \/ \E d \in states :
       \/ Release(s, d)
       \/ \E asset \in s.escrows : Claim(s, d, asset)

AuthorityNext ==
  \E s \in states :
    \/ Cardinality(states) < MaxStates /\ Invocation(s)
    \/ Commit(s)

AuthoritySpec == AuthorityInit /\ [][AuthorityNext]_authorityVars

-----------------------------------------------------------------------------
(* Properties. *)

\* States are made of states, the ledger's heads are committed, and only an
\* initialized contract has approved or escrowed anything.
AuthorityTypeOK ==
  /\ committed \subseteq states
  /\ head \in [Contracts -> committed]
  /\ \A s \in states :
       /\ s.contract \in Contracts
       /\ s.previous \in states \cup {NoState}
       /\ s.needs \subseteq states
       /\ s.chain = None => s.approved = {} /\ s.escrows = {}

\* The root approved the first key of the chain, each key the next one, and so on to
\* the key given, for the chain's asset type and in the very states the chain names,
\* which are committed.
ApprovedAlong(chain, key) ==
  LET Key(n) == IF n = 0 THEN chain.root ELSE chain.links[n].issuer
  IN \E n \in DOMAIN chain.links :
       /\ Key(n) = key
       /\ \A m \in 1 .. n :
            LET a == chain.links[m].ref
            IN /\ a \in committed
               /\ a.contract = Key(m - 1)
               /\ a.chain # None /\ a.chain.type = chain.type
               /\ Key(m) \in a.approved

\* A committed contract that has a derived authority has it from contracts that
\* approved one another in committed states, whatever states were proposed to it.
Vetted ==
  \A s \in committed :
    s.contract \in Issuers /\ s.chain # None => ApprovedAlong(s.chain, s.contract)

\* What a committed exchange object holds for offered or paid is an asset of an
\* issuer approved in committed states; for a payment, by way of the key the creator
\* trusts.
TradesVetted ==
  \A s \in committed :
    /\ s.offer # None => ApprovedAlong(s.offer.chain, s.offer.ref.contract)
    /\ s.payment # None =>
         /\ ApprovedAlong(s.payment.chain, s.payment.ref.contract)
         /\ LET key == Trusted[s.contract]
            IN key = s.payment.chain.root \/ ApprovedAlong(s.payment.chain, key)

\* All settlements the ledger has committed at issuers for one exchange object rest
\* on one and the same decision of it, however many it has made speculatively.
OneDecision ==
  \A s, t \in committed :
    /\ s.contract \notin Tokens /\ s.settles # None
    /\ t.contract \notin Tokens /\ t.settles # None
    /\ s.settles.contract = t.settles.contract
    => s.settles = t.settles

\* "The proof of escrow holds if and only if the current state of the BMC ... has
\* been committed to the ledger": a committed exchange relies on a committed escrow.
EscrowCommitted ==
  \A s \in committed : s.offer # None => s.offer.ref \in committed
=============================================================================
