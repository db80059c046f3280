--------------------------- MODULE AuthorityProofs ---------------------------
(***************************************************************************)
(* Proofs about authority and commitment, for any contracts, any chains    *)
(* of authorities, and any speculation of the clients.                     *)
(*                                                                         *)
(* A committed state relies only on committed states, because it either    *)
(* records what it relies on among its dependencies or has it from its     *)
(* predecessor, which is committed before it.  That is the invariant.      *)
(***************************************************************************)
EXTENDS Authority, TLAPS

Decided == {"completed", "cancelled"}

\* What s holds of authority is from its predecessor or among its dependencies.
ChainGrounded(s) ==
  s.contract \in Issuers /\ s.chain # None =>
    /\ Validates(states, s.chain, s.contract)
    /\ \E n \in Nat : DOMAIN s.chain.links = 1 .. n
    /\ \/ Dependencies(s.chain) \subseteq s.needs
       \/ /\ s.previous \in states
          /\ s.previous.contract = s.contract
          /\ s.previous.chain = s.chain

OfferGrounded(s) ==
  s.offer # None =>
    /\ Authoritative(states, s.offer)
    /\ \E n \in Nat : DOMAIN s.offer.chain.links = 1 .. n
    /\ \/ Dependencies(s.offer.chain) \subseteq s.needs
       \/ s.previous \in states /\ s.previous.offer = s.offer

PaymentGrounded(s) ==
  s.payment # None =>
    /\ Authoritative(states, s.payment)
    /\ Trusts(states, s.contract, s.payment.chain)
    /\ \E n \in Nat : DOMAIN s.payment.chain.links = 1 .. n
    /\ \/ Dependencies(s.payment.chain) \subseteq s.needs
       \/ /\ s.previous \in states
          /\ s.previous.contract = s.contract
          /\ s.previous.payment = s.payment

\* An exchange object's decision is its last update, and settlements rest on one.
DecisionLast(s) ==
  /\ s.phase # "start" => s.contract \in Exchanges
  /\ s.previous \in states => s.previous.phase \notin Decided
  /\ s.settles # None =>
       /\ s.settles \in states
       /\ s.settles.phase \in Decided
       /\ s.contract \notin Tokens => s.settles \in s.needs

Grounded(s) ==
  ChainGrounded(s) /\ OfferGrounded(s) /\ PaymentGrounded(s) /\ DecisionLast(s)

AllGrounded == \A s \in states : Grounded(s)

\* What the ledger committed.
LedgerInv ==
  /\ \A s \in committed : s.needs \subseteq committed
  /\ \A s \in committed : s.previous \in states => s.previous \in committed
  /\ \A s \in committed : s.phase \in Decided => head[s.contract] = s

AuthorityInv == AuthorityTypeOK /\ AllGrounded /\ LedgerInv

-----------------------------------------------------------------------------
(* Chains. *)

LEMMA ValidatesMore ==
  ASSUME NEW S, NEW T, S \subseteq T, NEW chain, NEW key, Validates(S, chain, key)
  PROVE  Validates(T, chain, key)
BY DEF Validates, LinkHolds

\* A chain whose dependencies are committed holds in the committed states.
LEMMA ValidatesCommitted ==
  ASSUME NEW chain, NEW key, Validates(states, chain, key),
         Dependencies(chain) \subseteq committed,
         NEW N \in Nat, DOMAIN chain.links = 1 .. N
  PROVE  ApprovedAlong(chain, key)
<1>. DEFINE Key(n) == IF n = 0 THEN chain.root ELSE chain.links[n].issuer
<1>1. PICK n \in 1 .. N :
        /\ chain.links[n].issuer = key
        /\ \A m \in 1 .. n : LinkHolds(states, Signer(chain, m), chain.type, chain.links[m])
  BY DEF Validates
<1>2. Key(n) = key  BY <1>1
<1>3. ASSUME NEW m \in 1 .. n
      PROVE  LET a == chain.links[m].ref
             IN /\ a \in committed
                /\ a.contract = Key(m - 1)
                /\ a.chain # None /\ a.chain.type = chain.type
                /\ Key(m) \in a.approved
  <2>1. m \in DOMAIN chain.links  OBVIOUS
  <2>2. chain.links[m].ref \in committed  BY <2>1 DEF Dependencies
  <2>3. Signer(chain, m) = Key(m - 1)  BY DEF Signer
  <2>4. Key(m) = chain.links[m].issuer  OBVIOUS
  <2>5. LinkHolds(states, Signer(chain, m), chain.type, chain.links[m])  BY <1>1
  <2>. HIDE DEF Key
  <2>. QED  BY <2>2, <2>3, <2>4, <2>5 DEF LinkHolds
<1>. QED  BY <1>2, <1>3 DEF ApprovedAlong

LEMMA ChainLinks ==
  ASSUME NEW chain \in Chains
  PROVE  \E n \in Nat : DOMAIN chain.links = 1 .. n
BY AuthorityAssumption DEF Chains, SeqOf

LEMMA ChainRefs ==
  ASSUME NEW chain \in Chains
  PROVE  Dependencies(chain) \subseteq states
<1>1. PICK n \in 0 .. MaxChain : chain.links \in [1 .. n -> Links]
  BY AuthorityAssumption DEF Chains, SeqOf
<1>2. ASSUME NEW link \in Links PROVE link.ref \in states
  BY DEF Links
<1>. QED  BY <1>1, <1>2 DEF Dependencies

-----------------------------------------------------------------------------
(* A new state. *)

LEMMA MonotoneGrounded ==
  ASSUME AuthorityTypeOK, NEW n, n.contract \in Contracts, states' = states \cup {n},
         NEW s, s.previous \in states \cup {NoState}, Grounded(s)
  PROVE  Grounded(s)'
<1>1. n # NoState  BY AuthorityAssumption DEF NoState
<1>2. states \subseteq states'  OBVIOUS
<1>3. ChainGrounded(s)'
  BY <1>2, ValidatesMore DEF Grounded, ChainGrounded, Validates, LinkHolds
<1>4. OfferGrounded(s)'
  BY <1>2, ValidatesMore DEF Grounded, OfferGrounded, Authoritative, Validates, LinkHolds
<1>5. PaymentGrounded(s)'
  BY <1>2, ValidatesMore DEF Grounded, PaymentGrounded, Authoritative, Trusts, Validates, LinkHolds
<1>6. DecisionLast(s)'
  BY <1>1 DEF Grounded, DecisionLast
<1>. QED  BY <1>3, <1>4, <1>5, <1>6 DEF Grounded

\* A state made of s keeps the invariant if whatever authority it does not have from
\* s is among its dependencies, and s was not decided.
LEMMA MakePreserves ==
  ASSUME AuthorityInv, NEW s \in states, NEW n, Make(n),
         n.contract = s.contract, n.previous = s, n.needs \subseteq states,
         s.phase \notin Decided,
         n.chain = None => n.approved = {} /\ n.escrows = {},
         Grounded(n)
  PROVE  AuthorityInv'
<1>1. s.contract \in Contracts /\ n.contract \in Contracts
  BY DEF AuthorityInv, AuthorityTypeOK
<1>2. states' = states \cup {n} /\ committed' = committed /\ head' = head
  BY DEF Make
<1>3. n # NoState  BY <1>1, AuthorityAssumption DEF NoState
<1>4. AuthorityTypeOK'
  BY <1>1, <1>2 DEF AuthorityInv, AuthorityTypeOK
<1>5. AllGrounded'
  <2>1. ASSUME NEW t \in states PROVE Grounded(t)'
    BY <1>1, <1>2, MonotoneGrounded DEF AuthorityInv, AuthorityTypeOK, AllGrounded
  <2>2. Grounded(n)'
    BY <1>1, <1>2, MonotoneGrounded DEF AuthorityInv
  <2>. QED  BY <1>2, <2>1, <2>2 DEF AllGrounded
<1>6. LedgerInv'
  <2>1. ASSUME NEW t \in committed, t.previous \in states'
        PROVE  t.previous \in committed
    BY <1>2, <1>3, <2>1 DEF AuthorityInv, AuthorityTypeOK, LedgerInv
  <2>. QED  BY <1>2, <2>1 DEF AuthorityInv, LedgerInv
<1>. QED  BY <1>4, <1>5, <1>6 DEF AuthorityInv

-----------------------------------------------------------------------------
(* The invocations. *)

LEMMA RootPreserves ==
  ASSUME AuthorityInv, NEW s \in states, NEW type, InitializeRootAuthority(s, type)
  PROVE  AuthorityInv'
<1>. DEFINE n == [After(s, {}) EXCEPT
                    !.chain = [type |-> type, root |-> s.contract, links |-> <<>>]]
<1>1. /\ n.contract = s.contract /\ n.previous = s /\ n.needs = {} /\ n.settles = None
      /\ n.approved = s.approved /\ n.escrows = s.escrows
      /\ n.phase = s.phase /\ n.offer = s.offer /\ n.payment = s.payment
  BY DEF After
<1>2. Make(n) /\ s.contract \in Roots /\ s.chain = None
  BY DEF InitializeRootAuthority
<1>3. s.contract \notin Exchanges /\ s.contract \notin Issuers
  BY <1>2, AuthorityAssumption
<1>4. Grounded(s) /\ (s.chain = None => s.approved = {} /\ s.escrows = {})
  BY DEF AuthorityInv, AuthorityTypeOK, AllGrounded
<1>5. s.phase = "start"  BY <1>3, <1>4 DEF Grounded, DecisionLast
<1>. HIDE DEF n
<1>6. Grounded(n)
  BY <1>1, <1>3, <1>4, <1>5
     DEF Grounded, ChainGrounded, OfferGrounded, PaymentGrounded, DecisionLast, Decided
<1>. QED  BY <1>1, <1>2, <1>4, <1>5, <1>6, MakePreserves DEF Decided

LEMMA DerivedPreserves ==
  ASSUME AuthorityInv, NEW s \in states, InitializeDerivedAuthority(s)
  PROVE  AuthorityInv'
<1>1. PICK chain \in Chains :
        /\ Validates(states, chain, s.contract)
        /\ Make([After(s, Dependencies(chain)) EXCEPT !.chain = chain])
  BY DEF InitializeDerivedAuthority
<1>. DEFINE n == [After(s, Dependencies(chain)) EXCEPT !.chain = chain]
<1>2. /\ n.contract = s.contract /\ n.previous = s /\ n.needs = Dependencies(chain)
      /\ n.chain = chain /\ n.settles = None
      /\ n.approved = s.approved /\ n.escrows = s.escrows
      /\ n.phase = s.phase /\ n.offer = s.offer /\ n.payment = s.payment
  BY DEF After
<1>3. Make(n) /\ s.contract \in Issuers /\ s.chain = None
  BY <1>1 DEF InitializeDerivedAuthority
<1>4. Grounded(s) /\ s.approved = {} /\ s.escrows = {}
  BY <1>3 DEF AuthorityInv, AuthorityTypeOK, AllGrounded
<1>5. s.phase = "start"
  BY <1>3, <1>4, AuthorityAssumption DEF Grounded, DecisionLast
<1>6. Dependencies(chain) \subseteq states /\ \E k \in Nat : DOMAIN chain.links = 1 .. k
  BY <1>1, ChainLinks, ChainRefs
<1>. HIDE DEF n
<1>7. Grounded(n)
  BY <1>1, <1>2, <1>4, <1>5, <1>6
     DEF Grounded, ChainGrounded, OfferGrounded, PaymentGrounded, DecisionLast, Decided
<1>. QED  BY <1>2, <1>3, <1>4, <1>5, <1>6, <1>7, MakePreserves DEF Decided

\* Approvals, escrows and settlements change what is no part of the invariant.
LEMMA LedgerPreserves ==
  ASSUME AuthorityInv, NEW s \in states, NEW n, Make(n),
         s.contract \notin Exchanges, s.chain # None,
         n.contract = s.contract, n.previous = s, n.needs \subseteq states,
         n.chain = s.chain, n.phase = s.phase, n.offer = s.offer, n.payment = s.payment,
         \/ n.settles = None
         \/ /\ n.settles \in states /\ n.settles.phase \in Decided
            /\ n.contract \notin Tokens => n.settles \in n.needs
  PROVE  AuthorityInv'
<1>1. Grounded(s)  BY DEF AuthorityInv, AllGrounded
<1>2. s.phase = "start"  BY <1>1 DEF Grounded, DecisionLast
<1>3. ChainGrounded(n)  BY <1>1 DEF Grounded, ChainGrounded
<1>4. OfferGrounded(n)  BY <1>1 DEF Grounded, OfferGrounded
<1>5. PaymentGrounded(n)  BY <1>1 DEF Grounded, PaymentGrounded
<1>6. DecisionLast(n)  BY <1>2 DEF DecisionLast, Decided
<1>. QED  BY <1>2, <1>3, <1>4, <1>5, <1>6, MakePreserves DEF Grounded, Decided

LEMMA ApprovePreserves ==
  ASSUME AuthorityInv, NEW s \in states, NEW key, AddApprovedIssuer(s, key)
  PROVE  AuthorityInv'
<1>. DEFINE n == [After(s, {}) EXCEPT !.approved = @ \cup {key}]
<1>1. /\ n.contract = s.contract /\ n.previous = s /\ n.needs = {} /\ n.settles = None
      /\ n.chain = s.chain
      /\ n.phase = s.phase /\ n.offer = s.offer /\ n.payment = s.payment
  BY DEF After
<1>2. Make(n) /\ s.contract \notin Exchanges /\ s.chain # None
  BY AuthorityAssumption DEF AddApprovedIssuer
<1>. HIDE DEF n
<1>. QED  BY <1>1, <1>2, LedgerPreserves

LEMMA EscrowPreserves ==
  ASSUME AuthorityInv, NEW s \in states, NEW p, NEW x, Escrow(s, p, x)
  PROVE  AuthorityInv'
<1>. DEFINE n == [After(s, {}) EXCEPT
                    !.escrows = @ \cup {[owner |-> p, agent |-> x, id |-> s]}]
<1>1. /\ n.contract = s.contract /\ n.previous = s /\ n.needs = {} /\ n.settles = None
      /\ n.chain = s.chain
      /\ n.phase = s.phase /\ n.offer = s.offer /\ n.payment = s.payment
  BY DEF After
<1>2. Make(n) /\ s.contract \notin Exchanges /\ s.chain # None
  BY AuthorityAssumption DEF Escrow
<1>. HIDE DEF n
<1>. QED  BY <1>1, <1>2, LedgerPreserves

LEMMA ReleasePreserves ==
  ASSUME AuthorityInv, NEW s \in states, NEW d \in states, Release(s, d)
  PROVE  AuthorityInv'
<1>. DEFINE n == [After(s, {d}) EXCEPT !.escrows = @ \ {d.offer.asset}, !.settles = d]
<1>1. /\ n.contract = s.contract /\ n.previous = s /\ n.needs = {d} /\ n.settles = d
      /\ n.chain = s.chain
      /\ n.phase = s.phase /\ n.offer = s.offer /\ n.payment = s.payment
  BY DEF After
<1>2. Make(n) /\ s.contract \notin Exchanges /\ d.phase \in Decided
  BY AuthorityAssumption DEF Release, Decided
<1>3. s.chain # None  BY DEF Release, AuthorityInv, AuthorityTypeOK
<1>. HIDE DEF n
<1>. QED  BY <1>1, <1>2, <1>3, LedgerPreserves

LEMMA ClaimPreserves ==
  ASSUME AuthorityInv, NEW s \in states, NEW d \in states, NEW asset, Claim(s, d, asset)
  PROVE  AuthorityInv'
<1>. DEFINE needs == IF s.contract \in Tokens THEN {} ELSE {d}
            n == [After(s, needs) EXCEPT !.escrows = @ \ {asset}, !.settles = d]
<1>1. /\ n.contract = s.contract /\ n.previous = s /\ n.needs = needs /\ n.settles = d
      /\ n.chain = s.chain
      /\ n.phase = s.phase /\ n.offer = s.offer /\ n.payment = s.payment
  BY DEF After
<1>2. Make(n) /\ s.contract \notin Exchanges /\ d.phase \in Decided
  BY AuthorityAssumption DEF Claim, Decided
<1>3. s.chain # None  BY DEF Claim, AuthorityInv, AuthorityTypeOK
<1>4. needs \subseteq states /\ (s.contract \notin Tokens => d \in needs)  OBVIOUS
<1>. HIDE DEF n, needs
<1>. QED  BY <1>1, <1>2, <1>3, <1>4, LedgerPreserves

LEMMA ProofParts ==
  ASSUME NEW x, NEW proof \in ProofsFor(x)
  PROVE  proof.chain \in Chains
BY DEF ProofsFor

LEMMA OfferPreserves ==
  ASSUME AuthorityInv, NEW s \in states, Initialize(s)
  PROVE  AuthorityInv'
<1>1. PICK proof \in ProofsFor(s.contract) :
        /\ Authoritative(states, proof)
        /\ Make([After(s, Dependencies(proof.chain)) EXCEPT
                   !.phase = "offered", !.offer = proof])
  BY DEF Initialize
<1>. DEFINE n == [After(s, Dependencies(proof.chain)) EXCEPT
                    !.phase = "offered", !.offer = proof]
<1>2. /\ n.contract = s.contract /\ n.previous = s /\ n.needs = Dependencies(proof.chain)
      /\ n.chain = s.chain /\ n.settles = None
      /\ n.approved = s.approved /\ n.escrows = s.escrows
      /\ n.phase = "offered" /\ n.offer = proof /\ n.payment = s.payment
  BY DEF After
<1>3. Make(n) /\ s.contract \in Exchanges /\ s.phase = "start"
  BY <1>1 DEF Initialize
<1>4. Grounded(s) /\ (s.chain = None => s.approved = {} /\ s.escrows = {})
  BY DEF AuthorityInv, AuthorityTypeOK, AllGrounded
<1>5. /\ Dependencies(proof.chain) \subseteq states
      /\ \E k \in Nat : DOMAIN proof.chain.links = 1 .. k
  BY ChainLinks, ChainRefs, ProofParts
<1>. HIDE DEF n
<1>6. ChainGrounded(n)  BY <1>2, <1>3, AuthorityAssumption DEF ChainGrounded
<1>7. OfferGrounded(n)  BY <1>1, <1>2, <1>5 DEF OfferGrounded
<1>8. PaymentGrounded(n)  BY <1>2, <1>4 DEF Grounded, PaymentGrounded
<1>9. DecisionLast(n)  BY <1>2, <1>3 DEF DecisionLast, Decided
<1>. QED
  BY <1>2, <1>3, <1>4, <1>5, <1>6, <1>7, <1>8, <1>9, MakePreserves DEF Decided, Grounded

LEMMA CancelPreserves ==
  ASSUME AuthorityInv, NEW s \in states, CancelExchange(s)
  PROVE  AuthorityInv'
<1>. DEFINE n == [After(s, {}) EXCEPT !.phase = "cancelled"]
<1>2. /\ n.contract = s.contract /\ n.previous = s /\ n.needs = {}
      /\ n.chain = s.chain /\ n.settles = None
      /\ n.approved = s.approved /\ n.escrows = s.escrows
      /\ n.phase = "cancelled" /\ n.offer = s.offer /\ n.payment = s.payment
  BY DEF After
<1>3. Make(n) /\ s.phase = "offered"
  BY DEF CancelExchange
<1>4. Grounded(s) /\ (s.chain = None => s.approved = {} /\ s.escrows = {})
  BY DEF AuthorityInv, AuthorityTypeOK, AllGrounded
<1>5. s.contract \in Exchanges  BY <1>3, <1>4 DEF Grounded, DecisionLast
<1>. HIDE DEF n
<1>6. ChainGrounded(n)  BY <1>2, <1>5, AuthorityAssumption DEF ChainGrounded
<1>7. OfferGrounded(n)  BY <1>2, <1>4 DEF Grounded, OfferGrounded
<1>8. PaymentGrounded(n)  BY <1>2, <1>4 DEF Grounded, PaymentGrounded
<1>9. DecisionLast(n)  BY <1>2, <1>3, <1>5 DEF DecisionLast, Decided
<1>. QED
  BY <1>2, <1>3, <1>4, <1>6, <1>7, <1>8, <1>9, MakePreserves DEF Decided, Grounded

LEMMA ExchangePreserves ==
  ASSUME AuthorityInv, NEW s \in states, ExchangeAsset(s)
  PROVE  AuthorityInv'
<1>1. PICK proof \in ProofsFor(s.contract) :
        /\ Authoritative(states, proof)
        /\ Trusts(states, s.contract, proof.chain)
        /\ Make([After(s, Dependencies(proof.chain)) EXCEPT
                   !.phase = "completed", !.payment = proof])
  BY DEF ExchangeAsset
<1>. DEFINE n == [After(s, Dependencies(proof.chain)) EXCEPT
                    !.phase = "completed", !.payment = proof]
<1>2. /\ n.contract = s.contract /\ n.previous = s /\ n.needs = Dependencies(proof.chain)
      /\ n.chain = s.chain /\ n.settles = None
      /\ n.approved = s.approved /\ n.escrows = s.escrows
      /\ n.phase = "completed" /\ n.offer = s.offer /\ n.payment = proof
  BY DEF After
<1>3. Make(n) /\ s.phase = "offered"
  BY <1>1 DEF ExchangeAsset
<1>4. Grounded(s) /\ (s.chain = None => s.approved = {} /\ s.escrows = {})
  BY DEF AuthorityInv, AuthorityTypeOK, AllGrounded
<1>5. /\ Dependencies(proof.chain) \subseteq states
      /\ \E k \in Nat : DOMAIN proof.chain.links = 1 .. k
      /\ s.contract \in Exchanges
  BY <1>3, <1>4, ChainLinks, ChainRefs, ProofParts DEF Grounded, DecisionLast
<1>. HIDE DEF n
<1>6. ChainGrounded(n)  BY <1>2, <1>5, AuthorityAssumption DEF ChainGrounded
<1>7. OfferGrounded(n)  BY <1>2, <1>4 DEF Grounded, OfferGrounded
<1>8. PaymentGrounded(n)  BY <1>1, <1>2, <1>5 DEF PaymentGrounded
<1>9. DecisionLast(n)  BY <1>2, <1>3, <1>5 DEF DecisionLast, Decided
<1>. QED
  BY <1>2, <1>3, <1>4, <1>5, <1>6, <1>7, <1>8, <1>9, MakePreserves DEF Decided, Grounded

LEMMA CommitPreserves ==
  ASSUME AuthorityInv, NEW s \in states, Commit(s)
  PROVE  AuthorityInv'
<1>1. /\ s.contract \in Contracts
      /\ head[s.contract] \in committed /\ s.previous = head[s.contract]
      /\ s.previous \in states
  BY DEF Commit, AuthorityInv, AuthorityTypeOK
<1>2. states' = states /\ committed' = committed \cup {s}
      /\ head' = [head EXCEPT ![s.contract] = s]
  BY DEF Commit
<1>3. AuthorityTypeOK'
  BY <1>1, <1>2 DEF AuthorityInv, AuthorityTypeOK
<1>4. AllGrounded'
  BY <1>2 DEF AuthorityInv, AllGrounded, Grounded, ChainGrounded, OfferGrounded,
     PaymentGrounded, DecisionLast
<1>5. s.previous.phase \notin Decided
  BY <1>1 DEF AuthorityInv, AllGrounded, Grounded, DecisionLast
<1>6. LedgerInv'
  <2>1. ASSUME NEW t \in committed', t.phase \in Decided
        PROVE  head'[t.contract] = t
    <3>1. CASE t = s  BY <1>1, <1>2, <3>1 DEF AuthorityInv, AuthorityTypeOK
    <3>2. CASE t # s
      <4>1. t \in committed /\ head[t.contract] = t
        BY <1>2, <2>1, <3>2 DEF AuthorityInv, LedgerInv
      <4>2. t.contract # s.contract  BY <1>1, <1>5, <2>1, <4>1
      <4>. QED  BY <1>2, <4>1, <4>2 DEF AuthorityInv, AuthorityTypeOK
    <3>. QED  BY <3>1, <3>2
  <2>2. \A t \in committed' : t.needs \subseteq committed'
    BY <1>2 DEF Commit, AuthorityInv, LedgerInv
  <2>3. \A t \in committed' : t.previous \in states' => t.previous \in committed'
    BY <1>1, <1>2 DEF AuthorityInv, LedgerInv
  <2>. QED  BY <2>1, <2>2, <2>3 DEF LedgerInv
<1>. QED  BY <1>3, <1>4, <1>6 DEF AuthorityInv

-----------------------------------------------------------------------------
(* The invariant. *)

LEMMA StartInv == AuthorityInit => AuthorityInv
<1>. SUFFICES ASSUME AuthorityInit PROVE AuthorityInv
  OBVIOUS
<1>1. ASSUME NEW s \in states
      PROVE  /\ s.contract \in Contracts /\ s.previous = NoState /\ s.needs = {}
             /\ s.chain = None /\ s.approved = {} /\ s.escrows = {} /\ s.settles = None
             /\ s.phase = "start" /\ s.offer = None /\ s.payment = None
  BY DEF AuthorityInit, Created
<1>2. AuthorityTypeOK
  BY <1>1 DEF AuthorityInit, AuthorityTypeOK
<1>3. NoState \notin states
  <2>1. NoState.contract = None  BY DEF NoState
  <2>. QED  BY <1>1, <2>1, AuthorityAssumption
<1>4. AllGrounded
  BY <1>1, <1>3 DEF AllGrounded, Grounded, ChainGrounded, OfferGrounded, PaymentGrounded,
     DecisionLast
<1>5. LedgerInv
  BY <1>1, <1>3 DEF AuthorityInit, LedgerInv, Decided
<1>. QED  BY <1>2, <1>4, <1>5 DEF AuthorityInv

LEMMA StepInv == AuthorityInv /\ [AuthorityNext]_authorityVars => AuthorityInv'
<1>. SUFFICES ASSUME AuthorityInv, [AuthorityNext]_authorityVars PROVE AuthorityInv'
  OBVIOUS
<1>1. CASE UNCHANGED authorityVars
  BY <1>1 DEF authorityVars, AuthorityInv, AuthorityTypeOK, AllGrounded, Grounded,
     ChainGrounded, OfferGrounded, PaymentGrounded, DecisionLast, LedgerInv
<1>2. ASSUME NEW s \in states, Invocation(s) PROVE AuthorityInv'
  BY <1>2, RootPreserves, DerivedPreserves, ApprovePreserves, EscrowPreserves,
     OfferPreserves, ExchangePreserves, CancelPreserves, ReleasePreserves, ClaimPreserves
     DEF Invocation
<1>. QED  BY <1>1, <1>2, CommitPreserves DEF AuthorityNext

\* What a state relies on is committed before it, and decisions are final: the
\* inductive invariant the theorems below rest on.
THEOREM LedgerGrounded == AuthoritySpec => []AuthorityInv
BY StartInv, StepInv, PTL DEF AuthoritySpec

-----------------------------------------------------------------------------
(* What follows for the committed states. *)

LEMMA AlongMore ==
  ASSUME committed \subseteq committed', NEW chain, NEW key, ApprovedAlong(chain, key)
  PROVE  ApprovedAlong(chain, key)'
BY DEF ApprovedAlong

LEMMA InvocationCommitsNothing ==
  ASSUME NEW s, Invocation(s)
  PROVE  committed' = committed
BY DEF Invocation, Make, InitializeRootAuthority, InitializeDerivedAuthority,
   AddApprovedIssuer, Escrow, Initialize, CancelExchange, ExchangeAsset, Release, Claim

\* The dependencies of a committed state are committed, and so is its predecessor.
LEMMA CommitGrounds ==
  ASSUME AuthorityInv, NEW s \in states, Commit(s)
  PROVE  /\ AuthorityInv' /\ Grounded(s) /\ states' = states
         /\ s.needs \subseteq committed /\ s.previous \in committed
         /\ committed' = committed \cup {s}
BY CommitPreserves DEF Commit, AuthorityInv, AuthorityTypeOK, AllGrounded

LEMMA VettedStep == AuthorityInv /\ Vetted /\ [AuthorityNext]_authorityVars => Vetted'
<1>. SUFFICES ASSUME AuthorityInv, Vetted, [AuthorityNext]_authorityVars PROVE Vetted'
  OBVIOUS
<1>1. CASE committed' = committed
  BY <1>1, AlongMore DEF Vetted
<1>2. ASSUME NEW s \in states, Commit(s) PROVE Vetted'
  <2>1. /\ Grounded(s) /\ s.needs \subseteq committed /\ s.previous \in committed
        /\ committed' = committed \cup {s}
    BY <1>2, CommitGrounds
  <2>2. ASSUME s.contract \in Issuers, s.chain # None
        PROVE  ApprovedAlong(s.chain, s.contract)
    <3>1. CASE Dependencies(s.chain) \subseteq s.needs
      BY <2>1, <2>2, <3>1, ValidatesCommitted DEF Grounded, ChainGrounded
    <3>2. CASE s.previous.contract = s.contract /\ s.previous.chain = s.chain
      BY <2>1, <2>2, <3>2 DEF Vetted
    <3>. QED  BY <2>1, <2>2, <3>1, <3>2 DEF Grounded, ChainGrounded
  <2>3. ASSUME NEW t \in committed', t.contract \in Issuers, t.chain # None
        PROVE  ApprovedAlong(t.chain, t.contract)'
    BY <2>1, <2>2, <2>3, AlongMore DEF Vetted
  <2>. QED  BY <2>3 DEF Vetted
<1>. QED  BY <1>1, <1>2, InvocationCommitsNothing DEF AuthorityNext, authorityVars

\* Every committed issuer, token issuer and token object has its authority from
\* contracts that approved one another in committed states, for any number of
\* contracts, chains of any length, and whatever clients propose.
THEOREM VettedHolds == AuthoritySpec => []Vetted
<1>1. AuthorityInit => Vetted  BY DEF AuthorityInit, Created, Vetted
<1>. QED  BY <1>1, VettedStep, LedgerGrounded, PTL DEF AuthoritySpec

LEMMA TradesVettedStep ==
  AuthorityInv /\ TradesVetted /\ [AuthorityNext]_authorityVars => TradesVetted'
<1>. SUFFICES ASSUME AuthorityInv, TradesVetted, [AuthorityNext]_authorityVars
              PROVE  TradesVetted'
  OBVIOUS
<1>. DEFINE OfferGood(s) == s.offer # None => ApprovedAlong(s.offer.chain, s.offer.ref.contract)
            PaymentGood(s) == s.payment # None =>
              /\ ApprovedAlong(s.payment.chain, s.payment.ref.contract)
              /\ \/ Trusted[s.contract] = s.payment.chain.root
                 \/ ApprovedAlong(s.payment.chain, Trusted[s.contract])
<1>1. TradesVetted <=> \A s \in committed : OfferGood(s) /\ PaymentGood(s)
  BY DEF TradesVetted
<1>2. TradesVetted' <=> \A s \in committed' : OfferGood(s)' /\ PaymentGood(s)'
  BY DEF TradesVetted
<1>3. ASSUME committed \subseteq committed', NEW s, OfferGood(s), PaymentGood(s)
      PROVE  OfferGood(s)' /\ PaymentGood(s)'
  BY <1>3, AlongMore
<1>4. ASSUME NEW s \in states, Commit(s) PROVE OfferGood(s) /\ PaymentGood(s)
  <2>1. /\ Grounded(s) /\ s.needs \subseteq committed /\ s.previous \in committed
    BY <1>4, CommitGrounds
  <2>2. OfferGood(s.previous) /\ PaymentGood(s.previous)
    BY <1>1, <2>1
  <2>3. OfferGood(s)
    <3>1. CASE Dependencies(s.offer.chain) \subseteq s.needs
      BY <2>1, <3>1, ValidatesCommitted DEF Grounded, OfferGrounded, Authoritative
    <3>2. CASE s.previous.offer = s.offer
      BY <2>2, <3>2
    <3>. QED  BY <2>1, <3>1, <3>2 DEF Grounded, OfferGrounded
  <2>4. PaymentGood(s)
    <3>1. CASE Dependencies(s.payment.chain) \subseteq s.needs
      BY <2>1, <3>1, ValidatesCommitted DEF Grounded, PaymentGrounded, Authoritative, Trusts
    <3>2. CASE s.previous.contract = s.contract /\ s.previous.payment = s.payment
      BY <2>2, <3>2
    <3>. QED  BY <2>1, <3>1, <3>2 DEF Grounded, PaymentGrounded
  <2>. QED  BY <2>3, <2>4
<1>. HIDE DEF OfferGood, PaymentGood
<1>5. CASE committed' = committed
  BY <1>1, <1>2, <1>3, <1>5
<1>6. ASSUME NEW s \in states, Commit(s) PROVE TradesVetted'
  <2>1. committed' = committed \cup {s}  BY <1>6 DEF Commit
  <2>. QED  BY <1>1, <1>2, <1>3, <1>4, <1>6, <2>1
<1>. QED  BY <1>5, <1>6, InvocationCommitsNothing DEF AuthorityNext, authorityVars

\* Every asset a committed exchange object accepted is of an issuer approved in
\* committed states, a payment's by way of the key the creator trusts.
THEOREM TradesVettedHolds == AuthoritySpec => []TradesVetted
<1>1. AuthorityInit => TradesVetted  BY DEF AuthorityInit, Created, TradesVetted
<1>. QED  BY <1>1, TradesVettedStep, LedgerGrounded, PTL DEF AuthoritySpec

LEMMA InvDecides == AuthorityInv => OneDecision
<1>. SUFFICES ASSUME AuthorityInv, NEW s \in committed, NEW t \in committed,
                     s.contract \notin Tokens, s.settles # None,
                     t.contract \notin Tokens, t.settles # None,
                     s.settles.contract = t.settles.contract
              PROVE  s.settles = t.settles
  BY DEF OneDecision
<1>1. ASSUME NEW r \in committed, r.contract \notin Tokens, r.settles # None
      PROVE  head[r.settles.contract] = r.settles
  BY <1>1 DEF AuthorityInv, AuthorityTypeOK, LedgerInv, AllGrounded, Grounded, DecisionLast
<1>. QED  BY <1>1

\* However an exchange object's state forked before it was committed, the settlements
\* the ledger commits at issuers rest on one decision of it.
THEOREM DecidesOnce == AuthoritySpec => []OneDecision
BY LedgerGrounded, InvDecides, PTL

\* States are made of states, and only initialized contracts approve or hold escrows.
THEOREM AuthorityTypeCorrect == AuthoritySpec => []AuthorityTypeOK
BY LedgerGrounded, PTL DEF AuthorityInv
=============================================================================
