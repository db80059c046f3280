---------------------------- MODULE MCAuthority ----------------------------
EXTENDS Authority, TLC

CONSTANTS v, w, b, t, x, gold, silver, alice, bob

MCTrusted == [y \in Exchanges |-> v]

(* The run starts from committed states with v initialized, b approved by v and *)
(* initialized, and alice's asset in escrow to x; in addition, either b and a   *)
(* second root w have approved t, or x has taken alice's offer, an asset of bob *)
(* is in escrow to it, and x has been cancelled in a state not committed yet.   *)
Root(r, type) ==
  [After(Created(r), {}) EXCEPT !.chain = [type |-> type, root |-> r, links |-> <<>>]]
V1 == Root(v, gold)
V2 == [After(V1, {}) EXCEPT !.approved = {b}]
W1 == Root(w, silver)
W2 == [After(W1, {}) EXCEPT !.approved = {t}]
Chain == [type |-> gold, root |-> v, links |-> <<[issuer |-> b, ref |-> V2]>>]
B1 == [After(Created(b), {V2}) EXCEPT !.chain = Chain]
B2 == [After(B1, {}) EXCEPT !.escrows = {[owner |-> alice, agent |-> x, id |-> B1]}]
B3 == [After(B2, {}) EXCEPT !.approved = {t}]
B4 == [After(B2, {}) EXCEPT !.escrows = @ \cup {[owner |-> bob, agent |-> x, id |-> B2]}]
Offer(a) == [ref |-> B2, asset |-> a, chain |-> Chain]
X1(a) == [After(Created(x), {V2}) EXCEPT !.phase = "offered", !.offer = Offer(a)]

X2(a) == [After(X1(a), {}) EXCEPT !.phase = "cancelled"]

StartsWith(new, current, waiting) ==
  /\ committed = {Created(c) : c \in Contracts} \cup {V1, V2, B1, B2} \cup new
  /\ states = committed \cup waiting
  /\ head = [c \in Contracts |->
               IF \E s \in current : s.contract = c
               THEN CHOOSE s \in current : s.contract = c ELSE Created(c)]

MCInit ==
  \/ StartsWith({B3, W1, W2}, {V2, B3, W2}, {})
  \/ \E a \in B2.escrows : StartsWith({B4, X1(a)}, {V2, B4, X1(a)}, {X2(a)})

MCSpec == MCInit /\ [][AuthorityNext]_authorityVars
=============================================================================
