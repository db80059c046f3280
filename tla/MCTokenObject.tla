--------------------------- MODULE MCTokenObject ---------------------------
EXTENDS TokenObject, Functions, TLC

CONSTANTS i1, t1, gold, ticket, minter, bob, g1, g2

MCTypeOf == [i \in Issuers |-> IF i \in Tokens THEN ticket ELSE gold]
Symmetry == Permutations(Agents)

\* Counting units one by one adds a function's values up.
ASSUME TotalIsSum ==
  \A f \in [1 .. 3 -> Counts] : Total(f) = FoldFunction(+, 0, f)
=============================================================================
