---------------------------- MODULE MCJsiHandles ----------------------------
(* A small instance of JsiHandles: two variables of the embedder, one member of *)
(* one host object, one ordinary object and one host function.                  *)
EXTENDS JsiHandles, TLC

CONSTANTS n1, n2, m1, o1, h1, f1, p1, p2

MCOwnerOf(m) == h1
Symmetry == Permutations({p1, p2}) \union Permutations({n1, n2})
=============================================================================
