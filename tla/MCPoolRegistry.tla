----------------------------- MODULE MCPoolRegistry -----------------------------
(***************************************************************************)
(* Constants for checking PoolRegistry with TLC: repo ids a and b share a   *)
(* database path, c has its own.                                            *)
(***************************************************************************)
EXTENDS PoolRegistry, TLC

CONSTANTS a, b, c, p1, p2

MCPathOf == [r \in Repo |-> IF r = c THEN p2 ELSE p1]
Symmetry == Permutations(Entry) \union Permutations(Db) \union Permutations(Closer)
=============================================================================
