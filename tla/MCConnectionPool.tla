---------------------------- MODULE MCConnectionPool ----------------------------
(***************************************************************************)
(* Constants for checking ConnectionPool with TLC.  One connection identity *)
(* beyond MaxConns is enough: retireConnection closes one before it creates *)
(* its replacement.                                                         *)
(***************************************************************************)
EXTENDS ConnectionPool, TLC

Symmetry == Permutations(Call) \union Permutations(Conn) \union Permutations(Closer)
=============================================================================
