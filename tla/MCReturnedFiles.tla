-------------------------- MODULE MCReturnedFiles --------------------------
(***************************************************************************)
(* Releases on both sides of every comparison the code makes, and the ends *)
(* of a byte.                                                              *)
(***************************************************************************)
EXTENDS ReturnedFiles

V(a, b, c) == [major |-> a, minor |-> b, maint |-> c]

SomeVersions ==
  {V(32, 4, 3), V(32, 5, 0), V(32, 6, 1), V(32, 7, 4), V(32, 255, 255),
   V(34, 1, 0), V(35, 4, 1), V(36, 0, 0)}
=============================================================================
