---------------------------- MODULE MCVersionStore ----------------------------
(* VersionStore on a small instance.                                       *)
EXTENDS VersionStore, TLC

CONSTANTS f1, f2, a, b, z   \* files; contents, of which z is empty

\* The contents differ in size; z is the empty file.
Sizes == [c \in Contents |-> IF c = z THEN 0 ELSE IF c = a THEN 1 ELSE 2]

\* The files of a brain are interchangeable.
Symmetric == Permutations(Files)
===============================================================================
