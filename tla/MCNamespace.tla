---------------------------- MODULE MCNamespace ----------------------------
(* Instances of Namespace for TLC.                                         *)
EXTENDS Namespace, TLC

CONSTANTS thr1, thr2, dirA, dirB, new1, new2, na, nb

MCSymmetry ==
    UNION {Permutations(s) : s \in {{thr1, thr2}, {dirA, dirB}, {new1, new2}, {na, nb}}}
=============================================================================
