----------------------------- MODULE MCMaskRun -----------------------------
(***************************************************************************)
(* Small instances of MaskRun for TLC.                                     *)
(***************************************************************************)
EXTENDS MaskRunProps, TLC

CONSTANTS p1, p2   (* model values: the processes *)

ThreeAndTwo == <<3, 2>>
TwoAndOne   == <<2, 1>>

Permuted == Permutations({p1, p2})
=============================================================================
