----------------------------- MODULE MCZFODFault ------------------------------
(***************************************************************************)
(* Model values for ZFODFault: two page-directory entries, the first       *)
(* covering pages 1 and 2 and the second page 3.  MCZFODFault.cfg gives    *)
(* three frames, so free_frame's walk passes nodes of a two-node list.     *)
(***************************************************************************)
EXTENDS ZFODFault, TLC

MCDirOf == [v \in Pages |-> IF v = 3 THEN "d2" ELSE "d1"]
================================================================================
