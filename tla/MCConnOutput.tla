---------------------------- MODULE MCConnOutput ----------------------------
(***************************************************************************)
(* Instances of ConnOutput for TLC.                                        *)
(***************************************************************************)
EXTENDS ConnOutput, TLC

MCLengths == {1, 2, 4}
=============================================================================
