----------------------------- MODULE MCEventLoop -----------------------------
(***************************************************************************)
(* Instances of EventLoop for TLC.  Tasks bounds the number of functors    *)
(* handed over in a behaviour; everything else is finite as a consequence. *)
(***************************************************************************)
EXTENDS EventLoop

CONSTANTS t1, t2, a, b, c

MCThreads == {t1, t2}
MCTasks == {a, b, c}
=============================================================================
