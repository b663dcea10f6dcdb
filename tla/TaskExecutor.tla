---------------------------- MODULE TaskExecutor ----------------------------
(***************************************************************************)
(* What EventLoop::queueInLoop promises its callers, with no threads, no   *)
(* mutex and no eventfd: tasks are accepted in some order and the loop     *)
(* executes them one at a time, in the order they were accepted, each at   *)
(* most once, until the loop is over.                                      *)
(***************************************************************************)
EXTENDS Naturals, Sequences

CONSTANT Tasks          \* the calls of queueInLoop, each one a task

VARIABLES accepted,     \* every task accepted so far, in order
          executed,     \* every task executed so far, in order
          over          \* the loop has returned: nothing is executed any more

absVars == <<accepted, executed, over>>

Init ==
    /\ accepted = <<>>
    /\ executed = <<>>
    /\ over = FALSE

Accept(task) ==
    /\ accepted' = Append(accepted, task)
    /\ UNCHANGED <<executed, over>>

\* The next task to execute is the oldest accepted one not executed yet.
Execute ==
    /\ ~over
    /\ Len(executed) < Len(accepted)
    /\ executed' = Append(executed, accepted[Len(executed) + 1])
    /\ UNCHANGED <<accepted, over>>

Finish ==
    /\ ~over
    /\ over' = TRUE
    /\ UNCHANGED <<accepted, executed>>

Next == (\E task \in Tasks : Accept(task)) \/ Execute \/ Finish

Spec == Init /\ [][Next]_absVars
=============================================================================
