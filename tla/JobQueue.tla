------------------------------ MODULE JobQueue ------------------------------
(***************************************************************************)
(* What IWorker (dlls/mysqlx/thread/IThreader.h) promises the owner of a    *)
(* worker: jobs are run one at a time, in the order they were accepted,     *)
(* each of them is terminated exactly once, and a worker that is stopped    *)
(* ends with no job left.  Only a stop with flush_cancel may cancel jobs.   *)
(* How the worker thread sleeps, wakes and is joined is left to             *)
(* ThreadWorker, which is shown to implement this module.                   *)
(***************************************************************************)
EXTENDS Naturals, Sequences

CONSTANTS Jobs,   \* the IThread objects the owner may submit
          NoJob   \* "no job is running"

VARIABLES accepted,    \* the jobs MakeThread accepted, in order
          current,     \* the job whose RunThread is executing, or NoJob
          terminated,  \* the OnTerminate calls made, in order
          mode         \* "open", "draining", "cancelling" or "closed"

vars == <<accepted, current, terminated, mode>>

\* One call of IThread::OnTerminate.
Termination == [job : Jobs, cancel : BOOLEAN]

TypeOK == /\ accepted \in Seq(Jobs)
          /\ current \in Jobs \union {NoJob}
          /\ terminated \in Seq(Termination)
          /\ mode \in {"open", "draining", "cancelling", "closed"}

Init == /\ accepted = <<>>
        /\ current = NoJob
        /\ terminated = <<>>
        /\ mode = "closed"

-----------------------------------------------------------------------------
HasNext == Len(terminated) < Len(accepted)
NextJob == accepted[Len(terminated) + 1]

Open == /\ mode = "closed"
        /\ mode' = "open"
        /\ UNCHANGED <<accepted, current, terminated>>

Accept(j) == /\ mode = "open"
             /\ accepted' = Append(accepted, j)
             /\ UNCHANGED <<current, terminated, mode>>

Begin == /\ mode # "closed"
         /\ current = NoJob
         /\ HasNext
         /\ current' = NextJob
         /\ UNCHANGED <<accepted, terminated, mode>>

End == /\ current # NoJob
       /\ terminated' = Append(terminated, [job |-> current, cancel |-> FALSE])
       /\ current' = NoJob
       /\ UNCHANGED <<accepted, mode>>

Close(flush_cancel) ==
       /\ mode = "open"
       /\ mode' = IF flush_cancel THEN "cancelling" ELSE "draining"
       /\ UNCHANGED <<accepted, current, terminated>>

Cancel == /\ mode = "cancelling"
          /\ current = NoJob
          /\ HasNext
          /\ terminated' = Append(terminated, [job |-> NextJob, cancel |-> TRUE])
          /\ UNCHANGED <<accepted, current, mode>>

Closed == /\ mode \in {"draining", "cancelling"}
          /\ current = NoJob
          /\ ~HasNext
          /\ mode' = "closed"
          /\ UNCHANGED <<accepted, current, terminated>>

Next == \/ Open
        \/ \E j \in Jobs : Accept(j)
        \/ Begin
        \/ End
        \/ \E f \in BOOLEAN : Close(f)
        \/ Cancel
        \/ Closed

Spec == Init /\ [][Next]_vars
=============================================================================
