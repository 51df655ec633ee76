------------------------------ MODULE JobLedger ------------------------------
(***************************************************************************)
(* What pgquarry.jobs promises to whoever looks at it from outside: the    *)
(* life of every job, and how often the job's output took effect.  Workers,*)
(* row locks, connections and faults do not appear here.  JobQueue is      *)
(* shown to implement this module.                                         *)
(***************************************************************************)
EXTENDS Naturals

CONSTANT Jobs            \* values pgquarry.jobs_id_seq can hand out

VARIABLES
  status,                \* where each job is in its life
  effects                \* how often the job's output was committed

vars == <<status, effects>>

\* The four values of the CHECK on jobs.status, before the row exists, and
\* after the retention sweep deleted it.
Status == {"absent", "pending", "processing", "done", "error", "purged"}

\* The new status of the jobs in S is s, nothing else changes.
Moved(S, s) == status' = [j \in Jobs |-> IF j \in S THEN s ELSE status[j]]

AllAre(S, s) == S # {} /\ \A j \in S : status[j] = s

-----------------------------------------------------------------------------
Init ==
  /\ status = [j \in Jobs |-> "absent"]
  /\ effects = [j \in Jobs |-> 0]

\* A client's transaction commits the rows of S.
Submit(S) == AllAre(S, "absent") /\ Moved(S, "pending") /\ UNCHANGED effects

\* One worker takes the jobs of S, all of them pending until then.
Take(S) == AllAre(S, "pending") /\ Moved(S, "processing") /\ UNCHANGED effects

\* The output reaches the user's table.
TakeEffect(j) ==
  /\ status[j] = "processing" /\ effects[j] = 0
  /\ effects' = [effects EXCEPT ![j] = 1]
  /\ UNCHANGED status

\* The job is reported done, after its output took effect ...
Finish(j) ==
  /\ status[j] = "processing" /\ effects[j] = 1
  /\ Moved({j}, "done") /\ UNCHANGED effects

\* ... or in the same step, when the output is a column of the job row.
TakeEffectAndFinish(j) ==
  /\ status[j] = "processing" /\ effects[j] = 0
  /\ effects' = [effects EXCEPT ![j] = 1]
  /\ Moved({j}, "done")

\* The job is reported failed: its output never took effect, nor will it.
Reject(j) ==
  /\ status[j] = "processing" /\ effects[j] = 0
  /\ Moved({j}, "error") /\ UNCHANGED effects

\* Retention forgets done jobs only.
Forget(S) == AllAre(S, "done") /\ Moved(S, "purged") /\ UNCHANGED effects

Next ==
  \/ \E S \in SUBSET Jobs : Submit(S) \/ Take(S) \/ Forget(S)
  \/ \E j \in Jobs : TakeEffect(j) \/ Finish(j) \/ TakeEffectAndFinish(j) \/ Reject(j)

Spec == Init /\ [][Next]_vars

-----------------------------------------------------------------------------
\* A job reported done has had exactly one effect, a job reported failed or
\* not yet taken has had none, and no output is ever applied twice.
OutcomeMatchesEffect ==
  \A j \in Jobs :
    /\ effects[j] \in {0, 1}
    /\ status[j] \in {"done", "purged"} => effects[j] = 1
    /\ status[j] \in {"absent", "pending", "error"} => effects[j] = 0
=============================================================================
