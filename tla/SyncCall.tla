------------------------------- MODULE SyncCall -------------------------------
(***************************************************************************)
(* embed_sync() and generate_sync(): a client's backend inserts an ad hoc  *)
(* job, commits, and polls the job's row until it is done or failed or the *)
(* time is up.  The two procedures differ in the column they return only.  *)
(* Workers are seen through JobLedger: what they do to a job from outside. *)
(***************************************************************************)
EXTENDS JobLedger

CONSTANTS
  Callers,       \* client backends, each with one call at a time
  Repeatable,    \* those whose session's default isolation is REPEATABLE READ
  Retention,     \* do workers purge done jobs?
  NoJob          \* the job of a caller that has made no call

ASSUME SyncAssumption ==
  Repeatable \subseteq Callers /\ Retention \in BOOLEAN /\ NoJob \notin Jobs

VARIABLES
  phase,         \* where the call is
  job,           \* job_id of the caller's last call
  timed,         \* was p_timeout_ms given?  It may be NULL
  expired,       \* have p_timeout_ms passed since started_at?
  snapshot,      \* the job's status as the transaction's first snapshot saw it
  over           \* history: was the job's row there, and finished, when last polled?

syncVars == <<phase, job, timed, expired, snapshot, over>>
allVars == <<status, effects, phase, job, timed, expired, snapshot, over>>

Waiting == {"start", "poll", "check"}
Ended == {"returned", "failed", "timedout", "cancelled"}

SyncTypeOK ==
  /\ status \in [Jobs -> Status] /\ effects \in [Jobs -> {0, 1}]
  /\ phase \in [Callers -> {"idle"} \cup Waiting \cup Ended]
  /\ job \in [Callers -> Jobs \cup {NoJob}]
  /\ timed \in [Callers -> BOOLEAN] /\ expired \in [Callers -> BOOLEAN]
  /\ snapshot \in [Callers -> Status] /\ over \in [Callers -> BOOLEAN]

SyncInit ==
  /\ Init
  /\ phase = [c \in Callers |-> "idle"] /\ job = [c \in Callers |-> NoJob]
  /\ timed = [c \in Callers |-> FALSE] /\ expired = [c \in Callers |-> FALSE]
  /\ snapshot = [c \in Callers |-> "absent"] /\ over = [c \in Callers |-> FALSE]

Goto(c, p) == phase' = [phase EXCEPT ![c] = p]

-----------------------------------------------------------------------------
\* job_id := embed_async(...); COMMIT.  A caller whose call has ended, in a
\* timeout for example, may call again: that is another job.  Ids come from a
\* sequence; no step compares them, so which one comes first does not matter.
Call(c, j) ==
  /\ phase[c] \in {"idle"} \cup Ended
  /\ \A i \in Jobs : i < j => status[i] # "absent"
  /\ Submit({j})
  /\ Goto(c, "start")
  /\ job' = [job EXCEPT ![c] = j]
  /\ \E t \in BOOLEAN : timed' = [timed EXCEPT ![c] = t]
  /\ expired' = [expired EXCEPT ![c] = FALSE]
  /\ snapshot' = [snapshot EXCEPT ![c] = "absent"]
  /\ over' = [over EXCEPT ![c] = FALSE]

\* started_at := clock_timestamp().  The first expression after COMMIT takes
\* the snapshot of the new transaction.
StartClock(c) ==
  /\ phase[c] = "start"
  /\ Goto(c, "poll")
  /\ snapshot' = [snapshot EXCEPT ![c] = status[job[c]]]
  /\ UNCHANGED <<vars, job, timed, expired, over>>

\* What SELECT ... FROM jobs WHERE id = job_id sees.  READ COMMITTED takes a
\* snapshot per statement, REPEATABLE READ keeps the first.
Seen(c) == IF c \in Repeatable THEN snapshot[c] ELSE status[job[c]]

\* Mutant: everything that is no longer pending is taken for a result.
PollEager(c) ==
  /\ phase[c] = "poll"
  /\ \/ Seen(c) = "error" /\ Goto(c, "failed")
     \/ Seen(c) = "pending" /\ Goto(c, "check")
     \/ Seen(c) \notin {"error", "pending"} /\ Goto(c, "returned")
  /\ over' = [over EXCEPT ![c] = status[job[c]] \in {"done", "error"}]
  /\ UNCHANGED <<vars, job, timed, expired, snapshot>>

\* Mutant: the ELSIF is missing, a failed job is waited for.
PollDoneOnly(c) ==
  /\ phase[c] = "poll"
  /\ Goto(c, IF Seen(c) = "done" THEN "returned" ELSE "check")
  /\ over' = [over EXCEPT ![c] = status[job[c]] \in {"done", "error"}]
  /\ UNCHANGED <<vars, job, timed, expired, snapshot>>

\* The SELECT and the two comparisons.  The row of a purged job is not found:
\* job.status is NULL, and neither comparison holds.
Poll(c) ==
  /\ phase[c] = "poll"
  /\ \/ Seen(c) = "done" /\ Goto(c, "returned")
     \/ Seen(c) = "error" /\ Goto(c, "failed")
     \/ Seen(c) \notin {"done", "error"} /\ Goto(c, "check")
  /\ over' = [over EXCEPT ![c] = status[job[c]] \in {"done", "error"}]
  /\ UNCHANGED <<vars, job, timed, expired, snapshot>>

\* Mutant: now() for clock_timestamp(), which stands still in a transaction.
CheckNow(c) ==
  /\ phase[c] = "check"
  /\ Goto(c, "poll")
  /\ UNCHANGED <<vars, job, timed, expired, snapshot, over>>

\* The clock is read after the row: RAISE, or sleep and poll again.
Check(c) ==
  /\ phase[c] = "check"
  /\ Goto(c, IF expired[c] THEN "timedout" ELSE "poll")
  /\ UNCHANGED <<vars, job, timed, expired, snapshot, over>>

\* p_timeout_ms pass.  A comparison with NULL never holds.
Elapse(c) ==
  /\ phase[c] \in {"poll", "check"} /\ timed[c] /\ ~expired[c]
  /\ expired' = [expired EXCEPT ![c] = TRUE]
  /\ UNCHANGED <<vars, phase, job, timed, snapshot, over>>

\* The statement is cancelled or the client goes away.  The job stays.
Cancel(c) ==
  /\ phase[c] \in Waiting
  /\ Goto(c, "cancelled")
  /\ UNCHANGED <<vars, job, timed, expired, snapshot, over>>

\* Workers: jobs are claimed in batches; the output of an ad hoc job and its
\* status are one UPDATE; the sweep purges, if retention is set.
Work ==
  /\ \/ \E S \in SUBSET Jobs : Take(S)
     \/ \E j \in Jobs : TakeEffectAndFinish(j) \/ Reject(j)
     \/ Retention /\ \E S \in SUBSET Jobs : Forget(S)
  /\ UNCHANGED syncVars

Proceed(c) == StartClock(c) \/ Poll(c) \/ Check(c)

SyncNext ==
  \/ \E c \in Callers :
       \/ \E j \in Jobs : Call(c, j)
       \/ Proceed(c) \/ Elapse(c) \/ Cancel(c)
  \/ Work

SyncSpec == SyncInit /\ [][SyncNext]_allVars

\* A waiting backend is scheduled, pg_sleep ends, and time passes.  Nothing
\* is asked of workers: perhaps none is running.
FairSyncSpec ==
  SyncSpec /\ \A c \in Callers : WF_allVars(Proceed(c)) /\ WF_allVars(Elapse(c))

-----------------------------------------------------------------------------
\* embed_sync returns job.result: the caller gets a result only if its own job
\* has had its effect, and the error only if its own job failed without one.
\* This must survive purges, old snapshots, and calls of other clients.
AnswersAgree ==
  \A c \in Callers :
    /\ phase[c] = "returned" =>
         status[job[c]] \in {"done", "purged"} /\ effects[job[c]] = 1
    /\ phase[c] = "failed" => status[job[c]] = "error" /\ effects[job[c]] = 0

\* What a caller knows of its job: it is committed, and what a snapshot saw
\* finished stays finished, purged at most.
Informed(c) ==
  /\ phase[c] = "idle" <=> job[c] = NoJob
  /\ phase[c] # "idle" => status[job[c]] # "absent"
  /\ phase[c] \in {"poll", "check"} =>
       /\ snapshot[c] = "done" => status[job[c]] \in {"done", "purged"}
       /\ snapshot[c] = "error" => status[job[c]] = "error"

\* The inductive invariant of SyncCallProofs.
SyncInv ==
  /\ SyncTypeOK
  /\ OutcomeMatchesEffect
  /\ AnswersAgree
  /\ \A c \in Callers : Informed(c)

Honest(c) == phase[c] = "timedout" => ~over[c]

\* The message of sql 251, "job % did not complete within %ms": a call that
\* times out had not missed a job that was finished when it last looked.
TimeoutMeansUnfinished == \A c \in Callers : Honest(c)

\* So it is at READ COMMITTED, though time passes between the look at the row
\* and the look at the clock, and though the row may be purged in between: the
\* exception is a row purged before it was looked at.
CommittedTimeoutIsHonest == \A c \in Callers \ Repeatable : Honest(c)

\* sql 201-202, "Blocks the calling backend until the job completes or
\* timeout_ms elapses": a call with a timeout ends even if no worker runs; one
\* without ends when its job has failed, or is done, unless it is purged first.
CallReturns ==
  \A c \in Callers :
    /\ (phase[c] \in Waiting /\ timed[c]) ~> phase[c] \in Ended
    /\ c \notin Repeatable =>
         (phase[c] \in Waiting /\ status[job[c]] \in {"done", "error"})
           ~> phase[c] \notin Waiting \/ status[job[c]] = "purged"
=============================================================================
