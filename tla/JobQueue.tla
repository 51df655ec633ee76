------------------------------- MODULE JobQueue -------------------------------
(***************************************************************************)
(* The pgquarry.jobs table and the pgquarry_worker processes draining it.  *)
(*                                                                         *)
(* A worker is one thread: claim a batch, dispatch its jobs one by one,    *)
(* notify, sweep, loop.  Every SQL statement it sends is a transaction of  *)
(* its own, so the steps of this module are the statements; the inference  *)
(* between two statements touches nothing another process can see, and its *)
(* result is the choice a dispatch step makes.  The claim statement takes  *)
(* two steps, because a second worker can run its own claim while the rows *)
(* of the first are locked and not yet updated.                            *)
(*                                                                         *)
(* Whether a mapping is found for a job of a watched table is a choice     *)
(* here; the module WatchedTables adds the caches that decide it.          *)
(***************************************************************************)
EXTENDS Integers, FiniteSets

CONSTANTS
  Jobs,          \* values pgquarry.jobs_id_seq can hand out
  Workers,       \* pgquarry_worker processes sharing the database
  Generators,    \* those started with a generation_model_path
  Kinds,         \* the kinds of job the clients enqueue
  BatchSize,     \* [worker] batch_size
  Retention,     \* is [retention] purge_after set?
  MaxFaults      \* bound: crashes, lost connections and failed statements

ASSUME QueueAssumption ==
  /\ Jobs \subseteq Nat \ {0}
  /\ Generators \subseteq Workers
  /\ Kinds \subseteq [type : {"embed", "generate"}, adhoc : BOOLEAN]
  /\ BatchSize \in Nat \ {0}
  /\ Retention \in BOOLEAN
  /\ MaxFaults \in Nat

VARIABLES
  status,        \* jobs.status, "absent" before the row and "purged" after it
  kind,          \* jobs.job_type, and whether source_table is NULL
  effects,       \* history: how often the output was committed
  heard,         \* history: finished jobs seen by a listener that re-reads
                 \* pgquarry.jobs at every notification
  pc,            \* where each worker is in its loop
  held,          \* rows the claim statement in flight has locked
  todo,          \* claimed jobs not yet finished with
  cur,           \* the job whose mark_done or mark_error comes next
  written,       \* the jobs counted in the batch's `written`
  conn,          \* JobStore::conn_, which is opened once per process
  shutdown,      \* g_shutdown
  faults         \* faults so far

tableVars  == <<status, kind, effects>>
workerVars == <<pc, held, todo, cur, written, shutdown>>
linkVars   == <<conn, faults>>
vars == <<status, kind, effects, heard, pc, held, todo, cur, written, conn,
          shutdown, faults>>

Status == {"absent", "pending", "processing", "done", "error", "purged"}
Places == {"stopped", "poll", "claim", "work", "mark", "fail", "notify", "sweep"}
NoJob  == 0
NoKind == [type |-> "none", adhoc |-> FALSE]

TypeOK ==
  /\ status \in [Jobs -> Status]
  /\ kind \in [Jobs -> Kinds \cup {NoKind}]
  /\ effects \in [Jobs -> Nat]
  /\ heard \subseteq Jobs
  /\ pc \in [Workers -> Places]
  /\ held \in [Workers -> SUBSET Jobs]
  /\ todo \in [Workers -> SUBSET Jobs]
  /\ cur \in [Workers -> Jobs \cup {NoJob}]
  /\ written \in [Workers -> SUBSET Jobs]
  /\ conn \in [Workers -> {"up", "lost"}]
  /\ shutdown \in [Workers -> BOOLEAN]
  /\ faults \in 0 .. MaxFaults

Init ==
  /\ status = [j \in Jobs |-> "absent"]
  /\ kind = [j \in Jobs |-> NoKind]
  /\ effects = [j \in Jobs |-> 0]
  /\ heard = {}
  /\ pc = [w \in Workers |-> "stopped"]
  /\ held = [w \in Workers |-> {}]
  /\ todo = [w \in Workers |-> {}]
  /\ cur = [w \in Workers |-> NoJob]
  /\ written = [w \in Workers |-> {}]
  /\ conn = [w \in Workers |-> "up"]
  /\ shutdown = [w \in Workers |-> FALSE]
  /\ faults = 0

-----------------------------------------------------------------------------
(***************************************************************************)
(* Statements.  On a live connection a statement succeeds, is refused (an  *)
(* SQL error: nothing applied, PQresultStatus says so) or is applied while *)
(* its reply is lost with the connection.  JobStore never reconnects: once *)
(* the connection is lost, every further statement is refused.             *)
(***************************************************************************)
\* Mutant: as if a lost connection were reopened by the next statement.
OutcomesReconnecting(w) ==
  IF faults < MaxFaults THEN {"ok", "refused", "unheard"} ELSE {"ok"}

Outcomes(w) ==
  IF conn[w] = "lost" THEN {"refused"}
  ELSE IF faults < MaxFaults THEN {"ok", "refused", "unheard"}
  ELSE {"ok"}

Applied(o) == o # "refused"

Send(w, o) ==
  /\ o \in Outcomes(w)
  /\ conn' = IF o = "unheard" THEN [conn EXCEPT ![w] = "lost"] ELSE conn
  /\ faults' = IF o = "ok" \/ conn[w] = "lost" THEN faults ELSE faults + 1

Goto(w, place) == pc' = [pc EXCEPT ![w] = place]

\* UPDATE pgquarry.jobs SET status = s, for the rows of S.
SetStatus(S, s) == status' = [j \in Jobs |-> IF j \in S THEN s ELSE status[j]]

\* The output of job j is committed, to its row or to the user's table.
TakesEffect(j) == effects' = [effects EXCEPT ![j] = @ + 1]

-----------------------------------------------------------------------------
(***************************************************************************)
(* Clients.  A transaction commits job rows: ids come from a sequence, so  *)
(* neither their commit order nor the absence of gaps is guaranteed.       *)
(***************************************************************************)
Enqueue(S, k) ==
  /\ S # {} /\ \A j \in S : status[j] = "absent"
  /\ SetStatus(S, "pending")
  /\ kind' = [j \in Jobs |-> IF j \in S THEN k[j] ELSE kind[j]]
  /\ UNCHANGED <<effects, heard, workerVars, linkVars>>

-----------------------------------------------------------------------------
(***************************************************************************)
(* A worker process starts, stops, dies, or loses its connection.          *)
(***************************************************************************)
Start(w) ==
  /\ pc[w] = "stopped"
  /\ Goto(w, "poll")
  /\ UNCHANGED <<tableVars, heard, held, todo, cur, written, shutdown, linkVars>>

\* The process is gone, and with it all it knew.
Stopped(w) ==
  /\ Goto(w, "stopped")
  /\ held' = [held EXCEPT ![w] = {}]
  /\ todo' = [todo EXCEPT ![w] = {}]
  /\ cur' = [cur EXCEPT ![w] = NoJob]
  /\ written' = [written EXCEPT ![w] = {}]
  /\ conn' = [conn EXCEPT ![w] = "up"]
  /\ shutdown' = [shutdown EXCEPT ![w] = FALSE]

\* SIGINT or SIGTERM.
Signal(w) ==
  /\ pc[w] # "stopped"
  /\ shutdown' = [shutdown EXCEPT ![w] = TRUE]
  /\ UNCHANGED <<tableVars, heard, pc, held, todo, cur, written, linkVars>>

\* Mutant: g_shutdown is also read between two jobs of a batch.
ExitMidBatch(w) ==
  /\ pc[w] \in {"poll", "work"} /\ shutdown[w]
  /\ Stopped(w)
  /\ UNCHANGED <<tableVars, heard, faults>>

\* g_shutdown is read at the top of the loop only.
Exit(w) ==
  /\ pc[w] = "poll" /\ shutdown[w]
  /\ Stopped(w)
  /\ UNCHANGED <<tableVars, heard, faults>>

\* A crash, in llama.cpp for instance.  Only the claim holds locks while it
\* is in flight, and the server may still commit it.
Crash(w) ==
  /\ pc[w] # "stopped" /\ faults < MaxFaults
  /\ faults' = faults + 1
  /\ SetStatus({}, "processing") \/ SetStatus(held[w], "processing")
  /\ Stopped(w)
  /\ UNCHANGED <<kind, effects, heard>>

LoseConnection(w) ==
  /\ pc[w] # "stopped" /\ conn[w] = "up" /\ faults < MaxFaults
  /\ conn' = [conn EXCEPT ![w] = "lost"]
  /\ faults' = faults + 1
  /\ UNCHANGED <<tableVars, heard, workerVars>>

-----------------------------------------------------------------------------
(***************************************************************************)
(* claim_pending: FOR UPDATE SKIP LOCKED locks the rows, then the UPDATE   *)
(* of the same statement commits them as 'processing' and returns them.    *)
(***************************************************************************)
\* Mutant: the SELECT without FOR UPDATE SKIP LOCKED.
ClaimableUnlocked == {j \in Jobs : status[j] = "pending"}

Claimable ==
  {j \in Jobs : status[j] = "pending" /\ \A w \in Workers : j \notin held[w]}

\* Mutant: ORDER BY id DESC.
Highest(S, n) == {j \in S : Cardinality({i \in S : i > j}) < n}

\* ORDER BY id ... LIMIT n
Lowest(S, n) == {j \in S : Cardinality({i \in S : i < j}) < n}

AfterBatch == IF Retention THEN "sweep" ELSE "poll"

ClaimLock(w) ==
  /\ pc[w] = "poll" /\ ~shutdown[w] /\ conn[w] = "up"
  /\ Claimable # {}
  /\ held' = [held EXCEPT ![w] = Lowest(Claimable, BatchSize)]
  /\ Goto(w, "claim")
  /\ UNCHANGED <<tableVars, heard, todo, cur, written, shutdown, linkVars>>

\* Nothing to claim: sleep, then look at the retention.
ClaimNothing(w) ==
  /\ pc[w] = "poll" /\ ~shutdown[w] /\ conn[w] = "up"
  /\ Claimable = {}
  /\ Goto(w, AfterBatch)
  /\ UNCHANGED <<tableVars, heard, held, todo, cur, written, shutdown, linkVars>>

\* Mutant: a claim that failed leaves its transaction, and its locks, open.
ClaimReturnKeepingLocks(w, o) ==
  /\ pc[w] = "claim"
  /\ Send(w, o)
  /\ SetStatus(IF Applied(o) THEN held[w] ELSE {}, "processing")
  /\ IF o = "ok"
       THEN todo' = [todo EXCEPT ![w] = held[w]] /\ Goto(w, "work")
       ELSE UNCHANGED todo /\ Goto(w, "poll")
  /\ held' = IF Applied(o) THEN [held EXCEPT ![w] = {}] ELSE held
  /\ UNCHANGED <<kind, effects, heard, cur, written, shutdown>>

\* If the reply fails, claim_pending throws and the loop starts over; rows
\* the server did commit are in no worker's hands from then on.
ClaimReturn(w, o) ==
  /\ pc[w] = "claim"
  /\ Send(w, o)
  /\ SetStatus(IF Applied(o) THEN held[w] ELSE {}, "processing")
  /\ IF o = "ok"
       THEN todo' = [todo EXCEPT ![w] = held[w]] /\ Goto(w, "work")
       ELSE UNCHANGED todo /\ Goto(w, "poll")
  /\ held' = [held EXCEPT ![w] = {}]
  /\ UNCHANGED <<kind, effects, heard, cur, written, shutdown>>

-----------------------------------------------------------------------------
(***************************************************************************)
(* Dispatch: the embed jobs of the batch before its generate jobs, within  *)
(* a type in the order RETURNING gave them, which is any.                  *)
(***************************************************************************)
Ready(w) ==
  LET embeds == {j \in todo[w] : kind[j].type = "embed"}
  IN  IF embeds # {} THEN embeds ELSE todo[w]

\* The worker has nothing more to do for j; counted is its `written`.
Finished(w, j, counted) ==
  /\ todo' = [todo EXCEPT ![w] = @ \ {j}]
  /\ cur' = [cur EXCEPT ![w] = NoJob]
  /\ written' = [written EXCEPT ![w] = counted]
  /\ Goto(w, IF todo[w] # {j} THEN "work"
             ELSE IF counted # {} THEN "notify" ELSE AfterBatch)
  /\ UNCHANGED <<held, shutdown>>

Pause(w, j, place) ==
  /\ cur' = [cur EXCEPT ![w] = j]
  /\ Goto(w, place)
  /\ UNCHANGED <<held, todo, written, shutdown>>

CanInfer(w, j) == kind[j].type = "embed" \/ w \in Generators

\* load_watched_tables, when the mapping of j is not in the worker's memory:
\* a SELECT, which changes nothing for anybody else.
LookUp(w, j, o) ==
  /\ pc[w] = "work" /\ j \in Ready(w) /\ ~kind[j].adhoc /\ CanInfer(w, j)
  /\ Send(w, o)
  /\ UNCHANGED <<tableVars, heard, workerVars>>

\* Mutant: `continue` without mark_error.
NoOutputSkipping(w, j) ==
  /\ pc[w] = "work" /\ j \in Ready(w)
  /\ Finished(w, j, written[w])
  /\ UNCHANGED <<tableVars, heard, linkVars>>

\* No vector, no text, an exception, no generation model, no mapping.
NoOutput(w, j) ==
  /\ pc[w] = "work" /\ j \in Ready(w)
  /\ Pause(w, j, "fail")
  /\ UNCHANGED <<tableVars, heard, linkVars>>

\* write_ad_hoc_result(_text) sets the result and status = 'done' at once.
WriteAdHoc(w, j, o) ==
  /\ pc[w] = "work" /\ j \in Ready(w) /\ kind[j].adhoc /\ CanInfer(w, j)
  /\ Send(w, o)
  /\ IF Applied(o) THEN SetStatus({j}, "done") /\ TakesEffect(j)
                   ELSE UNCHANGED <<status, effects>>
  /\ IF o = "ok" THEN Finished(w, j, written[w] \cup {j}) ELSE Pause(w, j, "fail")
  /\ UNCHANGED <<kind, heard>>

\* Mutant: the PQresultStatus of the write is not looked at.
WriteBackUnchecked(w, j, o) ==
  /\ pc[w] = "work" /\ j \in Ready(w) /\ ~kind[j].adhoc /\ CanInfer(w, j)
  /\ Send(w, o)
  /\ IF Applied(o) THEN TakesEffect(j) ELSE UNCHANGED effects
  /\ Pause(w, j, "mark")
  /\ UNCHANGED <<status, kind, heard>>

\* write_back(_text) updates the user's table, and leaves the status alone.
WriteBack(w, j, o) ==
  /\ pc[w] = "work" /\ j \in Ready(w) /\ ~kind[j].adhoc /\ CanInfer(w, j)
  /\ Send(w, o)
  /\ IF Applied(o) THEN TakesEffect(j) ELSE UNCHANGED effects
  /\ Pause(w, j, IF o = "ok" THEN "mark" ELSE "fail")
  /\ UNCHANGED <<status, kind, heard>>

\* mark_done: a failure is logged, and the job counted all the same.
MarkDone(w, o) ==
  /\ pc[w] = "mark"
  /\ Send(w, o)
  /\ SetStatus(IF Applied(o) THEN {cur[w]} ELSE {}, "done")
  /\ Finished(w, cur[w], written[w] \cup {cur[w]})
  /\ UNCHANGED <<kind, effects, heard>>

\* mark_error: a failure is logged, and the job left as it is.
MarkError(w, o) ==
  /\ pc[w] = "fail"
  /\ Send(w, o)
  /\ SetStatus(IF Applied(o) THEN {cur[w]} ELSE {}, "error")
  /\ Finished(w, cur[w], written[w])
  /\ UNCHANGED <<kind, effects, heard>>

\* notify_jobs(written)
Notify(w, o) ==
  /\ pc[w] = "notify"
  /\ Send(w, o)
  /\ heard' = IF Applied(o)
              THEN heard \cup {j \in Jobs : status[j] \in {"done", "error"}}
              ELSE heard
  /\ written' = [written EXCEPT ![w] = {}]
  /\ Goto(w, AfterBatch)
  /\ UNCHANGED <<tableVars, held, todo, cur, shutdown>>

\* Mutant: the DELETE without its condition on the status.
SweepAnyStatus(w) ==
  /\ pc[w] = "sweep"
  /\ \/ UNCHANGED <<status, linkVars>>
     \/ \E o \in Outcomes(w), S \in SUBSET {j \in Jobs : status[j] # "absent"} :
          Send(w, o) /\ SetStatus(IF Applied(o) THEN S ELSE {}, "purged")
  /\ Goto(w, "poll")
  /\ UNCHANGED <<kind, effects, heard, held, todo, cur, written, shutdown>>

\* The retention sweep: not due yet, or one DELETE of the done rows that are
\* old enough, whichever they are.
Sweep(w) ==
  /\ pc[w] = "sweep"
  /\ \/ UNCHANGED <<status, linkVars>>
     \/ \E o \in Outcomes(w), S \in SUBSET {j \in Jobs : status[j] = "done"} :
          Send(w, o) /\ SetStatus(IF Applied(o) THEN S ELSE {}, "purged")
  /\ Goto(w, "poll")
  /\ UNCHANGED <<kind, effects, heard, held, todo, cur, written, shutdown>>

-----------------------------------------------------------------------------
\* What a live worker does by itself.
Step(w) ==
  \/ Exit(w) \/ ClaimLock(w) \/ ClaimNothing(w) \/ Sweep(w)
  \/ \E j \in Jobs : NoOutput(w, j)
  \/ \E o \in Outcomes(w) :
       \/ ClaimReturn(w, o) \/ MarkDone(w, o) \/ MarkError(w, o) \/ Notify(w, o)
       \/ \E j \in Jobs :
            LookUp(w, j, o) \/ WriteAdHoc(w, j, o) \/ WriteBack(w, j, o)

Next ==
  \/ \E S \in SUBSET Jobs : \E k \in [S -> Kinds] : Enqueue(S, k)
  \/ \E w \in Workers :
       Start(w) \/ Signal(w) \/ Crash(w) \/ LoseConnection(w) \/ Step(w)

Spec == Init /\ [][Next]_vars

\* A live worker keeps running: its one thread is scheduled, and every call
\* it makes returns.  Nobody is obliged to start, stop or spare a worker.
FairSpec == Spec /\ \A w \in Workers : WF_vars(Step(w))

-----------------------------------------------------------------------------
(***************************************************************************)
(* Safety                                                                  *)
(***************************************************************************)
\* What worker w has its hands on: rows its claim in flight has locked, and
\* jobs it has claimed and not finished with.
InHands(w) == held[w] \cup todo[w]

\* Two workers never have the same job in their hands (the promise of FOR
\* UPDATE SKIP LOCKED), so no job is inferred and written twice.
ExclusiveHold ==
  \A v, w \in Workers : v # w => InHands(v) \cap InHands(w) = {}

Ledger == INSTANCE JobLedger

\* The outcome a client reads in jobs.status agrees with what happened to the
\* output, also when the reply to a write was lost and mark_error followed.
OutcomeMatchesEffect == Ledger!OutcomeMatchesEffect

\* Locked rows are pending, and locked by a claim in flight.
Claiming(w) ==
  /\ held[w] # {} => pc[w] = "claim"
  /\ \A j \in held[w] : status[j] = "pending"

\* A worker in the middle of a batch holds processing jobs without effect,
\* except for the job it is writing: `mark` has written it, and `fail` can
\* only have written it if the connection was lost with the reply.
Dispatching(w) ==
  /\ todo[w] # {} => pc[w] \in {"work", "mark", "fail"}
  /\ IF pc[w] \in {"mark", "fail"} THEN cur[w] \in todo[w] ELSE cur[w] = NoJob
  /\ \A j \in todo[w] \ {cur[w]} : status[j] = "processing" /\ effects[j] = 0
  /\ pc[w] = "mark" => status[cur[w]] = "processing" /\ effects[cur[w]] = 1
  /\ pc[w] = "fail" =>
       \/ status[cur[w]] = "processing" /\ effects[cur[w]] = 0
       \/ /\ conn[w] = "lost" /\ effects[cur[w]] = 1
          /\ status[cur[w]] \in {"processing", "done", "purged"}

\* The inductive invariant of JobQueueProofs.  OutcomeMatchesEffect is not
\* inductive without knowing where in its batch each worker is, and why
\* mark_error cannot reach a job whose output was committed.
QueueInv ==
  /\ TypeOK
  /\ ExclusiveHold
  /\ OutcomeMatchesEffect
  /\ \A w \in Workers : Claiming(w) /\ Dispatching(w)

\* Workers, faults and retention together keep the promises of JobLedger: a
\* finished job is never reopened, only done jobs are purged, and so on.
ImplementsLedger == Ledger!Spec

\* Jobs left in 'processing' that no process will ever finish ...
Stranded ==
  {j \in Jobs : status[j] = "processing" /\ \A w \in Workers : j \notin todo[w]}

\* ... and done jobs that no notification told a listener of, nor will the
\* worker that did them.
Silent ==
  {j \in Jobs \ heard : status[j] = "done" /\ \A w \in Workers : j \notin written[w]}

\* There is no lease on a claim and no retry of a notification.  What this
\* costs is bounded: a fault strands or silences one batch at most, and
\* a worker that is told to stop finishes its batch and costs nothing.
FaultCost == Cardinality(Stranded \cup Silent) <= BatchSize * faults

-----------------------------------------------------------------------------
(***************************************************************************)
(* Progress.  The two action properties are the safety halves of the two   *)
(* liveness properties: what a worker that runs makes smaller.             *)
(***************************************************************************)
\* The jobs that ORDER BY id may put before j.
Ahead(j) == {i \in Jobs : i < j /\ status[i] \in {"absent", "pending"}}

\* Nothing joins the queue ahead of a pending job but ids before its own that are
\* still to commit; a claim that passes it over takes jobs ahead of it only, and
\* one that returns has taken them out for good.  However many jobs the clients
\* add, so many claims can overtake it as there are ids before its own, and no
\* more but those that fail.
BoundedBypass ==
  [][\A j \in Jobs : status[j] = "pending" =>
       /\ Ahead(j)' \subseteq Ahead(j)
       /\ \A w \in Workers :
            /\ j \in Claimable /\ held'[w] # held[w] /\ j \notin held'[w] =>
                 held'[w] \subseteq Ahead(j)
            /\ ~(todo'[w] \subseteq todo[w]) => held[w] \cap Ahead(j)' = {}]_vars

\* In the middle of a batch whatever a worker does brings it nearer to the end:
\* it writes a job, or it lets one go that is finished, unless a fault hit.  Only
\* a crash takes it out of the batch.
BatchAdvances ==
  [][\A w \in Workers : todo[w] # {} /\ (todo'[w] # todo[w] \/ pc'[w] # pc[w]) =>
       \/ pc[w] = "work" /\ pc'[w] \in {"mark", "fail"} /\ todo'[w] = todo[w]
       \/ \E j \in todo[w] :
            /\ todo'[w] = todo[w] \ {j}
            /\ status'[j] \in {"done", "error", "purged"} \/ faults' > 0
       \/ pc'[w] = "stopped" /\ faults' > faults]_vars

(***************************************************************************)
(* Liveness, under FairSpec                                                *)
(***************************************************************************)
Healthy(w) == pc[w] # "stopped" /\ conn[w] = "up" /\ ~shutdown[w]

\* A pending job is claimed, whatever statements fail and whatever happens
\* to the other workers, if one worker stays up, connected and unsignalled.
PendingIsClaimed ==
  \A w \in Workers, j \in Jobs :
    <>[]Healthy(w) => (status[j] = "pending" ~> status[j] # "pending")

\* A claimed job is finished, shutdown requests included, unless a fault hits.
ClaimedIsFinished ==
  \A j \in Jobs : status[j] = "processing" ~>
    status[j] \in {"done", "error", "purged"} \/ faults > 0
=============================================================================
