# pgquarry: TLA+ models, checks and proofs

pgquarry fills vector and text columns of PostgreSQL tables. Triggers and SQL
functions put jobs into the table `pgquarry.jobs`; worker processes
(`pgquarry_worker`) claim them in batches, run a local model, and write the
output back. These modules model that job queue, the workers that drain it, the
registry and caches that decide where an output goes, what a write-back sets off,
the two model providers, and the life of a worker process. TLC checks them on
small instances; TLAPS proves the main safety properties for all instances.

Source references below are relative to the repository root (`src/` of this
checkout): `src/job_store.cpp`, `sql/pgquarry--1.0.sql` ("sql"), `README.md`.

## 1. The system

| Component | State it keeps | Operations that change state |
|---|---|---|
| `pgquarry.jobs` (sql 14-30; `job_sql.hpp`) | one row per job: status, type, source, result | INSERT by `enqueue_job()`, `embed_async`, `generate_async`; claim; `mark_done`; `mark_error`; ad hoc write; purge |
| `JobStore` (`job_store.cpp`) | the connection, opened once; SQL text per (table, type) | one method per statement; `write_back` and `write_back_text` also fill the SQL cache |
| Worker loop (`worker_main.cpp` 176-227) | `g_shutdown`, the claimed batch, `written`, time of the last purge check | claim, dispatch, notify, sweep |
| Dispatcher (`job_dispatcher.cpp`) | nothing between calls | per job: infer, find the mapping, write, mark |
| Watch registry (sql 36-45, 51-184) | `watched_tables`; two possible triggers per source table | `watch()`, `watch_generate()`; `enqueue_job()` reads it |
| `WatchCache` (`watch_cache.cpp`) | a copy of `watched_tables`; "refreshed in this batch" | `load`, `begin_batch`, `find` |
| Synchronous calls (sql 224-302) | a job id and a start time per call | insert, COMMIT, poll until done, failed or timed out |
| Embedding provider (`llama_provider.cpp`) | a llama.cpp context | `embed_batch`: tokenize, cut into chunks, encode |
| Generation provider (`llama_generation_provider.cpp`) | a llama.cpp context | `generate`: template, preflight check, decode loop |
| Write-back SQL (`writeback_sql_builder.cpp`) | none | the UPDATE of a source row, the upsert into a separate table; the triggers either fires |
| Configuration (`config.hpp`) and startup (`worker_main.cpp` 74-174) | the settings, spdlog's level, what llama.cpp has allocated | load, narrow, validate, initialise, give up, destroy |

Clients and workers share the database and nothing else. Clients insert jobs
(inside their own transactions); workers take, finish and purge them; the only
message is `pg_notify('pgquarry_jobs', ...)` from a worker to whoever listens.
A worker has a single thread. Each statement it sends is its own transaction,
so the interleavings that matter are those of statements.

Where it is hard:

- **Concurrency.** Several workers claim from one table, and several jobs can
  concern the same source row.
- **Failure.** A worker can die at any point; its connection can break, and take
  with it the reply to a statement that was committed. There is no lease on a
  claim, no retry, and the connection is never reopened.
- **Ordering.** Claims are in id order, dispatch is not: embed jobs go before
  generate jobs, and `UPDATE ... RETURNING` promises no order. Write-backs of
  different workers are not ordered at all.
- **Stale state.** The mapping of a table is cached in `WatchCache`, and a second
  time as SQL text in `JobStore`.
- **Time.** Poll interval, purge age, timeout of the synchronous calls.

What makes each component correct:

- *Jobs and workers*: a job is in at most one worker's hands; its status follows
  pending, processing, done or error, and only done jobs disappear; the status
  tells the truth about the output; faults cost a bounded number of jobs; pending
  jobs are claimed and claimed jobs finished; completion is notified.
- *Registry and caches*: what is enqueued is registered; a worker finds the
  mapping of every job without being restarted; output reaches the registered
  column; the newest text wins; one change, one job per type.
- *Synchronous calls*: a result returned is the job's result; a timeout means
  that the job is not finished; every call returns.
- *Write-backs*: the jobs they enqueue through other watches come to an end; at
  rest outputs derive from the newest texts; a row that appears under its watches
  has a text in each watched column.
- *Providers*: each text gets its own vector or none; no chunk exceeds the
  context; a generation never overflows it, ends, and sees no earlier call.
- *Startup*: nothing that `validate()` refuses reaches the loop; "0" keeps the
  rows; everything is freed once; an exit is explained; a signal is obeyed.

The hazards, each at its line, are listed in `PROJECT.json` with the properties
that cover them.

## 2. Modules

    JobLedger              what the jobs table promises (abstract)
       ^ implemented by (INSTANCE, PROPERTY ImplementsLedger, THEOREM Refinement)
    JobQueue               table + workers + faults       <- JobQueueProofs, CostProofs
       ^ extended by (THEOREM Composition)
    WatchedTables          + registry, triggers, caches   <- WatchedTablesProofs, CostProofs
    SyncCall               callers of embed_sync over JobLedger   <- SyncCallProofs
    WriteBack              rows, triggers, chains of watches      <- WriteBackProofs
    EmbedBatch             one provider, call after call          <- EmbedBatchProofs
    GenerationProvider     what the dispatcher relies on (abstract)
       ^ implemented by (INSTANCE ... WITH, PROPERTY KeepsContract, THEOREM Contract)
    Generate               the decode loop, in machine integers   <- GenerateProofs
    Startup                main, from first line to last          <- StartupProofs
    MC...                  constants for TLC

`Startup` follows one process and says of its loop only what decides whether it
ends and purges; `JobQueue` follows the queue and takes a process that `Start`s as
configured. `WriteBack` looks at one row and at all mappings it takes part in, in
the order of ids; `WatchedTables` at many workers, batches and failures.

### JobLedger

The life of a job seen from outside: `status` and how often its output took
effect. No workers, no locks, no faults. `Submit`, `Take`, `TakeEffect`,
`Finish`, `TakeEffectAndFinish`, `Reject`, `Forget`.

### JobQueue

| State | Code |
|---|---|
| `status`, `kind` | columns of `pgquarry.jobs`: status; job_type and whether `source_table` is NULL |
| `effects` | history: committed outputs, in the job row or in the user's table |
| `heard` | history: what a listener knows that re-reads the table at each notification |
| `pc` | place in main's loop and in the dispatcher |
| `held` | row locks of a claim in flight |
| `todo`, `cur` | jobs of the batch not finished with; the one about to be marked |
| `written` | the jobs counted in `written` |
| `conn` | `conn_` |
| `shutdown` | `g_shutdown` |

| Action | Code |
|---|---|
| `Enqueue` | a client transaction that inserts jobs |
| `Start`, `Exit`, `Signal`, `Crash`, `LoseConnection` | life of a worker process and its connection |
| `ClaimLock`, `ClaimReturn`, `ClaimNothing` | `claim_pending` with `kClaimPending`: lock, then commit and return |
| `NoOutput` | every path to `mark_error` before a write: no vector, no text, an exception, no model, no mapping |
| `LookUp` | the SELECT of `load_watched_tables` from `find()` |
| `WriteAdHoc`, `WriteBack` | `write_ad_hoc_result(_text)`, `write_back(_text)` under `finish_write` |
| `MarkDone`, `MarkError` | `mark_done`, `mark_error`; a failure is logged only |
| `Notify` | `notify_jobs`, if `written > 0` |
| `Sweep` | `purge_done`, if retention is set and the 60 s have passed |

A statement on a live connection is `ok`, `refused` (an SQL error: nothing
applied) or `unheard` (applied, reply and connection lost). A connection that
breaks before the statement is applied is `LoseConnection` followed by a refused
statement. On a lost connection everything is refused, for as long as the
process lives.

Abstractions: the inference is the choice between `NoOutput` and a write; the
error text, the result and the payload of the notification are left out; the
age of a done row and the purge cadence are a choice of `Sweep`; `ClaimLock`
locks all its rows in one step, where PostgreSQL locks them one by one (two claims
whose row locks interleave while one of them fails are not modelled, and
`BoundedBypass` and `ApartNewestWins` are statements at this grain); an unheard
statement is applied at once, where the server could still apply it a moment
after the worker has noticed; `embed_batch` failing for a whole batch is a
`NoOutput` per job. Clients see the table at READ COMMITTED.

### WatchedTables

EXTENDS JobQueue. Every action is an action of JobQueue, or leaves its variables
alone, with the watch state added: `watched` and `triggers` (the registry),
`cache` and `refreshed` (`WatchCache`), `sql` (`write_back_sql_cache_`), `looking`
(a job between the reload and the use of its mapping), and `text`, `origin`,
`column`, `missing`, which say what was written and from which change of the row.
`together` remembers the mappings of which workers held two jobs at once, in one
batch or in two, a claim in flight included.

| Action | Code |
|---|---|
| `Watch`, `WatchGenerate` | `watch()`, `watch_generate()`: upserts, dropped and created triggers |
| `RowChange` | an INSERT or UPDATE and the triggers it fires, `enqueue_job()` |
| `AdHoc` | `embed_async`, `generate_async` |
| `WatchStart`, `WatchStop` | startup with `mappings.load()`; the process is gone |
| `WatchClaimReturn` | `claim_pending` and `begin_batch` |
| `Reload`, `NoMappingFound`, `MappedWriteBack` | `find()` on a miss, `find()` returning `end()`, and the write-back |
| `Unmapped` | all other steps of a worker |

Data are versions: the watched text of a row is the number of its last change,
and a target column holds the number of the text its content was computed from.
There is one row per source table: rows of one table share its mappings only.
Its changes serialise on the row's lock before the triggers draw ids, so ids
follow the order of changes; that is why `RowChange` uses the next free ids,
where `Enqueue` may use any. A registration is reduced to the column it names;
`DROP TRIGGER`/`CREATE TRIGGER` and the upserts commit together. Registrations
are never deleted: nothing in the code does, and `PUBLIC` has no DELETE on
the table (sql 312).

### SyncCall

EXTENDS JobLedger: the workers are whatever JobLedger allows (`Work`), which by
the theorem `Refinement` includes all that JobQueue does to a job. Added are
`phase`, `job`, `timed` (was a timeout given), `expired`, `snapshot` and the
history `over`: was the job finished when the caller last looked at it.

| Action | Code |
|---|---|
| `Call` | `embed_async` and COMMIT; from a call that has ended, a retry |
| `StartClock` | `started_at := clock_timestamp()`, and the snapshot it takes |
| `Poll` | the SELECT and the two comparisons |
| `Check` | the clock, then RAISE or sleep |
| `Elapse`, `Cancel` | time passes; the statement is cancelled or the client is gone |

A session is at READ COMMITTED, or at REPEATABLE READ (`Repeatable`) and polls the
snapshot it has. Time is the one bit `expired`. A timeout of NULL never expires.
`generate_sync` differs in the result column and is the same model.

### EmbedBatch

`embed_batch`, one action per round of its loop: `Skip`, `Join`, `FlushAndJoin`, and
`Return` for the last flush. A text is its token count; a vector is the set of
texts whose tokens went into it, so that a vector mixed from two texts or left
over from an earlier call is visible. `memory` is the llama.cpp context's, which
outlives chunks and calls; that a sequence not cleared keeps its tokens is how
the code uses `llama_memory_clear`, the library itself is external. llama.cpp may
fail to encode a chunk or return no embedding for any of its sequences. JobQueue
sees the outcome only: a vector or `NoOutput`.

### WriteBack

| State | Code |
|---|---|
| `triggers` | the registrations in force, each a trigger of a table with the cells it watches and the mappings it enqueues for |
| `exists`, `value` | the rows of one id, one per table; a value is the version of the client's text it derives from |
| `queue` | `input_text` of the pending jobs, per mapping |
| `failed` | mappings whose last job ended in error |
| `deleted`, `older` | history: tables whose row a client deleted; tables whose row is older than the watches |

`Insert`, `Update` and `Delete` are statements of clients; an UPDATE may also empty
columns. A statement whose trigger reads NULL is refused as a whole, as
`jobs.input_text` is NOT NULL. `WriteBackJob` is `write_back(_text)` of the oldest job
of a mapping, in three disjuncts: the UPDATE of a row that is gone affects nothing,
and the job is done; the statement is applied, fires its triggers, and with them
enqueues; or it fails, for such a trigger or for any other reason PostgreSQL has (a
constraint, a type or a width of the table written), and the job ends in error. The
upsert into a separate table creates the row, with NULL in its other columns, and
creates it again after a client has deleted it; if one of those columns is watched,
it can only fail.

A statement enqueues a mapping once, also where two triggers of its table have it:
the second job (see `DoublesAreEmbeds`) has the same text and would write the same
value again.

`ASSUME Acyclic` excludes registrations in which a mapping feeds itself, directly
or through others: the mappings can be listed so that each feeds later ones only.
With a cycle, each write-back enqueues the next for ever, and
nothing in `watch()` or `watch_generate()` refuses it.

### GenerationProvider and Generate

`GenerationProvider` is what `dispatch_generate_jobs` needs of `generate()`: each
request has one reply, `toolong` only if it does not fit, and a text no longer
than asked for. `Generate` is the code: `Call` begins in the context as the last call
left it, `Prepare` goes from the clear (`Cleared`) over template and tokenizer to the
preflight check, then come rounds of `Sample`, `DecodeFails`, `Overrun`, `Finish`. The
refinement maps `phase` and the number of pieces to the reply.

Two places of the code are undefined behaviour and are modelled as a choice. Sums
are taken in `int` and `max_tokens` comes unchecked from the job row, so a
comparison whose sum exceeds `IntMax` may go either way (`Exceeds`, `Passes`). And
the batch of every round but the first points to `new_token`, a variable of the
round before: the token read is its own or a `stray` one. `memory` records which
kinds of tokens are in the context; when a call begins, all that is there belongs to
an earlier one and becomes `stale`.

### Startup

`stage` is the place in `main`. A file is a set of integers, a `log_level` and a
`purge_after`; `Loaded` narrows the integers as `static_cast<int>` does, `Faultless`
is `validate()` without its checks of paths, which are a choice. `live` is what
llama.cpp has allocated, `held` what the members `model_` and `ctx_` point to, so
that a double free, a leak and a use after free are all `held # live`.

`InitLogger` has three outcomes: the log directory cannot be made, and
`filesystem_error` ends the process (`aborted`), as only `spdlog_ex` is caught; the
file cannot be opened, or its size is 0, and spdlog goes on with the console; or
the level is set, where an unknown name means `off`. `validate()` complains of
such a name afterwards, into a logger that is off: `RefusalIsReported` excepts it.
Before the handlers are installed a signal ends the process (`killed`).

## 3. Runs

| Run | Properties | Bounds |
|---|---|---|
| `queue_batches` | `QueueInv`, `ExclusiveHold`, `ImplementsLedger`, `BoundedBypass`, `BatchAdvances` | 2 symmetric workers, 3 jobs, batch 2, 1 fault, retention |
| `queue_faults` | `OutcomeMatchesEffect`, `FaultCost`, `PendingIsClaimed`, `ClaimedIsFinished` | 2 workers (1 with a generation model), 2 jobs, embed and generate, watched and ad hoc, batch 1, 2 faults, retention |
| `watch_lookups` | `WatchInv`, `MissingCost`, `ReachesWatchedColumn`, `ApartNewestWins`, `DoublesAreEmbeds` | 1 worker, 4 jobs, batch 2, 1 fault, 2 registrations, 1 embedding column |
| `watch_rewatch` (violated) | `ReachesWatchedColumn` | 1 worker, 2 embedding columns |
| `watch_overwrite` (violated) | `NewestTextWins` | 2 workers |
| `watch_double` (violated) | `OneJobPerChange` | 1 worker |
| `sync_calls` | `SyncInv`, `CommittedTimeoutIsHonest`, `CallReturns` | 2 callers (1 REPEATABLE READ), 3 jobs, retention |
| `sync_snapshot` (violated) | `TimeoutMeansUnfinished` | 2 callers (1 REPEATABLE READ), 3 jobs |
| `embed_chunks` | `EmbedInv`, `AllocationMatches`, `OwnVectors` | up to 4 texts of 0 to 4 tokens, chunks of 2 texts and 3 tokens, any number of calls |
| `generate_calls` | `GenInv`, `Stateless`, `PreflightSuffices`, `KeepsContract`, `RoundsAdvance`, `CallEnds` | 4-bit ints, a context of 4, prompts of 0 to 5 tokens, any number of calls |
| `startup` | `UsableInLoop`, `RetentionHonoured`, `FreedOnce`, `RefusalIsReported`, `StopsWhenAsked` | 3-bit ints, 3 keys, raw values -1, 1, 8, 9 or none, 6 kinds of `purge_after`, all levels |
| `writeback` | `RestIsFresh`, `NewRowsAreFilled`, `WriteBacksDrain`, `Settles` | 2 tables, 2 registries, 3 statements of clients |

What they show:

- `ExclusiveHold`. Two workers never hold the same job. The claim is two steps,
  so a second claim does run between the locks and the update of the first.
- `ImplementsLedger`. With crashes, lost replies and concurrent sweeps, no job is
  reopened, finished twice, failed after it succeeded, or purged unfinished.
- `OutcomeMatchesEffect`. A done job has had its one effect, a failed job none.
  The interesting case is a write that is applied and not heard of: the
  dispatcher calls `mark_error` for a job whose output is committed, and only
  the connection, lost with the reply and never reopened, keeps that statement
  from being applied. A worker that reconnected would break this property (it
  is the mutant of the run), so it belongs beside any change that adds a retry.
- `FaultCost`. Jobs stranded in `processing`, and done jobs no listener was told
  of, number at most `BatchSize * faults`. Shutdown requests cost nothing.
- `PendingIsClaimed`, `ClaimedIsFinished`. Under the fairness below a pending job
  is claimed if one worker stays up, connected and unsignalled, whatever the
  others do; a claimed job is finished, unless some fault happened.
- `BoundedBypass`, `BatchAdvances` say what makes these two true, step by step. Only
  a job with a lower id, whose client commits late, may still join the queue ahead of a
  pending one, and a claim that passes it over takes such ids only: newer jobs, however
  many, cannot starve it. In a batch each step
  of the worker writes a job or lets a finished one go (after a fault, also one it
  could not mark), and only a crash takes the worker out of it, never a SIGTERM.
- `WatchInv`, `MissingCost`. A job fails for want of a mapping only because a
  query failed, and then no more jobs than one batch holds.
- `ReachesWatchedColumn` holds if a table is registered with one target column,
  for embed and generate mappings in any order of calls (`watch_lookups`), and
  fails if it is registered again with another (`watch_rewatch`).
- `OneJobPerChange` fails (`watch_double`). What is left is `DoublesAreEmbeds`: whatever
  the order of calls, only embed jobs of tables given to `watch_generate()` are
  doubled, and never tripled. A change costs one run of the generation model.
- `NewestTextWins` fails: two workers hold the jobs of two changes of a row, and the
  older output is written last (`watch_overwrite`); one worker with a batch of two
  fails it as well, as `RETURNING` may give the jobs in any order. What is left is
  `ApartNewestWins`: a mapping of which workers never held two jobs at a time ends
  with its newest text. That needs the order of ids, ORDER BY with LIMIT, and
  that no claim overtakes another's locked rows.
- `SyncInv`. A result comes from a job that took effect, an error from one that did
  not, also when the job is purged meanwhile or the caller calls again.
- `TimeoutMeansUnfinished` fails in a REPEATABLE READ session (`sync_snapshot`): all
  polls after the COMMIT read one snapshot. At READ COMMITTED it holds
  (`CommittedTimeoutIsHonest`): a call that gives up had not missed a finished
  job. A job purged between two polls is excepted, and so is one that finishes
  between the SELECT and the clock: the property speaks of the last look.
- `CallReturns`. A call with a timeout ends though no worker runs; a call without
  one ends when its job has, unless the job is purged before it looks: then it
  waits for ever, which the property excepts because the code does it.
- `OwnVectors`. No text gets another's vector, one mixed with another's, or one of
  an earlier call, and only a failure of llama.cpp costs an embeddable text its
  vector. `AllocationMatches`: the cursor of `build_batch` ends exactly where the
  arrays do that were allocated for `chunk_tokens`.
- `GenInv`, `PreflightSuffices`. The context never overflows, even where the
  preflight sum has, and the check in the loop fires in that case only: the
  comment "this shouldn't happen" is right as long as the sum fits an `int`.
  `Stateless`: a call begins in a context that holds another job's tokens, also those
  of a call that threw halfway; none of them is there in a round, or behind a text
  handed out, and the prompt is. `CallEnds`:
  whatever `max_tokens` is, the dispatcher gets its reply; `RoundsAdvance`: after at
  most `n_ctx` rounds, as each fills the context further.
- `UsableInLoop`. A narrowed value is validated as narrowed: 2^32 + 1 passes as 1, and
  the loop uses the 1. `RetentionHonoured`: "0" never purges, although it parses to
  the same interval as "0s", which does. `FreedOnce`: also after an `init` that
  throws. `StopsWhenAsked`: a signal ends a worker whose every claim fails.
- `Settles`. A text that is generated and then embedded costs finitely many jobs:
  each write-back takes a job from one queue and adds only to queues further down
  the chain (`WriteBacksDrain`).
  `RestIsFresh`: then every output derives from the newest text, along the chain,
  unless its job failed or a client deleted the row of the separate table.
  `NewRowsAreFilled`: a row that appears under its watches, also one that an upsert
  creates or brings back, has a text in every watched column from then on, whatever
  clients empty and workers write, and at rest its outputs derive from those texts,
  be they older than the watches. Its mutant is a write-back that replaces the row.

Four findings follow from the violated runs; `PROJECT.json` quotes the lines. A
re-registered column is not used by running workers. Two workers can leave the
output of an old text in a column. `watch()` after `watch_generate()` enqueues
twice, though the comment of `watch_generate()` advises just that sequence.
`embed_sync` never sees an answer at REPEATABLE READ. One thing more is modelled as
the code has it, and no property speaks of it: a batch whose jobs all fail is not
notified (`written > 0`), where `README.md` 35 says "after every batch write".

Why the bounds suffice: two workers meet in every pair of steps, and no action
reads the state of more than one other worker; a batch of two is the smallest
with a middle; three jobs let one worker hold a batch while another claims; with
one fault the loss of one batch is seen, with two that losses add up and that a
connection can break after a crash of the other worker. `NewestTextWins` needs
two changes of a row, `ReachesWatchedColumn` a registration before and after
worker start, so two registrations. `watch_lookups` has one worker, as caches and
batches are a worker's own; that its five properties hold with any number is
proved. Two callers and three jobs let one call again while the other waits; three
texts fill a chunk and start the next, the fourth follows a chunk of one. With
4-bit ints and a context of 4, requests lie below, at and above the context, and
sums on both sides of the overflow, zero and negative `max_tokens` included. With
3-bit ints the raw values 8 and 9 narrow to 0 and 1. Three statements let a
client insert, change and delete a row, or change it twice while its first output
travels down the chain. Proofs remove the bounds where they exist.

Symmetry of workers is used in `queue_batches` and `watch_overwrite` only, where
all workers have the same constants and no liveness is checked. The deadlock
check is off for the runs of SyncCall (all calls have ended and all jobs are used
up), for `startup` (the process has ended) and for `writeback` (clients are done and
the queues empty); there nothing is left to happen.

**Fairness.** `FairSpec` asks weak fairness of `Step(w)` for each worker: a live
process is scheduled, and its calls return. Nothing is asked of clients, of
`Start` or of faults. Weak fairness is on the whole step, not on each outcome:
no statement is obliged to succeed. `PendingIsClaimed` therefore assumes a
worker that stays healthy, which is a fact about the environment, not the code.
`FairSyncSpec` asks that a waiting backend is scheduled, that `pg_sleep` ends, and
that time passes; it asks nothing of workers. `FairGenSpec` asks that rounds go on,
as the worker's thread runs and llama.cpp returns; `FairStartSpec` the same of
`main`; neither asks for calls or signals. `FairWriteSpec` asks that some pending
write-back is done, which `PendingIsClaimed` grants while a worker stays healthy.

## 4. Proofs

All theorems hold for every set of jobs, workers, kinds, tables and columns and
every batch size and fault bound that satisfy the named assumptions of the
modules (`QueueAssumption`, `WatchAssumption`, `SyncAssumption`, `EmbedAssumption`,
`GenerateAssumption`, `StartupAssumption`, `WriteBackAssumption`, `Acyclic`). They
give the constants their types, and say that 0 is not an id, "none" not a column,
`NoJob` not a job, that a chunk holds at least one sequence, and that a context is
smaller than the largest int. Some theorems need more, and say so: the cost
theorems a finite set of jobs, `ColumnIsReached` and `NewestIfApart` one column
(`OneColumn`), `FreshAtRest` one mapping per target column (`OneWriter`). The code
enforces neither of the two; what happens without them is said below.

**JobQueueProofs.** `QueueSafety` proves `Spec => []QueueInv`; `Typing`,
`Exclusion` and `OutcomeSoundness` are its corollaries; `Refinement` proves
`Spec => ImplementsLedger`.

`OutcomeMatchesEffect` is not inductive: to see that `mark_error` is harmless one
must know that a job in `fail` has had no effect *or* its worker's connection is
lost; that the remaining jobs of the batch are processing and without effect;
and that no other worker holds them. `Claiming(w)` and `Dispatching(w)` say that,
and with `TypeOK` and `ExclusiveHold` they are inductive (`QueueInv`). The proof
rests on one observation, the lemma `OwnStepOf`: a step of `w` that touches only
jobs in `w`'s hands and takes up none leaves the invariant of every other
worker alone. Only `ClaimLock`, `Sweep` and `Enqueue` need more. `ClaimLock` takes
up new jobs, and is where SKIP LOCKED is used; `Sweep` touches jobs that others may
hold, but only done ones. For the refinement the mapping is the identity; each
step is shown to be a step of `JobLedger` or a stutter in states of `QueueInv`.

`NoStarvation` and `BatchesEnd` prove the safety halves of the two liveness
properties. `NoStarvation` proves `BoundedBypass`: the set `Ahead(j)` of ids that can
still be put before a pending `j` only shrinks, a claim that passes `j` over lies
within it (`LowestIsDownClosed`: with ORDER BY and LIMIT, nothing older than what is
taken is left behind), a claim that returns has taken its jobs out of it, and it is
finite (`AheadIsFinite`), though the set of jobs need not be. `BatchesEnd` proves
`BatchAdvances`. A job that leaves the batch without being marked is charged to a
fault; that needs the invariant `LostAfterFault`, as a refused statement costs no
fault of its own on a connection that is lost already. What fairness adds, that
the steps are taken, is left to TLC.

**WatchedTablesProofs.** `Composition` proves `WatchSpec => Spec`, so all of the
above holds with tables and caches. `WatchSafety` proves `WatchSpec => []WatchInv`,
with `QueueInv` as an assumption of the induction step, obtained from `Composition`
and `QueueSafety`. `WatchInv` ties three facts: triggers only enqueue for
registered mappings, so every mapped job in the table has one (`RegistryInv`); and
while no fault happens, a worker that has reloaded in this batch knows the mapping
of all its jobs, and `missing` is empty (`LookupInv`). `LookupsSucceed` is the
corollary that `job_sql.hpp` 30-32 promises: no restart is needed.

`ColumnIsReached` and `NewestIfApart` assume `OneColumn`: tables are watched with one
embedding column and one other text column. Without it both are false
(`watch_rewatch`). Their invariant `PlaceInv` says that registry, caches and SQL
texts only name columns of the right type (`MemoryInv`), that a committed write-back
has filled the column of its job (`FilledInv`), and in `OrderInv`: ids are handed
out in order; so versions grow with ids; of a mapping that is not in `together` no
job is begun before the earlier ones are past (`TurnInv`); so its column is as new
as every output committed. All steps of a worker but one move no job forward
(`Forward`); the one, `ClaimLock`, takes every earlier pending job along, by the
LIMIT (`LowestFirst`), or finds it in another's hands, and the mapping is in
`together` from then on (`ClaimOrder`).

`OnlyEmbedsAreDoubled` proves `DoublesAreEmbeds`, for any columns. The jobs of one
change are one per trigger and argument (`RowChangeByTrigger`); two of one type are
from the two triggers, of which `watch()`'s has one argument (`FiredTwice`). That two
changes never meet in one version is `OriginInv`, and that the registration of the
generate mapping is still there, `StaysWatched`.

**CostProofs.** `CostOfFaults` proves `FaultCost`, `CostOfFailedLookups` proves
`MissingCost`. Neither counts what is lost when it is lost: after a fault a batch
loses its jobs one by one. So the whole batch of a worker is charged when the fault
happens: `Doomed` holds all jobs that are or can still be stranded or silenced
without another fault, `Bereft` all that are or can still be missing, and both
grow with `faults` only, by one batch at most. That a batch is no larger than
`BatchSize` is `LimitHolds`, by an injection of the rows into their ranks.

**SyncCallProofs.** `AnswerSafety` proves `SyncSpec => []SyncInv`. The workers enter
only through `LedgerStep`: any step of JobLedger leaves what is settled settled
(`Forward`). A caller's snapshot may be old; what it saw finished is finished
still, or purged (`Informed`). `HonestTimeout` proves `CommittedTimeoutIsHonest`, with
purges and with other callers at either level.

**EmbedBatchProofs.** `BatchSafety` proves the loop invariant `EmbedInv`, for any
limits and texts: chunks stay within the limits, each text of the chunk waits
for its vector and is there once (`Waiting`), each text passed is accounted for.
`ArraysAreFilled` proves `AllocationMatches`: the cursor of a chunk is extended with
each text that joins it, which needs no sum over the chunk and so no induction.
`FlushFacts` is the heart: a flush gives each text of the chunk its own vector, or
counts it lost, and changes no other. `EveryTextItsVector` is the corollary for
the results returned.

**GenerateProofs.** `GenInv` ties the context to the rounds: after round g it holds
the prompt and g - 1 sampled tokens, and in the loop the request fits or its sum has
overflowed. `GenerateSafety` proves it, and `PreflightIsEnough` is a corollary.
`NoCrossCallMemory` proves `Stateless` beside it: `Call` leaves the tokens of the last
call where they are, and only `Prepare`, which clears them, leads into the loop. `Contract` proves that every step is one of `GenerationProvider` or
a stutter, in states of `GenInv`. `RoundsAreBounded` proves `RoundsAdvance`: each round
fills the context further, and `GenInv` bounds it by `n_ctx`.

**StartupProofs.** `StartInv` adds to the properties which objects may be live at
which stage, and that every stage after `validate` has passed it. `StartupSafety`
proves it; `OnlyUsableSettings`, `DoneRowsAreKept`, `EverythingIsFreedOnce` and
`RefusalsAreReported` are corollaries.

**WriteBackProofs.** `FreshAtRest` proves `RestIsFresh`, for chains of any length. At rest nothing is in
the queues, so the property says nothing while jobs are pending, and is not
inductive. `FreshInv` speaks of every moment, and of one mapping at a time: the last
text in its queue is the newest of its input, or, with an empty queue, its output
derives from it, or may be stale (`Current`). A write-back changes the input of the
mappings it feeds in the statement that enqueues for them (`StatementPerMapping`), so
no induction along the chain is needed. `Current` also speaks of rows that appeared
under their watches, whatever their texts are, and has these texts not NULL: a
statement that inserts such a row, or touches a watched column of it, fires all
triggers concerned, and is refused if one of them reads NULL. `FilledWhenNew`, which
proves `NewRowsAreFilled`, follows from it as well. `OneWriter` is needed: two mappings with the same
target overwrite each other's output, and one of them is not fresh at rest.

`JobsDrain` proves `WriteBacksDrain`: a write-back makes its own queue shorter and
lengthens only those of mappings it feeds (`Drains`). `DrainsIsWellFounded` says that
this cannot go on for ever: with the mappings listed in feeding order, as `Acyclic`
grants, the lengths of the queues decrease lexicographically. Together they are
`Settles` but for fairness and for the clients, whose statements fill the queues.

Only model-checked: the six liveness properties `PendingIsClaimed`,
`ClaimedIsFinished`, `CallReturns`, `CallEnds`, `StopsWhenAsked` and `Settles`, as
liveness under fairness is out of reach of the prover. Every invariant and action
property that a passing run checks is a theorem; of four of the six (all but
`CallReturns` and `StopsWhenAsked`) so is what makes the steps lead somewhere.

## 5. Not modelled, and the plan

Built in this order: JobLedger, JobQueue, WatchedTables, SyncCall, EmbedBatch, then
Generate with GenerationProvider, Startup, WriteBack, CostProofs, each with its
proofs. Not modelled, and why:

- `embed()` of the embedding provider: nothing calls it. Its context parameters
  (`n_ctx * n_seq_max` in `uint32`, `llama_provider.cpp` 70) are arithmetic without
  state, and a wrapped product makes for smaller chunks and dropped texts at worst:
  `embed_batch` reads the size of the batch back (line 234) and drops what does not
  fit it (line 265).
- The checks of paths and of conninfo in `validate()`: a choice in Startup, as the
  file system is not modelled.
- Clients at REPEATABLE READ that fire a trigger newer than their snapshot
  (sql 61): WatchedTables has clients at READ COMMITTED, the default.
- Watches that feed themselves: excluded by `Acyclic`, see WriteBack.
- Registration by names that resolve differently under another `search_path`, and
  the privileges of sql 304-320.
- Logging beyond the level, argument parsing, the demo, the superseded schemas,
  the TOML parser and llama.cpp itself (external, pure computation as far as the
  queue can see), and PostgreSQL's own crash recovery, on which the code relies as
  any client does.

What could come next: an abstract `EmbeddingProvider` that `EmbedBatch` implements, as
`Generate` does `GenerationProvider`; and a worker that reconnects, should the code
get one. `OutcomeMatchesEffect` would then
need a guard in `mark_error` (its mutant shows why).

## 6. Running

    tlc -workers 2 -config JobQueue_batches.cfg MCJobQueue
    tlc -workers 2 -config WatchedTables_lookups.cfg MCWatchedTables
    tlc -workers 2 -config SyncCall_calls.cfg MCSyncCall
    tlc -workers 2 -config Generate_calls.cfg MCGenerate
    tlc -workers 2 -config Startup_worker.cfg MCStartup
    tlc -workers 2 -config WriteBack_chain.cfg MCWriteBack
    tlapm JobQueueProofs.tla

and so on: `PROJECT.json` names the module and the configuration of every run, and
each of the eight `...Proofs` modules is checked by `tlapm` as it stands.
`queue_batches`, `watch_lookups` and `sync_calls` are the largest runs (up to three
minutes); the others take seconds.
