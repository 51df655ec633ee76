---------------------------- MODULE WatchedTables ----------------------------
(***************************************************************************)
(* JobQueue composed with what decides where a watched job's output goes:  *)
(* pgquarry.watched_tables and the triggers that watch() and               *)
(* watch_generate() maintain, the WatchCache of each worker and the SQL    *)
(* text its JobStore builds once per table and job type.  Every step is a  *)
(* step of JobQueue, or a stutter of it, with the watch state added.       *)
(*                                                                         *)
(* The data are versions: the watched text of a source row is the number   *)
(* of its last change, and a target column holds the number of the text    *)
(* its content was computed from.  One row per source table is enough: the *)
(* rows of a table share its mappings and nothing else.                    *)
(***************************************************************************)
EXTENDS JobQueue, Functions

CONSTANTS
  Sources,        \* tables clients watch
  EmbedColumns,   \* target columns they name for embeddings
  TextColumns,    \* target columns they name for generated text
  MaxWatches      \* bound: calls of watch() and watch_generate()

Types    == {"embed", "generate"}
Keys     == Sources \X Types
Columns  == EmbedColumns \cup TextColumns
NoColumn == "none"

ASSUME WatchAssumption ==
  /\ NoColumn \notin Columns
  /\ MaxWatches \in Nat
  /\ [type : Types, adhoc : {FALSE}] \subseteq Kinds

VARIABLES
  watched,        \* pgquarry.watched_tables: the column of each (source, type)
  triggers,       \* the triggers on each source: *_pgquarry_embed, _generate
  calls,          \* watch calls so far
  text,           \* the version of each source's watched text
  origin,         \* history: the row change each job was enqueued for
  column,         \* the version whose output each target column holds
  cache,          \* WatchCache::by_key_ of each worker
  refreshed,      \* WatchCache::refreshed_this_batch_
  sql,            \* JobStore::write_back_sql_cache_: the column written to
  looking,        \* the job whose find() reloaded the cache
  missing,        \* history: jobs failed because find() found nothing
  together        \* history: mappings two of whose jobs workers held at once

sqlSideVars == <<watched, triggers, calls, text, origin>>
cacheVars   == <<cache, refreshed, sql, looking>>
queueVars   == vars
watchVars   == <<queueVars, sqlSideVars, column, cacheVars, missing, together>>

NoMapping == [k \in Keys |-> NoColumn]
NoOrigin  == [source |-> "none", version |-> 0, into |-> NoColumn]

WatchTypeOK ==
  /\ watched \in [Keys -> Columns \cup {NoColumn}]
  /\ triggers \in [Sources -> SUBSET Types]
  /\ calls \in 0 .. MaxWatches
  /\ text \in [Sources -> Nat]
  /\ origin \in [Jobs -> {NoOrigin} \cup [source : Sources, version : Nat, into : Columns]]
  /\ column \in [Sources \X Columns -> Nat]
  /\ cache \in [Workers -> [Keys -> Columns \cup {NoColumn}]]
  /\ refreshed \in [Workers -> BOOLEAN]
  /\ sql \in [Workers -> [Keys -> Columns \cup {NoColumn}]]
  /\ looking \in [Workers -> Jobs \cup {NoJob}]
  /\ missing \subseteq Jobs
  /\ together \subseteq Keys

WatchInit ==
  /\ Init
  /\ watched = NoMapping
  /\ triggers = [s \in Sources |-> {}]
  /\ calls = 0
  /\ text = [s \in Sources |-> 0]
  /\ origin = [j \in Jobs |-> NoOrigin]
  /\ column = [c \in Sources \X Columns |-> 0]
  /\ cache = [w \in Workers |-> NoMapping]
  /\ refreshed = [w \in Workers |-> FALSE]
  /\ sql = [w \in Workers |-> NoMapping]
  /\ looking = [w \in Workers |-> NoJob]
  /\ missing = {}
  /\ together = {}

Key(j) == <<origin[j].source, kind[j].type>>

Mapped(j) == status[j] # "absent" /\ ~kind[j].adhoc

\* The jobs of one mapping.
JobsOf(k) == {j \in Jobs : Mapped(j) /\ Key(j) = k}

-----------------------------------------------------------------------------
(***************************************************************************)
(* The SQL side                                                            *)
(***************************************************************************)
\* watch(): one mapping, one trigger.
Watch(s, e) ==
  /\ calls < MaxWatches /\ calls' = calls + 1
  /\ watched' = [watched EXCEPT ![<<s, "embed">>] = e]
  /\ triggers' = [triggers EXCEPT ![s] = @ \cup {"embed"}]
  /\ UNCHANGED <<queueVars, text, origin, column, cacheVars, missing>>

\* watch_generate(): two mappings, and one trigger in place of watch()'s.
WatchGenerate(s, e, g) ==
  /\ calls < MaxWatches /\ calls' = calls + 1
  /\ watched' = [watched EXCEPT ![<<s, "embed">>] = e, ![<<s, "generate">>] = g]
  /\ triggers' = [triggers EXCEPT ![s] = {"generate"}]
  /\ UNCHANGED <<queueVars, text, origin, column, cacheVars, missing>>

\* Mutant: both kinds of triggers pass both arguments.
SameArguments(trigger) == {"embed", "generate"}

\* The arguments of a trigger, and the jobs one row change enqueues: one per
\* trigger and argument.
Arguments(trigger) == IF trigger = "embed" THEN {"embed"} ELSE {"embed", "generate"}

Fired(s) == UNION {{trigger} \X Arguments(trigger) : trigger \in triggers[s]}

\* The next n ids of the sequence.
NextIds(n) ==
  LET free == {j \in Jobs : status[j] = "absent"}
  IN  {j \in free : Cardinality({i \in free : i <= j}) <= n}

\* An INSERT of the row or an UPDATE of its watched columns: enqueue_job() runs
\* in the client's transaction, once per trigger, and loops over its arguments.
\* The triggers fire in the order of their names, so a generate job is last.
RowChange(s) ==
  LET S == NextIds(Cardinality(Fired(s)))
  IN  /\ text' = [text EXCEPT ![s] = @ + 1]
      /\ \E by \in Bijection(S, Fired(s)) :
           /\ \A i, j \in S : by[i][2] = "embed" /\ by[j][2] = "generate" => i < j
           /\ Enqueue(S, [j \in S |-> [type |-> by[j][2], adhoc |-> FALSE]])
           /\ origin' = [j \in Jobs |->
                IF j \in S THEN [source |-> s, version |-> text[s] + 1,
                                 into |-> watched[<<s, by[j][2]>>]]
                ELSE origin[j]]
      /\ UNCHANGED <<watched, triggers, calls, column, cacheVars, missing>>

\* embed_async() or generate_async()
AdHoc ==
  LET S == NextIds(1)
  IN  /\ \E k \in [S -> {x \in Kinds : x.adhoc}] : Enqueue(S, k)
      /\ UNCHANGED <<sqlSideVars, column, cacheVars, missing>>

-----------------------------------------------------------------------------
(***************************************************************************)
(* The worker's life: a process loads the mappings once at startup, and    *)
(* begins every batch with the right to reload them once.                  *)
(***************************************************************************)
WatchStart(w) ==
  /\ Start(w)
  /\ cache' = [cache EXCEPT ![w] = watched]
  /\ UNCHANGED <<sqlSideVars, column, refreshed, sql, looking, missing>>

WatchStop(w) ==
  /\ Exit(w) \/ Crash(w)
  /\ cache' = [cache EXCEPT ![w] = NoMapping]
  /\ refreshed' = [refreshed EXCEPT ![w] = FALSE]
  /\ sql' = [sql EXCEPT ![w] = NoMapping]
  /\ looking' = [looking EXCEPT ![w] = NoJob]
  /\ UNCHANGED <<sqlSideVars, column, missing>>

\* Mutant: the flag survives the batch.
BeginBatchForgotten(w) == UNCHANGED refreshed

BeginBatch(w) == refreshed' = [refreshed EXCEPT ![w] = FALSE]

WatchClaimReturn(w, o) ==
  /\ ClaimReturn(w, o)
  /\ IF o = "ok" THEN BeginBatch(w) ELSE UNCHANGED refreshed
  /\ UNCHANGED <<sqlSideVars, column, cache, sql, looking, missing>>

\* Steps in which no mapping plays a part.
Unmapped(w) ==
  /\ \/ Signal(w) \/ LoseConnection(w) \/ ClaimLock(w) \/ ClaimNothing(w) \/ Sweep(w)
     \/ \E o \in Outcomes(w) : MarkDone(w, o) \/ MarkError(w, o) \/ Notify(w, o)
     \/ looking[w] = NoJob /\
          \E j \in Jobs : NoOutput(w, j) \/ \E o \in Outcomes(w) : WriteAdHoc(w, j, o)
  /\ UNCHANGED <<sqlSideVars, column, cacheVars, missing>>

-----------------------------------------------------------------------------
(***************************************************************************)
(* find() and write_back()                                                 *)
(***************************************************************************)
\* A miss reloads the cache, once per batch.  load() empties it before it asks
\* the database, so a failed reload loses the mappings that were known.
Reload(w, j, o) ==
  /\ LookUp(w, j, o)
  /\ looking[w] = NoJob /\ ~refreshed[w] /\ cache[w][Key(j)] = NoColumn
  /\ cache' = [cache EXCEPT ![w] = IF o = "ok" THEN watched ELSE NoMapping]
  /\ refreshed' = [refreshed EXCEPT ![w] = TRUE]
  /\ looking' = [looking EXCEPT ![w] = j]
  /\ UNCHANGED <<sqlSideVars, column, sql, missing>>

\* find() returned end().
NoMappingFound(w, j) ==
  /\ NoOutput(w, j) /\ ~kind[j].adhoc /\ CanInfer(w, j)
  /\ looking[w] \in {NoJob, j} /\ refreshed[w] /\ cache[w][Key(j)] = NoColumn
  /\ missing' = missing \cup {j}
  /\ looking' = [looking EXCEPT ![w] = NoJob]
  /\ UNCHANGED <<sqlSideVars, column, cache, refreshed, sql>>

\* Mutant: the SQL text is kept per source table, not per table and type.
SqlSlotsPerTable(k) == {k[1]} \X Types

\* The statements a key's SQL text is kept for.
SqlSlots(k) == {k}

\* The SQL text is built from the mapping found, unless there is one already.
MappedWriteBack(w, j, o) ==
  LET k    == Key(j)
      into == IF sql[w][k] = NoColumn THEN cache[w][k] ELSE sql[w][k]
  IN  /\ WriteBack(w, j, o)
      /\ looking[w] \in {NoJob, j} /\ cache[w][k] # NoColumn
      /\ sql' = [sql EXCEPT ![w] = [x \in Keys |-> IF x \in SqlSlots(k) THEN into ELSE @[x]]]
      /\ column' = IF Applied(o)
                   THEN [column EXCEPT ![<<k[1], into>>] = origin[j].version]
                   ELSE column
      /\ looking' = [looking EXCEPT ![w] = NoJob]
      /\ UNCHANGED <<sqlSideVars, cache, refreshed, missing>>

-----------------------------------------------------------------------------
WatchStep ==
  \/ \E s \in Sources, e \in EmbedColumns : Watch(s, e)
  \/ \E s \in Sources, e \in EmbedColumns, g \in TextColumns : WatchGenerate(s, e, g)
  \/ \E s \in Sources : RowChange(s)
  \/ AdHoc
  \/ \E w \in Workers :
       \/ WatchStart(w) \/ WatchStop(w) \/ Unmapped(w)
       \/ \E o \in Outcomes(w) : WatchClaimReturn(w, o)
       \/ \E j \in Jobs :
            \/ NoMappingFound(w, j)
            \/ \E o \in Outcomes(w) : Reload(w, j, o) \/ MappedWriteBack(w, j, o)

\* The mappings of which workers hold two jobs or more, in one batch or in two.
Overlapping ==
  {k \in Keys : \E i, j \in UNION {InHands(w) : w \in Workers} : i # j /\ {i, j} \subseteq JobsOf(k)}

WatchNext == WatchStep /\ together' = together \cup Overlapping'

WatchSpec == WatchInit /\ [][WatchNext]_watchVars

-----------------------------------------------------------------------------
\* What is enqueued has been registered: enqueue_job() raises otherwise, and
\* no registration is ever removed.
RegistryInv ==
  /\ \A s \in Sources : \A f \in Fired(s) : watched[<<s, f[2]>>] # NoColumn
  /\ \A j \in Jobs : Mapped(j) => Key(j) \in Keys /\ watched[Key(j)] # NoColumn

\* While no fault happens, a worker that has reloaded its cache in this batch
\* knows the mapping of every job of the batch.
LookupInv ==
  faults = 0 =>
    /\ missing = {}
    /\ \A w \in Workers :
         /\ conn[w] = "up"
         /\ refreshed[w] =>
              \A j \in todo[w] : ~kind[j].adhoc => cache[w][Key(j)] # NoColumn

\* The inductive invariant of WatchedTablesProofs.
WatchInv == WatchTypeOK /\ RegistryInv /\ LookupInv

\* A watched job is failed with "no watch registered" only because a query
\* failed, and then no more jobs are than one batch holds: a mapping that
\* appeared after the worker started is found without restarting it, and a
\* failed reload is repaired in the next batch.
MissingCost == Cardinality(missing) <= BatchSize * faults

\* A job enqueued for the registration still in force has filled the column
\* that registration names once it is done.  job_sql.hpp:30-32: the mapping is
\* built from pgquarry.watched_tables, "so a table registered via
\* pgquarry.watch() ... works without a worker restart"; pgquarry--1.0.sql:84-85:
\* "calling watch() again (e.g. to change embed_column) replaces".
ReachesWatchedColumn ==
  \A j \in Jobs :
    (Mapped(j) /\ status[j] = "done" /\ watched[Key(j)] = origin[j].into) =>
      column[<<origin[j].source, origin[j].into>>] # 0

\* Either a job of mapping k is not done, or its column is as new as its jobs.
EndsNewest(k) ==
  (\A j \in JobsOf(k) : status[j] \in {"done", "purged"}) =>
    \A j \in JobsOf(k) : column[<<k[1], watched[k]>>] >= origin[j].version

\* When every job of a mapping is done, its column holds the output of the
\* newest text.  README.md:5: "watch a column, and every INSERT/UPDATE gets its
\* vector filled in automatically"; job_store.hpp:46-47: "safe for multiple
\* concurrent workers".
NewestTextWins == \A k \in Keys : EndsNewest(k)

\* What is left of it: a mapping whose jobs never were in workers' hands two at
\* a time ends with its newest text.  The order of ids, the LIMIT of the claim
\* and the exclusion of two claims are all that orders the writes of one row.
ApartNewestWins == \A k \in Keys \ together : EndsNewest(k)

\* Two jobs one row change enqueued for one mapping.
Doubled(i, j) ==
  /\ i # j /\ Mapped(i) /\ Mapped(j)
  /\ Key(i) = Key(j) /\ origin[i].version = origin[j].version

\* One row change enqueues at most one job per type.  pgquarry--1.0.sql:127-130:
\* the triggers of watch() and watch_generate() side by side "would
\* double-enqueue embed jobs on every row change.  Call plain watch() again
\* afterward if you want to go back to embed-only."
OneJobPerChange == \A i, j \in Jobs : ~Doubled(i, j)

\* What is left of it, whatever the order of the calls: only embed jobs are
\* doubled, only where watch_generate() has been called, and never more than
\* twice.  In particular a change costs one run of the generation model.
DoublesAreEmbeds ==
  \A i, j \in Jobs : Doubled(i, j) =>
    /\ kind[i].type = "embed" /\ watched[<<origin[i].source, "generate">>] # NoColumn
    /\ \A l \in Jobs : Doubled(i, l) => l = j
=============================================================================
