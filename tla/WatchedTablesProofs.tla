-------------------------- MODULE WatchedTablesProofs --------------------------
(***************************************************************************)
(* What WatchedTables promises, for every number of jobs, workers, source  *)
(* tables, columns, watch calls and faults.                                *)
(*                                                                         *)
(* First, that it is JobQueue with state added: every one of its steps is  *)
(* a step of JobQueue or leaves JobQueue's variables alone.  So QueueInv   *)
(* holds here too, and need not be proved again.  On top of it WatchInv is *)
(* inductive, and says that without faults no job is ever failed because   *)
(* its mapping was not found.                                              *)
(*                                                                         *)
(* Then, where the outputs end: with one embedding and one text column to  *)
(* name, a done job has filled the registered column, and a mapping of     *)
(* which workers never held two jobs at a time ends with its newest text.  *)
(*                                                                         *)
(* Last, for any columns, what one change of a row enqueues.               *)
(***************************************************************************)
EXTENDS WatchedTables, JobQueueProofs, FiniteSetTheorems

-----------------------------------------------------------------------------
(***************************************************************************)
(* Composition                                                             *)
(***************************************************************************)
\* What the trigger function and embed_async() insert, JobQueue allows clients
\* to insert.
LEMMA RowChangeEnqueues ==
  ASSUME NEW s \in Sources, RowChange(s)
  PROVE  \E S \in SUBSET Jobs : \E k \in [S -> Kinds] : Enqueue(S, k)
<1> DEFINE S == NextIds(Cardinality(Fired(s)))
<1>1. PICK by \in Bijection(S, Fired(s)) :
        Enqueue(S, [j \in S |-> [type |-> by[j][2], adhoc |-> FALSE]])
  BY DEF RowChange
<1>2. S \in SUBSET Jobs
  BY DEF NextIds
<1>3. \A f \in Fired(s) : f[2] \in Types
  BY DEF Fired, Arguments, Types
<1>4. by \in [S -> Fired(s)]
  BY <1>1 DEF Bijection, Injection
<1> HIDE DEF S
<1>5. [j \in S |-> [type |-> by[j][2], adhoc |-> FALSE]] \in [S -> Kinds]
  BY <1>3, <1>4, WatchAssumption
<1> QED BY <1>1, <1>2, <1>5

LEMMA AdHocEnqueues ==
  ASSUME AdHoc
  PROVE  \E S \in SUBSET Jobs : \E k \in [S -> Kinds] : Enqueue(S, k)
<1> DEFINE S == NextIds(1)
<1>1. PICK k \in [S -> {x \in Kinds : x.adhoc}] : Enqueue(S, k)
  BY DEF AdHoc
<1>2. S \in SUBSET Jobs
  BY DEF NextIds
<1> HIDE DEF S
<1>3. k \in [S -> Kinds]
  BY <1>1
<1> QED BY <1>1, <1>2, <1>3

\* Every step is one of JobQueue, or none of its business.
LEMMA StepOfQueue == [WatchNext]_watchVars => [Next]_vars
<1> SUFFICES ASSUME [WatchNext]_watchVars PROVE [Next]_vars
  OBVIOUS
<1>1. ASSUME NEW s \in Sources, NEW e \in EmbedColumns, Watch(s, e) PROVE UNCHANGED vars
  BY <1>1 DEF Watch, queueVars
<1>2. ASSUME NEW s \in Sources, NEW e \in EmbedColumns, NEW g \in TextColumns,
             WatchGenerate(s, e, g)
      PROVE  UNCHANGED vars
  BY <1>2 DEF WatchGenerate, queueVars
<1>3. ASSUME NEW s \in Sources, RowChange(s) PROVE Next
  BY <1>3, RowChangeEnqueues DEF Next
<1>4. CASE AdHoc
  BY <1>4, AdHocEnqueues DEF Next
<1>5. ASSUME NEW w \in Workers, WatchStart(w) \/ WatchStop(w) \/ Unmapped(w) PROVE Next
  BY <1>5 DEF WatchStart, WatchStop, Unmapped, Next, Step
<1>6. ASSUME NEW w \in Workers, NEW o \in Outcomes(w), WatchClaimReturn(w, o) PROVE Next
  BY <1>6 DEF WatchClaimReturn, Next, Step
<1>7. ASSUME NEW w \in Workers, NEW j \in Jobs,
             \/ NoMappingFound(w, j)
             \/ \E o \in Outcomes(w) : Reload(w, j, o) \/ MappedWriteBack(w, j, o)
      PROVE  Next
  BY <1>7 DEF NoMappingFound, Reload, MappedWriteBack, Next, Step
<1>8. CASE UNCHANGED watchVars
  BY <1>8 DEF watchVars, queueVars
<1> QED BY <1>1, <1>2, <1>3, <1>4, <1>5, <1>6, <1>7, <1>8 DEF WatchNext, WatchStep

\* The mappings, the caches and the triggers add to JobQueue and take nothing
\* from it: whatever holds of the queue holds with watched tables.
THEOREM Composition == WatchSpec => Spec
<1>1. WatchInit => Init
  BY DEF WatchInit
<1>2. [WatchNext]_watchVars => [Next]_vars
  BY StepOfQueue
<1> QED BY <1>1, <1>2, PTL DEF WatchSpec, Spec

-----------------------------------------------------------------------------
(***************************************************************************)
(* What the steps of a worker leave of the queue                           *)
(***************************************************************************)
\* No job appears or changes its kind ...
NoNewJob ==
  /\ kind' = kind
  /\ \A j \in Jobs : status'[j] # "absent" => status[j] # "absent"

\* ... and if no fault has happened after the step, none had before it, and
\* the step broke no connection.
Faultless ==
  faults' = 0 => faults = 0 /\ ((\A v \in Workers : conn[v] = "up") => \A v \in Workers : conn'[v] = "up")

LEMMA SendFaultless ==
  ASSUME TypeOK, NEW w \in Workers, NEW o, Send(w, o)
  PROVE  Faultless /\ (faults' = 0 /\ conn[w] = "up" => o = "ok")
<1>1. faults \in Nat
  BY QueueAssumption DEF TypeOK
<1>2. o \in {"ok", "refused", "unheard"}
  BY SendFacts
<1>3. CASE conn[w] = "lost"
  BY <1>1, <1>2, <1>3 DEF Send, Faultless, Outcomes
<1>4. CASE conn[w] # "lost"
  BY <1>1, <1>2, <1>4 DEF Send, Faultless
<1> QED BY <1>3, <1>4

\* The worker of a job in its hands finds it in the table.
LEMMA InHandIsThere ==
  ASSUME QueueInv, NEW w \in Workers, NEW j \in todo[w]
  PROVE  j \in Jobs /\ status[j] # "absent"
  BY InHandFacts DEF InHands

LEMMA WorkerStepFacts ==
  ASSUME QueueInv, NEW w \in Workers,
         \/ Start(w) \/ Signal(w) \/ Crash(w) \/ LoseConnection(w) \/ Step(w)
  PROVE  NoNewJob /\ Faultless
<1> USE DEF QueueInv
<1>1. faults \in Nat
  BY QueueAssumption DEF TypeOK
<1>2. CASE Start(w) \/ Signal(w) \/ ClaimLock(w) \/ ClaimNothing(w)
           \/ \E j \in Jobs : NoOutput(w, j)
  BY <1>2 DEF Start, Signal, ClaimLock, ClaimNothing, NoOutput, NoNewJob, Faultless,
              tableVars, linkVars
<1>3. CASE Exit(w)
  BY <1>3 DEF Exit, Stopped, NoNewJob, Faultless, tableVars, TypeOK
<1>4. CASE Crash(w)
  <2>1. PICK S \in {{}, held[w]} : SetStatus(S, "processing")
    BY <1>4 DEF Crash
  <2>2. \A j \in S : status[j] = "pending"
    BY <2>1 DEF Claiming
  <2>3. NoNewJob
    BY <1>4, <2>1, <2>2 DEF Crash, NoNewJob, SetStatus
  <2> QED BY <1>1, <1>4, <2>3 DEF Crash, Faultless
<1>5. CASE LoseConnection(w)
  BY <1>1, <1>5 DEF LoseConnection, NoNewJob, Faultless, tableVars
<1>6. ASSUME NEW o, ClaimReturn(w, o) PROVE NoNewJob /\ Faultless
  <2>1. \A j \in held[w] : status[j] = "pending"
    BY DEF Claiming
  <2>2. NoNewJob
    BY <1>6, <2>1 DEF ClaimReturn, NoNewJob, SetStatus
  <2> QED BY <1>6, <2>2, SendFaultless DEF ClaimReturn
<1>7. ASSUME NEW o, MarkDone(w, o) \/ MarkError(w, o) PROVE NoNewJob /\ Faultless
  <2>1. status[cur[w]] # "absent"
    BY <1>7 DEF MarkDone, MarkError, Dispatching
  <2>2. NoNewJob
    BY <1>7, <2>1 DEF MarkDone, MarkError, NoNewJob, SetStatus
  <2> QED BY <1>7, <2>2, SendFaultless DEF MarkDone, MarkError
<1>8. ASSUME NEW o, Notify(w, o) \/ \E j \in Jobs : LookUp(w, j, o)
      PROVE  NoNewJob /\ Faultless
  BY <1>8, SendFaultless DEF Notify, LookUp, NoNewJob, tableVars
<1>9. ASSUME NEW o, NEW j \in Jobs, WriteAdHoc(w, j, o) \/ WriteBack(w, j, o)
      PROVE  NoNewJob /\ Faultless
  <2>1. status[j] # "absent"
    BY <1>9, WorkFacts DEF WriteAdHoc, WriteBack
  <2>2. NoNewJob
    BY <1>9, <2>1 DEF WriteAdHoc, WriteBack, NoNewJob, SetStatus
  <2> QED BY <1>9, <2>2, SendFaultless DEF WriteAdHoc, WriteBack
<1>10. CASE Sweep(w)
  <2>1. NoNewJob
    BY <1>10 DEF Sweep, NoNewJob, SetStatus
  <2>2. Faultless
    BY <1>10, SendFaultless DEF Sweep, Faultless, linkVars
  <2> QED BY <2>1, <2>2
<1> QED
  BY <1>2, <1>3, <1>4, <1>5, <1>6, <1>7, <1>8, <1>9, <1>10 DEF Step

-----------------------------------------------------------------------------
(***************************************************************************)
(* WatchInv is inductive, given QueueInv.  First the two conjuncts that    *)
(* relate the queue to the watch state, for a step that leaves the         *)
(* registry alone; what a step may do to the caches is its own business.   *)
(***************************************************************************)
LEMMA RegistryKept ==
  ASSUME RegistryInv, NoNewJob, UNCHANGED <<watched, triggers, origin>>
  PROVE  RegistryInv' /\ \A j \in Jobs : Key(j)' = Key(j) /\ (Mapped(j)' => Mapped(j))
<1>1. \A j \in Jobs : Key(j)' = Key(j) /\ (Mapped(j)' => Mapped(j))
  BY DEF NoNewJob, Key, Mapped
<1>2. \A s \in Sources : Fired(s)' = Fired(s)
  BY DEF Fired
<1> QED BY <1>1, <1>2 DEF RegistryInv

\* A step that takes no job up, fails none for want of a mapping and leaves the
\* caches alone.
LEMMA LookupKept ==
  ASSUME QueueInv, LookupInv, NoNewJob, Faultless,
         UNCHANGED <<origin, cache, refreshed, missing>>,
         \A w \in Workers : todo'[w] \subseteq todo[w]
  PROVE  LookupInv'
<1>1. \A w \in Workers : todo[w] \subseteq Jobs
  BY DEF QueueInv, TypeOK
<1>2. \A j \in Jobs : Key(j)' = Key(j) /\ kind'[j] = kind[j]
  BY DEF NoNewJob, Key
<1> QED BY <1>1, <1>2 DEF LookupInv, Faultless

\* What most steps of a worker leave in its hands.
LEMMA TakesUpNothing ==
  ASSUME QueueInv, NEW w \in Workers,
         \/ Start(w) \/ Signal(w) \/ LoseConnection(w) \/ ClaimLock(w) \/ ClaimNothing(w)
         \/ Sweep(w) \/ Exit(w) \/ Crash(w)
         \/ \E j \in Jobs : NoOutput(w, j)
         \/ \E o : MarkDone(w, o) \/ MarkError(w, o) \/ Notify(w, o)
         \/ \E o : \E j \in Jobs : LookUp(w, j, o) \/ WriteAdHoc(w, j, o) \/ WriteBack(w, j, o)
  PROVE  /\ \A v \in Workers : todo'[v] \subseteq todo[v]
         /\ Exit(w) \/ Crash(w) => todo'[w] = {}
<1> USE DEF QueueInv, TypeOK
<1>1. CASE \/ Start(w) \/ Signal(w) \/ LoseConnection(w) \/ ClaimLock(w)
           \/ ClaimNothing(w) \/ Sweep(w)
           \/ \E o : Notify(w, o) \/ \E j \in Jobs : LookUp(w, j, o)
  <2>1. todo' = todo
    BY <1>1 DEF Start, Signal, LoseConnection, ClaimLock, ClaimNothing, Sweep, Notify,
                LookUp, workerVars
  <2>2. ~(Exit(w) \/ Crash(w)) \/ todo'[w] = {}
    BY DEF Exit, Crash, Stopped
  <2> QED BY <2>1, <2>2
<1>2. CASE Exit(w) \/ Crash(w)
  BY <1>2 DEF Exit, Crash, Stopped
<1>3. ASSUME NEW j, NEW place, Pause(w, j, place) PROVE todo' = todo
  BY <1>3 DEF Pause
<1>4. ASSUME NEW j, NEW counted, Finished(w, j, counted)
      PROVE  \A v \in Workers : todo'[v] \subseteq todo[v]
  BY <1>4 DEF Finished
<1>5. CASE \/ \E j \in Jobs : NoOutput(w, j)
           \/ \E o : MarkDone(w, o) \/ MarkError(w, o)
           \/ \E o : \E j \in Jobs : WriteAdHoc(w, j, o) \/ WriteBack(w, j, o)
  <2>1. \A v \in Workers : todo'[v] \subseteq todo[v]
    BY <1>3, <1>4, <1>5 DEF NoOutput, MarkDone, MarkError, WriteAdHoc, WriteBack
  <2>2. ~(Exit(w) \/ Crash(w)) \/ todo'[w] = {}
    BY DEF Exit, Crash, Stopped
  <2> QED BY <2>1, <2>2
<1> QED BY <1>1, <1>2, <1>5

-----------------------------------------------------------------------------
(***************************************************************************)
(* The SQL side                                                            *)
(***************************************************************************)
\* A registration names a column for each argument of each trigger it leaves
\* on the table, and takes no other registration back.
LEMMA WatchKeeps ==
  ASSUME WatchInv, together' \subseteq Keys, NEW s \in Sources, NEW e \in EmbedColumns, NEW g,
         Watch(s, e) \/ (g \in TextColumns /\ WatchGenerate(s, e, g))
  PROVE  WatchInv'
<1>1. /\ e \in Columns /\ e # NoColumn
      /\ Watch(s, e) \/ (WatchGenerate(s, e, g) /\ g \in Columns /\ g # NoColumn)
      /\ <<s, "embed">> \in Keys /\ <<s, "generate">> \in Keys
  BY WatchAssumption DEF Columns, Keys, Types
<1>2. /\ UNCHANGED <<status, kind, todo, conn, faults, pc>>
      /\ UNCHANGED <<text, origin, column, cache, refreshed, sql, looking, missing>>
  BY DEF Watch, WatchGenerate, queueVars, vars, cacheVars
<1>3. WatchTypeOK'
  <2>1. watched' \in [Keys -> Columns \cup {NoColumn}] /\ calls' \in 0 .. MaxWatches
    <3> DEFINE k == <<s, "embed">>  l == <<s, "generate">>  C == Columns \cup {NoColumn}
    <3>1. k \in Keys /\ l \in Keys /\ e \in C /\ watched \in [Keys -> C]
      BY <1>1 DEF WatchInv, WatchTypeOK
    <3>2. \/ watched' = [watched EXCEPT ![k] = e]
          \/ watched' = [watched EXCEPT ![k] = e, ![l] = g] /\ g \in C
      BY <1>1 DEF Watch, WatchGenerate
    <3>3. calls' \in 0 .. MaxWatches
      BY WatchAssumption DEF WatchInv, WatchTypeOK, Watch, WatchGenerate
    <3> HIDE DEF k, l, C
    <3>4. watched' \in [Keys -> C]
      BY <3>1, <3>2
    <3> QED BY <3>3, <3>4 DEF C
  <2>2. triggers' \in [Sources -> SUBSET Types]
    <3>1. triggers \in [Sources -> SUBSET Types]
      BY DEF WatchInv, WatchTypeOK
    <3>2. triggers[s] \cup {"embed"} \in SUBSET Types /\ {"generate"} \in SUBSET Types
      BY <3>1 DEF Types
    <3>3. \/ triggers' = [triggers EXCEPT ![s] = triggers[s] \cup {"embed"}]
          \/ triggers' = [triggers EXCEPT ![s] = {"generate"}]
      BY DEF Watch, WatchGenerate
    <3> QED BY <3>1, <3>2, <3>3
  <2> QED BY <1>2, <2>1, <2>2 DEF WatchInv, WatchTypeOK
<1>4. \A k \in Keys : watched[k] # NoColumn => watched'[k] # NoColumn
  BY <1>1 DEF WatchInv, WatchTypeOK, Watch, WatchGenerate
<1>5. ASSUME NEW t \in Sources, NEW f \in Fired(t)' PROVE watched'[<<t, f[2]>>] # NoColumn
  <2>1. CASE t = s
    <3>1. CASE Watch(s, e)
      <4>1. f[2] = "embed" \/ f \in Fired(s)
        BY <1>5, <2>1, <3>1 DEF WatchInv, WatchTypeOK, Watch, Fired, Arguments
      <4>2. f \in Fired(s) => <<s, f[2]>> \in Keys /\ watched[<<s, f[2]>>] # NoColumn
        BY DEF WatchInv, RegistryInv, Fired, Arguments, Keys, Types
      <4>3. watched'[<<s, "embed">>] # NoColumn
        BY <1>1, <3>1 DEF WatchInv, WatchTypeOK, Watch
      <4> QED BY <1>4, <2>1, <4>1, <4>2, <4>3
    <3>2. CASE WatchGenerate(s, e, g) /\ g # NoColumn
      <4>1. f[2] \in {"embed", "generate"}
        BY <1>5 DEF Fired, Arguments
      <4>2. watched'[<<s, "embed">>] # NoColumn /\ watched'[<<s, "generate">>] # NoColumn
        BY <1>1, <3>2 DEF WatchInv, WatchTypeOK, WatchGenerate
      <4> QED BY <2>1, <4>1, <4>2
    <3> QED BY <1>1, <3>1, <3>2
  <2>2. CASE t # s
    <3>1. triggers'[t] = triggers[t]
      BY <2>2 DEF WatchInv, WatchTypeOK, Watch, WatchGenerate
    <3>2. f \in Fired(t)
      BY <1>5, <3>1 DEF Fired
    <3>3. <<t, f[2]>> \in Keys
      BY <3>2 DEF Fired, Arguments, Keys, Types
    <3> QED BY <1>4, <3>2, <3>3 DEF WatchInv, RegistryInv
  <2> QED BY <2>1, <2>2
<1>6. \A j \in Jobs : Mapped(j)' = Mapped(j) /\ Key(j)' = Key(j)
  BY <1>2 DEF Mapped, Key
<1>7. RegistryInv'
  BY <1>4, <1>5, <1>6 DEF WatchInv, RegistryInv
<1>8. LookupInv'
  BY <1>2, <1>6 DEF WatchInv, LookupInv, Key
<1> QED BY <1>3, <1>7, <1>8 DEF WatchInv

\* An enqueued job is one of a registered mapping, and no job in a worker's
\* hands is touched.
LEMMA EnqueueLookup ==
  ASSUME QueueInv, LookupInv, NEW S \in SUBSET Jobs, NEW k, Enqueue(S, k),
         \A j \in Jobs \ S : origin'[j] = origin[j],
         UNCHANGED <<cache, refreshed, missing>>
  PROVE  LookupInv'
<1>1. UNCHANGED <<todo, conn, faults>>
  BY DEF Enqueue, workerVars, linkVars
<1>2. ASSUME NEW w \in Workers, NEW j \in todo[w] PROVE Key(j)' = Key(j) /\ kind'[j] = kind[j]
  <2>1. j \in Jobs /\ j \notin S
    BY InHandIsThere DEF Enqueue
  <2>2. kind'[j] = kind[j]
    BY <2>1 DEF Enqueue
  <2> QED BY <2>1, <2>2 DEF Key
<1> QED BY <1>1, <1>2 DEF LookupInv

LEMMA RowChangeKeeps ==
  ASSUME QueueInv, WatchInv, together' \subseteq Keys, NEW s \in Sources, RowChange(s)
  PROVE  WatchInv'
<1> DEFINE S == NextIds(Cardinality(Fired(s)))
<1>1. PICK by \in Bijection(S, Fired(s)) :
        /\ Enqueue(S, [j \in S |-> [type |-> by[j][2], adhoc |-> FALSE]])
        /\ origin' = [j \in Jobs |->
             IF j \in S THEN [source |-> s, version |-> text[s] + 1,
                              into |-> watched[<<s, by[j][2]>>]]
             ELSE origin[j]]
  BY DEF RowChange
<1>2. /\ text' = [text EXCEPT ![s] = @ + 1]
      /\ UNCHANGED <<watched, triggers, calls, column, cache, refreshed, sql, looking, missing>>
  BY DEF RowChange, cacheVars
<1>3. S \subseteq Jobs
  BY DEF NextIds
<1>4. ASSUME NEW j \in S
      PROVE  by[j][2] \in Types /\ watched[<<s, by[j][2]>>] \in Columns \ {NoColumn}
  <2>1. by[j] \in Fired(s)
    BY <1>1 DEF Bijection, Injection
  <2>2. by[j][2] \in Types
    BY <2>1 DEF Fired, Arguments, Types
  <2>3. <<s, by[j][2]>> \in Keys
    BY <2>2 DEF Keys
  <2> QED BY <2>1, <2>2, <2>3 DEF WatchInv, RegistryInv, WatchTypeOK
<1> HIDE DEF S
<1>5. /\ \A j \in Jobs : status'[j] = IF j \in S THEN "pending" ELSE status[j]
      /\ \A j \in S : kind'[j] = [type |-> by[j][2], adhoc |-> FALSE]
      /\ \A j \in Jobs \ S : kind'[j] = kind[j]
  <2> DEFINE k == [j \in S |-> [type |-> by[j][2], adhoc |-> FALSE]]
  <2>1. \A j \in S : k[j] = [type |-> by[j][2], adhoc |-> FALSE]
    OBVIOUS
  <2>2. Enqueue(S, k)
    BY <1>1
  <2> HIDE DEF k
  <2> QED BY <1>3, <2>1, <2>2 DEF Enqueue, SetStatus
<1>6. WatchTypeOK'
  <2>1. text' \in [Sources -> Nat] /\ text[s] + 1 \in Nat
    BY <1>2 DEF WatchInv, WatchTypeOK
  <2>2. origin' \in [Jobs -> {NoOrigin} \cup [source : Sources, version : Nat, into : Columns]]
    BY <1>1, <1>4, <2>1 DEF WatchInv, WatchTypeOK
  <2> QED BY <1>2, <2>1, <2>2 DEF WatchInv, WatchTypeOK
<1>7. RegistryInv'
  <2>1. \A t \in Sources : Fired(t)' = Fired(t)
    BY <1>2 DEF Fired
  <2>2. ASSUME NEW j \in S PROVE Key(j)' \in Keys /\ watched[Key(j)'] # NoColumn
    <3>1. origin'[j].source = s
      BY <1>1, <1>3
    <3>2. kind'[j] = [type |-> by[j][2], adhoc |-> FALSE]
      BY <1>5
    <3>3. Key(j)' = <<s, [type |-> by[j][2], adhoc |-> FALSE].type>>
      BY <3>1, <3>2 DEF Key
    <3>4. Key(j)' = <<s, by[j][2]>>
      BY <3>3
    <3> QED BY <1>4, <3>4 DEF Keys
  <2>3. ASSUME NEW j \in Jobs \ S PROVE Key(j)' = Key(j) /\ Mapped(j)' = Mapped(j)
    BY <1>1, <1>5 DEF Key, Mapped
  <2> QED BY <1>2, <2>1, <2>2, <2>3 DEF WatchInv, RegistryInv
<1>8. LookupInv'
  BY <1>1, <1>2, <1>3, EnqueueLookup DEF WatchInv
<1> QED BY <1>6, <1>7, <1>8 DEF WatchInv

LEMMA AdHocKeeps ==
  ASSUME QueueInv, WatchInv, together' \subseteq Keys, AdHoc
  PROVE  WatchInv'
<1> DEFINE S == NextIds(1)
<1>1. PICK k \in [S -> {x \in Kinds : x.adhoc}] : Enqueue(S, k)
  BY DEF AdHoc
<1>2. UNCHANGED <<watched, triggers, calls, text, origin, column, cache, refreshed, sql,
                  looking, missing>>
  BY DEF AdHoc, sqlSideVars, cacheVars
<1>3. S \subseteq Jobs
  BY DEF NextIds
<1> HIDE DEF S
<1>4. WatchTypeOK'
  BY <1>2 DEF WatchInv, WatchTypeOK
<1>5. RegistryInv'
  <2>1. \A t \in Sources : Fired(t)' = Fired(t)
    BY <1>2 DEF Fired
  <2>2. \A j \in S : ~Mapped(j)'
    BY <1>1, <1>3 DEF Enqueue, Mapped
  <2>3. \A j \in Jobs \ S : Key(j)' = Key(j) /\ Mapped(j)' = Mapped(j)
    BY <1>1, <1>2 DEF Enqueue, SetStatus, Key, Mapped
  <2> QED BY <1>2, <2>1, <2>2, <2>3 DEF WatchInv, RegistryInv
<1>6. LookupInv'
  BY <1>1, <1>2, <1>3, EnqueueLookup DEF WatchInv
<1> QED BY <1>4, <1>5, <1>6 DEF WatchInv

-----------------------------------------------------------------------------
(***************************************************************************)
(* The workers                                                             *)
(***************************************************************************)
LEMMA UnmappedKeeps ==
  ASSUME QueueInv, WatchInv, together' \subseteq Keys, NEW w \in Workers, Unmapped(w)
  PROVE  WatchInv'
<1>1. NoNewJob /\ Faultless
  BY WorkerStepFacts DEF Unmapped, Step
<1>2. \A v \in Workers : todo'[v] \subseteq todo[v]
  BY TakesUpNothing DEF Unmapped
<1>3. UNCHANGED <<watched, triggers, calls, text, origin, column, cache, refreshed, sql,
                  looking, missing>>
  BY DEF Unmapped, sqlSideVars, cacheVars
<1>4. WatchTypeOK'
  BY <1>3 DEF WatchInv, WatchTypeOK
<1> QED BY <1>1, <1>2, <1>3, <1>4, RegistryKept, LookupKept DEF WatchInv

\* A process that starts knows all mappings, one that stops none; neither has a
\* job in its hands.
LEMMA LifeKeeps ==
  ASSUME QueueInv, WatchInv, together' \subseteq Keys, NEW w \in Workers,
         WatchStart(w) \/ WatchStop(w)
  PROVE  WatchInv'
<1>1. NoNewJob /\ Faultless
  BY WorkerStepFacts DEF WatchStart, WatchStop, Step
<1>2. (\A v \in Workers : todo'[v] \subseteq todo[v]) /\ todo'[w] = {}
  <2>1. todo[w] = {} \/ WatchStop(w)
    BY DEF WatchStart, Start, QueueInv, Dispatching
  <2> QED BY <2>1, TakesUpNothing DEF WatchStart, WatchStop
<1>3. /\ UNCHANGED <<watched, triggers, calls, text, origin, column, missing>>
      /\ \A v \in Workers \ {w} : cache'[v] = cache[v] /\ refreshed'[v] = refreshed[v]
  BY DEF WatchStart, WatchStop, sqlSideVars, WatchInv, WatchTypeOK
<1>4. WatchTypeOK'
  <2>1. NoMapping \in [Keys -> Columns \cup {NoColumn}]
    BY DEF NoMapping
  <2> QED BY <1>3, <2>1 DEF WatchStart, WatchStop, WatchInv, WatchTypeOK
<1>5. RegistryInv' /\ \A j \in Jobs : Key(j)' = Key(j) /\ kind'[j] = kind[j]
  BY <1>1, <1>3, RegistryKept DEF WatchInv, NoNewJob
<1>6. LookupInv'
  <2>1. \A v \in Workers : todo[v] \subseteq Jobs
    BY DEF QueueInv, TypeOK
  <2> QED BY <1>1, <1>2, <1>3, <1>5, <2>1 DEF WatchInv, LookupInv, Faultless
<1> QED BY <1>4, <1>5, <1>6 DEF WatchInv

\* A batch begins with the right to reload.
LEMMA WatchClaimReturnKeeps ==
  ASSUME QueueInv, WatchInv, together' \subseteq Keys, NEW w \in Workers,
         NEW o \in Outcomes(w), WatchClaimReturn(w, o)
  PROVE  WatchInv'
<1>1. NoNewJob /\ Faultless
  BY WorkerStepFacts DEF WatchClaimReturn, Step
<1>2. UNCHANGED <<watched, triggers, calls, text, origin, column, cache, sql, looking, missing>>
  BY DEF WatchClaimReturn, sqlSideVars
<1>3. /\ \A v \in Workers \ {w} : todo'[v] = todo[v] /\ refreshed'[v] = refreshed[v]
      /\ refreshed' \in [Workers -> BOOLEAN] /\ (o = "ok" => ~refreshed'[w])
  BY DEF WatchClaimReturn, ClaimReturn, BeginBatch, QueueInv, TypeOK, WatchInv, WatchTypeOK
<1>4. WatchTypeOK'
  BY <1>2, <1>3 DEF WatchInv, WatchTypeOK
<1>5. RegistryInv' /\ \A j \in Jobs : Key(j)' = Key(j) /\ kind'[j] = kind[j]
  BY <1>1, <1>2, RegistryKept DEF WatchInv, NoNewJob
<1>6. LookupInv'
  <2>1. \A v \in Workers : todo[v] \subseteq Jobs
    BY DEF QueueInv, TypeOK
  <2>2. faults' = 0 /\ conn[w] = "up" => o = "ok"
    BY SendFaultless DEF WatchClaimReturn, ClaimReturn, QueueInv
  <2> QED BY <1>1, <1>2, <1>3, <1>5, <2>1, <2>2 DEF WatchInv, LookupInv, Faultless
<1> QED BY <1>4, <1>5, <1>6 DEF WatchInv

\* A reload finds the mapping of every job of the batch: each of them was
\* enqueued for a registration, and no registration is ever removed.
LEMMA ReloadKeeps ==
  ASSUME QueueInv, WatchInv, together' \subseteq Keys, NEW w \in Workers,
         NEW j \in Jobs, NEW o \in Outcomes(w), Reload(w, j, o)
  PROVE  WatchInv'
<1>1. NoNewJob /\ Faultless
  BY WorkerStepFacts DEF Reload, Step
<1>2. /\ UNCHANGED <<watched, triggers, calls, text, origin, column, sql, missing>>
      /\ todo' = todo
  BY DEF Reload, LookUp, sqlSideVars, workerVars
<1>3. /\ cache' = [cache EXCEPT ![w] = IF o = "ok" THEN watched ELSE NoMapping]
      /\ refreshed' = [refreshed EXCEPT ![w] = TRUE]
      /\ looking' = [looking EXCEPT ![w] = j]
  BY DEF Reload
<1>4. WatchTypeOK'
  <2>1. NoMapping \in [Keys -> Columns \cup {NoColumn}]
    BY DEF NoMapping
  <2> QED BY <1>2, <1>3, <2>1 DEF WatchInv, WatchTypeOK
<1>5. RegistryInv' /\ \A i \in Jobs : Key(i)' = Key(i) /\ kind'[i] = kind[i]
  BY <1>1, <1>2, RegistryKept DEF WatchInv, NoNewJob
<1>6. LookupInv'
  <2>1. \A v \in Workers : todo[v] \subseteq Jobs
    BY DEF QueueInv, TypeOK
  <2>2. faults' = 0 /\ conn[w] = "up" => o = "ok"
    BY SendFaultless DEF Reload, LookUp, QueueInv
  <2>3. \A i \in todo[w] : ~kind[i].adhoc => watched[Key(i)] # NoColumn
    BY InHandIsThere DEF WatchInv, RegistryInv, Mapped
  <2>4. \A v \in Workers \ {w} : cache'[v] = cache[v] /\ refreshed'[v] = refreshed[v]
    BY <1>3 DEF WatchInv, WatchTypeOK
  <2>5. o = "ok" => cache'[w] = watched
    BY <1>3 DEF WatchInv, WatchTypeOK
  <2> QED BY <1>1, <1>2, <1>5, <2>1, <2>2, <2>3, <2>4, <2>5 DEF WatchInv, LookupInv, Faultless
<1> QED BY <1>4, <1>5, <1>6 DEF WatchInv

\* So, without faults, find() does not return end() for a job.
LEMMA NoMappingFoundKeeps ==
  ASSUME QueueInv, WatchInv, together' \subseteq Keys, NEW w \in Workers,
         NEW j \in Jobs, NoMappingFound(w, j)
  PROVE  WatchInv'
<1>1. NoNewJob /\ Faultless
  BY WorkerStepFacts DEF NoMappingFound, Step
<1>2. UNCHANGED <<watched, triggers, calls, text, origin, column, cache, refreshed, sql>>
  BY DEF NoMappingFound, sqlSideVars
<1>3. missing' = missing \cup {j} /\ looking' = [looking EXCEPT ![w] = NoJob]
  BY DEF NoMappingFound
<1>4. WatchTypeOK'
  BY <1>2, <1>3 DEF WatchInv, WatchTypeOK
<1>5. RegistryInv'
  BY <1>1, <1>2, RegistryKept DEF WatchInv
<1>6. faults # 0
  BY WorkFacts DEF NoMappingFound, NoOutput, WatchInv, LookupInv
<1>7. faults' # 0
  BY <1>1, <1>6 DEF Faultless
<1> QED BY <1>4, <1>5, <1>7 DEF WatchInv, LookupInv

LEMMA MappedWriteBackKeeps ==
  ASSUME QueueInv, WatchInv, together' \subseteq Keys, NEW w \in Workers,
         NEW j \in Jobs, NEW o \in Outcomes(w), MappedWriteBack(w, j, o)
  PROVE  WatchInv'
<1>1. NoNewJob /\ Faultless
  BY WorkerStepFacts DEF MappedWriteBack, Step
<1>2. \A v \in Workers : todo'[v] \subseteq todo[v]
  BY TakesUpNothing DEF MappedWriteBack
<1>3. UNCHANGED <<watched, triggers, calls, text, origin, cache, refreshed, missing>>
  BY DEF MappedWriteBack, sqlSideVars
<1>4. WatchTypeOK'
  <2> DEFINE k == Key(j)
             C == Columns \cup {NoColumn}
             into == IF sql[w][k] = NoColumn THEN cache[w][k] ELSE sql[w][k]
  <2>1. k \in Keys /\ k[1] \in Sources
    <3>1. Mapped(j)
      BY WorkFacts DEF MappedWriteBack, WriteBack, Mapped
    <3>2. k \in Keys
      BY <3>1 DEF WatchInv, RegistryInv
    <3> QED BY <3>2 DEF Keys
  <2>2. into \in Columns
    BY <2>1 DEF MappedWriteBack, WatchInv, WatchTypeOK
  <2>3. origin[j].version \in Nat
    BY DEF WatchInv, WatchTypeOK, NoOrigin
  <2>4. /\ sql' = [sql EXCEPT ![w] = [x \in Keys |-> IF x \in SqlSlots(k) THEN into ELSE @[x]]]
        /\ \/ column' = [column EXCEPT ![<<k[1], into>>] = origin[j].version]
           \/ column' = column
        /\ looking' = [looking EXCEPT ![w] = NoJob]
    BY DEF MappedWriteBack
  <2> HIDE DEF k, into
  <2>5. sql' \in [Workers -> [Keys -> C]]
    BY <2>2, <2>4 DEF WatchInv, WatchTypeOK
  <2>6. column' \in [Sources \X Columns -> Nat]
    BY <2>1, <2>2, <2>3, <2>4 DEF WatchInv, WatchTypeOK
  <2>7. looking' \in [Workers -> Jobs \cup {NoJob}]
    BY <2>4 DEF WatchInv, WatchTypeOK
  <2> QED BY <1>3, <2>5, <2>6, <2>7 DEF WatchInv, WatchTypeOK
<1> QED BY <1>1, <1>2, <1>3, <1>4, RegistryKept, LookupKept DEF WatchInv

-----------------------------------------------------------------------------
LEMMA InitWatchInv == WatchInit => WatchInv
<1> SUFFICES ASSUME WatchInit PROVE WatchInv
  OBVIOUS
<1> USE DEF WatchInit
<1>1. WatchTypeOK
  BY WatchAssumption DEF WatchTypeOK, NoMapping
<1>2. RegistryInv
  BY DEF RegistryInv, Fired, Mapped, Init
<1>3. LookupInv
  BY DEF LookupInv, Init
<1> QED BY <1>1, <1>2, <1>3 DEF WatchInv

LEMMA NextWatchInv == QueueInv /\ WatchInv /\ [WatchNext]_watchVars => WatchInv'
<1> SUFFICES ASSUME QueueInv, WatchInv, [WatchNext]_watchVars PROVE WatchInv'
  OBVIOUS
<1>0. together' \subseteq Keys
  BY DEF WatchInv, WatchTypeOK, WatchNext, Overlapping, watchVars
<1>1. ASSUME NEW s \in Sources, NEW e \in EmbedColumns, Watch(s, e) PROVE WatchInv'
  BY <1>0, <1>1, WatchKeeps
<1>2. ASSUME NEW s \in Sources, NEW e \in EmbedColumns, NEW g \in TextColumns,
             WatchGenerate(s, e, g)
      PROVE  WatchInv'
  BY <1>0, <1>2, WatchKeeps
<1>3. ASSUME NEW s \in Sources, RowChange(s) PROVE WatchInv'
  BY <1>0, <1>3, RowChangeKeeps
<1>4. CASE AdHoc
  BY <1>0, <1>4, AdHocKeeps
<1>5. ASSUME NEW w \in Workers,
             \/ WatchStart(w) \/ WatchStop(w) \/ Unmapped(w)
             \/ \E o \in Outcomes(w) : WatchClaimReturn(w, o)
      PROVE  WatchInv'
  BY <1>0, <1>5, LifeKeeps, UnmappedKeeps, WatchClaimReturnKeeps
<1>6. ASSUME NEW w \in Workers, NEW j \in Jobs,
             \/ NoMappingFound(w, j)
             \/ \E o \in Outcomes(w) : Reload(w, j, o) \/ MappedWriteBack(w, j, o)
      PROVE  WatchInv'
  BY <1>0, <1>6, ReloadKeeps, NoMappingFoundKeeps, MappedWriteBackKeeps
<1>7. CASE UNCHANGED watchVars
  <2> USE <1>7 DEF watchVars, queueVars, vars, sqlSideVars, cacheVars
  <2>1. WatchTypeOK'
    BY DEF WatchInv, WatchTypeOK
  <2>2. NoNewJob /\ Faultless /\ \A w \in Workers : todo'[w] \subseteq todo[w]
    BY DEF NoNewJob, Faultless
  <2> QED BY <2>1, <2>2, RegistryKept, LookupKept DEF WatchInv
<1> QED BY <1>0, <1>1, <1>2, <1>3, <1>4, <1>5, <1>6, <1>7 DEF WatchNext, WatchStep

\* Whatever clients register and enqueue while the workers run, stop and fail,
\* no reachable state breaks the invariant of the composition.
THEOREM WatchSafety == WatchSpec => []WatchInv
<1>1. WatchInit => WatchInv
  BY InitWatchInv
<1>2. QueueInv /\ WatchInv /\ [WatchNext]_watchVars => WatchInv'
  BY NextWatchInv
<1>3. WatchSpec => []QueueInv
  BY Composition, QueueSafety, PTL
<1> QED BY <1>1, <1>2, <1>3, PTL DEF WatchSpec

\* "works without a worker restart" (job_sql.hpp:30-32): as long as nothing
\* fails, no watched job ends in error because its mapping was not found,
\* however late, and in however many tables, the mappings are registered.
THEOREM LookupsSucceed == WatchSpec => [](faults = 0 => missing = {})
<1>1. WatchInv => (faults = 0 => missing = {})
  BY DEF WatchInv, LookupInv
<1> QED BY <1>1, WatchSafety, PTL

-----------------------------------------------------------------------------
(***************************************************************************)
(* The order of ids                                                        *)
(***************************************************************************)
\* A bounded set of ids is finite, and no subset of it has more members.
LEMMA Bounded ==
  ASSUME NEW n \in Nat, NEW T \in SUBSET Nat, \A x \in T : x <= n, NEW U \in SUBSET T
  PROVE  /\ Cardinality(U) <= Cardinality(T)
         /\ Cardinality(U) \in Int /\ Cardinality(T) \in Int
<1>1. IsFiniteSet(0 .. n)
  BY FS_Interval
<1>2. T \in SUBSET (0 .. n)
  OBVIOUS
<1>3. IsFiniteSet(T)
  BY <1>1, <1>2, FS_Subset
<1>4. IsFiniteSet(U) /\ Cardinality(U) <= Cardinality(T)
  BY <1>3, FS_Subset
<1>5. Cardinality(U) \in Nat /\ Cardinality(T) \in Nat
  BY <1>3, <1>4, FS_CardinalityType
<1> QED BY <1>4, <1>5

\* ORDER BY id LIMIT n leaves no earlier row out.
LEMMA LowestFirst ==
  ASSUME NEW S \in SUBSET Jobs, NEW n \in Nat, NEW j \in Lowest(S, n), NEW i \in S, i < j
  PROVE  i \in Lowest(S, n)
<1> DEFINE U == {x \in S : x < i}  T == {x \in S : x < j}
<1>1. /\ \A x \in S : x \in Nat
      /\ j \in S
  BY QueueAssumption DEF Lowest
<1>2. \A x \in S : (x < i => x < j) /\ (x < j => x <= j)
  BY <1>1
<1>3. T \in SUBSET Nat /\ (\A x \in T : x <= j) /\ U \in SUBSET T
  BY <1>1, <1>2
<1>4. Cardinality(T) < n
  BY DEF Lowest
<1> HIDE DEF T, U
<1>5. /\ Cardinality(U) <= Cardinality(T)
      /\ Cardinality(U) \in Int /\ Cardinality(T) \in Int
  BY <1>1, <1>3, Bounded
<1>6. Cardinality(U) < n
  BY <1>4, <1>5
<1> QED BY <1>6 DEF Lowest, U

\* The sequence hands ids out in order.
LEMMA NextIdsFirst ==
  ASSUME NEW n \in Int, NEW j \in NextIds(n), NEW i \in Jobs, status[i] = "absent", i < j
  PROVE  i \in NextIds(n)
<1> DEFINE free == {x \in Jobs : status[x] = "absent"}
           U == {x \in free : x <= i}  T == {x \in free : x <= j}
<1>1. (\A x \in free : x \in Nat) /\ i \in free /\ j \in free
  BY QueueAssumption DEF NextIds
<1>2. \A x \in free : x <= i => x <= j
  BY <1>1
<1>3. T \in SUBSET Nat /\ (\A x \in T : x <= j) /\ U \in SUBSET T
  BY <1>1, <1>2
<1>4. Cardinality(T) <= n
  BY DEF NextIds
<1> HIDE DEF T, U
<1>5. /\ Cardinality(U) <= Cardinality(T)
      /\ Cardinality(U) \in Int /\ Cardinality(T) \in Int
  BY <1>1, <1>3, Bounded
<1>6. Cardinality(U) <= n
  BY <1>4, <1>5
<1> QED BY <1>1, <1>6 DEF NextIds, U

-----------------------------------------------------------------------------
(***************************************************************************)
(* What the steps of a worker do to the order of jobs                      *)
(***************************************************************************)
\* A worker has begun with j ...
Begun(j) == status[j] # "pending" \/ \E w \in Workers : j \in InHands(w)

\* ... or is finished with it.
Past(j) == status[j] # "pending" /\ \A w \in Workers : j \notin InHands(w)

\* A step that begins with no job, and after which what was past is past.  Of a
\* worker's steps all but ClaimLock are.
Forward == \A j \in Jobs : (Begun(j)' => Begun(j)) /\ (Past(j) => Past(j)')

LEMMA ForwardBy ==
  ASSUME QueueInv, NEW w \in Workers,
         \A v \in Workers : InHands(v)' \subseteq InHands(v),
         \A j \in Jobs : status'[j] = status[j] \/ (status'[j] # "pending" /\
                           (status[j] = "pending" => j \in held[w]))
  PROVE  Forward
  BY DEF Forward, Begun, Past, InHands

LEMMA WorkerForward ==
  ASSUME QueueInv, NEW w \in Workers,
         \/ Start(w) \/ Signal(w) \/ LoseConnection(w) \/ ClaimNothing(w)
         \/ Sweep(w) \/ Exit(w) \/ Crash(w)
         \/ \E j \in Jobs : NoOutput(w, j)
         \/ \E o : ClaimReturn(w, o) \/ MarkDone(w, o) \/ MarkError(w, o) \/ Notify(w, o)
         \/ \E o : \E j \in Jobs : LookUp(w, j, o) \/ WriteAdHoc(w, j, o) \/ WriteBack(w, j, o)
  PROVE  Forward
<1> USE DEF QueueInv, TypeOK
<1>1. CASE \E o : ClaimReturn(w, o)
  <2>1. \A v \in Workers : InHands(v)' \subseteq InHands(v)
    BY <1>1 DEF ClaimReturn, InHands
  <2>2. \A j \in Jobs : status'[j] = status[j] \/ (status'[j] # "pending" /\
                          (status[j] = "pending" => j \in held[w]))
    BY <1>1 DEF ClaimReturn, SetStatus
  <2> QED BY <2>1, <2>2, ForwardBy
<1>2. CASE \/ Start(w) \/ Signal(w) \/ LoseConnection(w) \/ ClaimNothing(w)
           \/ Sweep(w) \/ Exit(w) \/ Crash(w)
           \/ \E j \in Jobs : NoOutput(w, j)
           \/ \E o : MarkDone(w, o) \/ MarkError(w, o) \/ Notify(w, o)
           \/ \E o : \E j \in Jobs : LookUp(w, j, o) \/ WriteAdHoc(w, j, o) \/ WriteBack(w, j, o)
  <2>1. \A v \in Workers : todo'[v] \subseteq todo[v]
    BY <1>2, TakesUpNothing
  <2>2. \A v \in Workers : held'[v] \subseteq held[v]
    BY <1>2 DEF Start, Signal, LoseConnection, ClaimNothing, Sweep, Exit, Crash, Stopped,
                NoOutput, MarkDone, MarkError, Notify, LookUp, WriteAdHoc, WriteBack,
                Pause, Finished, workerVars
  <2>3. \A j \in Jobs : status'[j] = status[j] \/ (status'[j] # "pending" /\
                          (status[j] = "pending" => j \in held[w]))
    <3>1. CASE \/ Start(w) \/ Signal(w) \/ LoseConnection(w) \/ ClaimNothing(w) \/ Exit(w)
               \/ \E j \in Jobs : NoOutput(w, j)
               \/ \E o : Notify(w, o)
               \/ \E o : \E j \in Jobs : LookUp(w, j, o) \/ WriteBack(w, j, o)
      BY <3>1 DEF Start, Signal, LoseConnection, ClaimNothing, Exit, NoOutput, Notify,
                  LookUp, WriteBack, tableVars
    <3>2. CASE Crash(w)
      BY <3>2 DEF Crash, SetStatus
    <3>3. CASE Sweep(w)
      BY <3>3 DEF Sweep, SetStatus
    <3>4. CASE \E o : MarkDone(w, o) \/ MarkError(w, o)
      <4>1. status[cur[w]] # "pending"
        BY <3>4 DEF MarkDone, MarkError, Dispatching
      <4> QED BY <3>4, <4>1 DEF MarkDone, MarkError, SetStatus
    <3>5. CASE \E o : \E j \in Jobs : WriteAdHoc(w, j, o)
      <4>1. PICK j \in Jobs : \E o : WriteAdHoc(w, j, o)
        BY <3>5
      <4>2. status[j] = "processing"
        BY <4>1, WorkFacts DEF WriteAdHoc
      <4> QED BY <4>1, <4>2 DEF WriteAdHoc, SetStatus
    <3> QED BY <1>2, <3>1, <3>2, <3>3, <3>4, <3>5
  <2>4. \A v \in Workers : InHands(v)' \subseteq InHands(v)
    BY <2>1, <2>2 DEF InHands
  <2> QED BY <2>3, <2>4, ForwardBy
<1> QED BY <1>1, <1>2

\* Outputs of watched jobs are committed by write-backs, and by nothing else.
Settled == \A j \in Jobs : ~kind[j].adhoc => effects'[j] = effects[j]

\* No row leaves the table without a trace: what is purged was there.
Remains == \A j \in Jobs : status[j] # "absent" => status'[j] # "absent"

LEMMA WorkerRemains ==
  ASSUME NEW w \in Workers,
         \/ Start(w) \/ Signal(w) \/ Crash(w) \/ LoseConnection(w) \/ Step(w)
  PROVE  Remains
<1>1. ASSUME NEW S, NEW st, st \in Status \ {"absent"}, SetStatus(S, st) PROVE Remains
  BY <1>1 DEF SetStatus, Remains
<1>2. ASSUME status' = status PROVE Remains
  BY <1>2 DEF Remains
<1> QED
  BY <1>1, <1>2 DEF Start, Signal, Crash, LoseConnection, Step, Exit, ClaimLock, ClaimNothing,
     Sweep, NoOutput, ClaimReturn, MarkDone, MarkError, Notify, LookUp, WriteAdHoc, WriteBack,
     tableVars, Status

LEMMA WorkerSettled ==
  ASSUME QueueInv, NEW w \in Workers,
         \/ Start(w) \/ Signal(w) \/ LoseConnection(w) \/ ClaimLock(w) \/ ClaimNothing(w)
         \/ Sweep(w) \/ Exit(w) \/ Crash(w)
         \/ \E j \in Jobs : NoOutput(w, j)
         \/ \E o : ClaimReturn(w, o) \/ MarkDone(w, o) \/ MarkError(w, o) \/ Notify(w, o)
         \/ \E o : \E j \in Jobs : LookUp(w, j, o) \/ WriteAdHoc(w, j, o)
  PROVE  Settled
<1>1. CASE \E o : \E j \in Jobs : WriteAdHoc(w, j, o)
  BY <1>1 DEF WriteAdHoc, TakesEffect, Settled, QueueInv, TypeOK
<1>2. CASE ~ \E o : \E j \in Jobs : WriteAdHoc(w, j, o)
  BY <1>2 DEF Start, Signal, LoseConnection, ClaimLock, ClaimNothing, Sweep, Exit, Crash,
              NoOutput, ClaimReturn, MarkDone, MarkError, Notify, LookUp, tableVars, Settled
<1> QED BY <1>1, <1>2

-----------------------------------------------------------------------------
(***************************************************************************)
(* The steps of WatchedTables, as far as versions and columns go           *)
(***************************************************************************)
\* A step that writes no watched row and enqueues nothing.
Quiet == UNCHANGED <<text, origin, column>> /\ NoNewJob /\ Remains /\ Settled

LEMMA StepKinds ==
  ASSUME QueueInv, [WatchNext]_watchVars
  PROVE  \/ Quiet /\ (Forward \/ \E w \in Workers : ClaimLock(w))
         \/ \E s \in Sources : RowChange(s)
         \/ AdHoc
         \/ \E w \in Workers, j \in Jobs : \E o \in Outcomes(w) : MappedWriteBack(w, j, o)
<1>1. ASSUME UNCHANGED queueVars, UNCHANGED <<text, origin, column>>
      PROVE  Quiet /\ Forward
  BY <1>1 DEF Quiet, Forward, NoNewJob, Remains, Settled, Begun, Past, InHands, queueVars, vars
<1>2. CASE \E s \in Sources, e \in EmbedColumns : Watch(s, e)
  BY <1>1, <1>2 DEF Watch
<1>3. CASE \E s \in Sources, e \in EmbedColumns, g \in TextColumns : WatchGenerate(s, e, g)
  BY <1>1, <1>3 DEF WatchGenerate
<1>4. ASSUME NEW w \in Workers, WatchStart(w) \/ WatchStop(w) PROVE Quiet /\ Forward
  <2>1. UNCHANGED <<text, origin, column>>
    BY <1>4 DEF WatchStart, WatchStop, sqlSideVars
  <2>2. Start(w) \/ Exit(w) \/ Crash(w)
    BY <1>4 DEF WatchStart, WatchStop
  <2>3. NoNewJob /\ Remains
    BY <2>2, WorkerStepFacts, WorkerRemains DEF Step
  <2>4. Settled /\ Forward
    BY <2>2, WorkerSettled, WorkerForward
  <2> QED BY <2>1, <2>3, <2>4 DEF Quiet
<1>5. ASSUME NEW w \in Workers, NEW o \in Outcomes(w), WatchClaimReturn(w, o)
      PROVE  Quiet /\ Forward
  <2>1. UNCHANGED <<text, origin, column>> /\ ClaimReturn(w, o)
    BY <1>5 DEF WatchClaimReturn, sqlSideVars
  <2>2. NoNewJob /\ Remains
    BY <2>1, WorkerStepFacts, WorkerRemains DEF Step
  <2>3. Settled /\ Forward
    BY <2>1, WorkerSettled, WorkerForward
  <2> QED BY <2>1, <2>2, <2>3 DEF Quiet
<1>6. ASSUME NEW w \in Workers, Unmapped(w) PROVE Quiet /\ (Forward \/ ClaimLock(w))
  <2>1. UNCHANGED <<text, origin, column>>
    BY <1>6 DEF Unmapped, sqlSideVars
  <2>2. \/ Signal(w) \/ LoseConnection(w) \/ ClaimLock(w) \/ ClaimNothing(w) \/ Sweep(w)
        \/ \E o \in Outcomes(w) : MarkDone(w, o) \/ MarkError(w, o) \/ Notify(w, o)
        \/ \E j \in Jobs : NoOutput(w, j) \/ \E o \in Outcomes(w) : WriteAdHoc(w, j, o)
    BY <1>6 DEF Unmapped
  <2>3. NoNewJob /\ Remains
    BY <2>2, WorkerStepFacts, WorkerRemains DEF Step
  <2>4. Settled /\ (Forward \/ ClaimLock(w))
    BY <2>2, WorkerSettled, WorkerForward
  <2> QED BY <2>1, <2>3, <2>4 DEF Quiet
<1>7. ASSUME NEW w \in Workers, NEW j \in Jobs,
             NoMappingFound(w, j) \/ \E o \in Outcomes(w) : Reload(w, j, o)
      PROVE  Quiet /\ Forward
  <2>1. UNCHANGED <<text, origin, column>>
    BY <1>7 DEF NoMappingFound, Reload, sqlSideVars
  <2>2. NoOutput(w, j) \/ \E o \in Outcomes(w) : LookUp(w, j, o)
    BY <1>7 DEF NoMappingFound, Reload
  <2>3. NoNewJob /\ Remains
    BY <2>2, WorkerStepFacts, WorkerRemains DEF Step
  <2>4. Settled /\ Forward
    BY <2>2, WorkerSettled, WorkerForward
  <2> QED BY <2>1, <2>3, <2>4 DEF Quiet
<1>8. CASE UNCHANGED watchVars
  BY <1>1, <1>8 DEF watchVars, queueVars, sqlSideVars
<1> QED
  BY <1>2, <1>3, <1>4, <1>5, <1>6, <1>7, <1>8 DEF WatchNext, WatchStep

\* What a row change enqueues: the next ids, for the new version of the row.
NewFor(s, S) ==
  /\ \A j \in S : \E t \in Types :
       /\ status[j] = "absent" /\ status'[j] = "pending"
       /\ kind'[j] = [type |-> t, adhoc |-> FALSE]
       /\ <<s, t>> \in Keys
       /\ origin'[j] = [source |-> s, version |-> text[s] + 1, into |-> watched[<<s, t>>]]
       /\ watched[<<s, t>>] # NoColumn
       /\ \A i \in Jobs : i < j /\ status[i] = "absent" => i \in S
  /\ \A j \in Jobs \ S : UNCHANGED <<status[j], kind[j], origin[j]>>

LEMMA RowChangeFacts ==
  ASSUME QueueInv, WatchInv, NEW s \in Sources, RowChange(s)
  PROVE  /\ text' = [text EXCEPT ![s] = @ + 1]
         /\ UNCHANGED <<effects, held, todo, watched, column, cache, sql>>
         /\ \E S \in SUBSET Jobs : NewFor(s, S)
<1> DEFINE n == Cardinality(Fired(s))
           S == NextIds(n)
<1>1. PICK by \in Bijection(S, Fired(s)) :
        /\ Enqueue(S, [j \in S |-> [type |-> by[j][2], adhoc |-> FALSE]])
        /\ origin' = [j \in Jobs |->
             IF j \in S THEN [source |-> s, version |-> text[s] + 1,
                              into |-> watched[<<s, by[j][2]>>]]
             ELSE origin[j]]
  BY DEF RowChange
<1>2. /\ text' = [text EXCEPT ![s] = @ + 1]
      /\ UNCHANGED <<watched, column, cache, sql>>
  BY DEF RowChange, cacheVars
<1>3. S \subseteq Jobs
  BY DEF NextIds
<1>4. n \in Int
  <2>1. IsFiniteSet(Types \X Types)
    <3>1. IsFiniteSet({"embed"}) /\ IsFiniteSet({"generate"})
      BY FS_Singleton
    <3>2. IsFiniteSet({"embed"} \cup {"generate"})
      BY <3>1, FS_Union
    <3>3. Types = {"embed"} \cup {"generate"}
      BY DEF Types
    <3>4. IsFiniteSet(Types)
      BY <3>2, <3>3
    <3> QED BY <3>4, FS_Product
  <2>2. Fired(s) \in SUBSET (Types \X Types)
    BY DEF Fired, Arguments, Types, WatchInv, WatchTypeOK
  <2>3. IsFiniteSet(Fired(s))
    BY <2>1, <2>2, FS_Subset
  <2> QED BY <2>3, FS_CardinalityType
<1> HIDE DEF n
<1>5. ASSUME NEW j \in S, NEW i \in Jobs, i < j, status[i] = "absent" PROVE i \in S
  BY <1>4, <1>5, NextIdsFirst
<1>6. ASSUME NEW j \in S
      PROVE  /\ by[j][2] \in Types /\ <<s, by[j][2]>> \in Keys
             /\ watched[<<s, by[j][2]>>] # NoColumn
  <2>1. by[j] \in Fired(s)
    BY DEF Bijection, Injection
  <2>2. by[j][2] \in Types
    BY <2>1 DEF Fired, Arguments, Types
  <2> QED BY <2>1, <2>2 DEF Keys, WatchInv, RegistryInv
<1> HIDE DEF S
<1>7. /\ \A j \in Jobs : status'[j] = IF j \in S THEN "pending" ELSE status[j]
      /\ \A j \in S : status[j] = "absent"
      /\ \A j \in S : kind'[j] = [type |-> by[j][2], adhoc |-> FALSE]
      /\ \A j \in Jobs \ S : kind'[j] = kind[j]
      /\ UNCHANGED <<effects, held, todo>>
  <2> DEFINE k == [j \in S |-> [type |-> by[j][2], adhoc |-> FALSE]]
  <2>1. \A j \in S : k[j] = [type |-> by[j][2], adhoc |-> FALSE]
    OBVIOUS
  <2>2. Enqueue(S, k)
    BY <1>1
  <2> HIDE DEF k
  <2> QED BY <1>3, <2>1, <2>2 DEF Enqueue, SetStatus, workerVars
<1>8. ASSUME NEW j \in S
      PROVE  \E t \in Types :
               /\ status[j] = "absent" /\ status'[j] = "pending"
               /\ kind'[j] = [type |-> t, adhoc |-> FALSE]
               /\ <<s, t>> \in Keys
               /\ origin'[j] = [source |-> s, version |-> text[s] + 1,
                                into |-> watched[<<s, t>>]]
               /\ watched[<<s, t>>] # NoColumn
               /\ \A i \in Jobs : i < j /\ status[i] = "absent" => i \in S
  <2>1. j \in Jobs
    BY <1>3
  <2>2. origin'[j] = [source |-> s, version |-> text[s] + 1, into |-> watched[<<s, by[j][2]>>]]
    BY <1>1, <2>1
  <2>3. by[j][2] \in Types
    BY <1>6
  <2> WITNESS by[j][2] \in Types
  <2> QED BY <1>5, <1>6, <1>7, <2>1, <2>2
<1>9. \A j \in Jobs \ S : UNCHANGED <<status[j], kind[j], origin[j]>>
  BY <1>1, <1>7
<1>10. NewFor(s, S)
  BY <1>8, <1>9 DEF NewFor
<1> QED BY <1>2, <1>3, <1>7, <1>10

\* An ad hoc job takes the next id, and has nothing to do with any mapping.
NewAdHoc(S) ==
  /\ \A j \in S :
       /\ status[j] = "absent" /\ status'[j] = "pending" /\ kind'[j].adhoc
       /\ \A i \in Jobs : i < j /\ status[i] = "absent" => i \in S
  /\ \A j \in Jobs \ S : UNCHANGED <<status[j], kind[j]>>

LEMMA AdHocFacts ==
  ASSUME AdHoc
  PROVE  /\ UNCHANGED <<effects, held, todo, text, watched, column, cache, sql, origin>>
         /\ \E S \in SUBSET Jobs : NewAdHoc(S)
<1> DEFINE S == NextIds(1)
<1>1. PICK k \in [S -> {x \in Kinds : x.adhoc}] : Enqueue(S, k)
  BY DEF AdHoc
<1>2. S \subseteq Jobs
  BY DEF NextIds
<1>3. ASSUME NEW j \in S, NEW i \in Jobs, i < j, status[i] = "absent" PROVE i \in S
  BY <1>3, NextIdsFirst
<1> HIDE DEF S
<1>4. /\ \A j \in S : status[j] = "absent" /\ status'[j] = "pending" /\ kind'[j] = k[j]
      /\ \A j \in Jobs \ S : UNCHANGED <<status[j], kind[j]>>
      /\ UNCHANGED <<effects, held, todo>>
  BY <1>1, <1>2 DEF Enqueue, SetStatus, workerVars
<1>5. UNCHANGED <<text, watched, column, cache, sql, origin>>
  BY DEF AdHoc, sqlSideVars, cacheVars
<1>6. \A j \in S : kind'[j].adhoc
  BY <1>1, <1>4
<1>7. NewAdHoc(S)
  BY <1>3, <1>4, <1>6 DEF NewAdHoc
<1> QED BY <1>2, <1>4, <1>5, <1>7

-----------------------------------------------------------------------------
(***************************************************************************)
(* Where the outputs go                                                    *)
(***************************************************************************)
ColumnsOf(k) == IF k[2] = "embed" THEN EmbedColumns ELSE TextColumns

\* Tables are watched with one column for each type, and not the same one for
\* both.
OneColumn ==
  /\ \A c, d \in EmbedColumns : c = d
  /\ \A c, d \in TextColumns : c = d
  /\ EmbedColumns \cap TextColumns = {}

\* Whatever the registry and the workers remember for a type is a column of
\* that type.
MemoryInv ==
  /\ \A k \in Keys : watched[k] \in ColumnsOf(k) \cup {NoColumn}
  /\ \A w \in Workers, k \in Keys :
       /\ cache[w][k] \in ColumnsOf(k) \cup {NoColumn}
       /\ sql[w][k] \in ColumnsOf(k) \cup {NoColumn}

\* A job was enqueued for such a column, and for a text that was there.
OriginInv ==
  \A j \in Jobs : Mapped(j) =>
    /\ origin[j].into \in ColumnsOf(Key(j))
    /\ origin[j].version \in 1 .. text[origin[j].source]

LEMMA ColumnsFacts ==
  ASSUME NEW k \in Keys
  PROVE  ColumnsOf(k) \subseteq Columns /\ NoColumn \notin ColumnsOf(k)
  BY WatchAssumption DEF ColumnsOf, Columns

\* A write-back sets the column of its job's type.
LEMMA WriteBackFacts ==
  ASSUME QueueInv, WatchInv, MemoryInv, NEW w \in Workers, NEW j \in Jobs,
         NEW o \in Outcomes(w), MappedWriteBack(w, j, o)
  PROVE  /\ NoNewJob /\ Remains /\ Forward /\ UNCHANGED <<text, origin, watched, cache>>
         /\ Mapped(j) /\ j \in todo[w] /\ Key(j) \in Keys
         /\ \A i \in Jobs \ {j} : effects'[i] = effects[i]
         /\ \E into \in ColumnsOf(Key(j)) :
              /\ sql' = [sql EXCEPT ![w] =
                           [x \in Keys |-> IF x \in SqlSlots(Key(j)) THEN into ELSE @[x]]]
              /\ \/ column' = [column EXCEPT ![<<Key(j)[1], into>>] = origin[j].version]
                 \/ column' = column /\ effects' = effects
<1>1. WriteBack(w, j, o)
  BY DEF MappedWriteBack
<1>2. NoNewJob /\ Remains /\ Forward /\ UNCHANGED <<text, origin, watched, cache>>
  BY <1>1, WorkerStepFacts, WorkerRemains, WorkerForward DEF Step, MappedWriteBack, sqlSideVars
<1>3. Mapped(j) /\ j \in todo[w]
  BY <1>1, WorkFacts DEF WriteBack, Mapped
<1>4. Key(j) \in Keys
  BY <1>3 DEF WatchInv, RegistryInv
<1>5. \A i \in Jobs \ {j} : effects'[i] = effects[i]
  BY <1>1 DEF WriteBack, TakesEffect, QueueInv, TypeOK
<1> DEFINE k == Key(j)
           into == IF sql[w][k] = NoColumn THEN cache[w][k] ELSE sql[w][k]
<1>6. into \in ColumnsOf(k)
  BY <1>4 DEF MappedWriteBack, MemoryInv
<1>7. /\ sql' = [sql EXCEPT ![w] = [x \in Keys |-> IF x \in SqlSlots(k) THEN into ELSE @[x]]]
      /\ IF Applied(o) THEN column' = [column EXCEPT ![<<k[1], into>>] = origin[j].version]
                       ELSE column' = column /\ effects' = effects
  BY <1>1 DEF MappedWriteBack, WriteBack
<1> HIDE DEF into
<1> QED BY <1>2, <1>3, <1>4, <1>5, <1>6, <1>7

LEMMA NextMemoryInv ==
  ASSUME QueueInv, WatchInv, MemoryInv, [WatchNext]_watchVars
  PROVE  MemoryInv'
<1> USE DEF MemoryInv
<1>1. ASSUME UNCHANGED <<watched, cache, sql>> PROVE MemoryInv'
  BY <1>1
<1>2. ASSUME NEW s \in Sources, NEW e \in EmbedColumns, NEW g,
             Watch(s, e) \/ (g \in TextColumns /\ WatchGenerate(s, e, g))
      PROVE  MemoryInv'
  <2> DEFINE k == <<s, "embed">>  l == <<s, "generate">>
  <2>1. /\ k \in Keys /\ l \in Keys /\ k # l
        /\ e \in ColumnsOf(k) /\ (g \in TextColumns => g \in ColumnsOf(l))
    BY DEF Keys, Types, ColumnsOf
  <2>2. /\ \/ watched' = [watched EXCEPT ![k] = e]
           \/ watched' = [watched EXCEPT ![k] = e, ![l] = g] /\ g \in TextColumns
        /\ UNCHANGED <<cache, sql>>
    BY <1>2 DEF Watch, WatchGenerate, cacheVars
  <2> HIDE DEF k, l
  <2>3. watched \in [Keys -> Columns \cup {NoColumn}]
    BY DEF WatchInv, WatchTypeOK
  <2>4. \A x \in Keys : watched'[x] \in ColumnsOf(x) \cup {NoColumn}
    BY <2>1, <2>2, <2>3
  <2> QED BY <2>2, <2>4
<1>3. CASE (\E s \in Sources : RowChange(s)) \/ AdHoc
  BY <1>1, <1>3 DEF RowChange, AdHoc, sqlSideVars, cacheVars
<1>4. ASSUME NEW w \in Workers, NEW C, cache' = [cache EXCEPT ![w] = C], C \in {watched, NoMapping},
             UNCHANGED watched, UNCHANGED sql \/ sql' = [sql EXCEPT ![w] = NoMapping]
      PROVE  MemoryInv'
  BY <1>4 DEF NoMapping, WatchInv, WatchTypeOK
<1>5. ASSUME NEW w \in Workers,
             \/ WatchStart(w) \/ WatchStop(w)
             \/ \E j \in Jobs : \E o \in Outcomes(w) : Reload(w, j, o)
      PROVE  MemoryInv'
  BY <1>4, <1>5 DEF WatchStart, WatchStop, Reload, sqlSideVars
<1>6. ASSUME NEW w \in Workers,
             \/ Unmapped(w) \/ \E j \in Jobs : NoMappingFound(w, j)
             \/ \E o \in Outcomes(w) : WatchClaimReturn(w, o)
      PROVE  MemoryInv'
  BY <1>1, <1>6 DEF Unmapped, NoMappingFound, WatchClaimReturn, sqlSideVars, cacheVars
<1>7. ASSUME NEW w \in Workers, NEW j \in Jobs, NEW o \in Outcomes(w), MappedWriteBack(w, j, o)
      PROVE  MemoryInv'
  <2>1. /\ UNCHANGED <<watched, cache>> /\ Key(j) \in Keys
        /\ \E into \in ColumnsOf(Key(j)) :
             sql' = [sql EXCEPT ![w] =
                       [x \in Keys |-> IF x \in SqlSlots(Key(j)) THEN into ELSE @[x]]]
    BY <1>7, WriteBackFacts
  <2> QED BY <2>1 DEF SqlSlots, WatchInv, WatchTypeOK
<1>8. CASE UNCHANGED watchVars
  BY <1>1, <1>8 DEF watchVars, sqlSideVars, cacheVars
<1> QED
  BY <1>2, <1>3, <1>5, <1>6, <1>7, <1>8 DEF WatchNext, WatchStep

LEMMA NextOriginInv ==
  ASSUME QueueInv, WatchInv, MemoryInv, OriginInv, [WatchNext]_watchVars
  PROVE  OriginInv'
<1>1. ASSUME UNCHANGED <<text, origin>>, NoNewJob PROVE OriginInv'
  BY <1>1 DEF OriginInv, NoNewJob, Mapped, Key
<1>2. ASSUME NEW s \in Sources, RowChange(s) PROVE OriginInv'
  <2>1. PICK S \in SUBSET Jobs : NewFor(s, S)
    BY <1>2, RowChangeFacts
  <2>2. text' = [text EXCEPT ![s] = @ + 1] /\ text \in [Sources -> Nat]
    BY <1>2, RowChangeFacts DEF WatchInv, WatchTypeOK
  <2>3. ASSUME NEW j \in S
        PROVE  /\ origin'[j].into \in ColumnsOf(Key(j)')
               /\ origin'[j].version \in 1 .. text'[origin'[j].source]
    <3>1. PICK t \in Types :
            /\ kind'[j] = [type |-> t, adhoc |-> FALSE]
            /\ <<s, t>> \in Keys
            /\ origin'[j] = [source |-> s, version |-> text[s] + 1,
                             into |-> watched[<<s, t>>]]
            /\ watched[<<s, t>>] # NoColumn
      BY <2>1 DEF NewFor
    <3>2. Key(j)' = <<s, t>>
      BY <3>1 DEF Key
    <3>3. origin'[j].source = s /\ origin'[j].version = text[s] + 1
          /\ origin'[j].into = watched[<<s, t>>]
      BY <3>1
    <3> QED BY <2>2, <3>1, <3>2, <3>3 DEF MemoryInv
  <2>4. ASSUME NEW j \in Jobs \ S, Mapped(j)'
        PROVE  /\ origin'[j].into \in ColumnsOf(Key(j)')
               /\ origin'[j].version \in 1 .. text'[origin'[j].source]
    <3>1. Mapped(j) /\ Key(j)' = Key(j) /\ origin'[j] = origin[j]
      BY <2>1, <2>4 DEF NewFor, Mapped, Key
    <3>2. origin[j].source \in Sources
      BY <3>1 DEF WatchInv, RegistryInv, Key, Keys
    <3> QED BY <2>2, <3>1, <3>2 DEF OriginInv
  <2> QED BY <2>3, <2>4 DEF OriginInv
<1>3. CASE AdHoc
  BY <1>3, AdHocFacts DEF NewAdHoc, OriginInv, Mapped, Key
<1>4. CASE \E w \in Workers, j \in Jobs : \E o \in Outcomes(w) : MappedWriteBack(w, j, o)
  BY <1>1, <1>4, WriteBackFacts
<1> QED BY <1>1, <1>2, <1>3, <1>4, StepKinds DEF Quiet

\* A committed write-back has filled the column its job was enqueued for.
Target(j) == <<origin[j].source, origin[j].into>>

FilledInv == \A j \in Jobs : Mapped(j) /\ effects[j] # 0 => column[Target(j)] # 0

\* With one column of each type, there is only one a write-back can set.
LEMMA OneTarget ==
  ASSUME OneColumn, WatchInv, OriginInv, NEW j \in Jobs, Mapped(j), NEW c \in ColumnsOf(Key(j))
  PROVE  c = origin[j].into /\ <<Key(j)[1], c>> = Target(j) /\ Target(j) \in Sources \X Columns
<1>1. Key(j) \in Keys /\ Key(j)[1] = origin[j].source
  BY DEF WatchInv, RegistryInv, Key
<1>2. c = origin[j].into
  BY DEF OneColumn, OriginInv, ColumnsOf
<1>3. c \in Columns /\ origin[j].source \in Sources
  BY <1>1, ColumnsFacts DEF Keys
<1> QED BY <1>1, <1>2, <1>3 DEF Target

LEMMA NextFilledInv ==
  ASSUME OneColumn, QueueInv, WatchInv, MemoryInv, OriginInv, FilledInv, [WatchNext]_watchVars
  PROVE  FilledInv'
<1>1. CASE Quiet
  BY <1>1 DEF Quiet, NoNewJob, Settled, FilledInv, Mapped, Target
<1>2. ASSUME NEW s \in Sources, RowChange(s) PROVE FilledInv'
  <2>1. PICK S \in SUBSET Jobs : NewFor(s, S)
    BY <1>2, RowChangeFacts
  <2>2. UNCHANGED <<effects, column>>
    BY <1>2, RowChangeFacts
  <2>3. \A j \in S : effects[j] = 0
    BY <2>1 DEF NewFor, QueueInv, OutcomeMatchesEffect, Ledger!OutcomeMatchesEffect
  <2>4. \A j \in Jobs \ S : (Mapped(j)' => Mapped(j)) /\ Target(j)' = Target(j)
    BY <2>1 DEF NewFor, Mapped, Target
  <2> QED BY <2>2, <2>3, <2>4 DEF FilledInv
<1>3. CASE AdHoc
  <2>1. PICK S \in SUBSET Jobs : NewAdHoc(S)
    BY <1>3, AdHocFacts
  <2>2. UNCHANGED <<effects, column, origin>>
    BY <1>3, AdHocFacts
  <2>3. \A j \in Jobs : (Mapped(j)' => Mapped(j)) /\ Target(j)' = Target(j)
    BY <2>1, <2>2 DEF NewAdHoc, Mapped, Target
  <2> QED BY <2>2, <2>3 DEF FilledInv
<1>4. ASSUME NEW w \in Workers, NEW j \in Jobs, NEW o \in Outcomes(w), MappedWriteBack(w, j, o)
      PROVE  FilledInv'
  <2>1. /\ NoNewJob /\ UNCHANGED origin /\ Mapped(j)
        /\ \A i \in Jobs \ {j} : effects'[i] = effects[i]
    BY <1>4, WriteBackFacts
  <2>2. \/ column' = [column EXCEPT ![Target(j)] = origin[j].version]
        \/ column' = column /\ effects' = effects
    BY <1>4, <2>1, WriteBackFacts, OneTarget
  <2>3. /\ origin[j].version # 0 /\ column \in [Sources \X Columns -> Nat]
        /\ Target(j) \in Sources \X Columns
    BY <2>1, OneTarget DEF OriginInv, WatchInv, WatchTypeOK
  <2>4. \A i \in Jobs : (Mapped(i)' => Mapped(i)) /\ Target(i)' = Target(i)
    BY <2>1 DEF NoNewJob, Mapped, Target
  <2>5. ASSUME NEW i \in Jobs, Mapped(i), effects'[i] # 0 PROVE column'[Target(i)] # 0
    <3>1. Target(i) \in Sources \X Columns
      BY <2>5, OneTarget DEF OriginInv
    <3> QED BY <2>1, <2>2, <2>3, <2>5, <3>1 DEF FilledInv
  <2> QED BY <2>4, <2>5 DEF FilledInv
<1> QED BY <1>1, <1>2, <1>3, <1>4, StepKinds

-----------------------------------------------------------------------------
(***************************************************************************)
(* The order in which they arrive                                          *)
(***************************************************************************)
\* Ids are handed out in order, ...
IdsInv ==
  \A i, j \in Jobs : i < j /\ status[j] # "absent" => status[i] # "absent"

\* ... so the jobs of one mapping are in the order of their texts.
VersionsInv ==
  \A i, j \in Jobs :
    i < j /\ Mapped(i) /\ Mapped(j) /\ Key(i) = Key(j) => origin[i].version <= origin[j].version

\* Of a mapping no two jobs were ever in workers' hands at a time, no job is
\* begun before the earlier ones are finished with, ...
TurnInv ==
  \A k \in Keys \ together : \A i, j \in JobsOf(k) : i < j /\ Begun(j) => Past(i)

\* ... and the column is as new as every output that was committed.
NewestInv ==
  \A k \in Keys \ together : \A j \in JobsOf(k) :
    effects[j] # 0 => column[Target(j)] >= origin[j].version

OrderInv == IdsInv /\ VersionsInv /\ TurnInv /\ NewestInv

\* The rows of the new jobs come after all others.
LEMMA NewIds ==
  ASSUME IdsInv, NEW S \in SUBSET Jobs,
         \A j \in S : status[j] = "absent" /\ status'[j] = "pending"
                      /\ \A i \in Jobs : i < j /\ status[i] = "absent" => i \in S,
         \A j \in Jobs \ S : status'[j] = status[j]
  PROVE  /\ IdsInv'
         /\ \A i \in S, j \in Jobs \ S : i < j => status[j] = "absent"
  BY DEF IdsInv

\* What a row change, or an ad hoc call, does not touch.
LEMMA Untouched ==
  ASSUME QueueInv, NEW S \in SUBSET Jobs,
         \A j \in S : status[j] = "absent" /\ status'[j] = "pending",
         \A j \in Jobs \ S : UNCHANGED <<status[j], kind[j], origin[j]>>,
         UNCHANGED <<effects, held, todo>>
  PROVE  /\ \A j \in Jobs \ S :
              /\ Mapped(j)' = Mapped(j) /\ Key(j)' = Key(j) /\ Target(j)' = Target(j)
              /\ Begun(j)' = Begun(j) /\ Past(j)' = Past(j)
         /\ \A j \in S : ~Begun(j)' /\ effects'[j] = 0
<1>1. \A w \in Workers : InHands(w)' = InHands(w)
  BY DEF InHands
<1>2. ASSUME NEW j \in S PROVE ~Begun(j)' /\ effects'[j] = 0
  <2>1. \A w \in Workers : j \notin InHands(w)
    BY InHandFacts DEF InHands
  <2>2. effects[j] = 0
    BY DEF QueueInv, OutcomeMatchesEffect, Ledger!OutcomeMatchesEffect
  <2> QED BY <1>1, <2>1, <2>2 DEF Begun
<1> QED BY <1>1, <1>2 DEF Mapped, Key, Target, Begun, Past

\* Jobs that come last, not begun, disturb no order.
LEMMA ClientOrder ==
  ASSUME QueueInv, WatchInv, OriginInv, OrderInv,
         (\E s \in Sources : RowChange(s)) \/ AdHoc, together \subseteq together'
  PROVE  OrderInv'
<1>1. ASSUME NEW S \in SUBSET Jobs,
             \A j \in S : status[j] = "absent" /\ status'[j] = "pending"
                          /\ \A i \in Jobs : i < j /\ status[i] = "absent" => i \in S,
             \A j \in Jobs \ S : UNCHANGED <<status[j], kind[j], origin[j]>>,
             UNCHANGED <<effects, held, todo, column>>
      PROVE  IdsInv' /\ TurnInv' /\ NewestInv'
             /\ \A i \in S, j \in Jobs \ S : i < j => ~Mapped(j)
  <2>1. IdsInv' /\ \A i \in S, j \in Jobs \ S : i < j => status[j] = "absent"
    BY <1>1, NewIds DEF OrderInv
  <2>2. /\ \A j \in Jobs \ S :
             /\ Mapped(j)' = Mapped(j) /\ Key(j)' = Key(j) /\ Target(j)' = Target(j)
             /\ Begun(j)' = Begun(j) /\ Past(j)' = Past(j)
        /\ \A j \in S : ~Begun(j)' /\ effects'[j] = 0
    BY <1>1, Untouched
  <2>3. \A i \in S, j \in Jobs \ S : i < j => ~Mapped(j)
    BY <2>1 DEF Mapped
  <2>4. TurnInv'
    <3> SUFFICES ASSUME NEW k \in Keys \ together', NEW i \in JobsOf(k)', NEW j \in JobsOf(k)',
                        i < j, Begun(j)'
                 PROVE  Past(i)'
      BY DEF TurnInv
    <3>1. i \in Jobs /\ j \in Jobs \ S /\ Mapped(j)
      BY <2>2 DEF JobsOf
    <3>2. i \in Jobs \ S
      BY <2>3, <3>1
    <3>3. i \in JobsOf(k) /\ j \in JobsOf(k) /\ Begun(j)
      BY <2>2, <3>1, <3>2 DEF JobsOf
    <3> QED BY <2>2, <3>2, <3>3 DEF OrderInv, TurnInv
  <2>5. NewestInv'
    <3> SUFFICES ASSUME NEW k \in Keys \ together', NEW j \in JobsOf(k)', effects'[j] # 0
                 PROVE  column'[Target(j)'] >= origin'[j].version
      BY DEF NewestInv
    <3>1. j \in Jobs \ S
      BY <2>2 DEF JobsOf
    <3>2. j \in JobsOf(k)
      BY <2>2, <3>1 DEF JobsOf
    <3> QED BY <1>1, <2>2, <3>1, <3>2 DEF OrderInv, NewestInv
  <2> QED BY <2>1, <2>3, <2>4, <2>5
<1>2. ASSUME NEW s \in Sources, RowChange(s) PROVE OrderInv'
  <2>1. PICK S \in SUBSET Jobs : NewFor(s, S)
    BY <1>2, RowChangeFacts
  <2>2. UNCHANGED <<effects, held, todo, column>>
    BY <1>2, RowChangeFacts
  <2>3. /\ IdsInv' /\ TurnInv' /\ NewestInv'
        /\ \A i \in S, j \in Jobs \ S : i < j => ~Mapped(j)
    BY <1>1, <2>1, <2>2 DEF NewFor
  <2>4. VersionsInv'
    <3> SUFFICES ASSUME NEW i \in Jobs, NEW j \in Jobs, i < j, Mapped(i)', Mapped(j)',
                        Key(i)' = Key(j)'
                 PROVE  origin'[i].version <= origin'[j].version
      BY DEF VersionsInv
    <3>1. \A x \in Jobs \ S : Mapped(x)' = Mapped(x) /\ Key(x)' = Key(x) /\ origin'[x] = origin[x]
      BY <2>1 DEF NewFor, Mapped, Key
    <3>2. ASSUME NEW x \in S PROVE origin'[x].source = s /\ origin'[x].version = text[s] + 1
      <4>1. PICK t \in Types :
              origin'[x] = [source |-> s, version |-> text[s] + 1, into |-> watched[<<s, t>>]]
        BY <2>1 DEF NewFor
      <4> QED BY <4>1
    <3>3. text[s] \in Nat
      BY DEF WatchInv, WatchTypeOK
    <3>4. CASE i \notin S /\ j \notin S
      BY <3>1, <3>4 DEF OrderInv, VersionsInv
    <3>5. CASE i \in S /\ j \in S
      BY <3>2, <3>3, <3>5
    <3>6. CASE i \notin S /\ j \in S
      <4>1. origin[i].source = s
        BY <3>1, <3>2, <3>6 DEF Key
      <4>2. origin[i].version \in 1 .. text[s]
        BY <3>1, <3>6, <4>1 DEF OriginInv
      <4> QED BY <3>1, <3>2, <3>3, <3>6, <4>2
    <3>7. CASE i \in S /\ j \notin S
      BY <2>3, <3>1, <3>7
    <3> QED BY <3>4, <3>5, <3>6, <3>7
  <2> QED BY <2>3, <2>4 DEF OrderInv
<1>3. CASE AdHoc
  <2>1. PICK S \in SUBSET Jobs : NewAdHoc(S)
    BY <1>3, AdHocFacts
  <2>2. UNCHANGED <<effects, held, todo, column, origin>>
    BY <1>3, AdHocFacts
  <2>3. IdsInv' /\ TurnInv' /\ NewestInv'
    BY <1>1, <2>1, <2>2 DEF NewAdHoc
  <2>4. \A j \in Jobs : Mapped(j)' => Mapped(j) /\ Key(j)' = Key(j)
    BY <2>1, <2>2 DEF NewAdHoc, Mapped, Key
  <2>5. VersionsInv'
    BY <2>2, <2>4 DEF OrderInv, VersionsInv
  <2> QED BY <2>3, <2>5 DEF OrderInv
<1> QED BY <1>2, <1>3

\* What the steps of the workers have in common.
LEMMA WorkerOrder ==
  ASSUME IdsInv, VersionsInv, NoNewJob, Remains, UNCHANGED origin
  PROVE  /\ IdsInv' /\ VersionsInv'
         /\ \A k : JobsOf(k)' \subseteq JobsOf(k)
         /\ \A j \in Jobs : Target(j)' = Target(j)
<1>1. IdsInv'
  BY DEF IdsInv, NoNewJob, Remains
<1>2. \A j \in Jobs : (Mapped(j)' => Mapped(j)) /\ Key(j)' = Key(j) /\ Target(j)' = Target(j)
  BY DEF NoNewJob, Mapped, Key, Target
<1>3. VersionsInv'
  BY <1>2 DEF VersionsInv
<1> QED BY <1>1, <1>2, <1>3 DEF JobsOf

\* A claim takes the earlier pending jobs with it, and what another worker
\* holds is in workers' hands together with it.
LEMMA ClaimOrder ==
  ASSUME QueueInv, NEW w \in Workers, ClaimLock(w), TurnInv, UNCHANGED origin,
         together \cup Overlapping' \subseteq together'
  PROVE  TurnInv'
<1> SUFFICES ASSUME NEW k \in Keys, k \notin together', NEW i \in JobsOf(k)', NEW j \in JobsOf(k)',
                    i < j, Begun(j)'
             PROVE  Past(i)'
  BY DEF TurnInv
<1>1. /\ UNCHANGED <<status, kind, todo>>
      /\ held[w] = {} /\ held'[w] = Lowest(Claimable, BatchSize)
      /\ \A v \in Workers \ {w} : held'[v] = held[v]
      /\ held \in [Workers -> SUBSET Jobs] /\ todo \in [Workers -> SUBSET Jobs]
  BY DEF ClaimLock, tableVars, QueueInv, TypeOK, Claiming
<1>2. JobsOf(k)' = JobsOf(k) /\ i \in Jobs /\ j \in Jobs
  BY <1>1 DEF JobsOf, Mapped, Key
<1>3. \A v \in Workers : InHands(v) \subseteq InHands(v)'
  BY <1>1 DEF InHands
<1>4. ~ (i \in UNION {InHands(v)' : v \in Workers} /\ j \in UNION {InHands(v)' : v \in Workers})
  <2>1. k \notin Overlapping'
    OBVIOUS
  <2>2. i # j
    BY <1>2, QueueAssumption
  <2> QED BY <1>2, <2>1, <2>2 DEF Overlapping
<1>5. CASE Begun(j)
  <2>1. Past(i)
    BY <1>2, <1>5 DEF TurnInv
  <2>2. i \notin Claimable
    BY <2>1 DEF Past, Claimable
  <2>3. \A v \in Workers : i \notin InHands(v)'
    BY <1>1, <2>1, <2>2 DEF Past, InHands, Lowest
  <2> QED BY <1>1, <2>1, <2>3 DEF Past
<1>6. CASE ~Begun(j)
  <2>1. j \in held'[w]
    BY <1>1, <1>6 DEF Begun, InHands
  <2>2. \A v \in Workers : i \notin InHands(v)'
    BY <1>4, <2>1 DEF InHands
  <2>3. status[i] # "pending"
    <3>1. SUFFICES ASSUME status[i] = "pending" PROVE FALSE
      OBVIOUS
    <3>2. i \in Claimable
      BY <1>2, <1>3, <2>2, <3>1 DEF Claimable, InHands
    <3>3. Claimable \in SUBSET Jobs /\ BatchSize \in Nat
      BY QueueAssumption DEF Claimable
    <3>4. i \in held'[w]
      BY <1>1, <2>1, <3>2, <3>3, LowestFirst
    <3> QED BY <2>2, <3>4 DEF InHands
  <2> QED BY <1>1, <2>2, <2>3 DEF Past
<1> QED BY <1>5, <1>6

LEMMA ForwardOrder ==
  ASSUME TurnInv, Forward, \A k : JobsOf(k)' \subseteq JobsOf(k), together \subseteq together'
  PROVE  TurnInv'
<1> SUFFICES ASSUME NEW k \in Keys, k \notin together', NEW i \in JobsOf(k)', NEW j \in JobsOf(k)',
                    i < j, Begun(j)'
             PROVE  Past(i)'
  BY DEF TurnInv
<1>1. i \in JobsOf(k) /\ j \in JobsOf(k) /\ i \in Jobs /\ j \in Jobs
  BY DEF JobsOf
<1>2. Begun(j)
  BY <1>1 DEF Forward
<1>3. Past(i)
  BY <1>1, <1>2 DEF TurnInv
<1> QED BY <1>1, <1>3 DEF Forward

\* The job being written is the newest of its mapping that was ever begun: all
\* later ones wait until it is finished with.
LEMMA WriteBackOrder ==
  ASSUME OneColumn, QueueInv, WatchInv, MemoryInv, OriginInv, OrderInv,
         NEW w \in Workers, NEW j \in Jobs, NEW o \in Outcomes(w), MappedWriteBack(w, j, o),
         together \subseteq together'
  PROVE  NewestInv'
<1>1. /\ NoNewJob /\ Remains /\ UNCHANGED origin /\ Mapped(j) /\ j \in todo[w]
      /\ \A i \in Jobs \ {j} : effects'[i] = effects[i]
  BY WriteBackFacts
<1>2. \/ column' = [column EXCEPT ![Target(j)] = origin[j].version]
      \/ column' = column /\ effects' = effects
  BY <1>1, WriteBackFacts, OneTarget
<1>3. /\ column \in [Sources \X Columns -> Nat] /\ Target(j) \in Sources \X Columns
      /\ origin[j].version \in Nat
  <2>1. origin[j].version \in Nat
    BY DEF WatchInv, WatchTypeOK, NoOrigin
  <2> QED BY <1>1, <2>1, OneTarget DEF OriginInv, WatchInv, WatchTypeOK
<1>4. (\A k : JobsOf(k)' \subseteq JobsOf(k)) /\ \A i \in Jobs : Target(i)' = Target(i)
  BY <1>1, WorkerOrder DEF OrderInv
<1> SUFFICES ASSUME NEW k \in Keys, k \notin together', NEW i \in JobsOf(k)', effects'[i] # 0
             PROVE  column'[Target(i)] >= origin[i].version
  BY <1>1, <1>4 DEF NewestInv, JobsOf
<1>5. i \in JobsOf(k) /\ i \in Jobs /\ Mapped(i) /\ Key(i) = k /\ Target(i) \in Sources \X Columns
      /\ origin[i].version \in Nat
  <2>1. i \in JobsOf(k) /\ i \in Jobs /\ Mapped(i) /\ Key(i) = k
    BY <1>4 DEF JobsOf
  <2>2. Target(i) \in Sources \X Columns
    BY <2>1, OneTarget DEF OriginInv
  <2>3. origin[i].version \in Nat
    BY <2>1 DEF WatchInv, WatchTypeOK, NoOrigin
  <2> QED BY <2>1, <2>2, <2>3
<1>6. CASE column' = column /\ effects' = effects
  BY <1>5, <1>6 DEF OrderInv, NewestInv
<1>7. CASE column' = [column EXCEPT ![Target(j)] = origin[j].version] /\ Target(i) # Target(j)
  <2>1. column'[Target(i)] = column[Target(i)] /\ i # j
    BY <1>3, <1>5, <1>7
  <2> QED BY <1>1, <1>5, <2>1 DEF OrderInv, NewestInv
<1>8. CASE column' = [column EXCEPT ![Target(j)] = origin[j].version] /\ Target(i) = Target(j)
  <2>1. column'[Target(i)] = origin[j].version
    BY <1>3, <1>8
  <2>2. Key(j) = k
    <3>1. origin[i].source = origin[j].source /\ origin[i].into = origin[j].into
      BY <1>8 DEF Target
    <3>2. /\ Key(i) = <<origin[i].source, kind[i].type>> /\ Key(j) = <<origin[j].source, kind[j].type>>
          /\ kind[i].type \in Types /\ kind[j].type \in Types
      BY <1>1, <1>5 DEF Key, WatchInv, RegistryInv, Keys
    <3>3. origin[i].into \in ColumnsOf(Key(i)) /\ origin[j].into \in ColumnsOf(Key(j))
      BY <1>1, <1>5 DEF OriginInv
    <3>4. kind[i].type = kind[j].type
      BY <3>1, <3>2, <3>3 DEF OneColumn, ColumnsOf, Types
    <3> QED BY <1>5, <3>1, <3>2, <3>4
  <2>3. ~(j < i)
    <3>1. SUFFICES ASSUME j < i PROVE FALSE
      OBVIOUS
    <3>2. effects[i] # 0
      BY <1>1, <1>5, <3>1, QueueAssumption
    <3>3. Begun(i)
      BY <1>5, <3>2 DEF Begun, QueueInv, OutcomeMatchesEffect, Ledger!OutcomeMatchesEffect
    <3>4. Past(j)
      BY <1>1, <1>5, <2>2, <3>1, <3>3 DEF OrderInv, TurnInv, JobsOf
    <3> QED BY <1>1, <3>4 DEF Past, InHands
  <2>4. i = j \/ i < j
    BY <1>5, <2>3, QueueAssumption
  <2>5. origin[i].version <= origin[j].version
    BY <1>1, <1>3, <1>5, <2>2, <2>4 DEF OrderInv, VersionsInv
  <2> QED BY <1>3, <1>5, <2>1, <2>5
<1> QED BY <1>2, <1>6, <1>7, <1>8

LEMMA NextOrderInv ==
  ASSUME OneColumn, QueueInv, WatchInv, MemoryInv, OriginInv, OrderInv, [WatchNext]_watchVars
  PROVE  OrderInv'
<1>1. together \subseteq together'
  BY DEF WatchNext, watchVars
<1>2. CASE Quiet
  <2>1. /\ IdsInv' /\ VersionsInv' /\ UNCHANGED <<origin, column>>
        /\ \A k : JobsOf(k)' \subseteq JobsOf(k)
        /\ \A j \in Jobs : Target(j)' = Target(j)
    BY <1>2, WorkerOrder DEF Quiet, OrderInv
  <2>2. Forward => TurnInv'
    BY <1>1, <2>1, ForwardOrder DEF OrderInv
  <2>3. ASSUME NEW w \in Workers, ClaimLock(w) PROVE TurnInv'
    <3>1. CASE UNCHANGED watchVars
      <4>1. Forward
        BY <3>1 DEF watchVars, queueVars, vars, Forward, Begun, Past, InHands
      <4> QED BY <2>2, <4>1
    <3>2. CASE WatchNext
      <4>1. together \cup Overlapping' \subseteq together'
        BY <3>2 DEF WatchNext
      <4> QED BY <2>1, <2>3, <4>1, ClaimOrder DEF OrderInv
    <3> QED BY <3>1, <3>2
  <2>4. NewestInv'
    <3> SUFFICES ASSUME NEW k \in Keys, k \notin together', NEW j \in JobsOf(k)', effects'[j] # 0
                 PROVE  column[Target(j)] >= origin[j].version
      BY <2>1 DEF NewestInv, JobsOf
    <3>1. j \in JobsOf(k) /\ j \in Jobs /\ ~kind[j].adhoc
      BY <2>1 DEF JobsOf, Mapped
    <3>2. effects[j] # 0
      BY <1>2, <3>1 DEF Quiet, Settled
    <3> QED BY <1>1, <3>1, <3>2 DEF OrderInv, NewestInv
  <2>5. \/ Forward \/ \E w \in Workers : ClaimLock(w)
        \/ \E s \in Sources : RowChange(s)
        \/ AdHoc
        \/ \E w \in Workers, j \in Jobs : \E o \in Outcomes(w) : MappedWriteBack(w, j, o)
    BY StepKinds
  <2> QED BY <1>1, <2>1, <2>2, <2>3, <2>4, <2>5, ClientOrder, WriteBackFacts DEF OrderInv
<1>3. CASE (\E s \in Sources : RowChange(s)) \/ AdHoc
  BY <1>1, <1>3, ClientOrder
<1>4. ASSUME NEW w \in Workers, NEW j \in Jobs, NEW o \in Outcomes(w), MappedWriteBack(w, j, o)
      PROVE  OrderInv'
  <2>1. NoNewJob /\ Remains /\ Forward /\ UNCHANGED origin
    BY <1>4, WriteBackFacts
  <2>2. IdsInv' /\ VersionsInv' /\ \A k : JobsOf(k)' \subseteq JobsOf(k)
    BY <2>1, WorkerOrder DEF OrderInv
  <2>3. TurnInv'
    BY <1>1, <2>1, <2>2, ForwardOrder DEF OrderInv
  <2>4. NewestInv'
    BY <1>1, <1>4, WriteBackOrder
  <2> QED BY <2>2, <2>3, <2>4 DEF OrderInv
<1> QED BY <1>2, <1>3, <1>4, StepKinds

-----------------------------------------------------------------------------
\* What is inductive, given OneColumn, QueueInv and WatchInv.
PlaceInv == MemoryInv /\ OriginInv /\ FilledInv /\ OrderInv

LEMMA InitPlaceInv == WatchInit => PlaceInv
<1> SUFFICES ASSUME WatchInit PROVE PlaceInv
  OBVIOUS
<1>1. (\A j \in Jobs : ~Mapped(j)) /\ \A j \in Jobs : status[j] = "absent"
  BY DEF WatchInit, Init, Mapped
<1>2. MemoryInv
  BY DEF WatchInit, MemoryInv, NoMapping
<1>3. \A k : JobsOf(k) = {}
  BY <1>1 DEF JobsOf
<1>4. TurnInv /\ NewestInv
  BY <1>3 DEF TurnInv, NewestInv
<1> QED BY <1>1, <1>2, <1>4 DEF PlaceInv, OriginInv, FilledInv, OrderInv, IdsInv, VersionsInv

LEMMA PlaceSafety == ASSUME OneColumn PROVE WatchSpec => []PlaceInv
<1>1. WatchInit => PlaceInv
  BY InitPlaceInv
<1>2. OneColumn /\ QueueInv /\ WatchInv /\ PlaceInv /\ [WatchNext]_watchVars => PlaceInv'
  BY NextMemoryInv, NextOriginInv, NextFilledInv, NextOrderInv DEF PlaceInv
<1>3. QueueInv /\ WatchInv /\ PlaceInv /\ [WatchNext]_watchVars => PlaceInv'
  BY <1>2
<1>4. WatchSpec => []QueueInv
  BY Composition, QueueSafety, PTL
<1> QED BY <1>1, <1>3, <1>4, WatchSafety, PTL DEF WatchSpec

\* As long as a table is watched with one column for each type, a job that is
\* done has filled the column that is registered.
THEOREM ColumnIsReached == ASSUME OneColumn PROVE WatchSpec => []ReachesWatchedColumn
<1>1. QueueInv /\ WatchInv /\ PlaceInv => ReachesWatchedColumn
  <2> SUFFICES ASSUME QueueInv, PlaceInv, NEW j \in Jobs, Mapped(j), status[j] = "done"
               PROVE  column[Target(j)] # 0
    BY DEF ReachesWatchedColumn, Target
  <2>1. effects[j] = 1
    BY DEF QueueInv, OutcomeMatchesEffect, Ledger!OutcomeMatchesEffect
  <2> QED BY <2>1 DEF PlaceInv, FilledInv
<1>2. WatchSpec => []QueueInv
  BY Composition, QueueSafety, PTL
<1> QED BY <1>1, <1>2, WatchSafety, PlaceSafety, PTL

\* And a mapping of which workers never held two jobs at a time ends with the
\* newest text, whatever batches, claims and failures there were.
THEOREM NewestIfApart == ASSUME OneColumn PROVE WatchSpec => []ApartNewestWins
<1>1. QueueInv /\ WatchInv /\ PlaceInv => ApartNewestWins
  <2> SUFFICES ASSUME QueueInv, WatchInv, PlaceInv, NEW k \in Keys \ together,
                      NEW j \in JobsOf(k), status[j] \in {"done", "purged"}
               PROVE  column[<<k[1], watched[k]>>] >= origin[j].version
    BY DEF ApartNewestWins, EndsNewest
  <2>1. j \in Jobs /\ Mapped(j) /\ Key(j) = k
    BY DEF JobsOf
  <2>2. effects[j] = 1
    BY <2>1 DEF QueueInv, OutcomeMatchesEffect, Ledger!OutcomeMatchesEffect
  <2>3. column[Target(j)] >= origin[j].version
    BY <2>2 DEF PlaceInv, OrderInv, NewestInv
  <2>4. watched[k] \in ColumnsOf(k)
    BY <2>1 DEF WatchInv, RegistryInv, PlaceInv, MemoryInv
  <2>5. <<k[1], watched[k]>> = Target(j)
    BY <2>1, <2>4, OneTarget DEF PlaceInv
  <2> QED BY <2>3, <2>5
<1>2. WatchSpec => []QueueInv
  BY Composition, QueueSafety, PTL
<1> QED BY <1>1, <1>2, WatchSafety, PlaceSafety, PTL
-----------------------------------------------------------------------------
(***************************************************************************)
(* What one change enqueues.  MemoryInv and OriginInv need no OneColumn:   *)
(* no column is given twice here, however tables are registered.           *)
(***************************************************************************)
\* A registration is replaced, never removed.
LEMMA StaysWatched ==
  ASSUME QueueInv, WatchInv, MemoryInv, [WatchNext]_watchVars, NEW k \in Keys,
         watched[k] # NoColumn
  PROVE  watched'[k] # NoColumn
<1>1. watched \in [Keys -> Columns \cup {NoColumn}] /\ NoColumn \notin Columns
  BY WatchAssumption DEF WatchInv, WatchTypeOK
<1>2. ASSUME NEW s \in Sources, NEW e \in EmbedColumns, Watch(s, e) PROVE watched'[k] # NoColumn
  BY <1>1, <1>2 DEF Watch, Columns
<1>3. ASSUME NEW s \in Sources, NEW e \in EmbedColumns, NEW g \in TextColumns,
             WatchGenerate(s, e, g)
      PROVE  watched'[k] # NoColumn
  BY <1>1, <1>3 DEF WatchGenerate, Columns
<1>4. CASE (\E s \in Sources : RowChange(s)) \/ AdHoc
  BY <1>4 DEF RowChange, AdHoc, sqlSideVars
<1>5. CASE \E w \in Workers :
             \/ WatchStart(w) \/ WatchStop(w) \/ Unmapped(w)
             \/ \E o \in Outcomes(w) : WatchClaimReturn(w, o)
             \/ \E j \in Jobs :
                  \/ NoMappingFound(w, j)
                  \/ \E o \in Outcomes(w) : Reload(w, j, o) \/ MappedWriteBack(w, j, o)
  BY <1>5 DEF WatchStart, WatchStop, Unmapped, WatchClaimReturn, NoMappingFound, Reload,
              MappedWriteBack, sqlSideVars
<1>6. CASE UNCHANGED watchVars
  BY <1>6 DEF watchVars, sqlSideVars
<1> QED
  BY <1>2, <1>3, <1>4, <1>5, <1>6 DEF WatchNext, WatchStep

\* Two jobs of one change and one type come from the two triggers, of which
\* watch()'s has the argument embed only.
LEMMA FiredTwice ==
  ASSUME WatchInv, NEW s \in Sources, NEW f \in Fired(s), NEW g \in Fired(s),
         f # g, f[2] = g[2]
  PROVE  /\ f[2] = "embed" /\ watched[<<s, "generate">>] # NoColumn
         /\ \A h \in Fired(s) : h # f /\ h[2] = f[2] => h = g
<1>1. \A h \in Fired(s) : /\ h = <<h[1], h[2]>> /\ h[1] \in triggers[s] /\ h[1] \in Types
                          /\ h[2] \in Arguments(h[1])
  BY DEF Fired, WatchInv, WatchTypeOK
<1>2. f[1] # g[1] /\ {f[1], g[1]} = Types
  BY <1>1 DEF Types
<1>3. f[2] = "embed"
  BY <1>1, <1>2 DEF Arguments, Types
<1>4. "generate" \in triggers[s]
  BY <1>1, <1>2 DEF Types
<1>5. <<"generate", "generate">> \in Fired(s)
  BY <1>4 DEF Fired, Arguments
<1>6. watched[<<s, "generate">>] # NoColumn
  BY <1>5 DEF WatchInv, RegistryInv
<1>7. ASSUME NEW h \in Fired(s), h # f, h[2] = f[2] PROVE h = g
  <2>1. h[1] # f[1] /\ h[1] \in Types
    BY <1>1, <1>7
  <2>2. h[1] = g[1]
    BY <1>2, <2>1 DEF Types
  <2> QED BY <1>1, <1>7, <2>2
<1> QED BY <1>3, <1>6, <1>7

\* The new jobs of a row change come one from each trigger and argument.
LEMMA RowChangeByTrigger ==
  ASSUME QueueInv, WatchInv, NEW s \in Sources, RowChange(s)
  PROVE  \E S \in SUBSET Jobs : \E by \in [S -> Fired(s)] :
           /\ \A i, j \in S : by[i] = by[j] => i = j
           /\ \A j \in S : /\ kind'[j].type = by[j][2]
                           /\ origin'[j].source = s /\ origin'[j].version = text[s] + 1
           /\ \A j \in Jobs \ S : UNCHANGED <<status[j], kind[j], origin[j]>>
<1> DEFINE S == NextIds(Cardinality(Fired(s)))
<1>1. PICK by \in Bijection(S, Fired(s)) :
        /\ Enqueue(S, [j \in S |-> [type |-> by[j][2], adhoc |-> FALSE]])
        /\ origin' = [j \in Jobs |->
             IF j \in S THEN [source |-> s, version |-> text[s] + 1,
                              into |-> watched[<<s, by[j][2]>>]]
             ELSE origin[j]]
  BY DEF RowChange
<1>2. S \subseteq Jobs
  BY DEF NextIds
<1> HIDE DEF S
<1>3. by \in [S -> Fired(s)] /\ \A i, j \in S : by[i] = by[j] => i = j
  BY <1>1 DEF Bijection, Injection, IsInjective
<1>4. /\ \A j \in S : kind'[j] = [type |-> by[j][2], adhoc |-> FALSE]
      /\ \A j \in Jobs \ S : UNCHANGED <<status[j], kind[j]>>
  <2> DEFINE k == [j \in S |-> [type |-> by[j][2], adhoc |-> FALSE]]
  <2>1. \A j \in S : k[j] = [type |-> by[j][2], adhoc |-> FALSE]
    OBVIOUS
  <2>2. Enqueue(S, k)
    BY <1>1
  <2> HIDE DEF k
  <2> QED BY <1>2, <2>1, <2>2 DEF Enqueue, SetStatus
<1>5. ASSUME NEW j \in S
      PROVE  /\ kind'[j].type = by[j][2]
             /\ origin'[j].source = s /\ origin'[j].version = text[s] + 1
  <2>1. origin'[j] = [source |-> s, version |-> text[s] + 1, into |-> watched[<<s, by[j][2]>>]]
    BY <1>1, <1>2
  <2>2. kind'[j] = [type |-> by[j][2], adhoc |-> FALSE]
    BY <1>4
  <2>3. origin'[j].source = s /\ origin'[j].version = text[s] + 1
    BY <2>1
  <2>4. kind'[j].type = by[j][2]
    BY <2>2
  <2> QED BY <2>3, <2>4
<1>6. \A j \in Jobs \ S : origin'[j] = origin[j]
  BY <1>1
<1> QED BY <1>2, <1>3, <1>4, <1>5, <1>6

\* The jobs of a new version are all new, so only two new jobs can be doubled
\* by a row change.
LEMMA RowChangeDoubles ==
  ASSUME QueueInv, WatchInv, OriginInv, DoublesAreEmbeds, NEW s \in Sources, RowChange(s)
  PROVE  DoublesAreEmbeds'
<1>1. PICK S \in SUBSET Jobs : \E by \in [S -> Fired(s)] :
        /\ \A i, j \in S : by[i] = by[j] => i = j
        /\ \A j \in S : /\ kind'[j].type = by[j][2]
                        /\ origin'[j].source = s /\ origin'[j].version = text[s] + 1
        /\ \A j \in Jobs \ S : UNCHANGED <<status[j], kind[j], origin[j]>>
  BY RowChangeByTrigger
<1>2. PICK by \in [S -> Fired(s)] :
        /\ \A i, j \in S : by[i] = by[j] => i = j
        /\ \A j \in S : /\ kind'[j].type = by[j][2]
                        /\ origin'[j].source = s /\ origin'[j].version = text[s] + 1
        /\ \A j \in Jobs \ S : UNCHANGED <<status[j], kind[j], origin[j]>>
  BY <1>1
<1>3. watched' = watched /\ text[s] \in Nat
  BY DEF RowChange, WatchInv, WatchTypeOK
<1>4. ASSUME NEW j \in Jobs \ S
      PROVE  Mapped(j)' = Mapped(j) /\ Key(j)' = Key(j) /\ origin'[j] = origin[j] /\ kind'[j] = kind[j]
  BY <1>2 DEF Mapped, Key
<1>5. ASSUME NEW i \in S, NEW j \in Jobs \ S PROVE ~Doubled(i, j)' /\ ~Doubled(j, i)'
  <2> SUFFICES ASSUME Mapped(j)', Key(i)' = Key(j)', origin'[i].version = origin'[j].version
               PROVE  FALSE
    BY DEF Doubled
  <2>1. Mapped(j) /\ origin[j].version \in 1 .. text[origin[j].source] /\ origin'[j] = origin[j]
    BY <1>4 DEF OriginInv
  <2>2. origin'[i].source = origin'[j].source
    BY DEF Key
  <2>3. origin[j].source = s /\ origin[j].version = text[s] + 1
    BY <1>2, <2>1, <2>2
  <2> QED BY <1>3, <2>1, <2>3
<1> SUFFICES ASSUME NEW i \in Jobs, NEW j \in Jobs, Doubled(i, j)'
             PROVE  /\ kind'[i].type = "embed"
                    /\ watched'[<<origin'[i].source, "generate">>] # NoColumn
                    /\ \A l \in Jobs : Doubled(i, l)' => l = j
  BY DEF DoublesAreEmbeds
<1>6. CASE i \in S
  <2>1. j \in S
    BY <1>5, <1>6
  <2>2. ASSUME NEW l \in S, Doubled(i, l)' PROVE by[l] # by[i] /\ by[l][2] = by[i][2]
    <3>1. kind'[i].type = kind'[l].type /\ i # l
      BY <2>2 DEF Doubled, Key
    <3> QED BY <1>2, <1>6, <3>1
  <2>3. by[i] # by[j] /\ by[i][2] = by[j][2] /\ by[i] \in Fired(s) /\ by[j] \in Fired(s)
    BY <1>6, <2>1, <2>2
  <2>4. /\ by[i][2] = "embed" /\ watched[<<s, "generate">>] # NoColumn
        /\ \A h \in Fired(s) : h # by[i] /\ h[2] = by[i][2] => h = by[j]
    BY <2>3, FiredTwice
  <2>5. kind'[i].type = "embed" /\ watched'[<<origin'[i].source, "generate">>] # NoColumn
    BY <1>2, <1>3, <1>6, <2>4
  <2>6. ASSUME NEW l \in Jobs, Doubled(i, l)' PROVE l = j
    <3>1. l \in S
      BY <1>5, <1>6, <2>6
    <3>2. by[l] = by[j]
      BY <2>2, <2>4, <2>6, <3>1
    <3> QED BY <1>2, <2>1, <3>1, <3>2
  <2> QED BY <2>5, <2>6
<1>7. CASE i \notin S
  <2>1. \A l \in Jobs : Doubled(i, l)' => Doubled(i, l)
    <3> SUFFICES ASSUME NEW l \in Jobs, Doubled(i, l)' PROVE Doubled(i, l)
      OBVIOUS
    <3>1. l \notin S
      BY <1>5, <1>7
    <3> QED BY <1>4, <1>7, <3>1 DEF Doubled
  <2>2. Doubled(i, j)
    BY <2>1
  <2> QED BY <1>3, <1>4, <1>7, <2>1, <2>2 DEF DoublesAreEmbeds
<1> QED BY <1>6, <1>7

\* A step that enqueues for no mapping doubles nothing.
LEMMA OtherDoubles ==
  ASSUME QueueInv, WatchInv, MemoryInv, DoublesAreEmbeds, [WatchNext]_watchVars,
         UNCHANGED origin, \A j \in Jobs : Mapped(j)' => Mapped(j) /\ kind'[j] = kind[j]
  PROVE  DoublesAreEmbeds'
<1>1. \A i, j \in Jobs : Doubled(i, j)' => Doubled(i, j) /\ kind'[i] = kind[i]
  BY DEF Doubled, Key
<1>2. ASSUME NEW i \in Jobs, NEW j \in Jobs, Doubled(i, j)',
             watched[<<origin[i].source, "generate">>] # NoColumn
      PROVE  watched'[<<origin'[i].source, "generate">>] # NoColumn
  <2>1. Key(i) \in Keys
    BY <1>1, <1>2 DEF Doubled, WatchInv, RegistryInv
  <2>2. <<origin[i].source, "generate">> \in Keys
    BY <2>1 DEF Key, Keys, Types
  <2> QED BY <1>2, <2>2, StaysWatched
<1> QED BY <1>1, <1>2 DEF DoublesAreEmbeds

\* Whatever the order of watch() and watch_generate(), a change enqueues at most
\* one generate job, and at most two embed jobs, two only where watch_generate()
\* has been called.
THEOREM OnlyEmbedsAreDoubled == WatchSpec => []DoublesAreEmbeds
<1> DEFINE DoubleInv == MemoryInv /\ OriginInv /\ DoublesAreEmbeds
<1>1. WatchInit => DoubleInv
  <2>1. WatchInit => \A j \in Jobs : ~Mapped(j)
    BY DEF WatchInit, Init, Mapped
  <2> QED BY <2>1, InitPlaceInv DEF PlaceInv, DoublesAreEmbeds, Doubled
<1>2. QueueInv /\ WatchInv /\ DoubleInv /\ [WatchNext]_watchVars => DoubleInv'
  <2> SUFFICES ASSUME QueueInv, WatchInv, DoubleInv, [WatchNext]_watchVars PROVE DoublesAreEmbeds'
    BY NextMemoryInv, NextOriginInv
  <2>1. CASE Quiet
    BY <2>1, OtherDoubles DEF Quiet, NoNewJob, Mapped
  <2>2. CASE \E s \in Sources : RowChange(s)
    BY <2>2, RowChangeDoubles
  <2>3. CASE AdHoc
    BY <2>3, AdHocFacts, OtherDoubles DEF NewAdHoc, Mapped
  <2>4. CASE \E w \in Workers, j \in Jobs : \E o \in Outcomes(w) : MappedWriteBack(w, j, o)
    BY <2>4, WriteBackFacts, OtherDoubles DEF NoNewJob, Mapped
  <2> QED BY <2>1, <2>2, <2>3, <2>4, StepKinds
<1>3. DoubleInv => DoublesAreEmbeds
  OBVIOUS
<1>4. WatchSpec => []QueueInv
  BY Composition, QueueSafety, PTL
<1> QED BY <1>1, <1>2, <1>3, <1>4, WatchSafety, PTL DEF WatchSpec
=============================================================================
