------------------------------ MODULE CostProofs ------------------------------
(***************************************************************************)
(* What faults cost: FaultCost of JobQueue and MissingCost of              *)
(* WatchedTables, for every number of jobs, workers and faults.            *)
(*                                                                         *)
(* Neither is inductive, because a worker whose connection is lost strands *)
(* its jobs one after the other, long after the fault.  So its whole batch *)
(* is counted as lost when the fault happens (Doomed, Bereft); then only a *)
(* step with a fault adds jobs, and those of one batch only.  A batch is   *)
(* at most BatchSize jobs, which is where the LIMIT of the claim is used.  *)
(***************************************************************************)
EXTENDS WatchedTablesProofs, FiniteSetTheorems

-----------------------------------------------------------------------------
(***************************************************************************)
(* Batches                                                                 *)
(***************************************************************************)
\* ORDER BY id LIMIT n returns at most n rows: the rows below are counted
\* with different numbers less than n for different rows.
LEMMA LimitHolds ==
  ASSUME NEW S \in SUBSET Nat, IsFiniteSet(S), NEW n \in Nat
  PROVE  IsFiniteSet(Lowest(S, n)) /\ Cardinality(Lowest(S, n)) <= n
<1> DEFINE Below(j) == {i \in S : i < j}
           rank == [j \in Lowest(S, n) |-> Cardinality(Below(j))]
<1>1. ASSUME NEW j \in S PROVE IsFiniteSet(Below(j)) /\ Cardinality(Below(j)) \in Nat
  <2>1. Below(j) \in SUBSET S
    OBVIOUS
  <2> QED BY <2>1, FS_Subset, FS_CardinalityType
<1>2. ASSUME NEW i \in S, NEW j \in S, i < j PROVE Cardinality(Below(i)) < Cardinality(Below(j))
  <2>1. Below(i) \in SUBSET Below(j)
    <3> SUFFICES ASSUME NEW k \in S, k < i PROVE k < j
      OBVIOUS
    <3>1. i \in Nat /\ j \in Nat /\ k \in Nat
      OBVIOUS
    <3> QED BY <1>2, <3>1
  <2>2. i \in Below(j) /\ i \notin Below(i)
    BY <1>2
  <2> HIDE DEF Below
  <2>3. Cardinality(Below(i)) <= Cardinality(Below(j))
        /\ Cardinality(Below(i)) # Cardinality(Below(j))
    BY <1>1, <2>1, <2>2, FS_Subset
  <2> QED BY <1>1, <2>3
<1>3. rank \in [Lowest(S, n) -> 0 .. n - 1]
  <2>1. \A j \in Lowest(S, n) : j \in S /\ Cardinality(Below(j)) < n
    BY DEF Lowest
  <2>2. \A j \in Lowest(S, n) : Cardinality(Below(j)) \in 0 .. n - 1
    <3> SUFFICES ASSUME NEW j \in Lowest(S, n) PROVE Cardinality(Below(j)) \in 0 .. n - 1
      OBVIOUS
    <3> HIDE DEF Below
    <3>1. Cardinality(Below(j)) \in Nat /\ Cardinality(Below(j)) < n
      BY <1>1, <2>1
    <3> QED BY <3>1
  <2> HIDE DEF Below
  <2> QED BY <2>2
<1>4. ASSUME NEW i \in Lowest(S, n), NEW j \in Lowest(S, n), rank[i] = rank[j] PROVE i = j
  <2>1. i \in S /\ j \in S
    BY LowestFacts
  <2>2. Cardinality(Below(i)) = Cardinality(Below(j))
    BY <1>4
  <2> HIDE DEF Below, rank
  <2>3. ~(i < j) /\ ~(j < i)
    BY <1>1, <1>2, <2>1, <2>2
  <2> QED BY <2>1, <2>3
<1> HIDE DEF rank
<1>5. rank \in Injection(Lowest(S, n), 0 .. n - 1)
  BY <1>3, <1>4 DEF Injection, IsInjective
<1>6. IsFiniteSet(0 .. n - 1) /\ Cardinality(0 .. n - 1) = n
  BY FS_Interval
<1> QED BY <1>5, <1>6, FS_Injection

\* All that a worker has to do with: what its claim has locked, what it has not
\* finished with, and what it has not notified of.
Batch(w) == held[w] \cup todo[w] \cup written[w]

\* written is reset with the notification: the next claim starts with nothing.
Reset(w) == written[w] # {} => pc[w] \in {"work", "mark", "fail", "notify"}

LEMMA BatchInJobs == ASSUME TypeOK, NEW w \in Workers PROVE Batch(w) \subseteq Jobs
  BY DEF TypeOK, Batch

-----------------------------------------------------------------------------
(***************************************************************************)
(* Lost jobs                                                               *)
(***************************************************************************)
\* No worker with a connection will finish j, or tell of it.
Untended(j) ==
  status[j] = "processing" /\ \A w \in Workers : conn[w] = "up" => j \notin todo[w]
Untold(j) ==
  /\ status[j] = "done" /\ j \notin heard
  /\ \A w \in Workers : conn[w] = "up" => j \notin written[w]

Doomed == {j \in Jobs : Untended(j) \/ Untold(j)}

LEMMA LostIsDoomed == ASSUME TypeOK PROVE Stranded \cup Silent \subseteq Doomed
  BY DEF Stranded, Silent, Doomed, Untended, Untold

\* A step of w: the other workers are as before, and outside of w's batch no
\* job is claimed or done, nor forgotten by the listener.
Within(w) ==
  /\ \A v \in Workers \ {w} :
       todo'[v] = todo[v] /\ written'[v] = written[v] /\ conn'[v] = conn[v]
  /\ \A j \in Jobs \ Batch(w) :
       status'[j] \in {"processing", "done"} => status'[j] = status[j]
  /\ heard \subseteq heard'

\* Such a step dooms no job outside of the batch ...
LEMMA OutsideIsSafe ==
  ASSUME NEW w \in Workers, Within(w)
  PROVE  Doomed' \subseteq Doomed \cup Batch(w)
<1> SUFFICES ASSUME NEW j \in Jobs, j \notin Batch(w), Untended(j)' \/ Untold(j)'
             PROVE  Untended(j) \/ Untold(j)
  BY DEF Doomed
<1>1. j \notin todo[w] /\ j \notin written[w]
  BY DEF Batch
<1>2. status[j] = status'[j]
  BY DEF Within, Untended, Untold
<1>3. \A v \in Workers \ {w} :
        todo'[v] = todo[v] /\ written'[v] = written[v] /\ conn'[v] = conn[v]
  BY DEF Within
<1>4. CASE Untended(j)'
  BY <1>1, <1>2, <1>3, <1>4 DEF Untended
<1>5. CASE Untold(j)'
  BY <1>1, <1>2, <1>3, <1>5 DEF Untold, Within
<1> QED BY <1>4, <1>5

\* ... and if the connection was lost before it, none at all: the batch is
\* counted already.
LEMMA LostStaysLost ==
  ASSUME NEW w \in Workers, Within(w), conn[w] = "lost",
         \A j \in Jobs : status'[j] = status[j], heard' = heard
  PROVE  Doomed' \subseteq Doomed
<1> SUFFICES ASSUME NEW j \in Jobs, Untended(j)' \/ Untold(j)'
             PROVE  Untended(j) \/ Untold(j)
  BY DEF Doomed
<1>1. \A v \in Workers \ {w} :
        todo'[v] = todo[v] /\ written'[v] = written[v] /\ conn'[v] = conn[v]
  BY DEF Within
<1>2. CASE Untended(j)'
  BY <1>1, <1>2 DEF Untended
<1>3. CASE Untold(j)'
  BY <1>1, <1>3 DEF Untold
<1> QED BY <1>2, <1>3

\* What a step of w may cost.
Cheap == faults' = faults /\ Doomed' \subseteq Doomed
Paid  == faults' = faults + 1

Accounted(w) ==
  /\ Within(w)
  /\ Batch(w)' \subseteq Batch(w) \/ Batch(w)' = Lowest(Claimable, BatchSize)
  /\ Reset(w)'
  /\ Cheap \/ Paid
  /\ \A v \in Workers \ {w} : Batch(v)' = Batch(v) /\ pc'[v] = pc[v]

LEMMA SendCost ==
  ASSUME TypeOK, NEW w \in Workers, NEW o, Send(w, o)
  PROVE  \/ Paid
         \/ faults' = faults /\ conn' = conn /\ conn[w] = "up" /\ o = "ok"
         \/ faults' = faults /\ conn' = conn /\ conn[w] = "lost" /\ o = "refused"
<1>1. conn[w] \in {"up", "lost"}
  BY DEF TypeOK
<1> QED BY <1>1 DEF Send, Outcomes, Paid

\* On a connection that is up and stays up, w may lose track of a job only if
\* it had done so before.
LEMMA KeepsTrack ==
  ASSUME NEW w \in Workers, Within(w), conn'[w] = "up",
         \A j \in Jobs :
           /\ status'[j] = "processing" /\ j \notin todo'[w] =>
                status[j] = "processing" /\ j \notin todo[w]
           /\ status'[j] = "done" /\ j \notin heard' /\ j \notin written'[w] =>
                status[j] = "done" /\ j \notin heard /\ j \notin written[w]
  PROVE  Doomed' \subseteq Doomed
<1> SUFFICES ASSUME NEW j \in Jobs, Untended(j)' \/ Untold(j)'
             PROVE  Untended(j) \/ Untold(j)
  BY DEF Doomed
<1>1. \A v \in Workers \ {w} :
        todo'[v] = todo[v] /\ written'[v] = written[v] /\ conn'[v] = conn[v]
  BY DEF Within
<1>2. CASE Untended(j)'
  BY <1>1, <1>2 DEF Untended
<1>3. CASE Untold(j)'
  BY <1>1, <1>3 DEF Untold
<1> QED BY <1>2, <1>3

\* So a statement costs nothing unless it is a fault, provided that w keeps
\* track of its jobs when it succeeds, and changes nothing when it is refused.
LEMMA StatementCost ==
  ASSUME TypeOK, NEW w \in Workers, NEW o, Send(w, o), Within(w),
         o = "ok" => \A j \in Jobs :
           /\ status'[j] = "processing" /\ j \notin todo'[w] =>
                status[j] = "processing" /\ j \notin todo[w]
           /\ status'[j] = "done" /\ j \notin heard' /\ j \notin written'[w] =>
                status[j] = "done" /\ j \notin heard /\ j \notin written[w],
         o = "refused" => heard' = heard /\ \A j \in Jobs : status'[j] = status[j]
  PROVE  Cheap \/ Paid
<1>1. CASE faults' = faults /\ conn' = conn /\ conn[w] = "up" /\ o = "ok"
  BY <1>1, KeepsTrack DEF Cheap
<1>2. CASE faults' = faults /\ conn' = conn /\ conn[w] = "lost" /\ o = "refused"
  BY <1>2, LostStaysLost DEF Cheap
<1> QED BY <1>1, <1>2, SendCost

LEMMA FinishedBatch ==
  ASSUME TypeOK, NEW w \in Workers, NEW j \in todo[w], NEW counted,
         counted \subseteq written[w] \cup {j}, Finished(w, j, counted)
  PROVE  /\ todo'[w] = todo[w] \ {j} /\ written'[w] = counted
         /\ \A v \in Workers \ {w} :
              todo'[v] = todo[v] /\ written'[v] = written[v] /\ pc'[v] = pc[v]
         /\ held' = held
         /\ Batch(w)' \subseteq Batch(w) /\ Reset(w)'
<1>1. /\ todo'[w] = todo[w] \ {j} /\ written'[w] = counted
      /\ \A v \in Workers \ {w} :
           todo'[v] = todo[v] /\ written'[v] = written[v] /\ pc'[v] = pc[v]
      /\ held' = held
  BY DEF TypeOK, Finished, Goto
<1>2. Batch(w)' \subseteq Batch(w)
  BY <1>1 DEF Batch
<1>3. Reset(w)'
  BY <1>1 DEF TypeOK, Finished, Goto, Reset
<1> QED BY <1>1, <1>2, <1>3

-----------------------------------------------------------------------------
(***************************************************************************)
(* The steps of a worker                                                   *)
(***************************************************************************)
LEMMA LifeCost ==
  ASSUME QueueInv, NEW w \in Workers, Reset(w),
         Start(w) \/ Signal(w) \/ Crash(w) \/ LoseConnection(w) \/ Exit(w)
  PROVE  Accounted(w)
<1>0. TypeOK /\ Claiming(w) /\ Dispatching(w)
  BY DEF QueueInv
<1>1. CASE Start(w)
  <2> USE <1>0, <1>1 DEF Start, Goto, tableVars, linkVars
  <2>1. Within(w)
    BY DEF Within
  <2>2. Cheap
    BY DEF Cheap, Doomed, Untended, Untold
  <2>3. Batch(w)' \subseteq Batch(w) /\ \A v \in Workers \ {w} : Batch(v)' = Batch(v) /\ pc'[v] = pc[v]
    BY DEF Batch, TypeOK
  <2>4. Reset(w)'
    BY DEF Reset
  <2> QED BY <2>1, <2>2, <2>3, <2>4 DEF Accounted
<1>2. CASE Signal(w)
  <2> USE <1>0, <1>2 DEF Signal, tableVars, linkVars
  <2>1. Within(w)
    BY DEF Within
  <2>2. Cheap
    BY DEF Cheap, Doomed, Untended, Untold
  <2>3. Batch(w)' \subseteq Batch(w) /\ \A v \in Workers \ {w} : Batch(v)' = Batch(v) /\ pc'[v] = pc[v]
    BY DEF Batch
  <2>4. Reset(w)'
    BY DEF Reset
  <2> QED BY <2>1, <2>2, <2>3, <2>4 DEF Accounted
<1>3. CASE LoseConnection(w)
  <2> USE <1>0, <1>3 DEF LoseConnection, workerVars, tableVars
  <2>1. Within(w)
    BY DEF Within, TypeOK
  <2>2. Paid
    BY DEF Paid
  <2>3. Batch(w)' \subseteq Batch(w) /\ \A v \in Workers \ {w} : Batch(v)' = Batch(v) /\ pc'[v] = pc[v]
    BY DEF Batch
  <2>4. Reset(w)'
    BY DEF Reset
  <2> QED BY <2>1, <2>2, <2>3, <2>4 DEF Accounted
<1>4. ASSUME Stopped(w)
      PROVE  /\ Reset(w)' /\ Batch(w)' = {}
             /\ \A v \in Workers \ {w} :
                  /\ todo'[v] = todo[v] /\ written'[v] = written[v] /\ conn'[v] = conn[v]
                  /\ held'[v] = held[v] /\ pc'[v] = pc[v]
  BY <1>0, <1>4 DEF Stopped, Goto, TypeOK, Reset, Batch
<1>5. CASE Crash(w)
  <2>1. Within(w)
    <3>1. \A j \in Jobs \ Batch(w) : status'[j] = status[j]
      BY <1>0, <1>5, StatusFacts DEF Crash, Batch, Status
    <3> QED BY <1>4, <1>5, <3>1 DEF Crash, Within
  <2>2. Paid
    BY <1>5 DEF Crash, Paid
  <2> QED BY <1>4, <1>5, <2>1, <2>2 DEF Accounted, Crash, Batch
<1>6. CASE Exit(w)
  <2>1. Within(w)
    BY <1>4, <1>6 DEF Exit, Within, tableVars
  <2>2. Batch(w) = {}
    BY <1>0, <1>6 DEF Exit, Batch, Claiming, Dispatching, Reset
  <2>3. Cheap
    BY <1>6, <2>1, <2>2, OutsideIsSafe DEF Exit, Cheap
  <2> QED BY <1>4, <1>6, <2>1, <2>3 DEF Accounted, Exit, Batch
<1> QED BY <1>1, <1>2, <1>3, <1>5, <1>6

LEMMA ClaimCost ==
  ASSUME QueueInv, NEW w \in Workers, Reset(w),
         ClaimLock(w) \/ ClaimNothing(w) \/ \E o \in Outcomes(w) : ClaimReturn(w, o)
  PROVE  Accounted(w)
<1>0. TypeOK /\ Claiming(w) /\ Dispatching(w)
  BY DEF QueueInv
<1>1. CASE ClaimLock(w)
  <2> USE <1>0, <1>1 DEF ClaimLock, Goto, tableVars, linkVars
  <2>1. Within(w)
    BY DEF Within
  <2>2. Cheap
    BY DEF Cheap, Doomed, Untended, Untold
  <2>3. Batch(w)' = Lowest(Claimable, BatchSize)
    <3>1. todo[w] = {} /\ written[w] = {}
      BY DEF Dispatching, Reset
    <3>2. held'[w] = Lowest(Claimable, BatchSize)
      BY DEF TypeOK
    <3> QED BY <3>1, <3>2 DEF Batch
  <2>4. \A v \in Workers \ {w} : Batch(v)' = Batch(v) /\ pc'[v] = pc[v]
    BY DEF Batch, TypeOK
  <2>5. Reset(w)'
    BY DEF Reset
  <2> QED BY <2>1, <2>2, <2>3, <2>4, <2>5 DEF Accounted
<1>2. CASE ClaimNothing(w)
  <2> USE <1>0, <1>2 DEF ClaimNothing, Goto, tableVars, linkVars
  <2>1. Within(w)
    BY DEF Within
  <2>2. Cheap
    BY DEF Cheap, Doomed, Untended, Untold
  <2>3. Batch(w)' \subseteq Batch(w) /\ \A v \in Workers \ {w} : Batch(v)' = Batch(v) /\ pc'[v] = pc[v]
    BY DEF Batch, TypeOK
  <2>4. Reset(w)'
    BY DEF Reset
  <2> QED BY <2>1, <2>2, <2>3, <2>4 DEF Accounted
<1>3. ASSUME NEW o \in Outcomes(w), ClaimReturn(w, o) PROVE Accounted(w)
  <2> USE <1>0, <1>3
  <2>1. todo[w] = {} /\ written[w] = {}
    BY DEF ClaimReturn, Dispatching, Reset
  <2>2. \A j \in Jobs : status'[j] = IF Applied(o) /\ j \in held[w] THEN "processing" ELSE status[j]
    BY StatusFacts DEF ClaimReturn, Status
  <2>3. /\ written' = written /\ heard' = heard /\ held'[w] = {}
        /\ todo'[w] = IF o = "ok" THEN held[w] ELSE todo[w]
        /\ \A v \in Workers \ {w} : todo'[v] = todo[v] /\ held'[v] = held[v] /\ pc'[v] = pc[v]
    BY DEF ClaimReturn, TypeOK, Goto
  <2>4. Send(w, o) /\ \A v \in Workers \ {w} : conn'[v] = conn[v]
    BY SendFacts DEF ClaimReturn
  <2>5. Within(w)
    BY <2>2, <2>3, <2>4 DEF Within, Batch
  <2>6. Cheap \/ Paid
    <3>1. o = "ok" => \A j \in Jobs :
            status'[j] = "processing" /\ j \notin todo'[w] =>
              status[j] = "processing" /\ j \notin todo[w]
      BY <2>1, <2>2, <2>3 DEF Applied
    <3>2. \A j \in Jobs : status'[j] = "done" => status[j] = "done"
      BY <2>2
    <3> QED BY <2>2, <2>3, <2>4, <2>5, <3>1, <3>2, StatementCost DEF Applied
  <2>7. Batch(w)' \subseteq Batch(w) /\ \A v \in Workers \ {w} : Batch(v)' = Batch(v)
    BY <2>3 DEF Batch
  <2>8. Reset(w)'
    BY <2>1, <2>3 DEF Reset
  <2> QED BY <2>3, <2>5, <2>6, <2>7, <2>8 DEF Accounted
<1> QED BY <1>1, <1>2, <1>3

LEMMA PauseCost ==
  ASSUME QueueInv, NEW w \in Workers, Reset(w), NEW j \in Jobs,
         \/ NoOutput(w, j)
         \/ \E o \in Outcomes(w) : LookUp(w, j, o) \/ WriteBack(w, j, o)
  PROVE  Accounted(w)
<1>0. TypeOK /\ Dispatching(w)
  BY DEF QueueInv
<1>1. /\ UNCHANGED <<status, heard, held, todo, written>>
      /\ \A v \in Workers \ {w} : pc'[v] = pc[v]
      /\ pc'[w] \in {"work", "mark", "fail"}
  BY <1>0 DEF NoOutput, LookUp, WriteBack, Pause, Goto, TypeOK, workerVars, tableVars
<1>2. (conn' = conn /\ faults' = faults) \/ \E o \in Outcomes(w) : Send(w, o)
  BY DEF NoOutput, LookUp, WriteBack, linkVars
<1>3. Within(w)
  <2>1. \A v \in Workers \ {w} : conn'[v] = conn[v]
    BY <1>0, <1>2, SendFacts
  <2> QED BY <1>1, <2>1 DEF Within
<1>4. Cheap \/ Paid
  <2>1. CASE conn' = conn /\ faults' = faults
    BY <1>1, <2>1 DEF Cheap, Doomed, Untended, Untold
  <2>2. ASSUME NEW o \in Outcomes(w), Send(w, o) PROVE Cheap \/ Paid
    <3>1. conn' = conn => Doomed' \subseteq Doomed
      BY <1>1 DEF Doomed, Untended, Untold
    <3> QED BY <1>0, <2>2, <3>1, SendCost DEF Cheap
  <2> QED BY <1>2, <2>1, <2>2
<1>5. /\ Batch(w)' \subseteq Batch(w) /\ Reset(w)'
      /\ \A v \in Workers \ {w} : Batch(v)' = Batch(v)
  BY <1>1 DEF Batch, Reset
<1> QED BY <1>1, <1>3, <1>4, <1>5 DEF Accounted

\* The statements that end w's work on job j, with its new status s.
LEMMA FinishCost ==
  ASSUME QueueInv, NEW w \in Workers, NEW j \in todo[w], NEW s \in {"done", "error"},
         NEW counted, NEW o, Send(w, o), Finished(w, j, counted),
         counted \subseteq written[w] \cup {j}, written[w] \subseteq counted,
         s = "done" => j \in counted,
         SetStatus(IF Applied(o) THEN {j} ELSE {}, s), heard' = heard
  PROVE  Accounted(w)
<1>0. TypeOK
  BY DEF QueueInv
<1>1. /\ todo'[w] = todo[w] \ {j} /\ written'[w] = counted
      /\ \A v \in Workers \ {w} :
           todo'[v] = todo[v] /\ written'[v] = written[v] /\ pc'[v] = pc[v]
      /\ held' = held
      /\ Batch(w)' \subseteq Batch(w) /\ Reset(w)'
  BY <1>0, FinishedBatch
<1>2. \A i \in Jobs : status'[i] = IF Applied(o) /\ i = j THEN s ELSE status[i]
  BY <1>0, StatusFacts DEF Status
<1>3. \A v \in Workers \ {w} : conn'[v] = conn[v]
  BY <1>0, SendFacts
<1>4. Within(w)
  BY <1>1, <1>2, <1>3 DEF Within, Batch
<1>5. Cheap \/ Paid
  <2>1. o = "ok" => \A i \in Jobs :
          /\ status'[i] = "processing" /\ i \notin todo'[w] =>
               status[i] = "processing" /\ i \notin todo[w]
          /\ status'[i] = "done" /\ i \notin heard' /\ i \notin written'[w] =>
               status[i] = "done" /\ i \notin heard /\ i \notin written[w]
    BY <1>1, <1>2 DEF Applied
  <2>2. o = "refused" => heard' = heard /\ \A i \in Jobs : status'[i] = status[i]
    BY <1>2 DEF Applied
  <2> QED BY <1>0, <1>4, <2>1, <2>2, StatementCost
<1>6. \A v \in Workers \ {w} : Batch(v)' = Batch(v)
  BY <1>1 DEF Batch
<1> QED BY <1>1, <1>4, <1>5, <1>6 DEF Accounted

LEMMA WriteAdHocCost ==
  ASSUME QueueInv, NEW w \in Workers, Reset(w), NEW j \in Jobs, NEW o, WriteAdHoc(w, j, o)
  PROVE  Accounted(w)
<1>0. TypeOK /\ j \in todo[w] /\ pc[w] = "work" /\ Send(w, o) /\ heard' = heard
  BY WorkFacts DEF QueueInv, WriteAdHoc
<1>1. CASE o = "ok"
  <2>1. SetStatus(IF Applied(o) THEN {j} ELSE {}, "done")
    BY <1>1 DEF WriteAdHoc, Applied
  <2>2. Finished(w, j, written[w] \cup {j})
    BY <1>1 DEF WriteAdHoc
  <2> QED BY <1>0, <2>1, <2>2, FinishCost
<1>2. CASE o # "ok"
  <2>1. /\ UNCHANGED <<held, todo, written>> /\ pc'[w] = "fail"
        /\ \A v \in Workers \ {w} : pc'[v] = pc[v]
    BY <1>0, <1>2 DEF WriteAdHoc, Pause, Goto, TypeOK
  <2>2. \A i \in Jobs \ {j} : status'[i] = status[i]
    BY <1>0, StatusFacts DEF WriteAdHoc, Status
  <2>3. o = "refused" => status' = status
    BY DEF WriteAdHoc, Applied
  <2>4. \A v \in Workers \ {w} : conn'[v] = conn[v]
    BY <1>0, SendFacts
  <2>5. Within(w)
    BY <1>0, <2>1, <2>2, <2>4 DEF Within, Batch
  <2>6. Cheap \/ Paid
    BY <1>0, <1>2, <2>3, <2>5, StatementCost
  <2> QED BY <1>0, <2>1, <2>5, <2>6 DEF Accounted, Batch, Reset
<1> QED BY <1>1, <1>2

LEMMA MarkCost ==
  ASSUME QueueInv, NEW w \in Workers, NEW o, MarkDone(w, o) \/ MarkError(w, o)
  PROVE  Accounted(w)
<1>1. cur[w] \in todo[w] /\ Send(w, o) /\ heard' = heard
  BY DEF QueueInv, Dispatching, MarkDone, MarkError
<1>2. CASE MarkDone(w, o)
  BY <1>1, <1>2, FinishCost DEF MarkDone
<1>3. CASE MarkError(w, o)
  BY <1>1, <1>3, FinishCost DEF MarkError
<1> QED BY <1>2, <1>3

LEMMA NotifyCost ==
  ASSUME QueueInv, NEW w \in Workers, NEW o, Notify(w, o)
  PROVE  Accounted(w)
<1>0. TypeOK /\ Send(w, o)
  BY DEF QueueInv, Notify
<1>1. /\ UNCHANGED <<status, held, todo>> /\ heard \subseteq heard'
      /\ written'[w] = {} /\ \A v \in Workers \ {w} : written'[v] = written[v] /\ pc'[v] = pc[v]
  BY <1>0 DEF Notify, Goto, TypeOK, tableVars
<1>2. Within(w)
  BY <1>0, <1>1, SendFacts DEF Within
<1>3. Cheap \/ Paid
  <2>1. o = "ok" => \A j \in Jobs : status[j] = "done" => j \in heard'
    BY DEF Notify, Applied
  <2>2. o = "refused" => heard' = heard
    BY DEF Notify, Applied
  <2> QED BY <1>0, <1>1, <1>2, <2>1, <2>2, StatementCost
<1> QED BY <1>1, <1>2, <1>3 DEF Accounted, Batch, Reset

LEMMA SweepCost ==
  ASSUME QueueInv, NEW w \in Workers, Reset(w), Sweep(w)
  PROVE  Accounted(w)
<1>0. TypeOK
  BY DEF QueueInv
<1>1. /\ UNCHANGED <<heard, held, todo, written>>
      /\ \A v \in Workers \ {w} : pc'[v] = pc[v]
      /\ written[w] = {}
  BY <1>0 DEF Sweep, Goto, TypeOK, Reset
<1>2. /\ Within(w)
      /\ Cheap \/ Paid
  <2>1. CASE UNCHANGED <<status, linkVars>>
    BY <1>1, <2>1 DEF Within, Cheap, Doomed, Untended, Untold, linkVars
  <2>2. ASSUME NEW o \in Outcomes(w), NEW S \in SUBSET {j \in Jobs : status[j] = "done"},
               Send(w, o), SetStatus(IF Applied(o) THEN S ELSE {}, "purged")
        PROVE  Within(w) /\ (Cheap \/ Paid)
    <3>1. \A j \in Jobs : status'[j] = IF Applied(o) /\ j \in S THEN "purged" ELSE status[j]
      BY <1>0, <2>2, StatusFacts DEF Status
    <3>2. \A v \in Workers \ {w} : conn'[v] = conn[v]
      BY <1>0, <2>2, SendFacts
    <3>3. Within(w)
      BY <1>1, <3>1, <3>2 DEF Within
    <3> QED BY <1>0, <1>1, <2>2, <3>1, <3>3, StatementCost DEF Applied
  <2> QED BY <2>1, <2>2 DEF Sweep
<1> QED BY <1>1, <1>2 DEF Accounted, Batch, Reset

LEMMA WorkerCost ==
  ASSUME QueueInv, NEW w \in Workers, Reset(w),
         Start(w) \/ Signal(w) \/ Crash(w) \/ LoseConnection(w) \/ Step(w)
  PROVE  Accounted(w)
<1>1. CASE Start(w) \/ Signal(w) \/ Crash(w) \/ LoseConnection(w) \/ Exit(w)
  BY <1>1, LifeCost
<1>2. CASE ClaimLock(w) \/ ClaimNothing(w) \/ \E o \in Outcomes(w) : ClaimReturn(w, o)
  BY <1>2, ClaimCost
<1>3. CASE Sweep(w)
  BY <1>3, SweepCost
<1>4. ASSUME NEW o \in Outcomes(w), MarkDone(w, o) \/ MarkError(w, o) \/ Notify(w, o)
      PROVE  Accounted(w)
  BY <1>4, MarkCost, NotifyCost
<1>5. ASSUME NEW j \in Jobs, NoOutput(w, j) PROVE Accounted(w)
  BY <1>5, PauseCost
<1>6. ASSUME NEW o \in Outcomes(w), NEW j \in Jobs,
             LookUp(w, j, o) \/ WriteAdHoc(w, j, o) \/ WriteBack(w, j, o)
      PROVE  Accounted(w)
  BY <1>6, PauseCost, WriteAdHocCost
<1> QED BY <1>1, <1>2, <1>3, <1>4, <1>5, <1>6 DEF Step

-----------------------------------------------------------------------------
(***************************************************************************)
(* The bound                                                               *)
(***************************************************************************)
CostInv ==
  /\ \A w \in Workers : Reset(w) /\ Cardinality(Batch(w)) <= BatchSize
  /\ Cardinality(Doomed) <= BatchSize * faults

LEMMA FiniteParts ==
  ASSUME IsFiniteSet(Jobs), NEW S \in SUBSET Jobs
  PROVE  IsFiniteSet(S) /\ Cardinality(S) \in Nat
  BY FS_Subset, FS_CardinalityType

LEMMA Grows ==
  ASSUME IsFiniteSet(Jobs), NEW S \in SUBSET Jobs, NEW T \in SUBSET Jobs,
         NEW U \in SUBSET (S \cup T)
  PROVE  /\ Cardinality(U) <= Cardinality(S) + Cardinality(T)
         /\ U \subseteq S => Cardinality(U) <= Cardinality(S)
<1>1. /\ IsFiniteSet(S) /\ IsFiniteSet(T)
      /\ Cardinality(S) \in Nat /\ Cardinality(T) \in Nat
      /\ IsFiniteSet(S \cup T) /\ Cardinality(S \cup T) \in Nat
      /\ Cardinality(S \cap T) \in Nat /\ Cardinality(U) \in Nat
  BY FiniteParts
<1>2. Cardinality(S \cup T) = Cardinality(S) + Cardinality(T) - Cardinality(S \cap T)
  BY <1>1, FS_Union
<1>3. Cardinality(U) <= Cardinality(S \cup T)
  BY <1>1, FS_Subset
<1>4. U \subseteq S => Cardinality(U) <= Cardinality(S)
  BY <1>1, FS_Subset
<1> QED BY <1>1, <1>2, <1>3, <1>4

LEMMA NextCostInv ==
  ASSUME IsFiniteSet(Jobs), QueueInv, TypeOK', CostInv, [Next]_vars
  PROVE  CostInv'
<1>0. /\ TypeOK /\ BatchSize \in Nat /\ faults \in Nat
      /\ Doomed \in SUBSET Jobs /\ Doomed' \in SUBSET Jobs
  BY QueueAssumption DEF QueueInv, TypeOK, Doomed
<1>1. ASSUME NEW w \in Workers, Accounted(w) PROVE CostInv'
  <2>1. ASSUME NEW v \in Workers PROVE Cardinality(Batch(v)') <= BatchSize
    <3>1. CASE Batch(v)' \subseteq Batch(v)
      <4>1. Batch(v) \in SUBSET Jobs /\ Batch(v)' \in SUBSET Jobs
        BY <1>0, <3>1, BatchInJobs
      <4>2. Cardinality(Batch(v)') <= Cardinality(Batch(v))
        BY <3>1, <4>1, Grows
      <4>3. Cardinality(Batch(v)) \in Nat /\ Cardinality(Batch(v)') \in Nat
        BY <4>1, FiniteParts
      <4> QED BY <1>0, <4>2, <4>3 DEF CostInv
    <3>2. CASE Batch(v)' = Lowest(Claimable, BatchSize)
      <4>1. Claimable \in SUBSET Jobs /\ Claimable \in SUBSET Nat
        BY QueueAssumption DEF Claimable
      <4> QED BY <1>0, <3>2, <4>1, LimitHolds, FiniteParts
    <3> QED BY <1>1, <3>1, <3>2 DEF Accounted
  <2>2. \A v \in Workers : Reset(v)'
    BY <1>1 DEF Accounted, CostInv, Reset, Within
  <2>3. Cardinality(Doomed') <= BatchSize * faults'
    <3>1. CASE Cheap
      <4>1. Cardinality(Doomed') <= Cardinality(Doomed)
        BY <1>0, <3>1, Grows DEF Cheap
      <4>2. Cardinality(Doomed) \in Nat /\ Cardinality(Doomed') \in Nat
        BY <1>0, FiniteParts
      <4> QED BY <1>0, <3>1, <4>1, <4>2 DEF CostInv, Cheap
    <3>2. CASE Paid
      <4>1. Batch(w) \in SUBSET Jobs
        BY <1>0, BatchInJobs
      <4>2. Cardinality(Doomed') <= Cardinality(Doomed) + Cardinality(Batch(w))
        BY <1>0, <1>1, <4>1, OutsideIsSafe, Grows DEF Accounted
      <4>3. /\ Cardinality(Doomed) \in Nat /\ Cardinality(Doomed') \in Nat
            /\ Cardinality(Batch(w)) \in Nat
        BY <1>0, <4>1, FiniteParts
      <4>4. Cardinality(Doomed) <= BatchSize * faults /\ Cardinality(Batch(w)) <= BatchSize
        BY DEF CostInv
      <4>5. BatchSize * faults' = BatchSize * faults + BatchSize
        BY <1>0, <3>2 DEF Paid
      <4>6. BatchSize * faults \in Nat
        BY <1>0
      <4> QED BY <1>0, <4>2, <4>3, <4>4, <4>5, <4>6
    <3> QED BY <1>1, <3>1, <3>2 DEF Accounted
  <2> QED BY <2>1, <2>2, <2>3 DEF CostInv
<1>2. ASSUME NEW S \in SUBSET Jobs, NEW k \in [S -> Kinds], Enqueue(S, k) PROVE CostInv'
  <2>1. \A j \in Jobs : status'[j] = IF j \in S THEN "pending" ELSE status[j]
    BY <1>0, <1>2, StatusFacts DEF Enqueue, Status
  <2>2. /\ UNCHANGED <<heard, pc, held, todo, written, conn, faults>>
    BY <1>2 DEF Enqueue, workerVars, linkVars
  <2>3. Doomed' \subseteq Doomed
    BY <2>1, <2>2 DEF Doomed, Untended, Untold
  <2>4. Cardinality(Doomed') <= Cardinality(Doomed)
    BY <1>0, <2>3, Grows
  <2>5. Cardinality(Doomed) \in Nat /\ Cardinality(Doomed') \in Nat
    BY <1>0, FiniteParts
  <2>6. Cardinality(Doomed') <= BatchSize * faults'
    BY <1>0, <2>2, <2>4, <2>5 DEF CostInv
  <2> QED BY <2>2, <2>6 DEF CostInv, Batch, Reset
<1>3. CASE UNCHANGED vars
  BY <1>3 DEF vars, CostInv, Batch, Reset, Doomed, Untended, Untold
<1>4. \A w \in Workers : Reset(w)
  BY DEF CostInv
<1> QED BY <1>1, <1>2, <1>3, <1>4, WorkerCost DEF Next

LEMMA CostSafety == ASSUME IsFiniteSet(Jobs) PROVE Spec => []CostInv
<1>1. Init => CostInv
  <2> SUFFICES ASSUME Init PROVE CostInv
    OBVIOUS
  <2>1. /\ Doomed = {} /\ \A w \in Workers : Batch(w) = {} /\ Reset(w)
    BY DEF Init, Doomed, Untended, Untold, Batch, Reset
  <2>2. Cardinality({}) = 0
    BY FS_EmptySet
  <2>3. BatchSize \in Nat /\ faults = 0
    BY QueueAssumption DEF Init
  <2> QED BY <2>1, <2>2, <2>3 DEF CostInv
<1>2. QueueInv /\ QueueInv' /\ CostInv /\ [Next]_vars => CostInv'
  BY NextCostInv DEF QueueInv
<1> QED BY <1>1, <1>2, QueueSafety, PTL DEF Spec

\* Crashes, broken connections, refused statements and lost replies strand or
\* silence no more jobs than one batch each, whenever they happen and however
\* many workers there are (no lease, no retry: job_store.cpp, worker_main.cpp).
THEOREM CostOfFaults == ASSUME IsFiniteSet(Jobs) PROVE Spec => []FaultCost
<1>1. QueueInv /\ CostInv => FaultCost
  <2> SUFFICES ASSUME QueueInv, CostInv PROVE FaultCost
    OBVIOUS
  <2>1. Stranded \cup Silent \subseteq Doomed /\ Doomed \in SUBSET Jobs
    BY LostIsDoomed DEF QueueInv, Doomed
  <2>2. Cardinality(Stranded \cup Silent) <= Cardinality(Doomed)
    BY <2>1, Grows
  <2>3. Cardinality(Stranded \cup Silent) \in Nat /\ Cardinality(Doomed) \in Nat
    BY <2>1, FiniteParts
  <2>4. BatchSize * faults \in Nat
    BY QueueAssumption DEF QueueInv, TypeOK
  <2> QED BY <2>2, <2>3, <2>4 DEF FaultCost, CostInv
<1> QED BY <1>1, QueueSafety, CostSafety, PTL

-----------------------------------------------------------------------------
(***************************************************************************)
(* Jobs that are failed for want of a mapping                              *)
(***************************************************************************)
\* If w looks for the mapping of j, it will not find one.
Blind(w, j) ==
  conn[w] = "lost" \/ (refreshed[w] /\ ~kind[j].adhoc /\ cache[w][Key(j)] = NoColumn)

Bereft == missing \cup {j \in Jobs : \E w \in Workers : j \in todo[w] /\ Blind(w, j)}

MissInv == Cardinality(Bereft) <= BatchSize * faults

\* A step of w as the other workers' caches see it.
Aside(w) ==
  /\ \A v \in Workers \ {w} : /\ todo'[v] = todo[v] /\ conn'[v] = conn[v]
                               /\ cache'[v] = cache[v] /\ refreshed'[v] = refreshed[v]
  /\ kind' = kind /\ origin' = origin

LEMMA AsideFacts ==
  ASSUME NEW w \in Workers, Aside(w), NEW v \in Workers \ {w}, NEW j
  PROVE  Blind(v, j)' = Blind(v, j) /\ todo'[v] = todo[v]
  BY DEF Aside, Blind, Key

\* What a step of w may add to the bill.
Bill(w) ==
  \/ faults' = faults /\ Bereft' \subseteq Bereft
  \/ Paid /\ Bereft' \subseteq Bereft \cup todo[w]

\* With a fault, the jobs in w's hands ...
LEMMA BilledOnce ==
  ASSUME NEW w \in Workers, Aside(w), Paid, todo'[w] \subseteq todo[w],
         missing' \subseteq missing \cup todo[w]
  PROVE  Bill(w)
<1> SUFFICES Bereft' \subseteq Bereft \cup todo[w]
  BY DEF Bill
<1>1. ASSUME NEW j \in Jobs, NEW v \in Workers, j \in todo'[v], Blind(v, j)'
      PROVE  j \in Bereft \cup todo[w]
  <2>1. CASE v = w
    BY <1>1, <2>1
  <2>2. CASE v # w
    BY <1>1, <2>2, AsideFacts DEF Bereft
  <2> QED BY <2>1, <2>2
<1> QED BY <1>1 DEF Bereft

\* ... and without, none that was not on it.
LEMMA NotBilled ==
  ASSUME NEW w \in Workers, Aside(w), faults' = faults, missing' \subseteq Bereft,
         \A j \in todo'[w] : Blind(w, j)' => j \in todo[w] /\ Blind(w, j)
  PROVE  Bill(w)
<1> SUFFICES Bereft' \subseteq Bereft
  BY DEF Bill
<1>1. ASSUME NEW j \in Jobs, NEW v \in Workers, j \in todo'[v], Blind(v, j)'
      PROVE  j \in Bereft
  <2>1. CASE v = w
    BY <1>1, <2>1 DEF Bereft
  <2>2. CASE v # w
    BY <1>1, <2>2, AsideFacts DEF Bereft
  <2> QED BY <2>1, <2>2
<1> QED BY <1>1 DEF Bereft

LEMMA BlindKept ==
  ASSUME NEW w, NEW j, conn'[w] = conn[w], cache' = cache, refreshed' = refreshed,
         kind' = kind, origin' = origin
  PROVE  Blind(w, j)' = Blind(w, j)
  BY DEF Blind, Key

LEMMA UnmappedBill ==
  ASSUME QueueInv, WatchInv, NEW w \in Workers, Accounted(w), Unmapped(w)
  PROVE  Bill(w)
<1>1. kind' = kind
  BY WorkerStepFacts DEF Unmapped, Step, NoNewJob
<1>2. todo'[w] \subseteq todo[w]
  BY TakesUpNothing DEF Unmapped
<1>3. UNCHANGED <<origin, cache, refreshed, missing>>
  BY DEF Unmapped, sqlSideVars, cacheVars
<1>4. Aside(w)
  BY <1>1, <1>3 DEF Aside, Accounted, Within
<1>5. Paid \/ (faults' = faults /\ conn' = conn)
  <2>1. CASE UNCHANGED linkVars \/ \E o : Send(w, o)
    BY <2>1, SendCost DEF QueueInv, linkVars
  <2>2. CASE LoseConnection(w)
    BY <2>2 DEF LoseConnection, Paid
  <2>3. UNCHANGED linkVars \/ (\E o : Send(w, o)) \/ LoseConnection(w)
    BY DEF Unmapped, Signal, ClaimLock, ClaimNothing, Sweep, MarkDone, MarkError, Notify,
           NoOutput, WriteAdHoc, linkVars
  <2> QED BY <2>1, <2>2, <2>3
<1>6. CASE Paid
  BY <1>2, <1>3, <1>4, <1>6, BilledOnce
<1>7. CASE faults' = faults /\ conn' = conn
  <2>1. \A j : Blind(w, j)' = Blind(w, j)
    BY <1>1, <1>3, <1>7, BlindKept
  <2>2. missing' \subseteq Bereft
    BY <1>3 DEF Bereft
  <2> QED BY <1>2, <1>4, <1>7, <2>1, <2>2, NotBilled
<1> QED BY <1>5, <1>6, <1>7

LEMMA LifeBill ==
  ASSUME QueueInv, WatchInv, NEW w \in Workers, Accounted(w), WatchStart(w) \/ WatchStop(w)
  PROVE  Bill(w)
<1>1. kind' = kind
  BY WorkerStepFacts DEF WatchStart, WatchStop, Step, NoNewJob
<1>2. todo'[w] = {}
  <2>1. todo[w] = {} \/ WatchStop(w)
    BY DEF WatchStart, Start, QueueInv, Dispatching
  <2> QED BY <2>1, TakesUpNothing DEF WatchStart, WatchStop
<1>3. /\ origin' = origin /\ missing' = missing
      /\ \A v \in Workers \ {w} : cache'[v] = cache[v] /\ refreshed'[v] = refreshed[v]
  BY DEF WatchStart, WatchStop, sqlSideVars, WatchInv, WatchTypeOK
<1>4. Aside(w)
  BY <1>1, <1>3 DEF Aside, Accounted, Within
<1>5. CASE Paid
  BY <1>2, <1>3, <1>4, <1>5, BilledOnce
<1>6. CASE Cheap
  BY <1>2, <1>3, <1>4, <1>6, NotBilled DEF Cheap, Bereft
<1> QED BY <1>5, <1>6 DEF Accounted

\* A batch begins with the right to reload, so nothing in it is lost yet.
LEMMA ClaimBill ==
  ASSUME QueueInv, WatchInv, NEW w \in Workers, Accounted(w),
         NEW o \in Outcomes(w), WatchClaimReturn(w, o)
  PROVE  Bill(w)
<1>1. kind' = kind
  BY WorkerStepFacts DEF WatchClaimReturn, Step, NoNewJob
<1>2. /\ UNCHANGED <<origin, cache, missing>>
      /\ \A v \in Workers \ {w} : refreshed'[v] = refreshed[v]
      /\ IF o = "ok" THEN ~refreshed'[w] ELSE refreshed' = refreshed /\ todo' = todo
  BY DEF WatchClaimReturn, ClaimReturn, BeginBatch, sqlSideVars, WatchInv, WatchTypeOK
<1>3. TypeOK /\ Send(w, o)
  BY DEF QueueInv, WatchClaimReturn, ClaimReturn
<1>4. Aside(w)
  BY <1>1, <1>2 DEF Aside, Accounted, Within
<1>5. CASE Paid
  <2>1. o # "ok"
    BY <1>3, <1>5 DEF Send, Paid, TypeOK
  <2> QED BY <1>2, <1>4, <1>5, <2>1, BilledOnce
<1>6. CASE faults' = faults /\ conn' = conn /\ conn[w] = "up" /\ o = "ok"
  <2>1. \A j : ~Blind(w, j)'
    BY <1>2, <1>6 DEF Blind
  <2> QED BY <1>2, <1>4, <1>6, <2>1, NotBilled DEF Bereft
<1>7. CASE faults' = faults /\ conn' = conn /\ conn[w] = "lost" /\ o = "refused"
  <2>1. \A j : Blind(w, j)' = Blind(w, j)
    BY <1>1, <1>2, <1>7, BlindKept
  <2> QED BY <1>2, <1>4, <1>7, <2>1, NotBilled DEF Bereft
<1> QED BY <1>3, <1>5, <1>6, <1>7, SendCost

\* A reload that is answered finds the mapping of every job of the batch; one
\* that is not is a fault, or comes on a connection lost before.
LEMMA ReloadBill ==
  ASSUME QueueInv, WatchInv, NEW w \in Workers, Accounted(w),
         NEW j \in Jobs, NEW o \in Outcomes(w), Reload(w, j, o)
  PROVE  Bill(w)
<1>1. kind' = kind /\ todo' = todo
  BY DEF Reload, LookUp, tableVars, workerVars
<1>2. /\ UNCHANGED <<origin, missing>>
      /\ \A v \in Workers \ {w} : cache'[v] = cache[v] /\ refreshed'[v] = refreshed[v]
      /\ o = "ok" => cache'[w] = watched
  BY DEF Reload, sqlSideVars, WatchInv, WatchTypeOK
<1>3. TypeOK /\ Send(w, o)
  BY DEF QueueInv, Reload, LookUp
<1>4. Aside(w)
  BY <1>1, <1>2 DEF Aside, Accounted, Within
<1>5. CASE Paid
  BY <1>1, <1>2, <1>4, <1>5, BilledOnce
<1>6. CASE faults' = faults /\ conn' = conn /\ conn[w] = "up" /\ o = "ok"
  <2>1. ASSUME NEW i \in todo'[w] PROVE ~Blind(w, i)'
    <3>1. ~kind[i].adhoc => watched[Key(i)] # NoColumn
      BY <1>1, InHandIsThere DEF WatchInv, RegistryInv, Mapped
    <3>2. Key(i)' = Key(i)
      BY <1>1, <1>2 DEF Key
    <3> QED BY <1>1, <1>2, <1>6, <3>1, <3>2 DEF Blind
  <2> QED BY <1>2, <1>4, <1>6, <2>1, NotBilled DEF Bereft
<1>7. CASE faults' = faults /\ conn' = conn /\ conn[w] = "lost" /\ o = "refused"
  BY <1>1, <1>2, <1>4, <1>7, NotBilled DEF Bereft, Blind
<1> QED BY <1>3, <1>5, <1>6, <1>7, SendCost

LEMMA FindBill ==
  ASSUME QueueInv, WatchInv, NEW w \in Workers, Accounted(w), NEW j \in Jobs,
         NoMappingFound(w, j) \/ \E o \in Outcomes(w) : MappedWriteBack(w, j, o)
  PROVE  Bill(w)
<1>1. kind' = kind /\ todo' = todo
  BY DEF NoMappingFound, NoOutput, MappedWriteBack, WriteBack, Pause, tableVars
<1>2. UNCHANGED <<origin, cache, refreshed>>
  BY DEF NoMappingFound, MappedWriteBack, sqlSideVars
<1>3. /\ missing' \subseteq Bereft /\ missing' \subseteq missing \cup todo[w]
  <2>1. CASE NoMappingFound(w, j)
    <3>1. j \in todo[w]
      BY <2>1, WorkFacts DEF NoMappingFound, NoOutput
    <3> QED BY <2>1, <3>1 DEF NoMappingFound, Bereft, Blind
  <2>2. CASE \E o \in Outcomes(w) : MappedWriteBack(w, j, o)
    BY <2>2 DEF MappedWriteBack, Bereft
  <2> QED BY <2>1, <2>2
<1>4. Aside(w)
  BY <1>1, <1>2 DEF Aside, Accounted, Within
<1>5. Paid \/ (faults' = faults /\ conn' = conn)
  BY SendCost DEF QueueInv, NoMappingFound, NoOutput, MappedWriteBack, WriteBack, linkVars
<1>6. CASE Paid
  BY <1>1, <1>3, <1>4, <1>6, BilledOnce
<1>7. CASE faults' = faults /\ conn' = conn
  <2>1. \A i : Blind(w, i)' = Blind(w, i)
    BY <1>1, <1>2, <1>7, BlindKept
  <2> QED BY <1>1, <1>3, <1>4, <1>7, <2>1, NotBilled
<1> QED BY <1>5, <1>6, <1>7

\* Clients concern no job in a worker's hands.
LEMMA ClientBill ==
  ASSUME QueueInv,
         \/ \E s \in Sources, e \in EmbedColumns : Watch(s, e)
         \/ \E s \in Sources, e \in EmbedColumns, g \in TextColumns : WatchGenerate(s, e, g)
         \/ \E s \in Sources : RowChange(s)
         \/ AdHoc
         \/ UNCHANGED watchVars
  PROVE  faults' = faults /\ Bereft' = Bereft
<1>1. /\ UNCHANGED <<todo, conn, faults, cache, refreshed, missing>>
  BY DEF Watch, WatchGenerate, RowChange, AdHoc, Enqueue, queueVars, vars, workerVars,
         linkVars, cacheVars, watchVars
<1>2. ASSUME NEW w \in Workers, NEW j \in todo[w] PROVE kind'[j] = kind[j] /\ origin'[j] = origin[j]
  <2>1. j \in Jobs /\ status[j] # "absent"
    BY InHandIsThere
  <2>2. ASSUME NEW S, NEW k, Enqueue(S, k) PROVE kind'[j] = kind[j] /\ j \notin S
    BY <2>1, <2>2 DEF Enqueue
  <2>3. CASE \E s \in Sources : RowChange(s)
    BY <2>1, <2>2, <2>3 DEF RowChange
  <2>4. CASE AdHoc
    BY <2>2, <2>4 DEF AdHoc, sqlSideVars
  <2>5. CASE \/ \E s \in Sources, e \in EmbedColumns : Watch(s, e)
             \/ \E s \in Sources, e \in EmbedColumns, g \in TextColumns : WatchGenerate(s, e, g)
             \/ UNCHANGED watchVars
    BY <2>5 DEF Watch, WatchGenerate, queueVars, vars, watchVars, sqlSideVars
  <2> QED BY <2>3, <2>4, <2>5
<1>3. ASSUME NEW w \in Workers, NEW j \in todo[w] PROVE Blind(w, j)' = Blind(w, j)
  BY <1>1, <1>2 DEF Blind, Key
<1> QED BY <1>1, <1>3 DEF Bereft

LEMMA NextMissInv ==
  ASSUME IsFiniteSet(Jobs), QueueInv, TypeOK', WatchInv, WatchInv', CostInv, MissInv,
         [WatchNext]_watchVars
  PROVE  MissInv'
<1>0. /\ TypeOK /\ BatchSize \in Nat /\ faults \in Nat
      /\ Bereft \in SUBSET Jobs /\ Bereft' \in SUBSET Jobs
  <2>1. TypeOK /\ BatchSize \in Nat /\ faults \in Nat
    BY QueueAssumption DEF QueueInv, TypeOK
  <2>2. missing \subseteq Jobs /\ missing' \subseteq Jobs
    BY DEF WatchInv, WatchTypeOK
  <2> QED BY <2>1, <2>2 DEF Bereft
<1>1. ASSUME NEW w \in Workers, Bill(w) PROVE MissInv'
  <2>1. todo[w] \in SUBSET Jobs
    BY <1>0 DEF TypeOK
  <2>2. /\ Cardinality(Bereft) \in Nat /\ Cardinality(Bereft') \in Nat
        /\ Cardinality(todo[w]) \in Nat /\ Cardinality(Batch(w)) \in Nat
    BY <1>0, <2>1, BatchInJobs, FiniteParts
  <2>3. Cardinality(todo[w]) <= BatchSize
    <3>1. todo[w] \in SUBSET Batch(w) /\ Batch(w) \in SUBSET Jobs
      BY <1>0, BatchInJobs DEF Batch
    <3>2. Cardinality(todo[w]) <= Cardinality(Batch(w))
      BY <2>1, <3>1, Grows
    <3> QED BY <1>0, <2>2, <3>2 DEF CostInv
  <2>4. CASE faults' = faults /\ Bereft' \subseteq Bereft
    <3>1. Cardinality(Bereft') <= Cardinality(Bereft)
      BY <1>0, <2>4, Grows
    <3> QED BY <1>0, <2>2, <2>4, <3>1 DEF MissInv
  <2>5. CASE Paid /\ Bereft' \subseteq Bereft \cup todo[w]
    <3>1. Cardinality(Bereft') <= Cardinality(Bereft) + Cardinality(todo[w])
      BY <1>0, <2>1, <2>5, Grows
    <3>2. BatchSize * faults' = BatchSize * faults + BatchSize /\ BatchSize * faults \in Nat
      BY <1>0, <2>5 DEF Paid
    <3> QED BY <1>0, <2>2, <2>3, <3>1, <3>2 DEF MissInv
  <2> QED BY <1>1, <2>4, <2>5 DEF Bill
<1>2. CASE \/ \E s \in Sources, e \in EmbedColumns : Watch(s, e)
           \/ \E s \in Sources, e \in EmbedColumns, g \in TextColumns : WatchGenerate(s, e, g)
           \/ \E s \in Sources : RowChange(s)
           \/ AdHoc
           \/ UNCHANGED watchVars
  BY <1>2, ClientBill DEF MissInv
<1>3. ASSUME NEW w \in Workers,
             \/ WatchStart(w) \/ WatchStop(w) \/ Unmapped(w)
             \/ \E o \in Outcomes(w) : WatchClaimReturn(w, o)
             \/ \E j \in Jobs :
                  \/ NoMappingFound(w, j)
                  \/ \E o \in Outcomes(w) : Reload(w, j, o) \/ MappedWriteBack(w, j, o)
      PROVE  MissInv'
  <2>1. Start(w) \/ Signal(w) \/ Crash(w) \/ LoseConnection(w) \/ Step(w)
    BY <1>3 DEF WatchStart, WatchStop, Unmapped, WatchClaimReturn, NoMappingFound, Reload,
                MappedWriteBack, Step
  <2>2. Accounted(w)
    BY <2>1, WorkerCost DEF CostInv
  <2>3. Bill(w)
    BY <1>3, <2>2, LifeBill, UnmappedBill, ClaimBill, ReloadBill, FindBill
  <2> QED BY <1>1, <2>3
<1> QED BY <1>2, <1>3 DEF WatchNext, WatchStep

\* A query that fails costs one batch of watched jobs at most, and the next
\* batch is looked up as if nothing had happened, for any number of tables,
\* workers and registrations (WatchCache::find, job_sql.hpp:30-32).
THEOREM CostOfFailedLookups == ASSUME IsFiniteSet(Jobs) PROVE WatchSpec => []MissingCost
<1>1. WatchInit => MissInv
  <2> SUFFICES ASSUME WatchInit PROVE MissInv
    OBVIOUS
  <2>1. Bereft = {} /\ faults = 0 /\ BatchSize \in Nat
    BY QueueAssumption DEF WatchInit, Init, Bereft
  <2> QED BY <2>1, FS_EmptySet DEF MissInv
<1>2. /\ QueueInv /\ QueueInv' /\ WatchInv /\ WatchInv' /\ CostInv /\ MissInv
      /\ [WatchNext]_watchVars
      => MissInv'
  BY NextMissInv DEF QueueInv
<1>3. WatchSpec => []QueueInv
  BY Composition, QueueSafety, PTL
<1>4. WatchSpec => []CostInv
  BY Composition, CostSafety, PTL
<1>5. QueueInv /\ WatchInv /\ MissInv => MissingCost
  <2> SUFFICES ASSUME QueueInv, WatchInv, MissInv PROVE MissingCost
    OBVIOUS
  <2>1. Bereft \in SUBSET Jobs /\ missing \in SUBSET Jobs /\ missing \subseteq Bereft
    BY DEF Bereft, WatchInv, WatchTypeOK
  <2>2. Cardinality(missing) <= Cardinality(Bereft)
    BY <2>1, Grows
  <2>3. Cardinality(missing) \in Nat /\ Cardinality(Bereft) \in Nat
    BY <2>1, FiniteParts
  <2>4. BatchSize * faults \in Nat
    BY QueueAssumption DEF QueueInv, TypeOK
  <2> QED BY <2>2, <2>3, <2>4 DEF MissingCost, MissInv
<1> QED BY <1>1, <1>2, <1>3, <1>4, <1>5, WatchSafety, PTL DEF WatchSpec
=============================================================================
