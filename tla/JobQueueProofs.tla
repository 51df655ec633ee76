---------------------------- MODULE JobQueueProofs ----------------------------
(***************************************************************************)
(* What JobQueue promises, for every number of jobs, workers and faults.   *)
(*                                                                         *)
(* QueueInv is inductive.  The proof has one step per action, and under it *)
(* one per conjunct.  The facts about a statement (Send) and about an      *)
(* UPDATE of the status (SetStatus) that every action needs come first, as *)
(* lemmas, so that no later step expands them.                             *)
(***************************************************************************)
EXTENDS JobQueue, FiniteSetTheorems, TLAPS

-----------------------------------------------------------------------------
(***************************************************************************)
(* The building blocks of the actions                                      *)
(***************************************************************************)
\* Sending a statement touches the worker's own connection only.  On a lost
\* connection nothing is applied and it stays lost; a reply that is lost takes
\* the connection with it.
LEMMA SendFacts ==
  ASSUME TypeOK, NEW w \in Workers, NEW o, Send(w, o)
  PROVE  /\ conn' \in [Workers -> {"up", "lost"}]
         /\ faults' \in 0 .. MaxFaults
         /\ \A v \in Workers \ {w} : conn'[v] = conn[v]
         /\ o \in {"ok", "refused", "unheard"}
         /\ conn[w] = "lost" => o = "refused" /\ conn'[w] = "lost"
         /\ o = "unheard" => conn'[w] = "lost"
  BY QueueAssumption DEF TypeOK, Send, Outcomes

\* An UPDATE of jobs.status changes the rows it names and no others.
LEMMA StatusFacts ==
  ASSUME TypeOK, NEW S, NEW s \in Status, SetStatus(S, s)
  PROVE  /\ status' \in [Jobs -> Status]
         /\ \A j \in Jobs : status'[j] = IF j \in S THEN s ELSE status[j]
  BY DEF TypeOK, SetStatus

\* What a claim locks is claimable.
LEMMA LowestFacts == ASSUME NEW S, NEW n PROVE Lowest(S, n) \subseteq S
  BY DEF Lowest

\* A job in a worker's hands is a job the worker can only find processing,
\* unless it is the one it is about to fail.
LEMMA InHandFacts ==
  ASSUME QueueInv, NEW w \in Workers, NEW j \in InHands(w)
  PROVE  /\ j \in Jobs
         /\ j \in held[w] => status[j] = "pending" /\ effects[j] = 0
         /\ j \in todo[w] => status[j] \in {"processing", "done", "purged"}
<1>1. Claiming(w) /\ Dispatching(w)
  BY DEF QueueInv
<1>2. j \in Jobs
  BY DEF QueueInv, TypeOK, InHands
<1>3. j \in held[w] => status[j] = "pending" /\ effects[j] = 0
  <2>1. j \in held[w] => status[j] = "pending"
    BY <1>1 DEF Claiming
  <2>2. status[j] = "pending" => effects[j] = 0
    BY <1>2 DEF QueueInv, OutcomeMatchesEffect, Ledger!OutcomeMatchesEffect
  <2> QED BY <2>1, <2>2
<1>4. j \in todo[w] => status[j] \in {"processing", "done", "purged"}
  <2>1. CASE j = cur[w]
    BY <1>1, <1>2, <2>1, QueueAssumption DEF Dispatching, NoJob
  <2>2. CASE j # cur[w]
    BY <1>1, <2>2 DEF Dispatching
  <2> QED BY <2>1, <2>2
<1> QED BY <1>2, <1>3, <1>4

-----------------------------------------------------------------------------
(***************************************************************************)
(* Framing.  A step of worker w, or of nobody, leaves the other workers    *)
(* alone, and of the jobs in their hands it changes nothing but, in a      *)
(* retention sweep, a done one to purged.                                  *)
(***************************************************************************)
LeavesAlone(v) ==
  /\ pc'[v] = pc[v] /\ held'[v] = held[v] /\ todo'[v] = todo[v]
  /\ cur'[v] = cur[v] /\ conn'[v] = conn[v]
  /\ \A j \in InHands(v) :
       /\ effects'[j] = effects[j]
       /\ status'[j] = status[j] \/ (status[j] = "done" /\ status'[j] = "purged")

LEMMA Framing ==
  ASSUME QueueInv, NEW v \in Workers, LeavesAlone(v)
  PROVE  Claiming(v)' /\ Dispatching(v)'
<1>1. held[v] \subseteq InHands(v) /\ todo[v] \subseteq InHands(v)
  BY DEF InHands
<1>2. pc[v] \in {"mark", "fail"} => cur[v] \in InHands(v)
  BY DEF QueueInv, Dispatching, InHands
<1>3. Claiming(v)'
  BY <1>1 DEF QueueInv, Claiming, LeavesAlone
<1>4. Dispatching(v)'
  BY <1>1, <1>2 DEF QueueInv, Dispatching, LeavesAlone
<1> QED BY <1>3, <1>4

\* So what is left to show of a step of w is about w, and about the table.
LEMMA StepOf ==
  ASSUME QueueInv, NEW w \in Workers,
         TypeOK', OutcomeMatchesEffect', Claiming(w)', Dispatching(w)',
         \A v \in Workers \ {w} : LeavesAlone(v) /\ InHands(v) \cap InHands(w)' = {}
  PROVE  QueueInv'
<1>1. ASSUME NEW v \in Workers \ {w} PROVE Claiming(v)' /\ Dispatching(v)'
  BY Framing
<1>2. ASSUME NEW v \in Workers \ {w} PROVE InHands(v)' = InHands(v)
  BY DEF LeavesAlone, InHands
<1>3. ExclusiveHold'
  BY <1>2 DEF QueueInv, ExclusiveHold
<1> QED BY <1>1, <1>3 DEF QueueInv

\* Most steps of w touch the jobs in its own hands only, and take up no new
\* one: then the other workers are left alone because no hand is shared.
KeepsToItself(w) ==
  /\ \A v \in Workers \ {w} :
       /\ pc'[v] = pc[v] /\ held'[v] = held[v] /\ todo'[v] = todo[v]
       /\ cur'[v] = cur[v] /\ conn'[v] = conn[v]
  /\ InHands(w)' \subseteq InHands(w)
  /\ \A j \in Jobs \ InHands(w) : status'[j] = status[j] /\ effects'[j] = effects[j]

LEMMA OwnStepOf ==
  ASSUME QueueInv, NEW w \in Workers,
         TypeOK', OutcomeMatchesEffect', Claiming(w)', Dispatching(w)',
         KeepsToItself(w)
  PROVE  QueueInv'
<1>1. ASSUME NEW v \in Workers \ {w}
      PROVE  InHands(v) \cap InHands(w) = {} /\ InHands(v) \subseteq Jobs
  BY DEF QueueInv, ExclusiveHold, TypeOK, InHands
<1>2. ASSUME NEW v \in Workers \ {w}
      PROVE  LeavesAlone(v) /\ InHands(v) \cap InHands(w)' = {}
  BY <1>1 DEF KeepsToItself, LeavesAlone
<1> QED BY <1>2, StepOf

\* Nothing about who holds what changes: a step of the clients.
LEMMA StepOfNobody ==
  ASSUME QueueInv, TypeOK', OutcomeMatchesEffect', \A v \in Workers : LeavesAlone(v)
  PROVE  QueueInv'
<1>1. ASSUME NEW v \in Workers PROVE Claiming(v)' /\ Dispatching(v)'
  BY Framing
<1>2. ASSUME NEW v \in Workers PROVE InHands(v)' = InHands(v)
  BY DEF LeavesAlone, InHands
<1>3. ExclusiveHold'
  BY <1>2 DEF QueueInv, ExclusiveHold
<1> QED BY <1>1, <1>3 DEF QueueInv

-----------------------------------------------------------------------------
(***************************************************************************)
(* The shapes in which a dispatch step leaves its worker                   *)
(***************************************************************************)
\* The worker stops looking at job j, and holds nothing new.
LEMMA PauseFacts ==
  ASSUME TypeOK, NEW w \in Workers, NEW j \in Jobs, NEW place \in Places,
         Pause(w, j, place)
  PROVE  /\ pc' \in [Workers -> Places] /\ cur' \in [Workers -> Jobs \cup {NoJob}]
         /\ pc'[w] = place /\ cur'[w] = j
         /\ \A v \in Workers \ {w} : pc'[v] = pc[v] /\ cur'[v] = cur[v]
         /\ UNCHANGED <<held, todo, written, shutdown>>
  BY DEF TypeOK, Pause, Goto

\* The worker lets job j go.
LEMMA FinishedFacts ==
  ASSUME TypeOK, NEW w \in Workers, NEW j \in todo[w], NEW counted \in SUBSET Jobs,
         Finished(w, j, counted)
  PROVE  /\ pc' \in [Workers -> Places] /\ cur' \in [Workers -> Jobs \cup {NoJob}]
         /\ todo' \in [Workers -> SUBSET Jobs] /\ written' \in [Workers -> SUBSET Jobs]
         /\ pc'[w] \in {"work", "notify", "sweep", "poll"} /\ cur'[w] = NoJob
         /\ todo'[w] = todo[w] \ {j} /\ (todo'[w] # {} => pc'[w] = "work")
         /\ \A v \in Workers \ {w} :
              pc'[v] = pc[v] /\ cur'[v] = cur[v] /\ todo'[v] = todo[v]
         /\ UNCHANGED <<held, shutdown>>
<1>1. w \in Workers /\ todo[w] \subseteq Jobs
  BY DEF TypeOK
<1>2. AfterBatch \in {"sweep", "poll"}
  BY DEF AfterBatch
<1>3. todo' \in [Workers -> SUBSET Jobs] /\ written' \in [Workers -> SUBSET Jobs]
  BY DEF TypeOK, Finished
<1>4. pc' \in [Workers -> Places] /\ cur' \in [Workers -> Jobs \cup {NoJob}]
  BY <1>2 DEF TypeOK, Finished, Goto, Places
<1>5. /\ pc'[w] \in {"work", "notify", "sweep", "poll"} /\ cur'[w] = NoJob
      /\ todo'[w] = todo[w] \ {j} /\ (todo'[w] # {} => pc'[w] = "work")
  BY <1>2 DEF TypeOK, Finished, Goto
<1>6. /\ \A v \in Workers \ {w} :
           pc'[v] = pc[v] /\ cur'[v] = cur[v] /\ todo'[v] = todo[v]
      /\ UNCHANGED <<held, shutdown>>
  BY DEF TypeOK, Finished, Goto
<1> QED BY <1>3, <1>4, <1>5, <1>6

\* The process is gone, and holds nothing.
LEMMA StoppedFacts ==
  ASSUME TypeOK, NEW w \in Workers, Stopped(w)
  PROVE  /\ pc' \in [Workers -> Places] /\ cur' \in [Workers -> Jobs \cup {NoJob}]
         /\ held' \in [Workers -> SUBSET Jobs] /\ todo' \in [Workers -> SUBSET Jobs]
         /\ written' \in [Workers -> SUBSET Jobs] /\ conn' \in [Workers -> {"up", "lost"}]
         /\ shutdown' \in [Workers -> BOOLEAN]
         /\ pc'[w] = "stopped" /\ cur'[w] = NoJob /\ held'[w] = {} /\ todo'[w] = {}
         /\ \A v \in Workers \ {w} :
              /\ pc'[v] = pc[v] /\ cur'[v] = cur[v] /\ conn'[v] = conn[v]
              /\ held'[v] = held[v] /\ todo'[v] = todo[v]
  BY DEF TypeOK, Stopped, Goto, Places

-----------------------------------------------------------------------------
(***************************************************************************)
(* Clients and processes                                                   *)
(***************************************************************************)
LEMMA EnqueueKeeps ==
  ASSUME QueueInv, NEW S \in SUBSET Jobs, NEW k \in [S -> Kinds], Enqueue(S, k)
  PROVE  QueueInv'
<1>1. \A j \in Jobs : status'[j] = IF j \in S THEN "pending" ELSE status[j]
  BY StatusFacts DEF QueueInv, Enqueue, Status
<1>2. TypeOK'
  <2>1. status' \in [Jobs -> Status]
    BY StatusFacts DEF QueueInv, Enqueue, Status
  <2>2. kind' \in [Jobs -> Kinds \cup {NoKind}]
    BY DEF QueueInv, TypeOK, Enqueue
  <2> QED BY <2>1, <2>2 DEF QueueInv, TypeOK, Enqueue, workerVars, linkVars
<1>3. OutcomeMatchesEffect'
  BY <1>1 DEF QueueInv, Enqueue, OutcomeMatchesEffect, Ledger!OutcomeMatchesEffect
<1>4. ASSUME NEW v \in Workers PROVE LeavesAlone(v)
  <2>1. \A j \in InHands(v) : j \in Jobs /\ j \notin S
    BY InHandFacts DEF Enqueue, InHands
  <2> QED BY <1>1, <2>1 DEF LeavesAlone, Enqueue, workerVars, linkVars
<1> QED BY <1>2, <1>3, <1>4, StepOfNobody

LEMMA StartKeeps ==
  ASSUME QueueInv, NEW w \in Workers, Start(w)
  PROVE  QueueInv'
<1> USE DEF QueueInv, Start, Goto, tableVars, linkVars
<1>1. TypeOK'
  BY DEF TypeOK, Places
<1>2. OutcomeMatchesEffect'
  BY DEF OutcomeMatchesEffect, Ledger!OutcomeMatchesEffect
<1>3. Claiming(w)'
  BY DEF Claiming, TypeOK
<1>4. Dispatching(w)'
  BY DEF Dispatching, TypeOK
<1>5. KeepsToItself(w)
  BY DEF KeepsToItself, InHands, TypeOK
<1> QED BY <1>1, <1>2, <1>3, <1>4, <1>5, OwnStepOf

LEMMA SignalKeeps ==
  ASSUME QueueInv, NEW w \in Workers, Signal(w)
  PROVE  QueueInv'
<1> USE DEF QueueInv, Signal, tableVars, linkVars
<1>1. TypeOK'
  BY DEF TypeOK
<1>2. OutcomeMatchesEffect'
  BY DEF OutcomeMatchesEffect, Ledger!OutcomeMatchesEffect
<1>3. Claiming(w)' /\ Dispatching(w)'
  BY DEF Claiming, Dispatching
<1>4. KeepsToItself(w)
  BY DEF KeepsToItself, InHands
<1> QED BY <1>1, <1>2, <1>3, <1>4, OwnStepOf

LEMMA ExitKeeps ==
  ASSUME QueueInv, NEW w \in Workers, Exit(w)
  PROVE  QueueInv'
<1> USE DEF QueueInv, Exit, tableVars
<1>1. TypeOK'
  BY StoppedFacts DEF TypeOK
<1>2. OutcomeMatchesEffect'
  BY DEF OutcomeMatchesEffect, Ledger!OutcomeMatchesEffect
<1>3. Claiming(w)' /\ Dispatching(w)'
  BY StoppedFacts DEF Claiming, Dispatching
<1>4. KeepsToItself(w)
  BY StoppedFacts DEF KeepsToItself, InHands
<1> QED BY <1>1, <1>2, <1>3, <1>4, OwnStepOf

LEMMA CrashKeeps ==
  ASSUME QueueInv, NEW w \in Workers, Crash(w)
  PROVE  QueueInv'
<1>1. PICK S \in {{}, held[w]} : SetStatus(S, "processing")
  BY DEF Crash
<1>2. /\ status' \in [Jobs -> Status]
      /\ \A j \in Jobs : status'[j] = IF j \in S THEN "processing" ELSE status[j]
  BY <1>1, StatusFacts DEF QueueInv, Status
<1>3. TypeOK'
  BY <1>2, StoppedFacts, QueueAssumption DEF QueueInv, TypeOK, Crash
<1>4. OutcomeMatchesEffect'
  <2>1. \A j \in S : effects[j] = 0
    BY <1>1, InHandFacts DEF InHands
  <2> QED
    BY <1>2, <2>1 DEF QueueInv, Crash, OutcomeMatchesEffect, Ledger!OutcomeMatchesEffect
<1>5. Claiming(w)' /\ Dispatching(w)'
  BY StoppedFacts DEF QueueInv, Crash, Claiming, Dispatching
<1>6. KeepsToItself(w)
  <2>1. S \subseteq InHands(w)
    BY <1>1 DEF InHands
  <2> QED BY <1>2, <2>1, StoppedFacts DEF QueueInv, Crash, KeepsToItself, InHands
<1> QED BY <1>3, <1>4, <1>5, <1>6, OwnStepOf

LEMMA LoseConnectionKeeps ==
  ASSUME QueueInv, NEW w \in Workers, LoseConnection(w)
  PROVE  QueueInv'
<1> USE DEF QueueInv, LoseConnection, tableVars, workerVars
<1>1. TypeOK'
  BY QueueAssumption DEF TypeOK
<1>2. OutcomeMatchesEffect'
  BY DEF OutcomeMatchesEffect, Ledger!OutcomeMatchesEffect
<1>3. Claiming(w)'
  BY DEF Claiming
<1>4. Dispatching(w)'
  BY DEF Dispatching, TypeOK
<1>5. KeepsToItself(w)
  BY DEF KeepsToItself, InHands, TypeOK
<1> QED BY <1>1, <1>2, <1>3, <1>4, <1>5, OwnStepOf

-----------------------------------------------------------------------------
(***************************************************************************)
(* The claim                                                               *)
(***************************************************************************)
\* Here FOR UPDATE SKIP LOCKED does its work: what is locked is pending, so in
\* no todo, and in no other worker's held.
LEMMA ClaimLockKeeps ==
  ASSUME QueueInv, NEW w \in Workers, ClaimLock(w)
  PROVE  QueueInv'
<1> DEFINE S == Lowest(Claimable, BatchSize)
<1>1. S \subseteq Claimable /\ S \subseteq Jobs
  BY LowestFacts DEF Claimable
<1>2. held' = [held EXCEPT ![w] = S] /\ pc' = [pc EXCEPT ![w] = "claim"]
  BY DEF ClaimLock, Goto
<1>3. UNCHANGED <<status, kind, effects, heard, todo, cur, written, conn, shutdown, faults>>
  BY DEF ClaimLock, tableVars, linkVars
<1>4. pc[w] = "poll" /\ todo[w] = {}
  BY DEF ClaimLock, QueueInv, Dispatching
<1> HIDE DEF S
<1>5. TypeOK'
  BY <1>1, <1>2, <1>3 DEF QueueInv, TypeOK, Places
<1>6. OutcomeMatchesEffect'
  BY <1>3 DEF QueueInv, OutcomeMatchesEffect, Ledger!OutcomeMatchesEffect
<1>7. Claiming(w)'
  BY <1>1, <1>2, <1>3 DEF QueueInv, TypeOK, Claiming, Claimable
<1>8. Dispatching(w)'
  BY <1>2, <1>3, <1>4 DEF QueueInv, TypeOK, Dispatching
<1>9. ASSUME NEW v \in Workers \ {w}
      PROVE  LeavesAlone(v) /\ InHands(v) \cap InHands(w)' = {}
  <2>1. InHands(w)' = S
    BY <1>2, <1>3, <1>4 DEF QueueInv, TypeOK, InHands
  <2>2. \A j \in S : j \notin held[v] /\ j \notin todo[v]
    BY <1>1, InHandFacts DEF Claimable, InHands
  <2>3. LeavesAlone(v)
    BY <1>2, <1>3 DEF QueueInv, TypeOK, LeavesAlone
  <2> QED BY <2>1, <2>2, <2>3 DEF InHands
<1> QED BY <1>5, <1>6, <1>7, <1>8, <1>9, StepOf

LEMMA ClaimNothingKeeps ==
  ASSUME QueueInv, NEW w \in Workers, ClaimNothing(w)
  PROVE  QueueInv'
<1> USE DEF QueueInv, ClaimNothing, Goto, AfterBatch, tableVars, linkVars
<1>1. TypeOK'
  BY DEF TypeOK, Places
<1>2. OutcomeMatchesEffect'
  BY DEF OutcomeMatchesEffect, Ledger!OutcomeMatchesEffect
<1>3. Claiming(w)'
  BY DEF Claiming, TypeOK
<1>4. Dispatching(w)'
  BY DEF Dispatching, TypeOK
<1>5. KeepsToItself(w)
  BY DEF KeepsToItself, InHands, TypeOK
<1> QED BY <1>1, <1>2, <1>3, <1>4, <1>5, OwnStepOf

LEMMA ClaimReturnKeeps ==
  ASSUME QueueInv, NEW w \in Workers, NEW o, ClaimReturn(w, o)
  PROVE  QueueInv'
<1> DEFINE S == IF Applied(o) THEN held[w] ELSE {}
<1>1. \A j \in held[w] : j \in Jobs /\ status[j] = "pending" /\ effects[j] = 0
  BY InHandFacts DEF InHands
<1>2. S \subseteq held[w] /\ (o = "ok" => S = held[w])
  BY DEF Applied
<1>3. /\ status' \in [Jobs -> Status]
      /\ \A j \in Jobs : status'[j] = IF j \in S THEN "processing" ELSE status[j]
  BY StatusFacts DEF QueueInv, ClaimReturn, Status
<1>4. /\ conn' \in [Workers -> {"up", "lost"}] /\ faults' \in 0 .. MaxFaults
      /\ \A v \in Workers \ {w} : conn'[v] = conn[v]
  BY SendFacts DEF QueueInv, ClaimReturn
<1>5. /\ held' = [held EXCEPT ![w] = {}]
      /\ UNCHANGED <<kind, effects, heard, cur, written, shutdown>>
      /\ pc[w] = "claim" /\ todo[w] = {} /\ cur[w] = NoJob
  BY DEF ClaimReturn, QueueInv, Dispatching
<1>6. \/ o = "ok" /\ todo' = [todo EXCEPT ![w] = S] /\ pc' = [pc EXCEPT ![w] = "work"]
      \/ todo' = todo /\ pc' = [pc EXCEPT ![w] = "poll"]
  BY DEF ClaimReturn, Goto, Applied
<1> HIDE DEF S
<1>7. TypeOK'
  BY <1>1, <1>2, <1>3, <1>4, <1>5, <1>6 DEF QueueInv, TypeOK, Places
<1>8. OutcomeMatchesEffect'
  BY <1>1, <1>2, <1>3, <1>5 DEF QueueInv, OutcomeMatchesEffect, Ledger!OutcomeMatchesEffect
<1>9. Claiming(w)'
  BY <1>5 DEF QueueInv, TypeOK, Claiming
<1>10. Dispatching(w)'
  BY <1>1, <1>2, <1>3, <1>5, <1>6 DEF QueueInv, TypeOK, Dispatching
<1>11. KeepsToItself(w)
  BY <1>2, <1>3, <1>4, <1>5, <1>6 DEF QueueInv, TypeOK, KeepsToItself, InHands
<1> QED BY <1>7, <1>8, <1>9, <1>10, <1>11, OwnStepOf

-----------------------------------------------------------------------------
(***************************************************************************)
(* Dispatch                                                                *)
(***************************************************************************)
\* A worker between two jobs of a batch has no current job, and whichever job
\* it takes up next is processing and has had no effect.
LEMMA WorkFacts ==
  ASSUME QueueInv, NEW w \in Workers, pc[w] = "work", NEW j \in Ready(w)
  PROVE  /\ j \in todo[w] /\ j \in Jobs /\ j # NoJob /\ held[w] = {}
         /\ \A i \in todo[w] : i \in Jobs /\ status[i] = "processing" /\ effects[i] = 0
<1>1. Claiming(w) /\ Dispatching(w) /\ todo[w] \subseteq Jobs
  BY DEF QueueInv, TypeOK
<1>2. j \in todo[w]
  BY DEF Ready
<1>3. cur[w] = NoJob /\ NoJob \notin Jobs
  BY <1>1, QueueAssumption DEF Dispatching, NoJob
<1> QED BY <1>1, <1>2, <1>3 DEF Claiming, Dispatching

LEMMA NoOutputKeeps ==
  ASSUME QueueInv, NEW w \in Workers, NEW j \in Jobs, NoOutput(w, j)
  PROVE  QueueInv'
<1>1. /\ pc[w] = "work" /\ j \in Ready(w) /\ Pause(w, j, "fail")
      /\ UNCHANGED <<status, kind, effects, heard, conn, faults>>
  BY DEF NoOutput, tableVars, linkVars
<1>2. TypeOK /\ "fail" \in Places
  BY DEF QueueInv, Places
<1> USE PauseFacts, WorkFacts, <1>1, <1>2
<1>3. TypeOK'
  BY DEF TypeOK
<1>4. OutcomeMatchesEffect'
  BY DEF QueueInv, OutcomeMatchesEffect, Ledger!OutcomeMatchesEffect
<1>5. Claiming(w)' /\ Dispatching(w)'
  BY DEF Claiming, Dispatching
<1>6. KeepsToItself(w)
  BY DEF KeepsToItself, InHands
<1> QED BY <1>3, <1>4, <1>5, <1>6, OwnStepOf

LEMMA LookUpKeeps ==
  ASSUME QueueInv, NEW w \in Workers, NEW j, NEW o, LookUp(w, j, o)
  PROVE  QueueInv'
<1>1. UNCHANGED <<status, kind, effects, heard, pc, held, todo, cur, written, shutdown>>
  BY DEF LookUp, tableVars, workerVars
<1>2. /\ pc[w] = "work" /\ conn' \in [Workers -> {"up", "lost"}] /\ faults' \in 0 .. MaxFaults
      /\ \A v \in Workers \ {w} : conn'[v] = conn[v]
  BY SendFacts DEF QueueInv, LookUp
<1>3. TypeOK'
  BY <1>1, <1>2 DEF QueueInv, TypeOK
<1>4. OutcomeMatchesEffect'
  BY <1>1 DEF QueueInv, OutcomeMatchesEffect, Ledger!OutcomeMatchesEffect
<1>5. Claiming(w)' /\ Dispatching(w)'
  BY <1>1, <1>2 DEF QueueInv, Claiming, Dispatching
<1>6. KeepsToItself(w)
  BY <1>1, <1>2 DEF KeepsToItself, InHands
<1> QED BY <1>3, <1>4, <1>5, <1>6, OwnStepOf

\* The output of an ad hoc job takes effect and the job is done in one
\* statement, so there is no moment at which the two disagree.
LEMMA WriteAdHocKeeps ==
  ASSUME QueueInv, NEW w \in Workers, NEW j \in Jobs, NEW o, WriteAdHoc(w, j, o)
  PROVE  QueueInv'
<1>1. pc[w] = "work" /\ j \in Ready(w) /\ UNCHANGED <<kind, heard>>
  BY DEF WriteAdHoc
<1>2. TypeOK /\ "fail" \in Places /\ written[w] \cup {j} \in SUBSET Jobs
  BY DEF QueueInv, Places, TypeOK
<1>3. /\ j \in todo[w] /\ j # NoJob /\ held[w] = {}
      /\ \A i \in todo[w] : i \in Jobs /\ status[i] = "processing" /\ effects[i] = 0
  BY <1>1, WorkFacts
<1>4. /\ conn' \in [Workers -> {"up", "lost"}] /\ faults' \in 0 .. MaxFaults
      /\ \A v \in Workers \ {w} : conn'[v] = conn[v]
      /\ o \in {"ok", "refused", "unheard"} /\ (o = "unheard" => conn'[w] = "lost")
  BY <1>2, SendFacts DEF WriteAdHoc
<1>5. /\ status' \in [Jobs -> Status]
      /\ \A i \in Jobs : status'[i] = IF Applied(o) /\ i = j THEN "done" ELSE status[i]
  BY <1>2, StatusFacts DEF WriteAdHoc, Status, TypeOK
<1>6. /\ effects' \in [Jobs -> Nat]
      /\ \A i \in Jobs : effects'[i] = IF Applied(o) /\ i = j THEN 1 ELSE effects[i]
  BY <1>2, <1>3 DEF WriteAdHoc, TakesEffect, TypeOK
<1>7. OutcomeMatchesEffect'
  BY <1>5, <1>6 DEF QueueInv, OutcomeMatchesEffect, Ledger!OutcomeMatchesEffect
<1>8. CASE o = "ok"
  <2>1. Finished(w, j, written[w] \cup {j})
    BY <1>8 DEF WriteAdHoc
  <2> USE FinishedFacts, <1>2, <1>3, <2>1
  <2>2. TypeOK'
    BY <1>1, <1>4, <1>5, <1>6 DEF TypeOK
  <2>3. Claiming(w)' /\ Dispatching(w)'
    BY <1>5, <1>6 DEF Claiming, Dispatching
  <2>4. KeepsToItself(w)
    BY <1>4, <1>5, <1>6 DEF KeepsToItself, InHands
  <2> QED BY <1>7, <2>2, <2>3, <2>4, OwnStepOf
<1>9. CASE o # "ok"
  <2>1. Pause(w, j, "fail")
    BY <1>9 DEF WriteAdHoc
  <2>2. Applied(o) => o = "unheard"
    BY <1>4, <1>9 DEF Applied
  <2> USE PauseFacts, <1>2, <1>3, <2>1
  <2>3. TypeOK'
    BY <1>1, <1>4, <1>5, <1>6 DEF TypeOK
  <2>4. Claiming(w)' /\ Dispatching(w)'
    BY <1>4, <1>5, <1>6, <2>2 DEF Claiming, Dispatching
  <2>5. KeepsToItself(w)
    BY <1>4, <1>5, <1>6 DEF KeepsToItself, InHands
  <2> QED BY <1>7, <2>3, <2>4, <2>5, OwnStepOf
<1> QED BY <1>8, <1>9

\* The output of a watched job takes effect first; the status follows.
LEMMA WriteBackKeeps ==
  ASSUME QueueInv, NEW w \in Workers, NEW j \in Jobs, NEW o, WriteBack(w, j, o)
  PROVE  QueueInv'
<1> DEFINE place == IF o = "ok" THEN "mark" ELSE "fail"
<1>1. /\ pc[w] = "work" /\ j \in Ready(w) /\ UNCHANGED <<status, kind, heard>>
      /\ Pause(w, j, place)
  BY DEF WriteBack
<1>2. TypeOK /\ place \in Places
  BY DEF QueueInv, Places
<1>3. /\ j \in todo[w] /\ j # NoJob /\ held[w] = {}
      /\ \A i \in todo[w] : i \in Jobs /\ status[i] = "processing" /\ effects[i] = 0
  BY <1>1, WorkFacts
<1>4. /\ conn' \in [Workers -> {"up", "lost"}] /\ faults' \in 0 .. MaxFaults
      /\ \A v \in Workers \ {w} : conn'[v] = conn[v]
      /\ o \in {"ok", "refused", "unheard"} /\ (o = "unheard" => conn'[w] = "lost")
  BY <1>2, SendFacts DEF WriteBack
<1>5. /\ effects' \in [Jobs -> Nat]
      /\ \A i \in Jobs : effects'[i] = IF Applied(o) /\ i = j THEN 1 ELSE effects[i]
  BY <1>2, <1>3 DEF WriteBack, TakesEffect, TypeOK
<1>6. /\ pc' \in [Workers -> Places] /\ cur' \in [Workers -> Jobs \cup {NoJob}]
      /\ pc'[w] = place /\ cur'[w] = j
      /\ \A v \in Workers \ {w} : pc'[v] = pc[v] /\ cur'[v] = cur[v]
      /\ UNCHANGED <<held, todo, written, shutdown>>
  BY <1>1, <1>2, PauseFacts
<1>7. TypeOK'
  BY <1>1, <1>2, <1>4, <1>5, <1>6 DEF TypeOK
<1>8. OutcomeMatchesEffect'
  BY <1>1, <1>3, <1>5 DEF QueueInv, OutcomeMatchesEffect, Ledger!OutcomeMatchesEffect
<1>9. Claiming(w)' /\ Dispatching(w)'
  BY <1>1, <1>3, <1>4, <1>5, <1>6 DEF Claiming, Dispatching, Applied
<1>10. KeepsToItself(w)
  BY <1>1, <1>3, <1>4, <1>5, <1>6 DEF KeepsToItself, InHands
<1> QED BY <1>7, <1>8, <1>9, <1>10, OwnStepOf

\* What mark_done and mark_error have in common: cur[w] is finished with, and
\* its status is S's new one if the statement was applied.
LEMMA MarkFacts ==
  ASSUME QueueInv, NEW w \in Workers, pc[w] \in {"mark", "fail"}, NEW o, Send(w, o),
         NEW s \in {"done", "error"},
         SetStatus(IF Applied(o) THEN {cur[w]} ELSE {}, s),
         NEW counted \in SUBSET Jobs, Finished(w, cur[w], counted),
         UNCHANGED <<kind, effects, heard>>
  PROVE  /\ TypeOK' /\ Claiming(w)' /\ Dispatching(w)' /\ KeepsToItself(w)
         /\ \A j \in Jobs : status'[j] = IF Applied(o) /\ j = cur[w] THEN s ELSE status[j]
<1>1. TypeOK /\ Claiming(w) /\ Dispatching(w)
  BY DEF QueueInv
<1>2. cur[w] \in todo[w] /\ cur[w] \in Jobs /\ held[w] = {} /\ NoJob \notin Jobs
  BY <1>1, QueueAssumption DEF Dispatching, Claiming, TypeOK, NoJob
<1>3. /\ status' \in [Jobs -> Status]
      /\ \A j \in Jobs : status'[j] = IF Applied(o) /\ j = cur[w] THEN s ELSE status[j]
  BY <1>1, StatusFacts DEF Status
<1>4. /\ conn' \in [Workers -> {"up", "lost"}] /\ faults' \in 0 .. MaxFaults
      /\ \A v \in Workers \ {w} : conn'[v] = conn[v]
  BY <1>1, SendFacts
<1>5. /\ pc' \in [Workers -> Places] /\ cur' \in [Workers -> Jobs \cup {NoJob}]
      /\ todo' \in [Workers -> SUBSET Jobs] /\ written' \in [Workers -> SUBSET Jobs]
      /\ pc'[w] \in {"work", "notify", "sweep", "poll"} /\ cur'[w] = NoJob
      /\ todo'[w] = todo[w] \ {cur[w]} /\ (todo'[w] # {} => pc'[w] = "work")
      /\ \A v \in Workers \ {w} :
           pc'[v] = pc[v] /\ cur'[v] = cur[v] /\ todo'[v] = todo[v]
      /\ UNCHANGED <<held, shutdown>>
  BY <1>1, <1>2, FinishedFacts
<1>6. TypeOK'
  BY <1>1, <1>3, <1>4, <1>5 DEF TypeOK
<1>7. Claiming(w)'
  BY <1>2, <1>5 DEF Claiming
<1>8. Dispatching(w)'
  <2>1. \A j \in todo'[w] : status'[j] = "processing" /\ effects'[j] = 0
    BY <1>1, <1>3, <1>5 DEF Dispatching, TypeOK
  <2> QED BY <1>5, <2>1 DEF Dispatching
<1>9. KeepsToItself(w)
  BY <1>2, <1>3, <1>4, <1>5 DEF KeepsToItself, InHands
<1> QED BY <1>3, <1>6, <1>7, <1>8, <1>9

LEMMA MarkDoneKeeps ==
  ASSUME QueueInv, NEW w \in Workers, NEW o, MarkDone(w, o)
  PROVE  QueueInv'
<1>1. Dispatching(w) /\ pc[w] = "mark" /\ cur[w] \in Jobs
  BY DEF QueueInv, MarkDone, Dispatching, TypeOK
<1>2. /\ TypeOK' /\ Claiming(w)' /\ Dispatching(w)' /\ KeepsToItself(w)
      /\ \A j \in Jobs : status'[j] = IF Applied(o) /\ j = cur[w] THEN "done" ELSE status[j]
  <2>1. written[w] \cup {cur[w]} \in SUBSET Jobs
    BY <1>1 DEF QueueInv, TypeOK
  <2> QED BY <2>1, MarkFacts DEF MarkDone
<1>3. OutcomeMatchesEffect'
  BY <1>1, <1>2 DEF QueueInv, MarkDone, Dispatching,
                    OutcomeMatchesEffect, Ledger!OutcomeMatchesEffect
<1> QED BY <1>2, <1>3, OwnStepOf

\* mark_error reaches only a job whose output was not committed: had it been,
\* the connection would have been lost with the reply.
LEMMA MarkErrorKeeps ==
  ASSUME QueueInv, NEW w \in Workers, NEW o, MarkError(w, o)
  PROVE  QueueInv'
<1>1. Dispatching(w) /\ pc[w] = "fail" /\ cur[w] \in Jobs
  BY DEF QueueInv, MarkError, Dispatching, TypeOK
<1>2. /\ TypeOK' /\ Claiming(w)' /\ Dispatching(w)' /\ KeepsToItself(w)
      /\ \A j \in Jobs : status'[j] = IF Applied(o) /\ j = cur[w] THEN "error" ELSE status[j]
  <2>1. written[w] \in SUBSET Jobs
    BY DEF QueueInv, TypeOK
  <2> QED BY <2>1, MarkFacts DEF MarkError
<1>3. Applied(o) => effects[cur[w]] = 0
  <2>1. Applied(o) => conn[w] # "lost"
    BY SendFacts DEF QueueInv, MarkError, Applied
  <2> QED BY <1>1, <2>1 DEF Dispatching
<1>4. OutcomeMatchesEffect'
  BY <1>1, <1>2, <1>3 DEF QueueInv, MarkError, OutcomeMatchesEffect, Ledger!OutcomeMatchesEffect
<1> QED BY <1>2, <1>4, OwnStepOf

-----------------------------------------------------------------------------
(***************************************************************************)
(* After the batch                                                         *)
(***************************************************************************)
LEMMA NotifyKeeps ==
  ASSUME QueueInv, NEW w \in Workers, NEW o, Notify(w, o)
  PROVE  QueueInv'
<1>1. /\ pc[w] = "notify" /\ UNCHANGED <<status, kind, effects, held, todo, cur, shutdown>>
      /\ heard' \in {heard, heard \cup {j \in Jobs : status[j] \in {"done", "error"}}}
      /\ written' = [written EXCEPT ![w] = {}]
      /\ pc' = [pc EXCEPT ![w] = AfterBatch] /\ AfterBatch \in {"sweep", "poll"}
  BY DEF Notify, tableVars, Goto, AfterBatch
<1>2. /\ conn' \in [Workers -> {"up", "lost"}] /\ faults' \in 0 .. MaxFaults
      /\ \A v \in Workers \ {w} : conn'[v] = conn[v]
  BY SendFacts DEF QueueInv, Notify
<1>3. TypeOK'
  BY <1>1, <1>2 DEF QueueInv, TypeOK, Places
<1>4. OutcomeMatchesEffect'
  BY <1>1 DEF QueueInv, OutcomeMatchesEffect, Ledger!OutcomeMatchesEffect
<1>5. Claiming(w)' /\ Dispatching(w)'
  BY <1>1 DEF QueueInv, TypeOK, Claiming, Dispatching
<1>6. KeepsToItself(w)
  BY <1>1, <1>2 DEF QueueInv, TypeOK, KeepsToItself, InHands
<1> QED BY <1>3, <1>4, <1>5, <1>6, OwnStepOf

\* The sweep may delete the row of a job another worker is still about to
\* fail, which LeavesAlone allows.
LEMMA SweepKeeps ==
  ASSUME QueueInv, NEW w \in Workers, Sweep(w)
  PROVE  QueueInv'
<1>1. /\ pc[w] = "sweep" /\ pc' = [pc EXCEPT ![w] = "poll"]
      /\ UNCHANGED <<kind, effects, heard, held, todo, cur, written, shutdown>>
  BY DEF Sweep, Goto
<1> DEFINE Deleted ==
        /\ status' \in [Jobs -> Status] /\ conn' \in [Workers -> {"up", "lost"}]
        /\ faults' \in 0 .. MaxFaults
        /\ \A v \in Workers \ {w} : conn'[v] = conn[v]
        /\ \A j \in Jobs : status'[j] = status[j] \/ (status[j] = "done" /\ status'[j] = "purged")
<1>2. Deleted
  <2>1. CASE UNCHANGED <<status, linkVars>>
    BY <2>1 DEF QueueInv, TypeOK, linkVars
  <2>2. ASSUME NEW o \in Outcomes(w), NEW S \in SUBSET {j \in Jobs : status[j] = "done"},
               Send(w, o), SetStatus(IF Applied(o) THEN S ELSE {}, "purged")
        PROVE  Deleted
    BY <2>2, SendFacts, StatusFacts DEF QueueInv, Status
  <2> QED BY <2>1, <2>2 DEF Sweep
<1>3. TypeOK'
  BY <1>1, <1>2 DEF QueueInv, TypeOK, Places
<1>4. OutcomeMatchesEffect'
  BY <1>1, <1>2 DEF QueueInv, OutcomeMatchesEffect, Ledger!OutcomeMatchesEffect
<1>5. Claiming(w)'
  BY <1>1, <1>2 DEF QueueInv, TypeOK, Claiming
<1>6. todo[w] = {} /\ Dispatching(w)'
  BY <1>1 DEF QueueInv, TypeOK, Dispatching
<1>7. held[w] = {} /\ InHands(w)' = {}
  BY <1>1, <1>6 DEF QueueInv, Claiming, InHands
<1>8. ASSUME NEW v \in Workers \ {w}
      PROVE  LeavesAlone(v) /\ InHands(v) \cap InHands(w)' = {}
  <2>1. InHands(v) \subseteq Jobs
    BY DEF QueueInv, TypeOK, InHands
  <2> QED BY <1>1, <1>2, <1>7, <2>1 DEF QueueInv, TypeOK, LeavesAlone
<1> QED BY <1>3, <1>4, <1>5, <1>6, <1>8, StepOf

-----------------------------------------------------------------------------
(***************************************************************************)
(* Safety                                                                  *)
(***************************************************************************)
LEMMA InitQueueInv == Init => QueueInv
<1> SUFFICES ASSUME Init PROVE QueueInv
  OBVIOUS
<1> USE DEF Init
<1>1. TypeOK
  BY QueueAssumption DEF TypeOK, Status, Places
<1>2. ExclusiveHold
  BY DEF ExclusiveHold, InHands
<1>3. OutcomeMatchesEffect
  BY DEF OutcomeMatchesEffect, Ledger!OutcomeMatchesEffect
<1>4. ASSUME NEW w \in Workers PROVE Claiming(w) /\ Dispatching(w)
  BY DEF Claiming, Dispatching
<1> QED BY <1>1, <1>2, <1>3, <1>4 DEF QueueInv

LEMMA NextQueueInv == QueueInv /\ [Next]_vars => QueueInv'
<1> SUFFICES ASSUME QueueInv, [Next]_vars PROVE QueueInv'
  OBVIOUS
<1>1. ASSUME NEW S \in SUBSET Jobs, NEW k \in [S -> Kinds], Enqueue(S, k) PROVE QueueInv'
  BY <1>1, EnqueueKeeps
<1>2. ASSUME NEW w \in Workers, Start(w) \/ Signal(w) \/ Crash(w) \/ LoseConnection(w)
      PROVE  QueueInv'
  BY <1>2, StartKeeps, SignalKeeps, CrashKeeps, LoseConnectionKeeps
<1>3. ASSUME NEW w \in Workers, Step(w) PROVE QueueInv'
  <2>1. CASE Exit(w) \/ ClaimLock(w) \/ ClaimNothing(w) \/ Sweep(w)
    BY <2>1, ExitKeeps, ClaimLockKeeps, ClaimNothingKeeps, SweepKeeps
  <2>2. CASE \E j \in Jobs : NoOutput(w, j)
    BY <2>2, NoOutputKeeps
  <2>3. ASSUME NEW o \in Outcomes(w),
               ClaimReturn(w, o) \/ MarkDone(w, o) \/ MarkError(w, o) \/ Notify(w, o)
        PROVE  QueueInv'
    BY <2>3, ClaimReturnKeeps, MarkDoneKeeps, MarkErrorKeeps, NotifyKeeps
  <2>4. ASSUME NEW o \in Outcomes(w), NEW j \in Jobs,
               LookUp(w, j, o) \/ WriteAdHoc(w, j, o) \/ WriteBack(w, j, o)
        PROVE  QueueInv'
    BY <2>4, LookUpKeeps, WriteAdHocKeeps, WriteBackKeeps
  <2> QED BY <1>3, <2>1, <2>2, <2>3, <2>4 DEF Step
<1>4. CASE UNCHANGED vars
  <2> USE <1>4 DEF vars
  <2>1. TypeOK'
    BY DEF QueueInv, TypeOK
  <2>2. ExclusiveHold'
    BY DEF QueueInv, ExclusiveHold, InHands
  <2>3. OutcomeMatchesEffect'
    BY DEF QueueInv, OutcomeMatchesEffect, Ledger!OutcomeMatchesEffect
  <2>4. ASSUME NEW w \in Workers PROVE Claiming(w)' /\ Dispatching(w)'
    BY DEF QueueInv, Claiming, Dispatching
  <2> QED BY <2>1, <2>2, <2>3, <2>4 DEF QueueInv
<1> QED BY <1>1, <1>2, <1>3, <1>4 DEF Next

\* Whatever the workers, the clients, the sweep and the faults do, and in
\* whatever order, every reachable state satisfies the inductive invariant.
THEOREM QueueSafety == Spec => []QueueInv
<1>1. Init => QueueInv
  BY InitQueueInv
<1>2. QueueInv /\ [Next]_vars => QueueInv'
  BY NextQueueInv
<1> QED BY <1>1, <1>2, PTL DEF Spec

\* The variables keep their types.
THEOREM Typing == Spec => []TypeOK
<1>1. QueueInv => TypeOK
  BY DEF QueueInv
<1> QED BY <1>1, QueueSafety, PTL

\* kClaimPending never gives one job to two workers.
THEOREM Exclusion == Spec => []ExclusiveHold
<1>1. QueueInv => ExclusiveHold
  BY DEF QueueInv
<1> QED BY <1>1, QueueSafety, PTL

\* finish_write, mark_done and mark_error never report an outcome that is not
\* what happened to the output.
THEOREM OutcomeSoundness == Spec => []OutcomeMatchesEffect
<1>1. QueueInv => OutcomeMatchesEffect
  BY DEF QueueInv
<1> QED BY <1>1, QueueSafety, PTL

-----------------------------------------------------------------------------
(***************************************************************************)
(* Refinement: the workers implement JobLedger.  The mapping is the        *)
(* identity on status and effects; what has to be shown is that every step *)
(* of a worker, in the states QueueInv allows, is a step of the ledger or  *)
(* leaves the ledger as it is.                                             *)
(***************************************************************************)
LEMMA NothingMoved ==
  ASSUME TypeOK, NEW s, SetStatus({}, s)
  PROVE  status' = status
  BY DEF TypeOK, SetStatus

\* Rows that were locked are taken together, or not at all.
LEMMA TakenTogether ==
  ASSUME QueueInv, NEW w \in Workers, NEW S \in {{}, held[w]},
         SetStatus(S, "processing"), effects' = effects
  PROVE  [Ledger!Next]_(Ledger!vars)
<1>1. CASE S = {}
  BY <1>1, NothingMoved DEF QueueInv, Ledger!vars
<1>2. CASE S # {}
  <2>1. S \in SUBSET Jobs /\ \A j \in S : status[j] = "pending"
    BY <1>2 DEF QueueInv, TypeOK, Claiming
  <2>2. Ledger!Take(S)
    BY <1>2, <2>1 DEF SetStatus, Ledger!Take, Ledger!AllAre, Ledger!Moved
  <2> QED BY <2>1, <2>2 DEF Ledger!Next
<1> QED BY <1>1, <1>2

\* A dispatch step that sends nothing to the table, or whose statement is not
\* applied, is a stutter; the others are the steps of one job's life.
LEMMA DispatchStep ==
  ASSUME QueueInv, NEW w \in Workers, NEW o,
         \/ \E j \in Jobs : WriteAdHoc(w, j, o) \/ WriteBack(w, j, o)
         \/ MarkDone(w, o) \/ MarkError(w, o)
  PROVE  [Ledger!Next]_(Ledger!vars)
<1>1. ASSUME NEW j \in Jobs, WriteAdHoc(w, j, o) PROVE [Ledger!Next]_(Ledger!vars)
  <2>1. status[j] = "processing" /\ effects[j] = 0
    BY <1>1, WorkFacts DEF WriteAdHoc
  <2>2. CASE Applied(o)
    <3>1. effects' = [effects EXCEPT ![j] = 1] /\ SetStatus({j}, "done")
      BY <1>1, <2>1, <2>2 DEF WriteAdHoc, TakesEffect, QueueInv, TypeOK
    <3>2. Ledger!TakeEffectAndFinish(j)
      BY <2>1, <3>1 DEF Ledger!TakeEffectAndFinish, Ledger!Moved, SetStatus
    <3> QED BY <3>2 DEF Ledger!Next
  <2>3. CASE ~Applied(o)
    BY <1>1, <2>3 DEF WriteAdHoc, Ledger!vars
  <2> QED BY <2>2, <2>3
<1>2. ASSUME NEW j \in Jobs, WriteBack(w, j, o) PROVE [Ledger!Next]_(Ledger!vars)
  <2>1. status[j] = "processing" /\ effects[j] = 0 /\ status' = status
    BY <1>2, WorkFacts DEF WriteBack
  <2>2. CASE Applied(o)
    <3>1. effects' = [effects EXCEPT ![j] = 1]
      BY <1>2, <2>1, <2>2 DEF WriteBack, TakesEffect, QueueInv, TypeOK
    <3>2. Ledger!TakeEffect(j)
      BY <2>1, <3>1 DEF Ledger!TakeEffect
    <3> QED BY <3>2 DEF Ledger!Next
  <2>3. CASE ~Applied(o)
    BY <1>2, <2>3 DEF WriteBack, Ledger!vars
  <2> QED BY <2>2, <2>3
<1>3. CASE MarkDone(w, o)
  <2>1. /\ cur[w] \in Jobs /\ status[cur[w]] = "processing" /\ effects[cur[w]] = 1
        /\ effects' = effects
    BY <1>3 DEF MarkDone, QueueInv, Dispatching, TypeOK
  <2>2. CASE Applied(o)
    <3>1. SetStatus({cur[w]}, "done")
      BY <1>3, <2>2 DEF MarkDone
    <3>2. Ledger!Finish(cur[w])
      BY <2>1, <3>1 DEF Ledger!Finish, Ledger!Moved, SetStatus
    <3> QED BY <2>1, <3>2 DEF Ledger!Next
  <2>3. CASE ~Applied(o)
    BY <1>3, <2>3, NothingMoved DEF MarkDone, QueueInv, Ledger!vars
  <2> QED BY <2>2, <2>3
<1>4. CASE MarkError(w, o)
  <2>1. cur[w] \in Jobs /\ effects' = effects
    BY <1>4 DEF MarkError, QueueInv, Dispatching, TypeOK
  <2>2. CASE Applied(o)
    <3>1. conn[w] # "lost"
      BY <1>4, <2>2, SendFacts DEF MarkError, QueueInv, Applied
    <3>2. status[cur[w]] = "processing" /\ effects[cur[w]] = 0
      BY <1>4, <3>1 DEF MarkError, QueueInv, Dispatching
    <3>3. SetStatus({cur[w]}, "error")
      BY <1>4, <2>2 DEF MarkError
    <3>4. Ledger!Reject(cur[w])
      BY <2>1, <3>2, <3>3 DEF Ledger!Reject, Ledger!Moved, SetStatus
    <3> QED BY <2>1, <3>4 DEF Ledger!Next
  <2>3. CASE ~Applied(o)
    BY <1>4, <2>3, NothingMoved DEF MarkError, QueueInv, Ledger!vars
  <2> QED BY <2>2, <2>3
<1> QED BY <1>1, <1>2, <1>3, <1>4

LEMMA SweepStep ==
  ASSUME QueueInv, NEW w \in Workers, Sweep(w)
  PROVE  [Ledger!Next]_(Ledger!vars)
<1>1. effects' = effects
  BY DEF Sweep
<1>2. CASE status' = status
  BY <1>1, <1>2 DEF Ledger!vars
<1>3. ASSUME NEW S \in SUBSET {j \in Jobs : status[j] = "done"},
             SetStatus(S, "purged"), S # {}
      PROVE  [Ledger!Next]_(Ledger!vars)
  <2>1. Ledger!Forget(S)
    BY <1>1, <1>3 DEF Ledger!Forget, Ledger!AllAre, Ledger!Moved, SetStatus
  <2> QED BY <2>1 DEF Ledger!Next
<1> QED BY <1>2, <1>3, NothingMoved DEF Sweep, QueueInv

LEMMA StepSimulation ==
  QueueInv /\ [Next]_vars => [Ledger!Next]_(Ledger!vars)
<1> SUFFICES ASSUME QueueInv, [Next]_vars PROVE [Ledger!Next]_(Ledger!vars)
  OBVIOUS
<1>1. ASSUME NEW S \in SUBSET Jobs, NEW k \in [S -> Kinds], Enqueue(S, k)
      PROVE  [Ledger!Next]_(Ledger!vars)
  <2>1. Ledger!Submit(S)
    BY <1>1 DEF Enqueue, SetStatus, Ledger!Submit, Ledger!AllAre, Ledger!Moved
  <2> QED BY <2>1 DEF Ledger!Next
<1>2. ASSUME NEW w \in Workers,
             \/ Start(w) \/ Signal(w) \/ LoseConnection(w)
             \/ Exit(w) \/ ClaimLock(w) \/ ClaimNothing(w)
             \/ \E j \in Jobs : NoOutput(w, j)
             \/ \E o \in Outcomes(w) : Notify(w, o) \/ \E j \in Jobs : LookUp(w, j, o)
      PROVE  [Ledger!Next]_(Ledger!vars)
  BY <1>2 DEF Start, Signal, LoseConnection, Exit, ClaimLock, ClaimNothing,
              NoOutput, LookUp, Notify, tableVars, Ledger!vars
<1>3. ASSUME NEW w \in Workers, Crash(w) PROVE [Ledger!Next]_(Ledger!vars)
  BY <1>3, TakenTogether DEF Crash
<1>4. ASSUME NEW w \in Workers, NEW o, ClaimReturn(w, o) PROVE [Ledger!Next]_(Ledger!vars)
  BY <1>4, TakenTogether DEF ClaimReturn
<1>5. ASSUME NEW w \in Workers, Sweep(w) PROVE [Ledger!Next]_(Ledger!vars)
  BY <1>5, SweepStep
<1>6. ASSUME NEW w \in Workers, NEW o \in Outcomes(w),
             \/ \E j \in Jobs : WriteAdHoc(w, j, o) \/ WriteBack(w, j, o)
             \/ MarkDone(w, o) \/ MarkError(w, o)
      PROVE  [Ledger!Next]_(Ledger!vars)
  BY <1>6, DispatchStep
<1>7. CASE UNCHANGED vars
  BY <1>7 DEF vars, Ledger!vars
<1>8. ASSUME NEW w \in Workers, Step(w) PROVE [Ledger!Next]_(Ledger!vars)
  BY <1>2, <1>4, <1>5, <1>6, <1>8 DEF Step
<1> QED BY <1>1, <1>2, <1>3, <1>7, <1>8 DEF Next

\* The workers, with every fault this module knows, implement the ledger: one
\* job is pending, then processing, then done or failed, never anything else.
THEOREM Refinement == Spec => ImplementsLedger
<1>1. Init => Ledger!Init
  BY DEF Init, Ledger!Init
<1>2. QueueInv /\ [Next]_vars => [Ledger!Next]_(Ledger!vars)
  BY StepSimulation
<1> QED BY <1>1, <1>2, QueueSafety, PTL DEF Spec, ImplementsLedger, Ledger!Spec

-----------------------------------------------------------------------------
(***************************************************************************)
(* Progress                                                                *)
(***************************************************************************)
LEMMA AheadIsFinite == ASSUME NEW j \in Jobs PROVE IsFiniteSet(Ahead(j))
<1>1. Jobs \subseteq Nat /\ j \in Nat
  BY QueueAssumption
<1>2. ASSUME NEW i \in Ahead(j) PROVE i \in Nat /\ i <= j
  <2>1. i \in Jobs /\ i < j
    BY DEF Ahead
  <2> QED BY <1>1, <2>1
<1> QED BY <1>1, <1>2, FS_BoundedSetOfNaturals

\* ORDER BY id LIMIT n: what is taken leaves nothing older behind.
LEMMA LowestIsDownClosed ==
  ASSUME NEW S \in SUBSET Jobs, NEW n \in Nat, NEW i \in Lowest(S, n), NEW j \in S, j < i
  PROVE  j \in Lowest(S, n)
<1> DEFINE Below(k) == {x \in S : x < k}
<1>1. i \in Nat /\ j \in Nat /\ S \subseteq Nat
  BY QueueAssumption DEF Lowest
<1>2. IsFiniteSet(Below(i)) /\ Cardinality(Below(i)) < n
  <2>1. ASSUME NEW x \in Below(i) PROVE x \in Nat /\ x <= i
    <3>1. x \in S /\ x < i
      OBVIOUS
    <3> QED BY <1>1, <3>1
  <2>2. Cardinality(Below(i)) < n
    BY Zenon DEF Lowest
  <2> HIDE DEF Below
  <2> QED BY <1>1, <2>1, <2>2, FS_BoundedSetOfNaturals
<1>3. Below(j) \subseteq Below(i)
  <2>1. ASSUME NEW x \in S, x < j PROVE x < i
    BY <1>1, <2>1
  <2> QED BY <2>1
<1>4. Cardinality(Below(j)) \in Nat /\ Cardinality(Below(i)) \in Nat
      /\ Cardinality(Below(j)) <= Cardinality(Below(i))
  <2> HIDE DEF Below
  <2> QED BY <1>2, <1>3, FS_Subset, FS_CardinalityType
<1>5. Cardinality(Below(j)) < n
  <2> HIDE DEF Below
  <2> QED BY <1>2, <1>4
<1> QED BY <1>5 DEF Lowest

\* Locks are taken by a claim only, ...
LEMMA LocksAreClaims ==
  ASSUME QueueInv, Next, NEW w \in Workers
  PROVE  held'[w] = held[w] \/ held'[w] = {} \/ ClaimLock(w)
<1>1. held \in [Workers -> SUBSET Jobs]
  BY DEF QueueInv, TypeOK
<1>2. ASSUME NEW v \in Workers, ~ClaimLock(v), Step(v)
      PROVE  held'[w] = held[w] \/ held'[w] = {}
  BY <1>1, <1>2 DEF Step, Exit, Stopped, ClaimNothing, Sweep, NoOutput, ClaimReturn, MarkDone,
       MarkError, Notify, LookUp, WriteAdHoc, WriteBack, Finished, Pause, workerVars
<1>3. ASSUME NEW v \in Workers, ClaimLock(v) PROVE v = w \/ held'[w] = held[w]
  BY <1>1, <1>3 DEF ClaimLock
<1>4. ASSUME NEW v \in Workers, Start(v) \/ Signal(v) \/ Crash(v) \/ LoseConnection(v)
      PROVE  held'[w] = held[w] \/ held'[w] = {}
  BY <1>1, <1>4 DEF Start, Signal, Crash, LoseConnection, Stopped, workerVars
<1>5. ASSUME NEW S, NEW k, Enqueue(S, k) PROVE held' = held
  BY <1>5 DEF Enqueue, workerVars
<1> QED BY <1>2, <1>3, <1>4, <1>5 DEF Next

\* ... and jobs are taken up by a claim that has returned, which has set all the
\* rows it locked.
LEMMA TakenAreProcessing ==
  ASSUME QueueInv, Next, NEW w \in Workers, ~(todo'[w] \subseteq todo[w])
  PROVE  \A j \in held[w] : status'[j] = "processing"
<1>1. todo \in [Workers -> SUBSET Jobs]
  BY DEF QueueInv, TypeOK
<1>2. ASSUME NEW v \in Workers, Step(v)
      PROVE  todo'[w] \subseteq todo[w] \/ (v = w /\ ClaimReturn(w, "ok"))
  <2>1. ASSUME NEW o, ClaimReturn(v, o)
        PROVE  todo'[w] \subseteq todo[w] \/ (v = w /\ ClaimReturn(w, "ok"))
    BY <1>1, <2>1 DEF ClaimReturn
  <2>2. CASE ~\E o \in Outcomes(v) : ClaimReturn(v, o)
    BY <1>1, <1>2, <2>2 DEF Step, Exit, Stopped, ClaimLock, ClaimNothing, Sweep, NoOutput,
         MarkDone, MarkError, Notify, LookUp, WriteAdHoc, WriteBack, Finished, Pause, workerVars
  <2> QED BY <2>1, <2>2
<1>3. ASSUME NEW v \in Workers, Start(v) \/ Signal(v) \/ Crash(v) \/ LoseConnection(v)
      PROVE  todo'[w] \subseteq todo[w]
  BY <1>1, <1>3 DEF Start, Signal, Crash, LoseConnection, Stopped, workerVars
<1>4. ASSUME NEW S, NEW k, Enqueue(S, k) PROVE todo' = todo
  BY <1>4 DEF Enqueue, workerVars
<1>5. ClaimReturn(w, "ok")
  BY <1>2, <1>3, <1>4 DEF Next
<1>6. SetStatus(held[w], "processing")
  BY <1>5 DEF ClaimReturn, Applied
<1> QED BY <1>6, StatusFacts DEF QueueInv, TypeOK, Status

\* A pending job is overtaken by the ids before it, each at most once, and by
\* claims that fail; however many newer jobs there are, it is not starved.
THEOREM NoStarvation == Spec => BoundedBypass
<1> DEFINE Kept(j) ==
      /\ Ahead(j)' \subseteq Ahead(j)
      /\ \A w \in Workers :
           /\ j \in Claimable /\ held'[w] # held[w] /\ j \notin held'[w] => held'[w] \subseteq Ahead(j)
           /\ ~(todo'[w] \subseteq todo[w]) => held[w] \cap Ahead(j)' = {}
<1>1. ASSUME QueueInv, Next, NEW j \in Jobs PROVE Kept(j)
  <2>1. Ahead(j)' \subseteq Ahead(j)
    <3>1. [Ledger!Next]_(Ledger!vars)
      BY <1>1, StepSimulation
    <3>2. \A i \in Jobs : status'[i] \in {"absent", "pending"} => status[i] \in {"absent", "pending"}
      BY <1>1, <3>1 DEF Ledger!Next, Ledger!vars, Ledger!Submit, Ledger!Take, Ledger!Forget,
           Ledger!TakeEffect, Ledger!Finish, Ledger!TakeEffectAndFinish, Ledger!Reject,
           Ledger!AllAre, Ledger!Moved, QueueInv, TypeOK
    <3> QED BY <3>2 DEF Ahead
  <2>2. ASSUME NEW w \in Workers, j \in Claimable, held'[w] # held[w], j \notin held'[w]
        PROVE  held'[w] \subseteq Ahead(j)
    <3>1. CASE held'[w] = {}
      BY <3>1
    <3>2. CASE ClaimLock(w)
      <4>1. held'[w] = Lowest(Claimable, BatchSize) /\ Claimable \in SUBSET Jobs /\ BatchSize \in Nat
        BY <1>1, <3>2, QueueAssumption DEF ClaimLock, Claimable, QueueInv, TypeOK
      <4>2. ASSUME NEW i \in held'[w] PROVE i \in Ahead(j)
        <5>1. i \in Jobs /\ status[i] = "pending" /\ i # j
          BY <2>2, <4>1, LowestFacts DEF Claimable
        <5>2. ~(j < i)
          BY <2>2, <4>1, LowestIsDownClosed
        <5> QED BY <5>1, <5>2, QueueAssumption DEF Ahead
      <4> QED BY <4>2
    <3> QED BY <1>1, <2>2, <3>1, <3>2, LocksAreClaims
  <2>3. ASSUME NEW w \in Workers, ~(todo'[w] \subseteq todo[w]) PROVE held[w] \cap Ahead(j)' = {}
    BY <1>1, <2>3, TakenAreProcessing DEF Ahead
  <2> QED BY <2>1, <2>2, <2>3
<1>2. QueueInv /\ [Next]_vars => [\A j \in Jobs : status[j] = "pending" => Kept(j)]_vars
  BY <1>1
<1> QED BY <1>2, QueueSafety, PTL DEF Spec, BoundedBypass

\* A connection is lost to a fault.
LostAfterFault == \A w \in Workers : conn[w] = "lost" => faults > 0

\* A statement that is not applied is a fault, or follows one.
LEMMA SendCharges ==
  ASSUME TypeOK, NEW w \in Workers, NEW o, Send(w, o)
  PROVE  /\ faults \in Nat /\ faults' \in Nat /\ faults' >= faults
         /\ \A v \in Workers : conn'[v] = "lost" => conn[v] = "lost" \/ faults' > faults
         /\ ~Applied(o) => conn[w] = "lost" \/ faults' > faults
<1>1. faults \in Nat /\ conn \in [Workers -> {"up", "lost"}]
  BY QueueAssumption DEF TypeOK
<1> QED BY <1>1 DEF Send, Outcomes, Applied

LEMMA FaultsAreCounted ==
  ASSUME TypeOK, [Next]_vars
  PROVE  /\ faults \in Nat /\ faults' \in Nat /\ faults' >= faults
         /\ \A v \in Workers : conn'[v] = "lost" => conn[v] = "lost" \/ faults' > faults
<1> DEFINE Counted ==
      /\ faults \in Nat /\ faults' \in Nat /\ faults' >= faults
      /\ \A v \in Workers : conn'[v] = "lost" => conn[v] = "lost" \/ faults' > faults
<1>1. faults \in Nat /\ conn \in [Workers -> {"up", "lost"}]
  BY QueueAssumption DEF TypeOK
<1>2. ASSUME conn' = conn, faults' = faults PROVE Counted
  BY <1>1, <1>2
<1>3. ASSUME NEW w \in Workers, NEW o, Send(w, o) PROVE Counted
  BY <1>3, SendCharges
<1>4. ASSUME NEW w \in Workers, Exit(w) \/ Crash(w) \/ LoseConnection(w) PROVE Counted
  <2>1. faults' = faults \/ faults' = faults + 1
    BY <1>4 DEF Exit, Crash, LoseConnection
  <2>2. conn' = [conn EXCEPT ![w] = "up"] \/ faults' = faults + 1
    BY <1>4 DEF Exit, Crash, LoseConnection, Stopped
  <2> QED BY <1>1, <2>1, <2>2
<1>5. ASSUME NEW w \in Workers,
             Start(w) \/ Signal(w) \/ ClaimLock(w) \/ ClaimNothing(w) \/ \E j \in Jobs : NoOutput(w, j)
      PROVE  Counted
  BY <1>2, <1>5 DEF Start, Signal, ClaimLock, ClaimNothing, NoOutput, linkVars
<1>6. ASSUME NEW w \in Workers, Sweep(w) PROVE Counted
  BY <1>2, <1>3, <1>6 DEF Sweep, linkVars
<1>7. ASSUME NEW w \in Workers, NEW o,
             \/ ClaimReturn(w, o) \/ MarkDone(w, o) \/ MarkError(w, o) \/ Notify(w, o)
             \/ \E j \in Jobs : LookUp(w, j, o) \/ WriteAdHoc(w, j, o) \/ WriteBack(w, j, o)
      PROVE  Counted
  BY <1>3, <1>7 DEF ClaimReturn, MarkDone, MarkError, Notify, LookUp, WriteAdHoc, WriteBack
<1>8. ASSUME NEW S, NEW k, Enqueue(S, k) PROVE Counted
  BY <1>2, <1>8 DEF Enqueue, linkVars
<1>9. ASSUME UNCHANGED vars PROVE Counted
  BY <1>2, <1>9 DEF vars
<1> HIDE DEF Counted
<1>10. ASSUME NEW w \in Workers, Step(w) PROVE Counted
  BY <1>4, <1>5, <1>6, <1>7, <1>10 DEF Step
<1>11. Counted
  BY <1>4, <1>5, <1>8, <1>9, <1>10 DEF Next
<1> QED BY <1>11 DEF Counted

\* No worker moves another one within its batch.
LEMMA OthersStay ==
  ASSUME TypeOK, NEW v \in Workers, NEW w \in Workers \ {v},
         Step(v) \/ Start(v) \/ Signal(v) \/ Crash(v) \/ LoseConnection(v)
  PROVE  pc'[w] = pc[w] /\ todo'[w] = todo[w]
<1>1. pc \in [Workers -> Places] /\ todo \in [Workers -> SUBSET Jobs]
  BY DEF TypeOK
<1>2. CASE Step(v)
  BY <1>1, <1>2 DEF Step, Exit, Stopped, ClaimLock, ClaimNothing, ClaimReturn, Sweep, NoOutput,
       MarkDone, MarkError, Notify, LookUp, WriteAdHoc, WriteBack, Finished, Pause, Goto, workerVars
<1>3. CASE Start(v) \/ Signal(v) \/ Crash(v) \/ LoseConnection(v)
  BY <1>1, <1>3 DEF Start, Signal, Crash, LoseConnection, Stopped, Goto, workerVars
<1> QED BY <1>2, <1>3

\* Each step of a worker within its batch is on the way from writing a job to
\* having finished it, whatever statements fail.
THEOREM BatchesEnd == Spec => BatchAdvances
<1> DEFINE Nearer(w) ==
      \/ pc[w] = "work" /\ pc'[w] \in {"mark", "fail"} /\ todo'[w] = todo[w]
      \/ \E j \in todo[w] :
           /\ todo'[w] = todo[w] \ {j}
           /\ status'[j] \in {"done", "error", "purged"} \/ faults' > 0
      \/ pc'[w] = "stopped" /\ faults' > faults
<1>1. Spec => []LostAfterFault
  <2>1. Init => LostAfterFault
    BY DEF Init, LostAfterFault
  <2>2. TypeOK /\ LostAfterFault /\ [Next]_vars => LostAfterFault'
    BY FaultsAreCounted DEF LostAfterFault
  <2> QED BY <2>1, <2>2, Typing, PTL DEF Spec
<1>2. ASSUME QueueInv, LostAfterFault, Next, NEW w \in Workers, todo[w] # {},
             todo'[w] # todo[w] \/ pc'[w] # pc[w]
      PROVE  Nearer(w)
  <2>1. /\ TypeOK /\ Dispatching(w) /\ pc[w] \in {"work", "mark", "fail"}
        /\ todo \in [Workers -> SUBSET Jobs] /\ pc \in [Workers -> Places]
    BY <1>2 DEF QueueInv, Dispatching, TypeOK
  <2>2. ASSUME NEW o, Send(w, o), ~Applied(o) PROVE faults' > 0
    BY <1>2, <2>1, <2>2, SendCharges DEF LostAfterFault
  <2>3. ASSUME NEW j \in Jobs, NoOutput(w, j) PROVE Nearer(w)
    BY <2>1, <2>3 DEF NoOutput, Pause, Goto
  <2>4. ASSUME NEW j \in Jobs, NEW o, WriteBack(w, j, o) PROVE Nearer(w)
    BY <2>1, <2>4 DEF WriteBack, Pause, Goto
  <2>5. ASSUME NEW j \in Jobs, NEW o, WriteAdHoc(w, j, o) PROVE Nearer(w)
    <3>1. CASE o = "ok"
      <4>1. j \in todo[w] /\ written[w] \cup {j} \in SUBSET Jobs
        BY <1>2, <2>1, <2>5, WorkFacts DEF WriteAdHoc, TypeOK
      <4>2. todo'[w] = todo[w] \ {j}
        BY <2>1, <2>5, <3>1, <4>1, FinishedFacts DEF WriteAdHoc
      <4>3. status'[j] = "done"
        BY <2>1, <2>5, <3>1, StatusFacts DEF WriteAdHoc, Applied, Status
      <4> QED BY <4>1, <4>2, <4>3
    <3>2. CASE o # "ok"
      BY <2>1, <2>5, <3>2 DEF WriteAdHoc, Pause, Goto
    <3> QED BY <3>1, <3>2
  <2>6. ASSUME NEW o, MarkDone(w, o) \/ MarkError(w, o) PROVE Nearer(w)
    <3>1. cur[w] \in todo[w] /\ cur[w] \in Jobs
      BY <2>1, <2>6 DEF MarkDone, MarkError, Dispatching
    <3>2. todo'[w] = todo[w] \ {cur[w]}
      <4>1. written[w] \in SUBSET Jobs /\ written[w] \cup {cur[w]} \in SUBSET Jobs
        BY <2>1, <3>1 DEF TypeOK
      <4>2. Finished(w, cur[w], written[w]) \/ Finished(w, cur[w], written[w] \cup {cur[w]})
        BY <2>6 DEF MarkDone, MarkError
      <4> QED BY <2>1, <3>1, <4>1, <4>2, FinishedFacts
    <3>3. CASE Applied(o)
      <4>1. SetStatus({cur[w]}, "done") \/ SetStatus({cur[w]}, "error")
        BY <2>6, <3>3 DEF MarkDone, MarkError
      <4>2. status'[cur[w]] \in {"done", "error"}
        BY <2>1, <3>1, <4>1, StatusFacts DEF Status
      <4> QED BY <3>1, <3>2, <4>2
    <3>4. CASE ~Applied(o)
      <4>1. faults' > 0
        BY <2>2, <2>6, <3>4 DEF MarkDone, MarkError
      <4> QED BY <3>1, <3>2, <4>1
    <3> QED BY <3>3, <3>4
  <2>7. CASE Crash(w)
    <3>1. pc'[w] = "stopped" /\ faults' = faults + 1 /\ faults \in Nat
      BY <2>1, <2>7, QueueAssumption DEF Crash, Stopped, Goto, TypeOK
    <3>2. faults' > faults
      BY <3>1
    <3> QED BY <3>1, <3>2
  <2>8. ASSUME Step(w) PROVE Nearer(w)
    <3>1. ~(Exit(w) \/ ClaimLock(w) \/ ClaimNothing(w) \/ Sweep(w))
      BY <2>1 DEF Exit, ClaimLock, ClaimNothing, Sweep
    <3>2. \A o : ~ClaimReturn(w, o) /\ ~Notify(w, o)
      BY <2>1 DEF ClaimReturn, Notify
    <3>3. \A j, o : ~LookUp(w, j, o)
      BY <1>2 DEF LookUp, workerVars
    <3> HIDE DEF Nearer
    <3> QED BY <2>3, <2>4, <2>5, <2>6, <2>8, <3>1, <3>2, <3>3 DEF Step
  <2>9. ~(Start(w) \/ Signal(w) \/ LoseConnection(w))
    BY <1>2, <2>1 DEF Start, Signal, LoseConnection, workerVars
  <2>10. \A S, k : ~Enqueue(S, k)
    BY <1>2 DEF Enqueue, workerVars
  <2>11. ASSUME NEW v \in Workers \ {w}
         PROVE  ~(Step(v) \/ Start(v) \/ Signal(v) \/ Crash(v) \/ LoseConnection(v))
    BY <1>2, <2>1, OthersStay
  <2> HIDE DEF Nearer
  <2> QED BY <1>2, <2>7, <2>8, <2>9, <2>10, <2>11 DEF Next
<1>3. QueueInv /\ LostAfterFault /\ [Next]_vars =>
        [\A w \in Workers : todo[w] # {} /\ (todo'[w] # todo[w] \/ pc'[w] # pc[w]) => Nearer(w)]_vars
  BY <1>2
<1> QED BY <1>1, <1>3, QueueSafety, PTL DEF Spec, BatchAdvances
=============================================================================
