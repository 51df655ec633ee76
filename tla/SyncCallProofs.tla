---------------------------- MODULE SyncCallProofs ----------------------------
(***************************************************************************)
(* What a synchronous call returns, for every number of callers and jobs,  *)
(* whatever isolation level their sessions use, with and without purges.   *)
(*                                                                         *)
(* The life of a job only moves forward.  Ledger states that once for all  *)
(* steps (Forward), and the proof about the calls uses nothing else of the *)
(* workers.                                                                *)
(***************************************************************************)
EXTENDS SyncCall, TLAPS

\* A step of the ledger keeps what was settled: a job stays committed, a
\* finished one finished, with the effect it has had.
Forward ==
  \A j \in Jobs :
    /\ status[j] # "absent" => status'[j] # "absent"
    /\ status[j] = "done" => status'[j] \in {"done", "purged"}
    /\ status[j] \in {"error", "purged"} => status'[j] = status[j]
    /\ status[j] \in {"done", "error", "purged"} => effects'[j] = effects[j]

LedgerTypeOK == status \in [Jobs -> Status] /\ effects \in [Jobs -> {0, 1}]

-----------------------------------------------------------------------------
\* An UPDATE of the status of S takes effect on S and nothing else.
LEMMA MovedFacts ==
  ASSUME LedgerTypeOK, NEW S, NEW s \in Status, Moved(S, s)
  PROVE  /\ status' \in [Jobs -> Status]
         /\ \A j \in Jobs : status'[j] = IF j \in S THEN s ELSE status[j]
  BY DEF LedgerTypeOK, Moved

\* The ledger's own promise, for one step: types, Forward, and that the
\* reported outcome matches the effect.
LEMMA LedgerStep ==
  ASSUME LedgerTypeOK, OutcomeMatchesEffect, [Next]_vars
  PROVE  LedgerTypeOK' /\ OutcomeMatchesEffect' /\ Forward
<1> USE DEF LedgerTypeOK
<1>1. CASE UNCHANGED vars
  BY <1>1 DEF vars, OutcomeMatchesEffect, Forward, Status
<1>2. ASSUME NEW S \in SUBSET Jobs, Submit(S)
      PROVE  LedgerTypeOK' /\ OutcomeMatchesEffect' /\ Forward
  <2>1. /\ status' \in [Jobs -> Status]
        /\ \A j \in Jobs : status'[j] = IF j \in S THEN "pending" ELSE status[j]
    BY <1>2, MovedFacts DEF Submit, Status
  <2> QED BY <1>2, <2>1 DEF Submit, AllAre, OutcomeMatchesEffect, Forward, Status
<1>3. ASSUME NEW S \in SUBSET Jobs, Take(S)
      PROVE  LedgerTypeOK' /\ OutcomeMatchesEffect' /\ Forward
  <2>1. /\ status' \in [Jobs -> Status]
        /\ \A j \in Jobs : status'[j] = IF j \in S THEN "processing" ELSE status[j]
    BY <1>3, MovedFacts DEF Take, Status
  <2> QED BY <1>3, <2>1 DEF Take, AllAre, OutcomeMatchesEffect, Forward, Status
<1>4. ASSUME NEW S \in SUBSET Jobs, Forget(S)
      PROVE  LedgerTypeOK' /\ OutcomeMatchesEffect' /\ Forward
  <2>1. /\ status' \in [Jobs -> Status]
        /\ \A j \in Jobs : status'[j] = IF j \in S THEN "purged" ELSE status[j]
    BY <1>4, MovedFacts DEF Forget, Status
  <2> QED BY <1>4, <2>1 DEF Forget, AllAre, OutcomeMatchesEffect, Forward, Status
<1>5. ASSUME NEW j \in Jobs, TakeEffect(j)
      PROVE  LedgerTypeOK' /\ OutcomeMatchesEffect' /\ Forward
  BY <1>5 DEF TakeEffect, OutcomeMatchesEffect, Forward, Status
<1>6. ASSUME NEW j \in Jobs, Finish(j)
      PROVE  LedgerTypeOK' /\ OutcomeMatchesEffect' /\ Forward
  <2>1. /\ status' \in [Jobs -> Status]
        /\ \A i \in Jobs : status'[i] = IF i \in {j} THEN "done" ELSE status[i]
    BY <1>6, MovedFacts DEF Finish, Status
  <2> QED BY <1>6, <2>1 DEF Finish, OutcomeMatchesEffect, Forward, Status
<1>7. ASSUME NEW j \in Jobs, TakeEffectAndFinish(j)
      PROVE  LedgerTypeOK' /\ OutcomeMatchesEffect' /\ Forward
  <2>1. /\ status' \in [Jobs -> Status]
        /\ \A i \in Jobs : status'[i] = IF i \in {j} THEN "done" ELSE status[i]
    BY <1>7, MovedFacts DEF TakeEffectAndFinish, Status
  <2> QED BY <1>7, <2>1 DEF TakeEffectAndFinish, OutcomeMatchesEffect, Forward, Status
<1>8. ASSUME NEW j \in Jobs, Reject(j)
      PROVE  LedgerTypeOK' /\ OutcomeMatchesEffect' /\ Forward
  <2>1. /\ status' \in [Jobs -> Status]
        /\ \A i \in Jobs : status'[i] = IF i \in {j} THEN "error" ELSE status[i]
    BY <1>8, MovedFacts DEF Reject, Status
  <2> QED BY <1>8, <2>1 DEF Reject, OutcomeMatchesEffect, Forward, Status
<1> QED BY <1>1, <1>2, <1>3, <1>4, <1>5, <1>6, <1>7, <1>8 DEF Next

\* Every step of a call or of a worker is one of the ledger, or leaves it alone.
LEMMA SyncStep == ASSUME [SyncNext]_allVars PROVE [Next]_vars
<1>1. ASSUME NEW c \in Callers, NEW j \in Jobs, Call(c, j) PROVE Next
  BY <1>1 DEF Call, Next
<1>2. ASSUME NEW c \in Callers, Proceed(c) \/ Elapse(c) \/ Cancel(c)
      PROVE  UNCHANGED vars
  BY <1>2 DEF Proceed, StartClock, Poll, Check, Elapse, Cancel
<1>3. CASE Work
  BY <1>3 DEF Work, Next
<1>4. CASE UNCHANGED allVars
  BY <1>4 DEF allVars, vars
<1> QED BY <1>1, <1>2, <1>3, <1>4 DEF SyncNext

-----------------------------------------------------------------------------
\* The phase of a caller says nothing wrong about its job, step by step.
LEMMA CallerStep ==
  ASSUME SyncInv, SyncTypeOK', Forward, [SyncNext]_allVars, NEW c \in Callers
  PROVE  /\ Informed(c)'
         /\ phase'[c] = "returned" =>
              status'[job'[c]] \in {"done", "purged"} /\ effects'[job'[c]] = 1
         /\ phase'[c] = "failed" => status'[job'[c]] = "error" /\ effects'[job'[c]] = 0
<1> DEFINE Goal ==
      /\ Informed(c)'
      /\ phase'[c] = "returned" =>
           status'[job'[c]] \in {"done", "purged"} /\ effects'[job'[c]] = 1
      /\ phase'[c] = "failed" => status'[job'[c]] = "error" /\ effects'[job'[c]] = 0
<1>1. /\ Informed(c) /\ NoJob \notin Jobs
      /\ phase[c] = "returned" =>
           status[job[c]] \in {"done", "purged"} /\ effects[job[c]] = 1
      /\ phase[c] = "failed" => status[job[c]] = "error" /\ effects[job[c]] = 0
  BY SyncAssumption DEF SyncInv, AnswersAgree
<1>2. phase[c] # "idle" => job[c] \in Jobs
  BY <1>1 DEF Informed, SyncInv, SyncTypeOK
\* Steps of others: the call is where it was, the job at most a step further.
<1>3. ASSUME phase'[c] = phase[c], job'[c] = job[c], snapshot'[c] = snapshot[c]
      PROVE  Goal
  BY <1>1, <1>2, <1>3 DEF Informed, Forward
<1>4. ASSUME NEW d \in Callers, NEW j \in Jobs, Call(d, j)
      PROVE  Goal
  <2>1. CASE d # c
    BY <1>3, <1>4, <2>1 DEF Call, Goto, SyncInv, SyncTypeOK
  <2>2. CASE d = c
    <3>1. phase'[c] = "start" /\ job'[c] = j
      BY <1>4, <2>2 DEF Call, Goto, SyncInv, SyncTypeOK
    <3>2. status'[j] = "pending"
      BY <1>4 DEF Call, Submit, Moved
    <3> QED BY <1>1, <3>1, <3>2 DEF Informed
  <2> QED BY <2>1, <2>2
<1>5. ASSUME NEW d \in Callers, StartClock(d)
      PROVE  Goal
  <2>1. CASE d # c
    BY <1>3, <1>5, <2>1 DEF StartClock, Goto, SyncInv, SyncTypeOK
  <2>2. CASE d = c
    <3>1. /\ phase[c] = "start" /\ phase'[c] = "poll" /\ job'[c] = job[c]
          /\ status' = status /\ snapshot'[c] = status[job[c]]
      BY <1>5, <2>2 DEF StartClock, Goto, SyncInv, SyncTypeOK, vars
    <3> QED BY <1>1, <3>1 DEF Informed
  <2> QED BY <2>1, <2>2
<1>6. ASSUME NEW d \in Callers, Poll(d)
      PROVE  Goal
  <2>1. CASE d # c
    BY <1>3, <1>6, <2>1 DEF Poll, Goto, SyncInv, SyncTypeOK
  <2>2. CASE d = c
    <3>1. /\ phase[c] = "poll" /\ job'[c] = job[c] /\ snapshot'[c] = snapshot[c]
          /\ status' = status /\ effects' = effects
      BY <1>6, <2>2 DEF Poll, vars
    <3>2. /\ Seen(c) = "done" => status[job[c]] \in {"done", "purged"}
          /\ Seen(c) = "error" => status[job[c]] = "error"
      BY <1>1, <3>1 DEF Seen, Informed
    <3>3. /\ status[job[c]] \in {"done", "purged"} => effects[job[c]] = 1
          /\ status[job[c]] = "error" => effects[job[c]] = 0
      BY <1>2, <3>1 DEF SyncInv, OutcomeMatchesEffect
    <3>4. \/ Seen(c) = "done" /\ phase'[c] = "returned"
          \/ Seen(c) = "error" /\ phase'[c] = "failed"
          \/ phase'[c] = "check"
      BY <1>6, <2>2 DEF Poll, Goto, SyncInv, SyncTypeOK
    <3> QED BY <1>1, <3>1, <3>2, <3>3, <3>4 DEF Informed
  <2> QED BY <2>1, <2>2
<1>7. ASSUME NEW d \in Callers, Check(d)
      PROVE  Goal
  <2>1. CASE d # c
    BY <1>3, <1>7, <2>1 DEF Check, Goto, SyncInv, SyncTypeOK
  <2>2. CASE d = c
    <3>1. /\ phase[c] = "check" /\ phase'[c] \in {"timedout", "poll"}
          /\ job'[c] = job[c] /\ snapshot'[c] = snapshot[c] /\ status' = status
      BY <1>7, <2>2 DEF Check, Goto, SyncInv, SyncTypeOK, vars
    <3> QED BY <1>1, <3>1 DEF Informed
  <2> QED BY <2>1, <2>2
<1>8. ASSUME NEW d \in Callers, Elapse(d)
      PROVE  Goal
  BY <1>3, <1>8 DEF Elapse
<1>9. ASSUME NEW d \in Callers, Cancel(d)
      PROVE  Goal
  <2>1. CASE d # c
    BY <1>3, <1>9, <2>1 DEF Cancel, Goto, SyncInv, SyncTypeOK
  <2>2. CASE d = c
    <3>1. /\ phase[c] \in Waiting /\ phase'[c] = "cancelled"
          /\ job'[c] = job[c] /\ status' = status
      BY <1>9, <2>2 DEF Cancel, Goto, SyncInv, SyncTypeOK, vars
    <3> QED BY <1>1, <3>1 DEF Informed, Waiting
  <2> QED BY <2>1, <2>2
<1>10. CASE Work
  BY <1>3, <1>10 DEF Work, syncVars
<1>11. CASE UNCHANGED allVars
  BY <1>3, <1>11 DEF allVars
<1> QED
  BY <1>4, <1>5, <1>6, <1>7, <1>8, <1>9, <1>10, <1>11 DEF SyncNext, Proceed

\* Types.
LEMMA SyncTyping ==
  ASSUME SyncInv, LedgerTypeOK', [SyncNext]_allVars
  PROVE  SyncTypeOK'
<1>0. SyncTypeOK
  BY DEF SyncInv
<1> USE <1>0 DEF SyncTypeOK, LedgerTypeOK, Goto, Waiting, Ended, vars
<1>1. ASSUME NEW c \in Callers, NEW j \in Jobs, Call(c, j) PROVE SyncTypeOK'
  BY <1>1 DEF Call, Status
<1>2. ASSUME NEW c \in Callers, StartClock(c) PROVE SyncTypeOK'
  <2>1. job[c] \in Jobs
    BY <1>2 DEF StartClock, SyncInv, Informed
  <2> QED BY <1>2, <2>1 DEF StartClock
<1>3. ASSUME NEW c \in Callers, Poll(c) PROVE SyncTypeOK'
  BY <1>3 DEF Poll
<1>4. ASSUME NEW c \in Callers, Check(c) PROVE SyncTypeOK'
  BY <1>4 DEF Check
<1>5. ASSUME NEW c \in Callers, Elapse(c) PROVE SyncTypeOK'
  BY <1>5 DEF Elapse
<1>6. ASSUME NEW c \in Callers, Cancel(c) PROVE SyncTypeOK'
  BY <1>6 DEF Cancel
<1>7. CASE Work
  BY <1>7 DEF Work, syncVars
<1>8. CASE UNCHANGED allVars
  BY <1>8 DEF allVars
<1> QED BY <1>1, <1>2, <1>3, <1>4, <1>5, <1>6, <1>7, <1>8 DEF SyncNext, Proceed

\* What a synchronous call returns is what happened to its job, whatever the
\* isolation level of its session, with purges and calls repeated at will
\* (embed_sync and generate_sync, sql 224-302).
THEOREM AnswerSafety == SyncSpec => []SyncInv
<1>1. SyncInit => SyncInv
  BY SyncAssumption
     DEF SyncInit, Init, SyncInv, SyncTypeOK, OutcomeMatchesEffect, AnswersAgree,
         Informed, Status, Waiting, Ended
<1>2. SyncInv /\ [SyncNext]_allVars => SyncInv'
  <2> SUFFICES ASSUME SyncInv, [SyncNext]_allVars PROVE SyncInv'
    OBVIOUS
  <2>1. LedgerTypeOK
    BY DEF SyncInv, SyncTypeOK, LedgerTypeOK
  <2>2. LedgerTypeOK' /\ OutcomeMatchesEffect' /\ Forward
    BY <2>1, SyncStep, LedgerStep DEF SyncInv
  <2>3. SyncTypeOK'
    BY <2>2, SyncTyping
  <2>4. \A c \in Callers : Informed(c)'
    BY <2>2, <2>3, CallerStep
  <2>5. AnswersAgree'
    BY <2>2, <2>3, CallerStep DEF AnswersAgree
  <2> QED BY <2>2, <2>3, <2>4, <2>5 DEF SyncInv
<1> QED BY <1>1, <1>2, PTL DEF SyncSpec

-----------------------------------------------------------------------------
\* A call at READ COMMITTED goes on to look at the clock only if its job was
\* unfinished, or gone.
Unfinished == \A c \in Callers \ Repeatable : phase[c] \in {"check", "timedout"} => ~over[c]

\* At READ COMMITTED a call that times out has not missed a finished job, with
\* purges or without (run sync_snapshot shows that the restriction is needed).
THEOREM HonestTimeout == SyncSpec => []CommittedTimeoutIsHonest
<1>1. SyncInit => Unfinished
  BY DEF SyncInit, Unfinished
<1>2. SyncInv /\ Unfinished /\ [SyncNext]_allVars => Unfinished'
  <2> SUFFICES ASSUME SyncInv, Unfinished, [SyncNext]_allVars PROVE Unfinished'
    OBVIOUS
  <2> USE DEF SyncInv, SyncTypeOK, Unfinished, Goto
  <2>1. ASSUME NEW c \in Callers, NEW j \in Jobs, Call(c, j) PROVE Unfinished'
    BY <2>1 DEF Call
  <2>2. ASSUME NEW c \in Callers, StartClock(c) PROVE Unfinished'
    BY <2>2 DEF StartClock
  <2>3. ASSUME NEW c \in Callers, Poll(c) PROVE Unfinished'
    <3>1. c \notin Repeatable => Seen(c) = status[job[c]]
      BY DEF Seen
    <3> QED BY <2>3, <3>1 DEF Poll
  <2>4. ASSUME NEW c \in Callers, Check(c) PROVE Unfinished'
    BY <2>4 DEF Check
  <2>5. ASSUME NEW c \in Callers, Elapse(c) PROVE Unfinished'
    BY <2>5 DEF Elapse
  <2>6. ASSUME NEW c \in Callers, Cancel(c) PROVE Unfinished'
    BY <2>6 DEF Cancel
  <2>7. CASE Work
    BY <2>7 DEF Work, syncVars
  <2>8. CASE UNCHANGED allVars
    BY <2>8 DEF allVars
  <2> QED BY <2>1, <2>2, <2>3, <2>4, <2>5, <2>6, <2>7, <2>8 DEF SyncNext, Proceed
<1>3. Unfinished => CommittedTimeoutIsHonest
  BY DEF Unfinished, CommittedTimeoutIsHonest, Honest
<1> QED BY <1>1, <1>2, <1>3, AnswerSafety, PTL DEF SyncSpec
=============================================================================
