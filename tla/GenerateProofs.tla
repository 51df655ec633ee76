---------------------------- MODULE GenerateProofs ----------------------------
(***************************************************************************)
(* Theorems about Generate, for every width of int, context and request.   *)
(***************************************************************************)
EXTENDS Generate, TLAPS

\* One round of the loop.
LEMMA RoundKeepsInv == GenInv /\ Round => GenInv'
<1> SUFFICES ASSUME GenInv, Round PROVE GenInv'
  OBVIOUS
<1> USE GenerateAssumption DEF GenInv, GenTypeOK, WithinContext, Running, Endings
<1>1. CASE Finish
  BY <1>1 DEF Finish, Ended
<1>2. CASE Overrun
  <2>1. used + batch > NCtx \/ used + batch > IntMax
    BY <1>2 DEF Overrun, Exceeds
  <2>2. prompt + max > IntMax
    BY <1>2, <2>1 DEF Overrun
  <2> QED BY <1>2, <2>2 DEF Overrun
<1>3. CASE DecodeFails
  <2>1. used + batch <= NCtx
    BY <1>3 DEF DecodeFails, MayDecode, Passes
  <2>2. used' \in {used, used + batch} /\ memory' \subseteq memory \cup {"own", "stray"}
    BY <1>3 DEF DecodeFails, Decode
  <2> QED BY <1>3, <2>1, <2>2 DEF DecodeFails, MayDecode
<1>4. CASE Sample
  <2>1. used + batch <= NCtx /\ generated < max /\ phase = "loop"
    BY <1>4 DEF Sample, Decode, MayDecode, Passes
  <2>2. used' = used + batch /\ memory' \subseteq memory \cup {"own", "stray"} /\ prompt' = prompt /\ max' = max
    BY <1>4 DEF Sample, Decode
  <2>3. CASE Ended(text) /\ UNCHANGED <<generated, text, batch>>
    BY <2>1, <2>2, <2>3 DEF Ended
  <2>4. CASE phase' = "failed" /\ UNCHANGED <<generated, text, batch>>
    BY <2>1, <2>2, <2>4
  <2>5. CASE /\ generated' = generated + 1 /\ text' \in {text, text + 1}
             /\ batch' = 1 /\ phase' = phase
    BY <2>1, <2>2, <2>5
  <2> QED BY <1>4, <2>3, <2>4, <2>5 DEF Sample
<1> QED BY <1>1, <1>2, <1>3, <1>4 DEF Round

\* A call begins in whatever the last one left.
LEMMA CallKeepsInv ==
  ASSUME GenInv, NEW p \in 0 .. MaxPrompt, NEW m \in Requests, Call(p, m)
  PROVE  GenInv'
BY GenerateAssumption DEF GenInv, GenTypeOK, WithinContext, Running, Endings, Call

\* The call up to its loop.
LEMMA PrepareKeepsInv == GenInv /\ Prepare => GenInv'
<1> SUFFICES ASSUME GenInv, Prepare PROVE GenInv'
  OBVIOUS
<1> USE GenerateAssumption DEF GenInv, GenTypeOK, WithinContext, Running, Endings
<1>1. prompt \in Nat /\ max \in Int /\ prompt + max \in Int
  OBVIOUS
<1>2. \/ phase' = "failed"
      \/ phase' = "refused" /\ prompt + max > NCtx
      \/ phase' = "loop" /\ (prompt + max <= NCtx \/ prompt + max > IntMax)
  BY <1>1 DEF Prepare, Preflight, Exceeds, Passes
<1> QED BY <1>1, <1>2 DEF Prepare, Cleared

\* The context is never exceeded, and the check in the loop fires only if the
\* preflight sum overflowed.
THEOREM GenerateSafety == GenSpec => []GenInv
<1>1. GenInit => GenInv
  BY GenerateAssumption
     DEF GenInit, GenInv, GenTypeOK, WithinContext, Running, Endings
<1>2. GenInv /\ [GenNext]_genVars => GenInv'
  <2> SUFFICES ASSUME GenInv, [GenNext]_genVars PROVE GenInv'
    OBVIOUS
  <2>1. CASE UNCHANGED genVars
    BY <2>1 DEF genVars, GenInv, GenTypeOK, WithinContext, Running, Endings
  <2> QED BY <2>1, RoundKeepsInv, PrepareKeepsInv, CallKeepsInv DEF GenNext, Working
<1> QED BY <1>1, <1>2, PTL DEF GenSpec

\* llama_generation_provider.cpp 138: true of every request whose sum with the
\* prompt is an int.
THEOREM PreflightIsEnough == GenSpec => []PreflightSuffices
<1>1. GenInv => PreflightSuffices
  BY DEF GenInv, PreflightSuffices
<1> QED BY <1>1, GenerateSafety, PTL

\* "Stateless per call": a call begins with tokens of another job, and none of
\* them reaches its loop.  What is decoded first is its prompt.
THEOREM NoCrossCallMemory == GenSpec => []Stateless
<1>1. GenInit => Stateless
  BY DEF GenInit, Stateless
<1>2. GenInv /\ Stateless /\ [GenNext]_genVars => Stateless'
  <2> SUFFICES ASSUME GenTypeOK, phase = "called" => generated = 0, Stateless, [GenNext]_genVars
               PROVE  Stateless'
    BY DEF GenInv
  <2>1. CASE UNCHANGED genVars
    BY <2>1 DEF genVars, Stateless
  <2>2. ASSUME NEW p, NEW m, Call(p, m) PROVE Stateless'
    BY <2>2 DEF Call, Stateless
  <2>3. CASE Prepare
    BY <2>3 DEF Prepare, Cleared, Preflight, Stateless
  <2>4. CASE Finish \/ Overrun \/ DecodeFails
    <3>1. text > 0 => generated > 0
      BY DEF GenTypeOK
    <3>2. text \in Nat
      BY DEF GenTypeOK
    <3> QED BY <2>4, <3>1, <3>2 DEF Finish, Ended, Overrun, DecodeFails, Stateless
  <2>5. CASE Sample
    <3>1. PICK read \in {"own"} \cup {x \in {"stray"} : generated > 0} :
            memory' = memory \cup {read}
      BY <2>5 DEF Sample, Decode
    <3>2. phase = "loop" /\ "stale" \notin memory /\ (generated > 0 => "own" \in memory)
      BY <2>5 DEF Sample, Decode, MayDecode, Stateless
    <3>3. "own" \in memory' /\ "stale" \notin memory'
      BY <3>1, <3>2
    <3> QED BY <3>3 DEF Stateless
  <2> QED BY <2>1, <2>2, <2>3, <2>4, <2>5 DEF GenNext, Working, Round
<1> QED BY <1>1, <1>2, GenerateSafety, PTL DEF GenSpec

\* A step of a running call is a stutter of the contract, or its answer.
LEMMA WorkAnswers ==
  ASSUME GenInv, GenInv', Working
  PROVE  Provider!Answer \/ UNCHANGED Provider!vars
<1> USE GenerateAssumption DEF GenInv, GenTypeOK, Running, Endings
<1>1. phase \in Running /\ prompt' = prompt /\ max' = max
      /\ phase' \in {"loop"} \cup Endings
  BY DEF Working, Prepare, Preflight, Round, Finish, Overrun, DecodeFails, MayDecode, Sample,
         Decode, Ended
<1>2. Reply = [kind |-> "busy", length |-> 0]
  BY <1>1 DEF Reply
<1>3. CASE phase' = "loop"
  BY <1>1, <1>2, <1>3 DEF Reply, Provider!vars
<1>4. CASE phase' # "loop"
  <2>1. prompt + max > IntMax => prompt + max > NCtx
    OBVIOUS
  <2>2. Reply' \in Provider!Replies([prompt |-> prompt, max |-> max])
    BY <1>1, <1>4, <2>1 DEF Reply, Provider!Replies
  <2> QED BY <1>1, <1>2, <2>2 DEF Provider!Answer, Provider!Busy
<1> QED BY <1>3, <1>4

\* generate() is a provider as the dispatcher expects it.
THEOREM Contract == GenSpec => KeepsContract
<1>1. GenInit => Provider!Init
  BY DEF GenInit, Provider!Init, Reply, Provider!NoReply, Running
<1>2. GenInv /\ GenInv' /\ [GenNext]_genVars => [Provider!Next]_(Provider!vars)
  <2> SUFFICES ASSUME GenInv, GenInv', [GenNext]_genVars
               PROVE  Provider!Next \/ UNCHANGED Provider!vars
    BY DEF Provider!vars
  <2>1. CASE UNCHANGED genVars
    BY <2>1 DEF genVars, Reply, Provider!vars
  <2>2. CASE Working
    BY <2>2, WorkAnswers DEF Provider!Next
  <2>3. ASSUME NEW p \in 0 .. MaxPrompt, NEW m \in Requests, Call(p, m)
        PROVE  Provider!Next
    <3> DEFINE r == [prompt |-> p, max |-> m]
    <3>1. phase \notin Running /\ phase' = "called" /\ prompt' = p /\ max' = m
      BY <2>3 DEF Call
    <3>2. Reply # Provider!Busy
      BY <3>1 DEF Reply, Provider!Busy, GenInv, GenTypeOK, Endings
    <3>3. Reply' = Provider!Busy
      BY <3>1 DEF Reply, Provider!Busy, Running
    <3>4. r \in [prompt : 0 .. MaxPrompt, max : Requests]
      OBVIOUS
    <3> QED BY <3>1, <3>2, <3>3, <3>4 DEF Provider!Ask, Provider!Next
  <2> QED BY <2>1, <2>2, <2>3 DEF GenNext
<1> QED BY <1>1, <1>2, GenerateSafety, PTL DEF GenSpec, KeepsContract, Provider!Spec

\* However large max_tokens is, a call has n_ctx rounds at most.
THEOREM RoundsAreBounded == GenSpec => RoundsAdvance
<1> DEFINE Advances == phase' # "loop" \/ (used < used' /\ used' <= NCtx)
<1>1. ASSUME GenInv, phase = "loop", GenNext PROVE Advances
  <2> USE GenerateAssumption, <1>1 DEF GenInv, GenTypeOK
  <2>1. CASE Finish \/ Overrun \/ DecodeFails
    BY <2>1 DEF Finish, Ended, Overrun, DecodeFails
  <2>2. CASE Sample
    <3>1. used + batch <= NCtx \/ used + batch > IntMax
      BY <2>2 DEF Sample, Decode, MayDecode, Passes
    <3>2. batch > 0 /\ used' = used + batch
      BY <2>2 DEF Sample, Decode
    <3>3. ~(used + batch > IntMax)
      BY <1>1, <2>2 DEF Sample, Decode, MayDecode, WithinContext
    <3> QED BY <3>1, <3>2, <3>3
  <2>3. ~Prepare /\ \A p, m : ~Call(p, m)
    BY <1>1 DEF Prepare, Call, Running
  <2> QED BY <1>1, <2>1, <2>2, <2>3 DEF GenNext, Working, Round
<1>2. GenInv /\ [GenNext]_genVars => [phase = "loop" => Advances]_genVars
  BY <1>1
<1> QED BY <1>2, GenerateSafety, PTL DEF GenSpec, RoundsAdvance
===============================================================================
