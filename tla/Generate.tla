------------------------------- MODULE Generate -------------------------------
(***************************************************************************)
(* LlamaGenerationProvider::generate: the preflight check, and the loop    *)
(* that decodes a batch, samples a token and makes it the next batch.      *)
(*                                                                         *)
(* Sums are taken in int, and max_tokens comes from the job row unchecked. *)
(* A sum beyond IntMax is undefined behaviour: the comparison it occurs in *)
(* may go either way.  The same holds for the token of every batch but the *)
(* first: it is read through a pointer to a variable of the round before.  *)
(***************************************************************************)
EXTENDS Integers

CONSTANTS
  NCtx,          \* n_ctx_, generation_n_ctx
  IntMax,        \* largest int
  MaxPrompt,     \* bound: tokens of a templated prompt
  Requests       \* max_tokens of a job, or generation_max_tokens where NULL

\* A context of IntMax tokens is beyond what llama.cpp can allocate.
ASSUME GenerateAssumption ==
  /\ IntMax \in Nat /\ NCtx \in 1 .. IntMax - 1 /\ MaxPrompt \in 0 .. IntMax
  /\ Requests \subseteq -IntMax - 1 .. IntMax

VARIABLES
  phase,         \* "idle", "called", "loop", or how the last call ended
  prompt,        \* prompt_tokens.size()
  max,           \* max_tokens
  generated,     \* rounds so far
  text,          \* pieces of response that are not empty
  batch,         \* batch.n_tokens
  used,          \* llama_memory_seq_pos_max + 1
  memory         \* whose tokens the context holds

genVars == <<phase, prompt, max, generated, text, batch, used, memory>>

Running == {"called", "loop"}
Endings == {"text", "empty", "refused", "overrun", "failed"}

GenTypeOK ==
  /\ phase \in {"idle"} \cup Running \cup Endings
  /\ prompt \in 0 .. MaxPrompt /\ max \in Requests \cup {0}
  /\ generated \in Nat /\ text \in 0 .. generated
  /\ batch \in Nat /\ used \in Nat
  /\ memory \subseteq {"own", "stray", "stale"}

GenInit ==
  /\ phase = "idle" /\ prompt = 0 /\ max = 0
  /\ generated = 0 /\ text = 0 /\ batch = 0
  /\ used = 0 /\ memory = {}

-----------------------------------------------------------------------------
\* May `a + b > limit` be true, may it be false, for ints a >= 0 and b?
Exceeds(a, b, limit) == a + b > limit
Passes(a, b, limit) == a + b <= limit \/ a + b > IntMax

\* A call begins.  The context is as the last call left it, however that ended:
\* what it holds belongs to another job.
Call(p, m) ==
  /\ phase \notin Running
  /\ phase' = "called"
  /\ prompt' = p /\ max' = m
  /\ generated' = 0 /\ text' = 0 /\ batch' = 0
  /\ memory' = IF used = 0 THEN {} ELSE {"stale"}
  /\ UNCHANGED used

\* Mutant: the memory is cleared only where the prompt no longer fits.
ClearedWhenFull ==
  /\ used' = IF used + prompt > NCtx THEN 0 ELSE used
  /\ memory' = IF used + prompt > NCtx THEN {} ELSE memory

\* llama_memory_clear, before anything can fail.
Cleared == used' = 0 /\ memory' = {}

\* Mutants: the check forgets the prompt; it is off by one.
PreflightPromptless(p, m) ==
  \/ Exceeds(0, m, NCtx) /\ phase' = "refused"
  \/ Passes(0, m, NCtx) /\ phase' = "loop"
PreflightStrict(p, m) ==
  \/ Exceeds(p, m, NCtx - 1) /\ phase' = "refused"
  \/ Passes(p, m, NCtx - 1) /\ phase' = "loop"

\* prompt_tokens.size() + max_tokens > n_ctx_
Preflight(p, m) ==
  \/ Exceeds(p, m, NCtx) /\ phase' = "refused"
  \/ Passes(p, m, NCtx) /\ phase' = "loop"

\* From the clear to the loop: template and tokenizer may fail.
Prepare ==
  /\ phase = "called"
  /\ Cleared
  /\ batch' = prompt
  /\ phase' = "failed" \/ Preflight(prompt, max)
  /\ UNCHANGED <<prompt, max, generated, text>>

Ended(n) == phase' = IF n = 0 THEN "empty" ELSE "text"

\* max_tokens rounds are over.
Finish ==
  /\ phase = "loop" /\ generated >= max
  /\ Ended(text)
  /\ UNCHANGED <<prompt, max, generated, text, batch, used, memory>>

\* "context exceeded mid-generation (this shouldn't happen given the preflight
\* check above)"
Overrun ==
  /\ phase = "loop" /\ generated < max
  /\ Exceeds(used, batch, NCtx)
  /\ phase' = "overrun"
  /\ UNCHANGED <<prompt, max, generated, text, batch, used, memory>>

\* Mutant: the loop trusts the preflight check.
MayDecodeUnchecked == phase = "loop" /\ generated < max

MayDecode ==
  /\ phase = "loop" /\ generated < max
  /\ Passes(used, batch, NCtx)

\* Mutant: the memory is cleared before each batch, not before each call.
DecodeForgetting ==
  /\ MayDecode /\ batch > 0
  /\ used' = batch
  /\ \E read \in {"own"} \cup {x \in {"stray"} : generated > 0} : memory' = {read}

\* The batch joins the context.  All but the prompt are read too late.
Decode ==
  /\ MayDecode /\ batch > 0
  /\ used' = used + batch
  /\ \E read \in {"own"} \cup {x \in {"stray"} : generated > 0} :
       memory' = memory \cup {read}

\* Mutant: a refused batch is tried again.
DecodeRetried == MayDecode /\ UNCHANGED genVars

\* llama_decode refuses the batch, as it does an empty one, or fails after it
\* has taken the tokens in.
DecodeFails ==
  /\ MayDecode
  /\ phase' = "failed"
  /\ Decode \/ UNCHANGED <<used, memory>>
  /\ UNCHANGED <<prompt, max, generated, text, batch>>

\* The sampled token ends the text, cannot be printed, or is appended.
Sample ==
  /\ Decode
  /\ \/ Ended(text) /\ UNCHANGED <<generated, text, batch>>
     \/ phase' = "failed" /\ UNCHANGED <<generated, text, batch>>
     \/ /\ generated' = generated + 1
        /\ text' \in {text, text + 1}
        /\ batch' = 1
        /\ UNCHANGED phase
  /\ UNCHANGED <<prompt, max>>

Round == Finish \/ Overrun \/ DecodeFails \/ Sample

Working == Prepare \/ Round

GenNext == Working \/ \E p \in 0 .. MaxPrompt, m \in Requests : Call(p, m)

GenSpec == GenInit /\ [][GenNext]_genVars

\* The worker's thread keeps running, and llama.cpp's functions return.
FairGenSpec == GenSpec /\ WF_genVars(Working)

-----------------------------------------------------------------------------
\* llama.cpp never gets more tokens than the context holds, even where the
\* preflight check has overflowed and passed.
WithinContext == used <= NCtx

\* "Stateless per call": every round, and every text handed out, is computed
\* from the call's own tokens, though the context still holds those of the last
\* call, perhaps one that failed halfway, when the next one begins.
Stateless ==
  /\ phase \in {"loop", "text", "empty"} => "stale" \notin memory
  /\ phase = "text" \/ (phase = "loop" /\ generated > 0) => "own" \in memory

\* The inductive invariant of GenerateProofs: after round g the context holds
\* the prompt and all sampled tokens but the last, which is the batch.
GenInv ==
  /\ GenTypeOK
  /\ WithinContext
  /\ phase = "called" => generated = 0
  /\ phase = "loop" =>
       /\ generated = 0 => batch = prompt /\ used = 0
       /\ generated > 0 => batch = 1 /\ used = prompt + generated - 1 /\ generated <= max
       /\ prompt + max <= NCtx \/ prompt + max > IntMax
  /\ phase = "text" => text \in 1 .. max
  /\ phase = "refused" => prompt + max > NCtx
  /\ phase = "overrun" => prompt + max > IntMax

\* llama_generation_provider.cpp 138: the check in the loop "shouldn't happen
\* given the preflight check".  True unless the preflight sum overflowed.
PreflightSuffices == phase = "overrun" => prompt + max > IntMax

Reply ==
  [kind |-> IF phase \in Running THEN "busy"
            ELSE IF phase \in {"refused", "overrun"} THEN "toolong" ELSE phase,
   length |-> IF phase = "text" THEN text ELSE 0]

Provider ==
  INSTANCE GenerationProvider
    WITH Context <- NCtx, Asked <- [prompt : 0 .. MaxPrompt, max : Requests],
         request <- [prompt |-> prompt, max |-> max], reply <- Reply

\* The dispatcher's view: one reply per call, no text longer than the job's
\* max_tokens, and no request refused that fits the context.
KeepsContract == Provider!Spec

\* The safety half of CallEnds: each step of the loop ends it or fills the
\* context further, and never beyond n_ctx.  So the worker's only thread spends
\* n_ctx rounds on a job at most, whatever max_tokens the row asks for.
RoundsAdvance ==
  [][phase = "loop" => phase' # "loop" \/ (used < used' /\ used' <= NCtx)]_genVars

\* A call ends, however large max_tokens is: the dispatcher never hangs.
CallEnds == phase \in Running ~> phase \notin Running
===============================================================================
