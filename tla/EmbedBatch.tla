------------------------------ MODULE EmbedBatch ------------------------------
(***************************************************************************)
(* LlamaProvider::embed_batch: the texts of a batch are cut into chunks    *)
(* that llama.cpp can encode at once, and the embeddings of each chunk are *)
(* put back at the place of their text.  The llama.cpp context outlives    *)
(* the call, and with it whatever the last llama_encode left in it.        *)
(*                                                                         *)
(* A text is its number of tokens, a vector the set of texts it was        *)
(* computed from: {} is no vector, {t} a correct vector of text t, and     *)
(* Stale stands for every text of an earlier call.                         *)
(***************************************************************************)
EXTENDS Integers, Sequences, FiniteSets

CONSTANTS
  MaxTexts,      \* bound: texts per call
  MaxLength,     \* bound: tokens per text
  NCtx,          \* n_ctx of the configuration
  MaxSeqs,       \* llama_n_seq_max(ctx_), at least 1
  Capacity       \* llama_n_batch(ctx_), as llama.cpp granted it

ASSUME EmbedAssumption ==
  /\ MaxTexts \in Nat /\ MaxLength \in Nat /\ NCtx \in Nat /\ Capacity \in Nat
  /\ MaxSeqs \in Nat \ {0}

VARIABLES
  phase,         \* "idle", "loop" over the tokenized texts, "done": results returned
  texts,         \* n_tokens of each text of the call
  next,          \* the text the loop has come to
  chunk,         \* texts of the chunk being filled; the position is the seq_id
  chunk_tokens,
  results,       \* the vector of each text
  memory,        \* the sequences in llama_get_memory(ctx_)
  lost           \* history: texts llama.cpp was given and returned nothing for

vars == <<phase, texts, next, chunk, chunk_tokens, results, memory, lost>>

Stale == 0
Indices == 1 .. MaxTexts
SeqIds == 1 .. MaxSeqs
Positions(s) == 1 .. Len(s)

EmbedTypeOK ==
  /\ phase \in {"idle", "loop", "done"}
  /\ texts \in Seq(0 .. MaxLength) /\ Len(texts) <= MaxTexts
  /\ next \in 1 .. Len(texts) + 1
  /\ chunk \in Seq(Positions(texts)) /\ chunk_tokens \in Nat
  /\ results \in [Positions(texts) -> SUBSET (Indices \cup {Stale})]
  /\ memory \in [SeqIds -> SUBSET (Indices \cup {Stale})]
  /\ lost \subseteq Positions(texts)

EmbedInit ==
  /\ phase = "idle" /\ texts = <<>> /\ next = 1
  /\ chunk = <<>> /\ chunk_tokens = 0 /\ results = <<>>
  /\ memory = [s \in SeqIds |-> {}]
  /\ lost = {}

-----------------------------------------------------------------------------
\* The worker embeds the texts of its batch (dispatch_embed_jobs, which calls
\* for no empty batch).  tokenize_batch has no effect of its own.
Call(ts) ==
  /\ phase \in {"idle", "done"}
  /\ phase' = "loop" /\ texts' = ts /\ next' = 1
  /\ chunk' = <<>> /\ chunk_tokens' = 0
  /\ results' = [i \in Positions(ts) |-> {}]
  /\ memory' = [s \in SeqIds |-> IF memory[s] = {} THEN {} ELSE {Stale}]
  /\ lost' = {}

\* Texts that cannot be embedded: no tokens, more than tokenize_batch has
\* room for, or more than llama.cpp takes at once.
Embeddable(i) == texts[i] > 0 /\ texts[i] <= NCtx /\ texts[i] <= Capacity

\* Mutant: the budget is compared before the text is counted.
RoomUncounted(i) ==
  chunk = <<>> \/ (chunk_tokens <= Capacity /\ Len(chunk) < MaxSeqs)

\* May text i join the chunk?
Room(i) ==
  chunk = <<>> \/ (chunk_tokens + texts[i] <= Capacity /\ Len(chunk) < MaxSeqs)

\* Mutant: the memory is not cleared, each sequence grows on what it held.
EncodedUncleared ==
  [s \in SeqIds |-> memory[s] \cup IF s \in Positions(chunk) THEN {chunk[s]} ELSE {}]

\* The memory after llama_memory_clear and llama_encode of the chunk.
Encoded == [s \in SeqIds |-> IF s \in Positions(chunk) THEN {chunk[s]} ELSE {}]

\* extract_embeddings: llama.cpp has an embedding for the sequences in got.
\* Each goes to original_index, the place its text had in the call.
Extracted(got) ==
  [i \in Positions(texts) |->
     IF \E s \in got : chunk[s] = i
     THEN memory'[CHOOSE s \in got : chunk[s] = i]
     ELSE results[i]]

\* flush_chunk.  If llama_encode fails, got = {}, and what it leaves in the
\* memory is no better than Encoded.
Flush(got) ==
  /\ memory' = Encoded
  /\ results' = Extracted(got)
  /\ lost' = lost \cup {chunk[s] : s \in Positions(chunk) \ got}

\* One round of the loop: the text is skipped ...
Skip ==
  /\ phase = "loop" /\ next <= Len(texts) /\ ~Embeddable(next)
  /\ next' = next + 1
  /\ UNCHANGED <<phase, texts, chunk, chunk_tokens, results, memory, lost>>

\* ... or joins the chunk ...
Join ==
  /\ phase = "loop" /\ next <= Len(texts) /\ Embeddable(next) /\ Room(next)
  /\ chunk' = Append(chunk, next)
  /\ chunk_tokens' = chunk_tokens + texts[next]
  /\ next' = next + 1
  /\ UNCHANGED <<phase, texts, results, memory, lost>>

\* Mutant: the text is counted first, and flush_chunk resets the count.
FlushAndJoinCountedFirst ==
  /\ phase = "loop" /\ next <= Len(texts) /\ Embeddable(next) /\ ~Room(next)
  /\ \E got \in SUBSET Positions(chunk) : Flush(got)
  /\ chunk' = <<next>> /\ chunk_tokens' = 0
  /\ next' = next + 1
  /\ UNCHANGED <<phase, texts>>

\* ... or starts a new one.
FlushAndJoin ==
  /\ phase = "loop" /\ next <= Len(texts) /\ Embeddable(next) /\ ~Room(next)
  /\ \E got \in SUBSET Positions(chunk) : Flush(got)
  /\ chunk' = <<next>> /\ chunk_tokens' = texts[next]
  /\ next' = next + 1
  /\ UNCHANGED <<phase, texts>>

\* The last chunk, if there is one, and the end of the call.
Return ==
  /\ phase = "loop" /\ next > Len(texts)
  /\ IF chunk = <<>> THEN UNCHANGED <<results, memory, lost>>
                     ELSE \E got \in SUBSET Positions(chunk) : Flush(got)
  /\ phase' = "done" /\ chunk' = <<>> /\ chunk_tokens' = 0
  /\ UNCHANGED <<texts, next>>

Batches == UNION {[1 .. n -> 0 .. MaxLength] : n \in Indices}

EmbedNext ==
  \/ \E ts \in Batches : Call(ts)
  \/ Skip \/ Join \/ FlushAndJoin \/ Return

EmbedSpec == EmbedInit /\ [][EmbedNext]_vars

-----------------------------------------------------------------------------
\* The contract of llama_encode: no chunk has more sequences or more tokens
\* than the context takes (embed_batch, "Physical limits of the context").
WithinLimits == Len(chunk) <= MaxSeqs /\ chunk_tokens <= Capacity

\* build_batch writes the tokens of the chunk's texts, one text after the other,
\* into arrays allocated for chunk_tokens: starting from 0, its cursor ends
\* where the arrays do, so that no cell is overrun, shared or left unwritten.
AllocationMatches ==
  \E cursor \in [1 .. Len(chunk) + 1 -> 0 .. chunk_tokens] :
    /\ cursor[1] = 0 /\ cursor[Len(chunk) + 1] = chunk_tokens
    /\ \A s \in Positions(chunk) : cursor[s + 1] = cursor[s] + texts[chunk[s]]

\* The loop has passed text i: it has its own vector, or waits in the chunk,
\* or can have no vector.
Accounted(i) ==
  \/ results[i] = {i} /\ Embeddable(i) /\ i \notin lost
  \/ results[i] = {} /\ (Embeddable(i) => i \in lost \/ \E s \in Positions(chunk) : chunk[s] = i)

Untouched(i) == results[i] = {} /\ i \notin lost

\* Each text of the chunk is there once, and waits for its vector.
Waiting ==
  \A s \in Positions(chunk) :
    /\ chunk[s] < next /\ Embeddable(chunk[s]) /\ Untouched(chunk[s])
    /\ \A r \in Positions(chunk) : chunk[r] = chunk[s] => r = s

\* The inductive invariant of EmbedBatchProofs.
EmbedInv ==
  /\ EmbedTypeOK
  /\ WithinLimits
  /\ \A i \in Positions(texts) : IF i < next THEN Accounted(i) ELSE Untouched(i)
  /\ Waiting
  /\ chunk = <<>> => chunk_tokens = 0
  /\ phase # "loop" => chunk = <<>> /\ next = Len(texts) + 1

\* What the dispatcher is given: every text has its own vector, computed from
\* nothing else, neither another text of the batch nor one of an earlier
\* call, unless it cannot be embedded or llama.cpp returned nothing for it.
\* No text is forgotten.
OwnVectors ==
  phase = "done" =>
    \A i \in Positions(texts) :
      IF Embeddable(i) /\ i \notin lost THEN results[i] = {i} ELSE results[i] = {}
=============================================================================
