--------------------------- MODULE EmbedBatchProofs ---------------------------
(***************************************************************************)
(* Every text of a batch gets its own vector, for any number of texts of   *)
(* any length and any limits of the llama.cpp context.                     *)
(*                                                                         *)
(* The loop is cut at its heads.  What flush_chunk does to the results is  *)
(* one lemma (FlushFacts); the steps of the loop only say what becomes of  *)
(* text next and of the chunk.                                             *)
(***************************************************************************)
EXTENDS EmbedBatch, SequenceTheorems, TLAPS

\* Chunks are sequences of texts the loop has passed.
LEMMA ChunkFacts ==
  ASSUME EmbedInv
  PROVE  /\ Len(texts) \in Nat /\ Len(chunk) \in Nat /\ Len(chunk) <= MaxSeqs
         /\ Positions(chunk) \subseteq SeqIds
         /\ Positions(texts) \subseteq Indices
         /\ \A s \in Positions(chunk) : chunk[s] \in Positions(texts) /\ chunk[s] < next
         /\ \A i \in Positions(texts) : texts[i] \in Nat
<1>1. /\ texts \in Seq(0 .. MaxLength) /\ Len(texts) <= MaxTexts
      /\ chunk \in Seq(Positions(texts)) /\ Len(chunk) <= MaxSeqs
      /\ MaxTexts \in Nat /\ MaxSeqs \in Nat /\ MaxLength \in Nat
  BY EmbedAssumption DEF EmbedInv, EmbedTypeOK, WithinLimits
<1>2. Len(texts) \in Nat /\ Len(chunk) \in Nat
  BY <1>1, LenProperties
<1>3. Positions(chunk) \subseteq SeqIds /\ Positions(texts) \subseteq Indices
  BY <1>1, <1>2 DEF Positions, SeqIds, Indices
<1>4. \A s \in Positions(chunk) : chunk[s] \in Positions(texts) /\ chunk[s] < next
  BY <1>1, ElementOfSeq DEF EmbedInv, Waiting, Positions
<1>5. \A i \in Positions(texts) : texts[i] \in Nat
  <2> TAKE i \in Positions(texts)
  <2>1. texts[i] \in 0 .. MaxLength
    BY <1>1, ElementOfSeq DEF Positions
  <2> QED BY <1>1, <2>1
<1> QED BY <1>1, <1>2, <1>3, <1>4, <1>5

\* flush_chunk gives each text of the chunk its own vector, or it is lost, and
\* touches no other text: the memory was cleared, and each vector goes to
\* original_index.
LEMMA FlushFacts ==
  ASSUME EmbedInv, NEW got \in SUBSET Positions(chunk), Flush(got)
  PROVE  /\ memory' \in [SeqIds -> SUBSET (Indices \cup {Stale})]
         /\ results' \in [Positions(texts) -> SUBSET (Indices \cup {Stale})]
         /\ lost' \subseteq Positions(texts)
         /\ \A i \in Positions(texts) :
              IF \E s \in Positions(chunk) : chunk[s] = i
              THEN \/ results'[i] = {i} /\ i \notin lost'
                   \/ results'[i] = {} /\ i \in lost'
              ELSE results'[i] = results[i] /\ (i \in lost' <=> i \in lost)
<1>1. memory' = [s \in SeqIds |-> IF s \in Positions(chunk) THEN {chunk[s]} ELSE {}]
  BY DEF Flush, Encoded
<1>2. memory' \in [SeqIds -> SUBSET (Indices \cup {Stale})]
  BY <1>1, ChunkFacts
<1>3. lost' = lost \cup {chunk[s] : s \in Positions(chunk) \ got}
  BY DEF Flush
<1>4. lost' \subseteq Positions(texts)
  BY <1>3, ChunkFacts DEF EmbedInv, EmbedTypeOK
<1>5. ASSUME NEW i \in Positions(texts), NEW s \in got, chunk[s] = i
      PROVE  results'[i] = {i}
  <2>1. PICK r \in got : r = (CHOOSE q \in got : chunk[q] = i) /\ chunk[r] = i
    BY <1>5
  <2>2. results'[i] = memory'[r]
    BY <1>5, <2>1 DEF Flush, Extracted
  <2>3. r \in Positions(chunk) /\ r \in SeqIds
    BY ChunkFacts
  <2> QED BY <1>1, <2>1, <2>2, <2>3
<1>6. ASSUME NEW i \in Positions(texts), ~ \E s \in got : chunk[s] = i
      PROVE  results'[i] = results[i]
  BY <1>6 DEF Flush, Extracted
<1>7. results' \in [Positions(texts) -> SUBSET (Indices \cup {Stale})]
  <2>1. DOMAIN results' = Positions(texts)
        /\ results' = [i \in Positions(texts) |-> results'[i]]
    BY DEF Flush, Extracted
  <2>2. \A i \in Positions(texts) : results'[i] \in SUBSET (Indices \cup {Stale})
    BY <1>5, <1>6, ChunkFacts DEF EmbedInv, EmbedTypeOK
  <2> QED BY <2>1, <2>2
<1>8. ASSUME NEW i \in Positions(texts), NEW s \in Positions(chunk), chunk[s] = i
      PROVE  \/ results'[i] = {i} /\ i \notin lost'
             \/ results'[i] = {} /\ i \in lost'
  <2>1. \A r \in Positions(chunk) : chunk[r] = i => r = s
    BY <1>8 DEF EmbedInv, Waiting
  <2>2. results[i] = {} /\ i \notin lost
    BY <1>8 DEF EmbedInv, Waiting, Untouched
  <2>3. CASE s \in got
    BY <1>3, <1>5, <1>8, <2>1, <2>2, <2>3
  <2>4. CASE s \notin got
    BY <1>3, <1>6, <1>8, <2>1, <2>2, <2>4
  <2> QED BY <2>3, <2>4
<1>9. ASSUME NEW i \in Positions(texts), ~ \E s \in Positions(chunk) : chunk[s] = i
      PROVE  results'[i] = results[i] /\ (i \in lost' <=> i \in lost)
  BY <1>3, <1>6, <1>9
<1> QED BY <1>2, <1>4, <1>7, <1>8, <1>9

-----------------------------------------------------------------------------
\* A new call starts with empty results; the context keeps what it held.
LEMMA CallKeeps ==
  ASSUME EmbedInv, NEW ts \in Batches, Call(ts) PROVE EmbedInv'
<1>1. PICK n \in Indices : ts \in [1 .. n -> 0 .. MaxLength]
  BY DEF Batches
<1>2. n \in Nat /\ n <= MaxTexts
  BY EmbedAssumption DEF Indices
<1>3. ts \in Seq(0 .. MaxLength)
  BY <1>1, <1>2, SeqDef
<1>4. Len(ts) = n
  BY <1>1, <1>2, <1>3, LenProperties
<1>5. EmbedTypeOK'
  <2>1. memory' \in [SeqIds -> SUBSET (Indices \cup {Stale})]
    BY DEF Call
  <2>2. <<>> \in Seq(Positions(ts))
    BY EmptySeq
  <2> QED
    BY <1>2, <1>3, <1>4, <2>1, <2>2 DEF Call, EmbedTypeOK, Positions
<1>6. \A i \in Positions(texts') : Untouched(i)' /\ ~(i < next')
  BY <1>2, <1>4 DEF Call, Untouched, Positions
<1>7. Positions(chunk') = {} /\ WithinLimits'
  BY EmptySeq, EmbedAssumption DEF Call, Positions, WithinLimits
<1> QED BY <1>5, <1>6, <1>7 DEF EmbedInv, Waiting, Call

\* A text that cannot be embedded is passed over.
LEMMA SkipKeeps ==
  ASSUME EmbedInv, Skip PROVE EmbedInv'
<1>1. EmbedTypeOK' /\ WithinLimits'
  BY ChunkFacts DEF EmbedInv, EmbedTypeOK, WithinLimits, Skip
<1>2. \A i \in Positions(texts) : IF i < next' THEN Accounted(i)' ELSE Untouched(i)'
  <2> TAKE i \in Positions(texts)
  <2>1. i \in Int /\ next \in Int
    BY DEF Positions, EmbedInv, EmbedTypeOK
  <2>2. CASE i = next
    BY <2>1, <2>2 DEF EmbedInv, Skip, Untouched, Accounted, Embeddable
  <2>3. CASE i # next
    BY <2>1, <2>3 DEF EmbedInv, Skip, Untouched, Accounted, Embeddable
  <2> QED BY <2>2, <2>3
<1>3. \A s \in Positions(chunk) : chunk[s] < next'
  BY ChunkFacts DEF Skip, Positions, EmbedInv, EmbedTypeOK
<1>4. Waiting'
  BY <1>3 DEF EmbedInv, Waiting, Skip, Embeddable, Untouched
<1> QED BY <1>1, <1>2, <1>4 DEF EmbedInv, Skip

\* A text that fits joins the chunk, and stays within its limits.
LEMMA JoinKeeps ==
  ASSUME EmbedInv, Join PROVE EmbedInv'
<1>1. next \in Positions(texts) /\ next \in Int /\ texts[next] \in Nat
  BY ChunkFacts DEF EmbedInv, EmbedTypeOK, Join, Positions
<1>2. /\ chunk' \in Seq(Positions(texts)) /\ Len(chunk') = Len(chunk) + 1
      /\ \A s \in Positions(chunk) : chunk'[s] = chunk[s]
      /\ chunk'[Len(chunk) + 1] = next
  BY <1>1, ChunkFacts DEF EmbedInv, EmbedTypeOK, Join, Positions
<1>3. Positions(chunk') = Positions(chunk) \cup {Len(chunk) + 1}
  BY <1>2, ChunkFacts DEF Positions
<1>4. /\ texts' = texts /\ results' = results /\ lost' = lost /\ memory' = memory
      /\ phase' = phase /\ phase = "loop" /\ next' = next + 1
      /\ chunk_tokens' = chunk_tokens + texts[next]
  BY DEF Join
<1>5. EmbedTypeOK'
  <2>1. next' \in 1 .. Len(texts) + 1
    BY <1>1, <1>4, ChunkFacts DEF Positions
  <2>2. chunk_tokens' \in Nat
    BY <1>1, <1>4 DEF EmbedInv, EmbedTypeOK
  <2> QED BY <1>2, <1>4, <2>1, <2>2 DEF EmbedInv, EmbedTypeOK
<1>6. WithinLimits'
  <2>1. texts[next] <= Capacity /\ chunk_tokens \in Nat
    BY DEF Join, Embeddable, EmbedInv, EmbedTypeOK
  <2>2. CASE chunk = <<>>
    <3>1. Len(chunk) = 0 /\ chunk_tokens = 0
      BY <2>2, EmptySeq DEF EmbedInv
    <3> QED BY <1>1, <1>2, <1>4, <2>1, <3>1, EmbedAssumption DEF WithinLimits
  <2>3. CASE chunk_tokens + texts[next] <= Capacity /\ Len(chunk) < MaxSeqs
    BY <1>2, <1>4, <2>3, ChunkFacts, EmbedAssumption DEF WithinLimits
  <2> QED BY <2>2, <2>3 DEF Join, Room
<1>7. \A i \in Positions(texts) : IF i < next' THEN Accounted(i)' ELSE Untouched(i)'
  <2> TAKE i \in Positions(texts)
  <2>1. i \in Int
    BY DEF Positions
  <2>2. IF i < next THEN Accounted(i) ELSE Untouched(i)
    BY DEF EmbedInv
  <2>3. CASE i = next
    BY <1>1, <1>2, <1>3, <1>4, <2>2, <2>3 DEF Untouched, Accounted
  <2>4. CASE i # next
    <3>1. \A s \in Positions(chunk) : s \in Positions(chunk') /\ chunk'[s] = chunk[s]
      BY <1>2, <1>3
    <3>2. Accounted(i) => Accounted(i)'
      BY <1>4, <3>1 DEF Accounted, Embeddable
    <3>3. Untouched(i) => Untouched(i)'
      BY <1>4 DEF Untouched
    <3>4. i < next' <=> i < next
      BY <1>1, <1>4, <2>1, <2>4
    <3> QED BY <2>2, <3>2, <3>3, <3>4
  <2> QED BY <2>3, <2>4
<1>8. Waiting'
  <2>1. Embeddable(next) /\ Untouched(next)
    BY <1>1 DEF Join, EmbedInv
  <2>2. \A s \in Positions(chunk) :
          /\ chunk[s] < next /\ chunk[s] \in Int /\ Embeddable(chunk[s])
          /\ Untouched(chunk[s])
          /\ \A r \in Positions(chunk) : chunk[r] = chunk[s] => r = s
    BY ChunkFacts DEF EmbedInv, Waiting, Positions
  <2> SUFFICES ASSUME NEW s \in Positions(chunk')
               PROVE  /\ chunk'[s] < next' /\ Embeddable(chunk[s])' /\ Untouched(chunk[s])'
                      /\ \A r \in Positions(chunk') : chunk'[r] = chunk'[s] => r = s
    BY DEF Waiting
  <2>3. CASE s \in Positions(chunk)
    <3>1. chunk'[s] = chunk[s]
      BY <1>2, <2>3
    <3>2. chunk[s] < next /\ chunk[s] \in Int /\ Embeddable(chunk[s]) /\ Untouched(chunk[s])
      BY <2>2, <2>3
    <3>3. chunk'[s] < next' /\ Embeddable(chunk[s])' /\ Untouched(chunk[s])'
      BY <1>1, <1>4, <3>1, <3>2 DEF Embeddable, Untouched
    <3>4. ASSUME NEW r \in Positions(chunk'), chunk'[r] = chunk'[s]
          PROVE  r = s
      <4>1. chunk'[r] # next
        BY <1>1, <3>1, <3>2, <3>4
      <4>2. r \in Positions(chunk) /\ chunk[r] = chunk[s]
        BY <1>2, <1>3, <3>1, <3>4, <4>1
      <4> QED BY <2>2, <2>3, <4>2
    <3> QED BY <3>3, <3>4
  <2>4. CASE s = Len(chunk) + 1
    BY <1>1, <1>2, <1>3, <1>4, <2>1, <2>2, <2>4 DEF Embeddable, Untouched
  <2> QED BY <1>3, <2>3, <2>4
<1>9. chunk' # <<>>
  <2>1. Len(chunk') # 0
    BY <1>2, ChunkFacts
  <2> QED BY <2>1, EmptySeq
<1> QED BY <1>4, <1>5, <1>6, <1>7, <1>8, <1>9 DEF EmbedInv

-----------------------------------------------------------------------------
\* What flush_chunk leaves of the accounts: no text it passed waits for a chunk
\* any more, and none it has not come to is touched.
LEMMA FlushAccounts ==
  ASSUME EmbedInv, NEW got \in SUBSET Positions(chunk), Flush(got), texts' = texts
  PROVE  \A i \in Positions(texts) :
           IF i < next
           THEN \/ results'[i] = {i} /\ Embeddable(i) /\ i \notin lost'
                \/ results'[i] = {} /\ (Embeddable(i) => i \in lost')
           ELSE results'[i] = {} /\ i \notin lost'
<1> TAKE i \in Positions(texts)
<1>1. IF i < next THEN Accounted(i) ELSE Untouched(i)
  BY DEF EmbedInv
<1>2. CASE \E s \in Positions(chunk) : chunk[s] = i
  <2>1. i < next /\ Embeddable(i)
    BY <1>2 DEF EmbedInv, Waiting
  <2>2. \/ results'[i] = {i} /\ i \notin lost'
        \/ results'[i] = {} /\ i \in lost'
    BY <1>2, FlushFacts
  <2> QED BY <2>1, <2>2
<1>3. CASE ~ \E s \in Positions(chunk) : chunk[s] = i
  <2>1. results'[i] = results[i] /\ (i \in lost' <=> i \in lost)
    BY <1>3, FlushFacts
  <2> QED BY <1>1, <1>3, <2>1 DEF Accounted, Untouched
<1> QED BY <1>2, <1>3

\* A text that does not fit starts a chunk of its own.
LEMMA FlushAndJoinKeeps ==
  ASSUME EmbedInv, FlushAndJoin PROVE EmbedInv'
<1>1. next \in Positions(texts) /\ next \in Int /\ texts[next] \in Nat
  BY ChunkFacts DEF EmbedInv, EmbedTypeOK, FlushAndJoin, Positions
<1>2. PICK got \in SUBSET Positions(chunk) : Flush(got)
  BY DEF FlushAndJoin
<1>3. /\ texts' = texts /\ phase' = "loop" /\ next' = next + 1
      /\ chunk' = <<next>> /\ chunk_tokens' = texts[next]
      /\ Embeddable(next)
  BY DEF FlushAndJoin
<1>4. chunk' \in Seq(Positions(texts)) /\ Len(chunk') = 1 /\ chunk'[1] = next
  BY <1>1, <1>3
<1>5. Positions(chunk') = {1}
  BY <1>4 DEF Positions
<1>6. EmbedTypeOK'
  <2>1. next' \in 1 .. Len(texts) + 1
    BY <1>1, <1>3, ChunkFacts DEF Positions
  <2> QED BY <1>1, <1>2, <1>3, <1>4, <2>1, FlushFacts DEF EmbedInv, EmbedTypeOK
<1>7. WithinLimits'
  BY <1>1, <1>3, <1>4, EmbedAssumption DEF WithinLimits, Embeddable
<1>8. \A i \in Positions(texts) : IF i < next' THEN Accounted(i)' ELSE Untouched(i)'
  <2> TAKE i \in Positions(texts)
  <2>1. i \in Int
    BY DEF Positions
  <2>2. IF i < next
        THEN \/ results'[i] = {i} /\ Embeddable(i) /\ i \notin lost'
             \/ results'[i] = {} /\ (Embeddable(i) => i \in lost')
        ELSE results'[i] = {} /\ i \notin lost'
    BY <1>2, <1>3, FlushAccounts
  <2>3. CASE i = next
    BY <1>1, <1>3, <1>4, <1>5, <2>2, <2>3 DEF Accounted, Embeddable
  <2>4. CASE i # next
    <3>1. i < next' <=> i < next
      BY <1>1, <1>3, <2>1, <2>4
    <3> QED BY <1>3, <2>2, <3>1 DEF Accounted, Untouched, Embeddable
  <2> QED BY <2>3, <2>4
<1>9. Waiting'
  <2>1. results'[next] = {} /\ next \notin lost'
    BY <1>1, <1>2, <1>3, FlushAccounts
  <2> QED BY <1>1, <1>3, <1>4, <1>5, <2>1 DEF Waiting, Embeddable, Untouched
<1>10. chunk' # <<>>
  BY <1>3
<1> QED BY <1>3, <1>6, <1>7, <1>8, <1>9, <1>10 DEF EmbedInv

\* The end of the call.
LEMMA ReturnKeeps ==
  ASSUME EmbedInv, Return PROVE EmbedInv'
<1>1. /\ texts' = texts /\ next' = next /\ phase' = "done"
      /\ chunk' = <<>> /\ chunk_tokens' = 0 /\ next = Len(texts) + 1
  BY ChunkFacts DEF Return, EmbedInv, EmbedTypeOK
<1>2. \A i \in Positions(texts) :
        IF i < next
        THEN \/ results'[i] = {i} /\ Embeddable(i) /\ i \notin lost'
             \/ results'[i] = {} /\ (Embeddable(i) => i \in lost')
        ELSE results'[i] = {} /\ i \notin lost'
  <2>1. CASE chunk = <<>>
    <3>1. Positions(chunk) = {}
      BY <2>1, EmptySeq DEF Positions
    <3>2. results' = results /\ lost' = lost
      BY <2>1 DEF Return
    <3> QED BY <3>1, <3>2 DEF EmbedInv, Accounted, Untouched
  <2>2. CASE chunk # <<>>
    BY <1>1, <2>2, FlushAccounts DEF Return
  <2> QED BY <2>1, <2>2
<1>3. EmbedTypeOK'
  <2>1. /\ results' \in [Positions(texts) -> SUBSET (Indices \cup {Stale})]
        /\ memory' \in [SeqIds -> SUBSET (Indices \cup {Stale})]
        /\ lost' \subseteq Positions(texts)
    <3>1. CASE chunk = <<>>
      BY <3>1 DEF Return, EmbedInv, EmbedTypeOK
    <3>2. CASE chunk # <<>>
      BY <3>2, FlushFacts DEF Return
    <3> QED BY <3>1, <3>2
  <2> QED BY <1>1, <2>1, EmptySeq DEF EmbedInv, EmbedTypeOK
<1>4. Positions(chunk') = {} /\ WithinLimits'
  BY <1>1, EmptySeq, EmbedAssumption DEF Positions, WithinLimits
<1>5. \A i \in Positions(texts) : IF i < next' THEN Accounted(i)' ELSE Untouched(i)'
  BY <1>1, <1>2 DEF Accounted, Untouched, Embeddable
<1> QED BY <1>1, <1>3, <1>4, <1>5 DEF EmbedInv, Waiting

-----------------------------------------------------------------------------
\* The loop of embed_batch keeps the chunks within llama.cpp's limits and its
\* accounts in order.
THEOREM BatchSafety == EmbedSpec => []EmbedInv
<1>1. EmbedInit => EmbedInv
  <2> SUFFICES ASSUME EmbedInit PROVE EmbedInv
    OBVIOUS
  <2>1. /\ phase = "idle" /\ texts = <<>> /\ next = 1 /\ chunk = <<>>
        /\ chunk_tokens = 0 /\ results = <<>> /\ lost = {} /\ Len(texts) = 0
    BY EmptySeq DEF EmbedInit
  <2>2. Positions(texts) = {} /\ Positions(chunk) = {}
    BY <2>1, EmptySeq DEF Positions
  <2>3. results \in [Positions(texts) -> SUBSET (Indices \cup {Stale})]
    BY <2>1, <2>2
  <2>4. memory \in [SeqIds -> SUBSET (Indices \cup {Stale})]
    BY DEF EmbedInit
  <2>5. EmbedTypeOK
    BY <2>1, <2>2, <2>3, <2>4, EmptySeq, EmbedAssumption DEF EmbedTypeOK
  <2> QED BY <2>1, <2>2, <2>5, EmptySeq, EmbedAssumption DEF EmbedInv, Waiting, WithinLimits
<1>2. EmbedInv /\ [EmbedNext]_vars => EmbedInv'
  <2> SUFFICES ASSUME EmbedInv, [EmbedNext]_vars PROVE EmbedInv'
    OBVIOUS
  <2>1. CASE UNCHANGED vars
    BY <2>1 DEF vars, EmbedInv, Waiting, EmbedTypeOK, WithinLimits, Accounted, Untouched,
                Embeddable, Positions
  <2> QED
    BY <2>1, CallKeeps, SkipKeeps, JoinKeeps, FlushAndJoinKeeps, ReturnKeeps
       DEF EmbedNext
<1> QED BY <1>1, <1>2, PTL DEF EmbedSpec

\* embed_batch returns for every text its own vector, computed from nothing
\* else, unless the text cannot be embedded or llama.cpp returned nothing.
THEOREM EveryTextItsVector == EmbedSpec => []OwnVectors
<1>1. EmbedInv => OwnVectors
  <2> SUFFICES ASSUME EmbedInv, phase = "done", NEW i \in Positions(texts)
               PROVE  IF Embeddable(i) /\ i \notin lost THEN results[i] = {i}
                                                        ELSE results[i] = {}
    BY DEF OwnVectors
  <2>1. i < next /\ Positions(chunk) = {}
    BY EmptySeq, ChunkFacts DEF EmbedInv, Positions
  <2>2. Accounted(i)
    BY <2>1 DEF EmbedInv
  <2> QED BY <2>1, <2>2 DEF Accounted
<1> QED BY <1>1, BatchSafety, PTL

-----------------------------------------------------------------------------
\* A text that joins the chunk moves the cursor to the new end of the arrays.
LEMMA JoinAllocates ==
  ASSUME EmbedInv, AllocationMatches, Join PROVE AllocationMatches'
<1> DEFINE n == Len(chunk)
<1>1. next \in Positions(texts) /\ texts[next] \in Nat /\ n \in Nat /\ chunk_tokens \in Nat
  BY ChunkFacts DEF EmbedInv, EmbedTypeOK, Join, Positions
<1>2. /\ Len(chunk') = n + 1 /\ chunk'[n + 1] = next
      /\ \A s \in 1 .. n : chunk'[s] = chunk[s]
  BY <1>1 DEF EmbedInv, EmbedTypeOK, Join
<1>3. texts' = texts /\ chunk_tokens' = chunk_tokens + texts[next]
  BY DEF Join
<1>4. PICK cursor \in [1 .. n + 1 -> 0 .. chunk_tokens] :
        /\ cursor[1] = 0 /\ cursor[n + 1] = chunk_tokens
        /\ \A s \in 1 .. n : cursor[s + 1] = cursor[s] + texts[chunk[s]]
  BY DEF AllocationMatches, Positions
<1> DEFINE moved == [i \in 1 .. n + 2 |-> IF i = n + 2 THEN chunk_tokens' ELSE cursor[i]]
<1> HIDE DEF n
<1>5. moved \in [1 .. n + 2 -> 0 .. chunk_tokens']
  <2>1. ASSUME NEW i \in 1 .. n + 1 PROVE cursor[i] \in 0 .. chunk_tokens'
    <3>1. cursor[i] \in 0 .. chunk_tokens
      BY <1>4
    <3> QED BY <1>1, <1>3, <3>1
  <2> QED BY <1>1, <1>3, <2>1
<1>6. moved[1] = 0 /\ moved[n + 2] = chunk_tokens'
  BY <1>1, <1>4
<1>7. ASSUME NEW s \in 1 .. n + 1 PROVE moved[s + 1] = moved[s] + texts[chunk'[s]]
  <2>1. CASE s = n + 1
    BY <1>1, <1>2, <1>3, <1>4, <2>1
  <2>2. CASE s \in 1 .. n
    BY <1>1, <1>2, <1>4, <2>2
  <2> QED BY <1>1, <2>1, <2>2
<1>8. Len(chunk') + 1 = n + 2 /\ Positions(chunk)' = 1 .. n + 1
  BY <1>1, <1>2 DEF Positions
<1> HIDE DEF moved
<1> QED BY <1>3, <1>5, <1>6, <1>7, <1>8 DEF AllocationMatches

\* A chunk of no text needs no cell, one of a single text as many as its tokens.
LEMMA EmptyAllocation ==
  ASSUME chunk' = <<>>, chunk_tokens' = 0 PROVE AllocationMatches'
<1> DEFINE moved == [i \in 1 .. 1 |-> 0]
<1>1. Len(chunk') = 0 /\ Positions(chunk)' = {}
  BY DEF Positions
<1>2. moved \in [1 .. Len(chunk') + 1 -> 0 .. chunk_tokens'] /\ moved[1] = 0
  BY <1>1
<1> HIDE DEF moved
<1> QED BY <1>1, <1>2 DEF AllocationMatches

LEMMA SingleAllocation ==
  ASSUME EmbedInv, FlushAndJoin PROVE AllocationMatches'
<1> DEFINE moved == [i \in 1 .. 2 |-> IF i = 1 THEN 0 ELSE texts[next]]
<1>1. next \in Positions(texts) /\ texts[next] \in Nat
  BY ChunkFacts DEF EmbedInv, EmbedTypeOK, FlushAndJoin, Positions
<1>2. /\ Len(chunk') = 1 /\ chunk'[1] = next /\ Positions(chunk)' = {1}
      /\ chunk_tokens' = texts[next] /\ texts' = texts
  BY DEF FlushAndJoin, Positions
<1>3. /\ moved \in [1 .. Len(chunk') + 1 -> 0 .. chunk_tokens']
      /\ moved[1] = 0 /\ moved[2] = texts[next]
  BY <1>1, <1>2
<1> HIDE DEF moved
<1> QED BY <1>1, <1>2, <1>3 DEF AllocationMatches

\* The arrays build_batch fills are exactly as long as what it writes, whatever
\* was skipped, flushed or lost before.
THEOREM ArraysAreFilled == EmbedSpec => []AllocationMatches
<1>1. EmbedInit => AllocationMatches
  <2> SUFFICES ASSUME EmbedInit PROVE AllocationMatches
    OBVIOUS
  <2> DEFINE moved == [i \in 1 .. 1 |-> 0]
  <2>1. Len(chunk) = 0 /\ Positions(chunk) = {} /\ chunk_tokens = 0
    BY DEF EmbedInit, Positions
  <2>2. moved \in [1 .. Len(chunk) + 1 -> 0 .. chunk_tokens] /\ moved[1] = 0
    BY <2>1
  <2> HIDE DEF moved
  <2> QED BY <2>1, <2>2 DEF AllocationMatches
<1>2. EmbedInv /\ AllocationMatches /\ [EmbedNext]_vars => AllocationMatches'
  <2> SUFFICES ASSUME EmbedInv, AllocationMatches, [EmbedNext]_vars
               PROVE  AllocationMatches'
    OBVIOUS
  <2>1. CASE \E ts \in Batches : Call(ts)
    BY <2>1, EmptyAllocation DEF Call
  <2>2. CASE Skip \/ UNCHANGED vars
    BY <2>2 DEF Skip, vars, AllocationMatches, Positions
  <2>3. CASE Return
    BY <2>3, EmptyAllocation DEF Return
  <2> QED BY <2>1, <2>2, <2>3, JoinAllocates, SingleAllocation DEF EmbedNext
<1> QED BY <1>1, <1>2, BatchSafety, PTL DEF EmbedSpec
=============================================================================
