------------------------ MODULE CommandQueue_proofs ------------------------
(***************************************************************************)
(* Proofs about CommandQueue, for every ring size, word width and bound:   *)
(* first the ring, then the two waits of the application.  PresentBoundary *)
(* returns only when the old frames are rendered, and WaitUntilGPUIdle only*)
(* when the GPU has completed everything that was committed.               *)
(***************************************************************************)
EXTENDS CommandQueue, TLAPS

-----------------------------------------------------------------------------
(* Arithmetic of ring indices.                                             *)

(* Division with remainder, as sequence number % kCommandChunkCount uses   *)
(* it to pick a slot.                                                      *)
LEMMA DivMod ==
  ASSUME NEW n \in Nat \ {0}, NEW a \in Nat
  PROVE  a = n * (a \div n) + (a % n) /\ a \div n \in Int /\ a % n \in 0 .. (n - 1)
OBVIOUS

(* A product with a positive factor is at least the other factor.          *)
LEMMA TimesPositive ==
  ASSUME NEW n \in Nat \ {0}, NEW d \in Int, d >= 1
  PROVE  n * d >= n
OBVIOUS

(* Two sequence numbers less than a ring apart that share a slot are equal:*)
(* the reason a ring of kCommandChunkCount chunks is enough for            *)
(* kCommandChunkCount chunks in flight.                                    *)
LEMMA SlotInjective ==
  ASSUME NEW n \in Nat \ {0}, NEW a \in Nat, NEW b \in Nat,
         a % n = b % n, a < b + n, b < a + n
  PROVE  a = b
<1> DEFINE p == a \div n
           q == b \div n
<1>1. /\ a = n * p + (a % n) /\ b = n * q + (b % n)
      /\ p \in Int /\ q \in Int /\ a % n \in Int
  BY DivMod
<1> HIDE DEF p, q
<1>2. CASE p = q
  BY <1>1, <1>2
<1>3. CASE p > q
  <2>1. n * (p - q) >= n
    BY <1>1, <1>3, TimesPositive
  <2>2. n * (p - q) = n * p - n * q
    BY <1>1
  <2> QED BY <1>1, <2>1, <2>2
<1>4. CASE q > p
  <2>1. n * (q - p) >= n
    BY <1>1, <1>4, TimesPositive
  <2>2. n * (q - p) = n * q - n * p
    BY <1>1
  <2> QED BY <1>1, <2>1, <2>2
<1> QED BY <1>1, <1>2, <1>3, <1>4

(* A sequence number picks a slot of the ring.                             *)
LEMMA SlotInRing ==
  ASSUME NEW seq \in Nat PROVE SlotOf(seq) \in Slots
BY QueueAssumption, DivMod DEF SlotOf, Slots

(* A 64-bit counter that represents an integer not below -1.               *)
LEMMA WrapValue ==
  ASSUME NEW u \in Nat, u > 1, NEW v \in Int, -1 <= v, v < u
  PROVE  v % u = IF v = -1 THEN u - 1 ELSE v
<1>1. CASE v = -1
  <2>1. (-1) % u = u - 1
    OBVIOUS
  <2> QED BY <1>1, <2>1
<1>2. CASE v >= 0
  BY <1>2
<1> QED BY <1>1, <1>2

(* Its increment and its decrement follow the integer.                     *)
LEMMA WrapStep ==
  ASSUME NEW u \in Nat, u > 1, NEW v \in Int, -1 <= v, v < u - 1
  PROVE  /\ ((v % u) + 1) % u = (v + 1) % u
         /\ v >= 0 => ((v % u) - 1) % u = (v - 1) % u
<1>1. u % u = 0 /\ 0 % u = 0
  OBVIOUS
<1>2. v % u = IF v = -1 THEN u - 1 ELSE v
  <2>1. v < u
    OBVIOUS
  <2> QED BY <2>1, WrapValue, Zenon
<1> QED BY <1>1, <1>2

-----------------------------------------------------------------------------
(* CommandChunk::reset() leaves a chunk with no commands, no frame to      *)
(* announce and no command buffer.                                         *)
LEMMA ResetChunk ==
  ASSUME NEW c \in Chunk
  PROVE  /\ Reset(c) \in Chunk /\ Reset(c).cmds = {} /\ Reset(c).cmdbuf = NoBuffer
         /\ Reset(c).id = c.id /\ Reset(c).signal = NoSignal
BY DEF Chunk, Reset, NoSignal, NoBuffer

(* What a commit and a present write into the current chunk.               *)
LEMMA SealedChunk ==
  ASSUME NEW c \in Chunk, ready_for_encode \in Nat
  PROVE  /\ Sealed(c) \in Chunk /\ Sealed(c).id = ready_for_encode
         /\ Sealed(c).cmds = c.cmds /\ Sealed(c).cmdbuf = c.cmdbuf
         /\ Sealed(c).signal = c.signal
BY DEF Chunk, Sealed

LEMMA PresentingChunk ==
  ASSUME NEW c \in Chunk, ready_for_encode \in Nat, frame_count \in Nat
  PROVE  /\ Presenting(c) \in Chunk /\ Presenting(c).signal = frame_count + 1
         /\ Presenting(c).cmds = c.cmds \cup {ready_for_encode}
         /\ Presenting(c).cmdbuf = c.cmdbuf /\ Presenting(c).id = c.id
<1>1. c.cmds \cup {ready_for_encode} \in SUBSET Nat
  BY DEF Chunk
<1>2. frame_count + 1 \in Nat
  OBVIOUS
<1> QED BY <1>1, <1>2 DEF Chunk, Presenting

(* The members of CommandQueue keep their types under every step of the    *)
(* application, the two worker threads and the GPU.                        *)
LEMMA TypeStep == TypeOK /\ [Next]_vars => TypeOK'
<1> SUFFICES ASSUME TypeOK, [Next]_vars PROVE TypeOK'
  OBVIOUS
<1> USE QueueAssumption, SlotInRing
    DEF TypeOK, vars, ring, fences, frames, appPc, encPc, finPc, gpu
<1>0. ASSUME UNCHANGED vars PROVE TypeOK'
  BY <1>0
<1>1. ASSUME Emit PROVE TypeOK'
  BY <1>1, ZenonT(40) DEF Emit, CurrentSlot, Chunk
<1>2. ASSUME Flush PROVE TypeOK'
  BY <1>2, SealedChunk DEF Flush, Publish, CurrentSlot
<1>3. ASSUME FlushAndWait PROVE TypeOK'
  BY <1>3, SealedChunk DEF FlushAndWait, Publish, CurrentSlot
<1>4. ASSUME Present PROVE TypeOK'
  BY <1>4, SealedChunk, PresentingChunk DEF Present, Publish, CurrentSlot
<1>5. ASSUME Throttle PROVE TypeOK'
  BY <1>5 DEF Throttle
<1>6. ASSUME CountOngoing PROVE TypeOK'
  BY <1>6 DEF CountOngoing
<1>7. ASSUME CountFrame PROVE TypeOK'
  BY <1>7 DEF CountFrame
<1>8. ASSUME LatencyTarget PROVE TypeOK'
  <2>1. (frame_count - max_latency) % Uint64 \in Nat
    OBVIOUS
  <2> QED BY <1>8, <2>1 DEF LatencyTarget
<1>9. ASSUME WaitLatency PROVE TypeOK'
  BY <1>9 DEF WaitLatency
<1>10. ASSUME WaitCPUFence PROVE TypeOK'
  BY <1>10 DEF WaitCPUFence
<1>11. ASSUME NEW value \in Latencies, SetMaxLatency(value) PROVE TypeOK'
  BY <1>11 DEF SetMaxLatency
<1>12. ASSUME Stop PROVE TypeOK'
  BY <1>12 DEF Stop
<1>13. ASSUME WakeEncode PROVE TypeOK'
  BY <1>13 DEF WakeEncode
<1>14. ASSUME WakeFinish PROVE TypeOK'
  BY <1>14 DEF WakeFinish
<1>15. ASSUME Join PROVE TypeOK'
  BY <1>15, ResetChunk DEF Join
<1>16. ASSUME EncodeLoop PROVE TypeOK'
  BY <1>16 DEF EncodeLoop, encStep
<1>17. ASSUME EncodeWait PROVE TypeOK'
  BY <1>17 DEF EncodeWait, encStep
<1>18. ASSUME Encode PROVE TypeOK'
  BY <1>18, ZenonT(40) DEF Encode, encStep, Chunk
<1>19. ASSUME CommitBuffer PROVE TypeOK'
  BY <1>19 DEF CommitBuffer, encStep, Chunk
<1>20. ASSUME ReleaseToFinish PROVE TypeOK'
  BY <1>20 DEF ReleaseToFinish, encStep
<1>21. ASSUME GpuComplete PROVE TypeOK'
  BY <1>21 DEF GpuComplete
<1>22. ASSUME FinishLoop PROVE TypeOK'
  BY <1>22 DEF FinishLoop, finStep
<1>23. ASSUME FinishWait PROVE TypeOK'
  BY <1>23 DEF FinishWait, finStep
<1>24. ASSUME FinishCompleted PROVE TypeOK'
  BY <1>24 DEF FinishCompleted, finStep, Retiring, Chunk
<1>25. ASSUME FinishReset PROVE TypeOK'
  BY <1>25, ResetChunk DEF FinishReset, finStep
<1>26. ASSUME FinishCoherent PROVE TypeOK'
  BY <1>26 DEF FinishCoherent, finStep
<1>27. ASSUME FinishRelease PROVE TypeOK'
  <2>1. (chunk_ongoing - 1) % Uint64 \in 0 .. (Uint64 - 1)
    OBVIOUS
  <2> QED BY <1>27, <2>1 DEF FinishRelease, finStep
<1> QED
  BY <1>0, <1>1, <1>2, <1>3, <1>4, <1>5, <1>6, <1>7, <1>8, <1>9, <1>10, <1>11, <1>12, <1>13, <1>14, <1>15, <1>16, <1>17, <1>18, <1>19, <1>20, <1>21, <1>22, <1>23, <1>24, <1>25, <1>26, <1>27
     DEF Next, AppNext, AppWaits, Destructor, EncodingThread,
         WaitForFinishThread, Destroyed

(* The constructor leaves the members with values of their types.          *)
LEMMA InitType == Init => TypeOK
<1> SUFFICES ASSUME Init PROVE TypeOK
  OBVIOUS
<1>1. chunks \in [Slots -> Chunk]
  BY DEF Init, Chunk, NoSignal, NoBuffer
<1>2. presented \in [1 .. MaxFrame -> Nat]
  BY DEF Init
<1>3. chunk_ongoing \in 0 .. (Uint64 - 1)
  BY QueueAssumption DEF Init
<1>4. stopped \in BOOLEAN
  BY DEF Init
<1> QED BY <1>1, <1>2, <1>3, <1>4, QueueAssumption DEF Init, TypeOK

(* Every reachable state of the queue is type correct.                     *)
THEOREM TypeCorrect == Spec => []TypeOK
BY InitType, TypeStep, PTL DEF Spec
-----------------------------------------------------------------------------
(* The buffers the two worker threads use are those of their own chunks:   *)
(* CommitChunkInternal commits the buffer it has just encoded, and         *)
(* WaitForFinishThread waits for the buffer of its internal_seq.           *)
LEMMA OwnBuffers ==
  ASSUME IInv
  PROVE  /\ enc = "commit" => chunks[SlotOf(enc_seq)].cmdbuf = enc_seq
         /\ fin = "gpu" => Retiring.cmdbuf = fin_seq
<1> USE DEF IInv, TypeOK, StageOrder
<1>1. ASSUME enc = "commit" PROVE chunks[SlotOf(enc_seq)].cmdbuf = enc_seq
  <2>1. enc_seq \in Oldest .. Encoded /\ app # "destroyed"
    BY <1>1 DEF Oldest, Encoded
  <2> QED BY <2>1 DEF BuffersOK
<1>2. ASSUME fin = "gpu" PROVE Retiring.cmdbuf = fin_seq
  <2>1. fin_seq \in Oldest .. Encoded /\ app # "destroyed"
    BY <1>2 DEF Oldest, Encoded
  <2> QED BY <2>1 DEF BuffersOK, Retiring
<1> QED BY <1>1, <1>2

(* The stages of the pipeline stay in order under every step.              *)
LEMMA StageStep == IInv /\ [Next]_vars => StageOrder'
<1> SUFFICES ASSUME IInv, [Next]_vars PROVE StageOrder'
  OBVIOUS
<1> USE DEF IInv, TypeOK, StageOrder, Published, Stopping,
            vars, ring, fences, frames, appPc, encPc, finPc, gpu
<1>0. ASSUME UNCHANGED vars PROVE StageOrder'
  BY <1>0
<1>1. ASSUME Emit PROVE StageOrder'
  BY <1>1 DEF Emit
<1>2. ASSUME Flush PROVE StageOrder'
  BY <1>2 DEF Flush, Publish
<1>3. ASSUME FlushAndWait PROVE StageOrder'
  BY <1>3 DEF FlushAndWait, Publish
<1>4. ASSUME Present PROVE StageOrder'
  BY <1>4 DEF Present, Publish
<1>5. ASSUME Throttle PROVE StageOrder'
  BY <1>5 DEF Throttle
<1>6. ASSUME CountOngoing PROVE StageOrder'
  BY <1>6 DEF CountOngoing
<1>7. ASSUME CountFrame PROVE StageOrder'
  BY <1>7 DEF CountFrame
<1>8. ASSUME LatencyTarget PROVE StageOrder'
  BY <1>8 DEF LatencyTarget
<1>9. ASSUME WaitLatency PROVE StageOrder'
  BY <1>9 DEF WaitLatency
<1>10. ASSUME WaitCPUFence PROVE StageOrder'
  BY <1>10 DEF WaitCPUFence
<1>11. ASSUME NEW value \in Latencies, SetMaxLatency(value) PROVE StageOrder'
  BY <1>11 DEF SetMaxLatency
<1>12. ASSUME Stop PROVE StageOrder'
  BY <1>12 DEF Stop
<1>13. ASSUME WakeEncode PROVE StageOrder'
  BY <1>13 DEF WakeEncode
<1>14. ASSUME WakeFinish PROVE StageOrder'
  BY <1>14 DEF WakeFinish
<1>15. ASSUME Join PROVE StageOrder'
  BY <1>15 DEF Join
<1>16. ASSUME EncodeLoop PROVE StageOrder'
  BY <1>16 DEF EncodeLoop, encStep
<1>17. ASSUME EncodeWait PROVE StageOrder'
  BY <1>17 DEF EncodeWait, encStep
<1>18. ASSUME Encode PROVE StageOrder'
  BY <1>18 DEF Encode, encStep
<1>19. ASSUME CommitBuffer PROVE StageOrder'
  BY <1>19, OwnBuffers DEF CommitBuffer, encStep
<1>20. ASSUME ReleaseToFinish PROVE StageOrder'
  BY <1>20 DEF ReleaseToFinish, encStep
<1>21. ASSUME GpuComplete PROVE StageOrder'
  BY <1>21 DEF GpuComplete
<1>22. ASSUME FinishLoop PROVE StageOrder'
  BY <1>22 DEF FinishLoop, finStep
<1>23. ASSUME FinishWait PROVE StageOrder'
  BY <1>23 DEF FinishWait, finStep
<1>24. ASSUME FinishCompleted PROVE StageOrder'
  BY <1>24, OwnBuffers DEF FinishCompleted, finStep
<1>25. ASSUME FinishReset PROVE StageOrder'
  BY <1>25 DEF FinishReset, finStep
<1>26. ASSUME FinishCoherent PROVE StageOrder'
  BY <1>26 DEF FinishCoherent, finStep
<1>27. ASSUME FinishRelease PROVE StageOrder'
  BY <1>27 DEF FinishRelease, finStep
<1> QED
  BY <1>0, <1>1, <1>2, <1>3, <1>4, <1>5, <1>6, <1>7, <1>8, <1>9, <1>10, <1>11, <1>12, <1>13, <1>14,
     <1>15, <1>16, <1>17, <1>18, <1>19, <1>20, <1>21, <1>22, <1>23, <1>24, <1>25, <1>26, <1>27
     DEF Next, AppNext, AppWaits, Destructor, EncodingThread,
         WaitForFinishThread, Destroyed

(* chunk_ongoing keeps representing the chunks counted and not retired,    *)
(* its passage through 2^64 - 1 included.                                  *)
LEMMA ThrottleStep == IInv /\ [Next]_vars => ThrottleOK'
<1> SUFFICES ASSUME IInv, [Next]_vars PROVE ThrottleOK'
  OBVIOUS
<1> USE DEF IInv, TypeOK, StageOrder, ThrottleOK, Published, Counted, Stopping,
            vars, ring, fences, frames, appPc, encPc, finPc, gpu
<1>0. ASSUME UNCHANGED vars PROVE ThrottleOK'
  BY <1>0
<1>1. ASSUME Emit PROVE ThrottleOK'
  BY <1>1 DEF Emit
<1>2. ASSUME Flush PROVE ThrottleOK'
  BY <1>2 DEF Flush, Publish
<1>3. ASSUME FlushAndWait PROVE ThrottleOK'
  BY <1>3 DEF FlushAndWait, Publish
<1>4. ASSUME Present PROVE ThrottleOK'
  BY <1>4 DEF Present, Publish
<1>5. ASSUME Throttle PROVE ThrottleOK'
  <2> DEFINE v == Counted - (fin_seq - 1)
  <2>1. v \in Int /\ -1 <= v /\ v < Uint64
    BY QueueAssumption
  <2>2. v = kCommandChunkCount - 1 => v % Uint64 = kCommandChunkCount - 1
    BY <2>1, QueueAssumption
  <2>3. v # kCommandChunkCount - 1
    BY <1>5, <2>2 DEF Throttle
  <2> QED BY <1>5, <2>1, <2>3, QueueAssumption DEF Throttle
<1>6. ASSUME CountOngoing PROVE ThrottleOK'
  <2> DEFINE v == Counted - (fin_seq - 1)
  <2>1. v \in Int /\ -1 <= v /\ v < Uint64 - 1 /\ v < kCommandChunkCount - 1
    BY <1>6, QueueAssumption DEF CountOngoing
  <2>2. Uint64 \in Nat /\ Uint64 > 1
    BY QueueAssumption
  <2>3. ((v % Uint64) + 1) % Uint64 = (v + 1) % Uint64
    BY <2>1, <2>2, WrapStep, Zenon
  <2>4. chunk_ongoing' = (v + 1) % Uint64
    BY <1>6, <2>3 DEF CountOngoing
  <2>5. Counted' - (fin_seq' - 1) = v + 1 /\ app' # "count"
    BY <1>6 DEF CountOngoing
  <2>6. v + 1 <= kCommandChunkCount - 1
    BY <2>1, QueueAssumption
  <2> HIDE DEF Counted
  <2> QED BY <2>4, <2>5, <2>6
<1>7. ASSUME CountFrame PROVE ThrottleOK'
  BY <1>7 DEF CountFrame
<1>8. ASSUME LatencyTarget PROVE ThrottleOK'
  BY <1>8 DEF LatencyTarget
<1>9. ASSUME WaitLatency PROVE ThrottleOK'
  BY <1>9 DEF WaitLatency
<1>10. ASSUME WaitCPUFence PROVE ThrottleOK'
  BY <1>10 DEF WaitCPUFence
<1>11. ASSUME NEW value \in Latencies, SetMaxLatency(value) PROVE ThrottleOK'
  BY <1>11 DEF SetMaxLatency
<1>12. ASSUME Stop PROVE ThrottleOK'
  BY <1>12 DEF Stop
<1>13. ASSUME WakeEncode PROVE ThrottleOK'
  BY <1>13 DEF WakeEncode
<1>14. ASSUME WakeFinish PROVE ThrottleOK'
  BY <1>14 DEF WakeFinish
<1>15. ASSUME Join PROVE ThrottleOK'
  BY <1>15 DEF Join
<1>16. ASSUME EncodeLoop PROVE ThrottleOK'
  BY <1>16 DEF EncodeLoop, encStep
<1>17. ASSUME EncodeWait PROVE ThrottleOK'
  BY <1>17 DEF EncodeWait, encStep
<1>18. ASSUME Encode PROVE ThrottleOK'
  BY <1>18 DEF Encode, encStep
<1>19. ASSUME CommitBuffer PROVE ThrottleOK'
  BY <1>19 DEF CommitBuffer, encStep
<1>20. ASSUME ReleaseToFinish PROVE ThrottleOK'
  BY <1>20 DEF ReleaseToFinish, encStep
<1>21. ASSUME GpuComplete PROVE ThrottleOK'
  BY <1>21 DEF GpuComplete
<1>22. ASSUME FinishLoop PROVE ThrottleOK'
  BY <1>22 DEF FinishLoop, finStep
<1>23. ASSUME FinishWait PROVE ThrottleOK'
  BY <1>23 DEF FinishWait, finStep
<1>24. ASSUME FinishCompleted PROVE ThrottleOK'
  BY <1>24 DEF FinishCompleted, finStep
<1>25. ASSUME FinishReset PROVE ThrottleOK'
  BY <1>25 DEF FinishReset, finStep
<1>26. ASSUME FinishCoherent PROVE ThrottleOK'
  BY <1>26 DEF FinishCoherent, finStep
<1>27. ASSUME FinishRelease PROVE ThrottleOK'
  <2> DEFINE v == Counted - (fin_seq - 1)
  <2>1. v \in Int /\ 0 <= v /\ -1 <= v /\ v < Uint64 - 1
    BY <1>27, QueueAssumption DEF FinishRelease, finStep
  <2>2. Uint64 \in Nat /\ Uint64 > 1
    BY QueueAssumption
  <2>3. ((v % Uint64) - 1) % Uint64 = (v - 1) % Uint64
    BY <2>1, <2>2, WrapStep, Zenon
  <2>4. chunk_ongoing' = (v - 1) % Uint64
    BY <1>27, <2>3 DEF FinishRelease
  <2>5. Counted' - (fin_seq' - 1) = v - 1 /\ app' = app
    BY <1>27 DEF FinishRelease, finStep
  <2>6. /\ v - 1 <= kCommandChunkCount - 1
        /\ app = "count" => v - 1 < kCommandChunkCount - 1
    BY <2>1, QueueAssumption
  <2> HIDE DEF Counted
  <2> QED BY <2>4, <2>5, <2>6
<1> QED
  BY <1>0, <1>1, <1>2, <1>3, <1>4, <1>5, <1>6, <1>7, <1>8, <1>9, <1>10, <1>11, <1>12, <1>13, <1>14,
     <1>15, <1>16, <1>17, <1>18, <1>19, <1>20, <1>21, <1>22, <1>23, <1>24, <1>25, <1>26, <1>27
     DEF Next, AppNext, AppWaits, Destructor, EncodingThread,
         WaitForFinishThread, Destroyed

-----------------------------------------------------------------------------
(* Live chunks have slots of their own: the throttle keeps them less than  *)
(* a ring apart.                                                           *)
LEMMA LiveSlots ==
  ASSUME IInv, NEW j, NEW k, Live(j), Live(k), SlotOf(j) = SlotOf(k)
  PROVE  j = k
<1>1. j \in Nat /\ k \in Nat
  BY DEF Live
<1>2. j < k + kCommandChunkCount /\ k < j + kCommandChunkCount
  BY QueueAssumption
     DEF IInv, TypeOK, StageOrder, ThrottleOK, Live, Oldest, Published, Counted
<1>3. kCommandChunkCount \in Nat \ {0}
  BY QueueAssumption
<1>4. j % kCommandChunkCount = k % kCommandChunkCount
  BY DEF SlotOf
<1> QED BY <1>1, <1>2, <1>3, <1>4, SlotInjective, Zenon

(* The published chunks, the encoded ones and, unless a commit is under    *)
(* way, the current one are live.                                          *)
LEMMA WhoIsLive ==
  ASSUME IInv
  PROVE  /\ \A k \in Oldest .. Published : Live(k)
         /\ \A k \in Oldest .. Encoded : Live(k)
         /\ app = "record" => Live(ready_for_encode)
         /\ Oldest \in Nat /\ Published \in Nat
         /\ Published + 1 >= Oldest
<1>1. Oldest \in Nat /\ Published \in Nat /\ Encoded \in Int /\ Encoded <= Published
      /\ Oldest <= Published + 1
  BY DEF IInv, TypeOK, StageOrder, Oldest, Published, Encoded
<1>2. app = "record" => ready_for_encode = Published + 1
  BY DEF IInv, TypeOK, Published
<1> QED BY <1>1, <1>2 DEF Live

-----------------------------------------------------------------------------
(* What a slot holds, preserved by each step.                              *)

(* Steps that move none of the boundaries of the ring leave the contents   *)
(* of the slots in order.                                                  *)
QuietStep ==
  /\ chunks' = chunks
  /\ Oldest' = Oldest /\ Published' = Published /\ Encoded' = Encoded
  /\ app' \in {"throttle", "count"} => app \in {"throttle", "count"}
  /\ app = "destroyed" => app' = "destroyed"

(* A quiet step preserves the contents of the slots.                       *)
LEMMA QuietSlots == IInv /\ QuietStep => CmdsOK' /\ IdsOK' /\ BuffersOK'
<1> SUFFICES ASSUME IInv, QuietStep PROVE CmdsOK' /\ IdsOK' /\ BuffersOK'
  OBVIOUS
<1>1. \A k : Live(k) => Live(k)'
  BY DEF QuietStep, Live
<1>2. CmdsOK'
  BY <1>1 DEF IInv, CmdsOK, QuietStep, SlotOf, Slots
<1>3. IdsOK'
  BY DEF IInv, IdsOK, QuietStep, SlotOf
<1>4. BuffersOK'
  BY DEF IInv, BuffersOK, QuietStep, SlotOf
<1> QED BY <1>2, <1>3, <1>4

(* emitcc adds a command of the current chunk to the current chunk's slot. *)
LEMMA EmitSlots == IInv /\ Emit => CmdsOK' /\ IdsOK' /\ BuffersOK'
<1> SUFFICES ASSUME IInv, Emit PROVE CmdsOK' /\ IdsOK' /\ BuffersOK'
  OBVIOUS
<1> USE SlotInRing DEF Emit, CurrentSlot, fences, frames, appPc, encPc, finPc, gpu
<1>1. ready_for_encode \in Nat /\ chunks \in [Slots -> Chunk]
  BY DEF IInv, TypeOK
<1>2. /\ Oldest' = Oldest /\ Published' = Published /\ Encoded' = Encoded
      /\ \A k : Live(k)' <=> Live(k)
  BY DEF Oldest, Published, Encoded, Live
<1>3. \A s \in Slots :
        /\ chunks'[s].id = chunks[s].id /\ chunks'[s].cmdbuf = chunks[s].cmdbuf
        /\ chunks'[s].cmds = IF s = SlotOf(ready_for_encode)
                              THEN chunks[s].cmds \cup {ready_for_encode}
                              ELSE chunks[s].cmds
  BY <1>1 DEF Chunk
<1>4. CmdsOK'
  BY <1>1, <1>2, <1>3, WhoIsLive DEF IInv, CmdsOK, SlotOf, Slots
<1>5. \A k \in Oldest .. Published : SlotOf(k) \in Slots
  BY WhoIsLive
<1>6. IdsOK'
  BY <1>2, <1>3, <1>5 DEF IInv, IdsOK, SlotOf
<1>7. \A k \in Oldest .. Encoded : SlotOf(k) \in Slots
  BY WhoIsLive DEF Live
<1>8. BuffersOK'
  BY <1>2, <1>3, <1>7 DEF IInv, BuffersOK, SlotOf
<1> QED BY <1>4, <1>6, <1>8

(* CommitCurrentChunk seals the current chunk in a slot no other live      *)
(* chunk has.                                                              *)
LEMMA PublishSlots ==
  ASSUME IInv, NEW c \in Chunk, NEW then, Publish(c, then), encPc' = encPc, finPc' = finPc,
         c.cmdbuf = chunks[CurrentSlot].cmdbuf,
         c.cmds \subseteq chunks[CurrentSlot].cmds \cup {ready_for_encode}
  PROVE  CmdsOK' /\ IdsOK' /\ BuffersOK'
<1> USE SlotInRing DEF Publish, encPc, finPc
<1>1. /\ ready_for_encode \in Nat /\ chunks \in [Slots -> Chunk]
      /\ SlotOf(ready_for_encode) \in Slots /\ CurrentSlot = SlotOf(ready_for_encode)
  BY DEF IInv, TypeOK, CurrentSlot
<1>2. /\ Oldest' = Oldest /\ Published' = Published + 1 /\ Encoded' = Encoded
      /\ ready_for_encode = Published + 1
  BY <1>1 DEF IInv, TypeOK, Oldest, Published, Encoded
<1>3. \A k : Live(k) => Live(k)'
  BY <1>2, WhoIsLive DEF Live
<1>4. Sealed(c).id = ready_for_encode /\ Sealed(c).cmds = c.cmds /\ Sealed(c).cmdbuf = c.cmdbuf
  BY <1>1, SealedChunk
<1>5. \A s \in Slots : chunks'[s] = IF s = CurrentSlot THEN Sealed(c) ELSE chunks[s]
  BY <1>1
<1>6. CmdsOK'
  <2> SUFFICES ASSUME NEW s \in Slots, NEW k \in chunks'[s].cmds
               PROVE  SlotOf(k) = s /\ Live(k)'
    BY DEF CmdsOK, SlotOf, Slots
  <2>1. CASE s = CurrentSlot
    <3>1. k \in chunks[s].cmds \/ k = ready_for_encode
      BY <2>1, <1>4, <1>5
    <3> QED BY <3>1, <2>1, <1>1, <1>3, WhoIsLive DEF IInv, CmdsOK
  <2>2. CASE s # CurrentSlot
    BY <2>2, <1>3, <1>5 DEF IInv, CmdsOK
  <2> QED BY <2>1, <2>2
<1>7. IdsOK'
  <2> SUFFICES ASSUME NEW k \in Oldest .. (Published + 1)
               PROVE  chunks'[SlotOf(k)].id = k
    BY <1>2 DEF IdsOK, SlotOf
  <2>0. k \in Nat /\ SlotOf(k) \in Slots
    BY WhoIsLive
  <2>1. CASE k = Published + 1
    BY <2>1, <1>1, <1>2, <1>4, <1>5
  <2>2. CASE k # Published + 1
    <3>1. k \in Oldest .. Published /\ Live(k)
      BY <2>2, WhoIsLive
    <3>2. SlotOf(k) # CurrentSlot
      BY <3>1, <2>2, <1>1, <1>2, WhoIsLive, LiveSlots
    <3> QED BY <2>0, <3>1, <3>2, <1>5 DEF IInv, IdsOK
  <2> QED BY <2>1, <2>2
<1>8. BuffersOK'
  <2> SUFFICES ASSUME NEW k \in Oldest .. Encoded
               PROVE  chunks'[SlotOf(k)].cmdbuf = k
    BY <1>2 DEF BuffersOK, SlotOf
  <2>1. k \in Nat /\ SlotOf(k) \in Slots
    BY WhoIsLive DEF Live
  <2>2. chunks[SlotOf(k)].cmdbuf = k
    BY DEF IInv, BuffersOK
  <2> QED BY <2>1, <2>2, <1>4, <1>5
<1> QED BY <1>6, <1>7, <1>8

(* CommitChunkInternal attaches the new command buffer to its own chunk.   *)
LEMMA EncodeSlots == IInv /\ Encode => CmdsOK' /\ IdsOK' /\ BuffersOK'
<1> SUFFICES ASSUME IInv, Encode PROVE CmdsOK' /\ IdsOK' /\ BuffersOK'
  OBVIOUS
<1> USE SlotInRing DEF Encode, encStep, fences, frames, appPc, finPc, gpu
<1>1. enc_seq \in Nat /\ chunks \in [Slots -> Chunk]
  BY DEF IInv, TypeOK
<1>2. /\ Oldest' = Oldest /\ Published' = Published /\ Encoded' = enc_seq
      /\ Encoded = enc_seq - 1 /\ app # "destroyed"
      /\ enc_seq \in Oldest .. Published
      /\ \A k : Live(k)' <=> Live(k)
  BY <1>1, SMTT(20) DEF IInv, TypeOK, StageOrder, Oldest, Published, Encoded, Live
<1>3. \A s \in Slots :
        /\ chunks'[s].id = chunks[s].id /\ chunks'[s].cmds = chunks[s].cmds
        /\ chunks'[s].cmdbuf = IF s = SlotOf(enc_seq) THEN enc_seq ELSE chunks[s].cmdbuf
  BY <1>1 DEF Chunk
<1>4. CmdsOK'
  BY <1>2, <1>3 DEF IInv, CmdsOK, SlotOf, Slots
<1>5. \A k \in Oldest .. Published : SlotOf(k) \in Slots
  BY WhoIsLive
<1>6. IdsOK'
  BY <1>2, <1>3, <1>5 DEF IInv, IdsOK, SlotOf
<1>7. BuffersOK'
  <2> SUFFICES ASSUME NEW k \in Oldest .. enc_seq
               PROVE  chunks'[SlotOf(k)].cmdbuf = k
    BY <1>2 DEF BuffersOK, SlotOf
  <2>1. k \in Nat /\ SlotOf(k) \in Slots /\ Live(k) /\ Live(enc_seq)
    BY <1>1, <1>2, WhoIsLive
  <2>2. CASE k = enc_seq
    BY <2>1, <2>2, <1>3
  <2>3. CASE k # enc_seq
    <3>1. SlotOf(k) # SlotOf(enc_seq)
      BY <2>1, <2>3, LiveSlots
    <3>2. k \in Oldest .. Encoded
      BY <2>3, <1>1, <1>2, WhoIsLive
    <3> QED BY <2>1, <3>1, <3>2, <1>2, <1>3 DEF IInv, BuffersOK
  <2> QED BY <2>2, <2>3
<1> QED BY <1>4, <1>6, <1>7

(* The finish thread resets the oldest chunk: its slot is emptied, and no  *)
(* other slot holds one of its commands.                                   *)
LEMMA FinishResetSlots == IInv /\ FinishReset => CmdsOK' /\ IdsOK' /\ BuffersOK'
<1> SUFFICES ASSUME IInv, FinishReset PROVE CmdsOK' /\ IdsOK' /\ BuffersOK'
  OBVIOUS
<1> USE SlotInRing DEF FinishReset, finStep, fences, frames, appPc, encPc, gpu
<1>1. fin_seq \in Nat /\ chunks \in [Slots -> Chunk] /\ SlotOf(fin_seq) \in Slots
  BY DEF IInv, TypeOK
<1>2. /\ Oldest = fin_seq /\ Oldest' = fin_seq + 1 /\ Published' = Published
      /\ Encoded' = Encoded /\ app' = app /\ app # "destroyed"
      /\ fin_seq \in Oldest .. Published
  BY <1>1 DEF IInv, TypeOK, StageOrder, Oldest, Published, Encoded
<1>3. \A s \in Slots : chunks'[s] = IF s = SlotOf(fin_seq) THEN Reset(chunks[s]) ELSE chunks[s]
  BY <1>1
<1>4. Reset(chunks[SlotOf(fin_seq)]).cmds = {}
  BY <1>1, ResetChunk
<1>5. CmdsOK'
  <2> SUFFICES ASSUME NEW s \in Slots, NEW k \in chunks'[s].cmds
               PROVE  SlotOf(k) = s /\ Live(k)'
    BY DEF CmdsOK, SlotOf, Slots
  <2>1. s # SlotOf(fin_seq) /\ k \in chunks[s].cmds
    BY <1>3, <1>4
  <2>2. SlotOf(k) = s /\ Live(k) /\ k # fin_seq
    BY <2>1 DEF IInv, CmdsOK
  <2> QED BY <2>2, <1>1, <1>2 DEF Live
<1>6. ASSUME NEW k \in (fin_seq + 1) .. Published
      PROVE  SlotOf(k) \in Slots /\ SlotOf(k) # SlotOf(fin_seq)
  <2>1. k \in Nat /\ k # fin_seq /\ Live(k) /\ Live(fin_seq)
    BY <1>1, <1>2, WhoIsLive
  <2> QED BY <2>1, LiveSlots
<1>7. IdsOK'
  <2> SUFFICES ASSUME NEW k \in (fin_seq + 1) .. Published
               PROVE  chunks'[SlotOf(k)].id = k
    BY <1>2 DEF IdsOK, SlotOf
  <2>1. k \in Oldest .. Published
    BY <1>1, <1>2
  <2> QED BY <2>1, <1>3, <1>6 DEF IInv, IdsOK
<1>8. BuffersOK'
  <2> SUFFICES ASSUME NEW k \in (fin_seq + 1) .. Encoded
               PROVE  chunks'[SlotOf(k)].cmdbuf = k
    BY <1>2 DEF BuffersOK, SlotOf
  <2>1. k \in Oldest .. Encoded /\ k \in (fin_seq + 1) .. Published
    BY <1>1, <1>2 DEF IInv, TypeOK, StageOrder, Published, Encoded
  <2> QED BY <2>1, <1>2, <1>3, <1>6 DEF IInv, BuffersOK
<1> QED BY <1>5, <1>7, <1>8

(* The destructor empties every slot once both threads are gone.           *)
LEMMA JoinSlots == IInv /\ Join => CmdsOK' /\ IdsOK' /\ BuffersOK'
<1> SUFFICES ASSUME IInv, Join PROVE CmdsOK' /\ IdsOK' /\ BuffersOK'
  OBVIOUS
<1> USE SlotInRing DEF Join, fences, frames, encPc, finPc, gpu
<1>1. chunks \in [Slots -> Chunk]
  BY DEF IInv, TypeOK
<1>2. Oldest' = Oldest /\ Published' = Published /\ app' = "destroyed"
  BY DEF IInv, TypeOK, Oldest, Published
<1>3. \A s \in Slots : chunks'[s].cmds = {} /\ chunks'[s].id = chunks[s].id
  BY <1>1, ResetChunk
<1>4. CmdsOK'
  BY <1>3 DEF CmdsOK, Slots
<1>5. \A k \in Oldest .. Published : SlotOf(k) \in Slots
  BY WhoIsLive
<1>6. IdsOK'
  BY <1>2, <1>3, <1>5 DEF IInv, IdsOK, SlotOf
<1> QED BY <1>2, <1>4, <1>6 DEF BuffersOK

(* Every step preserves what the slots hold.                               *)
LEMMA SlotsStep == IInv /\ [Next]_vars => CmdsOK' /\ IdsOK' /\ BuffersOK'
<1> SUFFICES ASSUME IInv, [Next]_vars PROVE CmdsOK' /\ IdsOK' /\ BuffersOK'
  OBVIOUS
<1> DEFINE Goal == CmdsOK' /\ IdsOK' /\ BuffersOK'
<1>1. ASSUME Emit PROVE Goal
  BY <1>1, EmitSlots
<1>2. ASSUME Flush \/ FlushAndWait PROVE Goal
  <2>1. chunks[CurrentSlot] \in Chunk
    BY SlotInRing DEF IInv, TypeOK, CurrentSlot
  <2>2. PICK then : Publish(chunks[CurrentSlot], then)
    BY <1>2 DEF Flush, FlushAndWait
  <2>3. encPc' = encPc /\ finPc' = finPc
    BY <2>2 DEF Publish, encPc, finPc
  <2> QED BY <2>1, <2>2, <2>3, PublishSlots
<1>3. ASSUME Present PROVE Goal
  <2> DEFINE c == Presenting(chunks[CurrentSlot])
  <2>1. /\ chunks[CurrentSlot] \in Chunk
        /\ ready_for_encode \in Nat /\ frame_count \in Nat
    BY SlotInRing DEF IInv, TypeOK, CurrentSlot
  <2>2. /\ c \in Chunk /\ c.cmdbuf = chunks[CurrentSlot].cmdbuf
        /\ c.cmds = chunks[CurrentSlot].cmds \cup {ready_for_encode}
    BY <2>1, PresentingChunk
  <2>3. Publish(c, "boundary") /\ encPc' = encPc /\ finPc' = finPc
    BY <1>3 DEF Present, Publish, encPc, finPc
  <2> HIDE DEF c
  <2> QED BY <2>2, <2>3, PublishSlots
<1>4. ASSUME Join PROVE Goal
  BY <1>4, JoinSlots
<1>5. ASSUME Encode PROVE Goal
  BY <1>5, EncodeSlots
<1>6. ASSUME FinishReset PROVE Goal
  BY <1>6, FinishResetSlots
<1>7. ASSUME QuietStep PROVE Goal
  BY <1>7, QuietSlots
<1> USE DEF IInv, TypeOK, StageOrder, Stopping, QuietStep, Oldest, Published, Encoded,
            vars, ring, fences, frames, appPc, encPc, finPc, gpu
<1>8. ASSUME UNCHANGED vars PROVE QuietStep
  BY <1>8
<1>9. ASSUME Throttle PROVE QuietStep
  BY <1>9 DEF Throttle
<1>10. ASSUME CountOngoing PROVE QuietStep
  BY <1>10 DEF CountOngoing
<1>11. ASSUME CountFrame PROVE QuietStep
  BY <1>11 DEF CountFrame
<1>12. ASSUME LatencyTarget PROVE QuietStep
  BY <1>12 DEF LatencyTarget
<1>13. ASSUME WaitLatency PROVE QuietStep
  BY <1>13 DEF WaitLatency
<1>14. ASSUME WaitCPUFence PROVE QuietStep
  BY <1>14 DEF WaitCPUFence
<1>15. ASSUME NEW value \in Latencies, SetMaxLatency(value) PROVE QuietStep
  BY <1>15 DEF SetMaxLatency
<1>16. ASSUME Stop PROVE QuietStep
  BY <1>16 DEF Stop
<1>17. ASSUME WakeEncode PROVE QuietStep
  BY <1>17 DEF WakeEncode
<1>18. ASSUME WakeFinish PROVE QuietStep
  BY <1>18 DEF WakeFinish
<1>19. ASSUME EncodeLoop PROVE QuietStep
  BY <1>19 DEF EncodeLoop, encStep
<1>20. ASSUME EncodeWait PROVE QuietStep
  BY <1>20 DEF EncodeWait, encStep
<1>21. ASSUME CommitBuffer PROVE QuietStep
  BY <1>21 DEF CommitBuffer, encStep
<1>22. ASSUME ReleaseToFinish PROVE QuietStep
  BY <1>22 DEF ReleaseToFinish, encStep
<1>23. ASSUME GpuComplete PROVE QuietStep
  BY <1>23 DEF GpuComplete
<1>24. ASSUME FinishLoop PROVE QuietStep
  BY <1>24 DEF FinishLoop, finStep
<1>25. ASSUME FinishWait PROVE QuietStep
  BY <1>25 DEF FinishWait, finStep
<1>26. ASSUME FinishCompleted PROVE QuietStep
  BY <1>26 DEF FinishCompleted, finStep
<1>27. ASSUME FinishCoherent PROVE QuietStep
  BY <1>27 DEF FinishCoherent, finStep
<1>28. ASSUME FinishRelease PROVE QuietStep
  BY <1>28 DEF FinishRelease, finStep
<1> HIDE DEF IInv, TypeOK, StageOrder, Stopping, QuietStep, Oldest, Published, Encoded,
            vars, ring, fences, frames, appPc, encPc, finPc, gpu
<1> QED
  BY <1>1, <1>2, <1>3, <1>4, <1>5, <1>6, <1>7, <1>8, <1>9, <1>10, <1>11, <1>12, <1>13, <1>14,
     <1>15, <1>16, <1>17, <1>18, <1>19, <1>20, <1>21, <1>22, <1>23, <1>24, <1>25, <1>26, <1>27, <1>28
     DEF Next, AppNext, AppWaits, Destructor, EncodingThread,
         WaitForFinishThread, Destroyed

-----------------------------------------------------------------------------
(* The inductive invariant holds in every reachable state of the queue.    *)
THEOREM Invariance == Spec => []IInv
<1>1. Init => IInv
  <2> SUFFICES ASSUME Init PROVE IInv
    OBVIOUS
  <2>1. TypeOK
    BY InitType
  <2>2. StageOrder
    BY DEF Init, StageOrder, Published, Stopping
  <2>3. ThrottleOK
    BY QueueAssumption DEF Init, ThrottleOK, Counted, Published
  <2>4. CmdsOK
    BY DEF Init, CmdsOK
  <2>5. IdsOK /\ BuffersOK
    BY DEF Init, IdsOK, BuffersOK, Oldest, Published, Encoded
  <2> QED BY <2>1, <2>2, <2>3, <2>4, <2>5 DEF IInv
<1>2. IInv /\ [Next]_vars => IInv'
  BY TypeStep, StageStep, ThrottleStep, SlotsStep DEF IInv
<1> QED
  BY <1>1, <1>2, PTL DEF Spec

(* No chunk is reused while a thread or the GPU still needs it, for every  *)
(* ring size and every interleaving of application, encode thread, finish  *)
(* thread, GPU and destructor.                                             *)
THEOREM RingSafety == Spec => []NoChunkAliasing
<1>1. IInv => NoChunkAliasing
  <2> SUFFICES ASSUME IInv PROVE NoChunkAliasing
    OBVIOUS
  <2>0. ASSUME NEW k \in Oldest .. Published
        PROVE  chunks[SlotOf(k)].id = k /\ chunks[SlotOf(k)].cmds \subseteq {k}
    <3>1. k \in Nat /\ SlotOf(k) \in Slots /\ Live(k)
      BY WhoIsLive, SlotInRing
    <3>2. ASSUME NEW j \in chunks[SlotOf(k)].cmds PROVE j = k
      <4>1. SlotOf(j) = SlotOf(k) /\ Live(j)
        BY <3>1 DEF IInv, CmdsOK
      <4> QED BY <3>1, <4>1, LiveSlots
    <3> QED BY <3>2 DEF IInv, IdsOK
  <2>1. ASSUME enc \in {"encode", "commit", "release"} PROVE enc_seq \in Oldest .. Published
    BY <2>1 DEF IInv, TypeOK, StageOrder, Oldest, Published
  <2>2. ASSUME fin \in {"gpu", "reset"}
        PROVE  fin_seq \in Oldest .. Published /\ fin_seq \in Oldest .. Encoded
               /\ app # "destroyed"
    BY <2>2 DEF IInv, TypeOK, StageOrder, Oldest, Published, Encoded
  <2>3. ASSUME fin \in {"gpu", "reset"} PROVE Retiring.cmdbuf = fin_seq
    BY <2>2, <2>3 DEF IInv, BuffersOK, Retiring
  <2> QED BY <2>0, <2>1, <2>2, <2>3 DEF NoChunkAliasing, Retiring
<1> QED
  BY <1>1, Invariance, PTL

(* What CoherentSeqId() reports is complete on the GPU and gone from the   *)
(* ring, so memory may be reclaimed against it.                            *)
THEOREM CoherentSafety == Spec => []CoherentIsComplete
<1>1. IInv => CoherentIsComplete
  <2> SUFFICES ASSUME IInv PROVE CoherentIsComplete
    OBVIOUS
  <2>1. cpu_coherent <= gpu_done
    BY DEF IInv, TypeOK, StageOrder
  <2>2. cpu_coherent < Oldest /\ cpu_coherent \in Nat /\ Oldest \in Nat
    BY DEF IInv, TypeOK, StageOrder, Oldest
  <2>3. ASSUME NEW s \in Slots, NEW k \in chunks[s].cmds PROVE k > cpu_coherent
    <3>1. k \in Nat /\ Oldest <= k
      BY DEF IInv, CmdsOK, Live
    <3> QED BY <2>2, <3>1
  <2> QED BY <2>1, <2>3 DEF CoherentIsComplete
<1> QED
  BY <1>1, Invariance, PTL

(* At most kCommandChunkCount chunks are in flight, and chunk_ongoing      *)
(* leaves its range only for the wrapped -1.                               *)
THEOREM ThrottleSafety == Spec => []InFlightBound
<1>1. IInv => InFlightBound
  <2> SUFFICES ASSUME IInv PROVE InFlightBound
    OBVIOUS
  <2> DEFINE v == Counted - (fin_seq - 1)
  <2>1. /\ v \in Int /\ -1 <= v /\ v <= kCommandChunkCount - 1 /\ v < Uint64
        /\ v = -1 => app \in {"throttle", "count"}
    BY QueueAssumption DEF IInv, TypeOK, StageOrder, ThrottleOK, Counted, Published
  <2>2. Published - cpu_coherent <= kCommandChunkCount
    BY QueueAssumption DEF IInv, TypeOK, StageOrder, ThrottleOK, Counted, Published
  <2>3. Uint64 \in Nat /\ Uint64 > 1
    BY QueueAssumption
  <2>4. v % Uint64 = IF v = -1 THEN Uint64 - 1 ELSE v
    BY <2>1, <2>3, WrapValue, Zenon
  <2>5. chunk_ongoing = v % Uint64
    BY DEF IInv, ThrottleOK
  <2> HIDE DEF v
  <2> QED BY <2>1, <2>2, <2>4, <2>5 DEF InFlightBound
<1> QED
  BY <1>1, Invariance, PTL

-----------------------------------------------------------------------------
(* Frames, and waiting for the GPU.                                        *)

(* Steps that announce no frame, raise no fence and retire no chunk; the   *)
(* frame a slot announces is kept or forgotten.                            *)
FrameQuiet ==
  /\ \A s \in Slots : chunks'[s].signal \in {chunks[s].signal, NoSignal}
  /\ presented' = presented /\ frame_latency_fence' = frame_latency_fence
  /\ Announced' = Announced /\ Oldest' = Oldest
  /\ Published' \in {Published, Published + 1} /\ gpu_done' >= gpu_done

(* Under such a step the frames, the signals and the fence stay in order.  *)
LEMMA QuietFrames ==
  IInv /\ IInv' /\ FInv /\ FrameQuiet => FramesOK' /\ SignalsOK' /\ FrameFenceOK'
<1> SUFFICES ASSUME IInv, IInv', FInv, FrameQuiet
             PROVE  FramesOK' /\ SignalsOK' /\ FrameFenceOK'
  OBVIOUS
<1>1. /\ Published \in Nat /\ Published' \in Nat
      /\ gpu_done \in Nat /\ gpu_done' \in Nat
      /\ presented \in [1 .. MaxFrame -> Nat] /\ MaxFrame \in Nat
  <2>1. gpu_done \in Nat /\ gpu_done' \in Nat /\ presented \in [1 .. MaxFrame -> Nat]
    BY DEF IInv, TypeOK
  <2>2. Published \in Nat
    BY WhoIsLive
  <2>3. Published' \in Nat
    BY <2>2 DEF FrameQuiet
  <2> QED BY <2>1, <2>2, <2>3, QueueAssumption
<1>2. FramesOK'
  BY <1>1 DEF FInv, FramesOK, FrameQuiet
<1>3. SignalsOK'
  BY DEF FInv, SignalsOK, FrameQuiet, SlotOf, Slots, NoSignal
<1>4. FrameFenceOK'
  BY <1>1 DEF FInv, FramesOK, FrameFenceOK, FrameQuiet
<1> QED BY <1>2, <1>3, <1>4

(* Present1 numbers the frame after all that were announced and gives it   *)
(* the chunk after all that were published.                                *)
LEMMA PresentFrames == IInv /\ FInv /\ Present => FramesOK' /\ SignalsOK' /\ FrameFenceOK'
<1> SUFFICES ASSUME IInv, FInv, Present PROVE FramesOK' /\ SignalsOK' /\ FrameFenceOK'
  OBVIOUS
<1> DEFINE f == frame_count + 1
           k == ready_for_encode
<1>1. /\ k \in Nat /\ f \in Nat /\ chunks \in [Slots -> Chunk] /\ CurrentSlot \in Slots
      /\ presented \in [1 .. MaxFrame -> Nat] /\ gpu_done \in Nat
      /\ frame_latency_fence \in Nat
  BY SlotInRing DEF IInv, TypeOK, CurrentSlot
<1>2. /\ Announced = frame_count /\ Announced' = f /\ f \in 1 .. MaxFrame
      /\ Published = k - 1 /\ Published' = k /\ Oldest' = Oldest /\ Live(k)
      /\ gpu_done' = gpu_done /\ frame_latency_fence' = frame_latency_fence
  BY <1>1, QueueAssumption, WhoIsLive
     DEF IInv, TypeOK, Present, Publish, Announced, Going, Published, Oldest,
         fences, finPc, gpu
<1>3. presented' = [presented EXCEPT ![f] = k]
  BY DEF Present
<1>4. \A g \in 1 .. f : presented'[g] = IF g = f THEN k ELSE presented[g]
  BY <1>1, <1>2, <1>3
<1>5. \A g \in 1 .. frame_count : presented[g] \in 1 .. (k - 1)
  BY <1>2 DEF FInv, FramesOK
<1>6. \A s \in Slots :
        chunks'[s].signal = IF s = CurrentSlot THEN f ELSE chunks[s].signal
  <2>1. chunks[CurrentSlot] \in Chunk /\ frame_count \in Nat
    BY <1>1 DEF IInv, TypeOK
  <2>2. Presenting(chunks[CurrentSlot]) \in Chunk
    BY <1>1, <2>1, PresentingChunk
  <2>3. Sealed(Presenting(chunks[CurrentSlot])).signal = f
    BY <1>1, <2>1, <2>2, PresentingChunk, SealedChunk
  <2> QED BY <1>1, <2>3 DEF Present, Publish
<1> HIDE DEF f, k
<1>7. FramesOK'
  <2>1. ASSUME NEW g \in 1 .. f PROVE presented'[g] \in 1 .. k
    <3>1. CASE g = f
      BY <3>1, <1>1, <1>4, <1>2, WhoIsLive DEF k, IInv, TypeOK, StageOrder
    <3>2. CASE g # f
      <4>1. g \in 1 .. frame_count
        BY <3>2, <1>1 DEF f, IInv, TypeOK
      <4> QED BY <4>1, <3>2, <1>1, <1>4, <1>5
    <3> QED BY <3>1, <3>2
  <2>2. ASSUME NEW g \in 1 .. f, NEW h \in 1 .. f, g < h PROVE presented'[g] < presented'[h]
    <3>1. g \in 1 .. frame_count /\ presented'[g] = presented[g] /\ frame_count \in Nat
      BY <1>1, <1>4, <2>2 DEF f, IInv, TypeOK
    <3>2. CASE h = f
      BY <3>1, <3>2, <1>1, <1>4, <1>5
    <3>3. CASE h # f
      <4>1. h \in 1 .. frame_count /\ presented'[h] = presented[h]
        BY <3>1, <3>3, <1>1, <1>4 DEF f
      <4> QED BY <3>1, <4>1, <2>2, <1>2 DEF FInv, FramesOK
    <3> QED BY <3>2, <3>3
  <2> QED BY <1>1, <1>2, <2>1, <2>2 DEF FramesOK
<1>8. SignalsOK'
  <2> SUFFICES ASSUME NEW s \in Slots, chunks'[s].signal # NoSignal
               PROVE  /\ chunks'[s].signal \in 1 .. f
                      /\ SlotOf(presented'[chunks'[s].signal]) = s
                      /\ Oldest <= presented'[chunks'[s].signal]
    BY <1>2 DEF SignalsOK, SlotOf, Slots, NoSignal
  <2>1. CASE s = CurrentSlot
    BY <2>1, <1>1, <1>2, <1>4, <1>6 DEF k, CurrentSlot, Live
  <2>2. CASE s # CurrentSlot
    <3>1. /\ chunks[s].signal \in 1 .. frame_count
          /\ SlotOf(presented[chunks[s].signal]) = s
          /\ Oldest <= presented[chunks[s].signal]
      BY <2>2, <1>2, <1>6 DEF FInv, SignalsOK
    <3> QED BY <3>1, <2>2, <1>1, <1>4, <1>6 DEF f, IInv, TypeOK
  <2> QED BY <2>1, <2>2
<1>9. FrameFenceOK'
  BY <1>1, <1>2, <1>4 DEF f, FInv, FrameFenceOK, IInv, TypeOK
<1> QED BY <1>7, <1>8, <1>9

(* The finish thread raises the frame fence to the frame of the chunk that *)
(* the GPU has completed, which is newer than the frames below it.         *)
LEMMA CompletedFrames ==
  IInv /\ FInv /\ FinishCompleted => FramesOK' /\ SignalsOK' /\ FrameFenceOK'
<1> SUFFICES ASSUME IInv, FInv, FinishCompleted
             PROVE  FramesOK' /\ SignalsOK' /\ FrameFenceOK'
  OBVIOUS
<1>1. /\ fin = "gpu" /\ Retiring.cmdbuf <= gpu_done
      /\ frame_latency_fence' = IF Retiring.signal > frame_latency_fence
                                THEN Retiring.signal ELSE frame_latency_fence
      /\ chunks' = chunks /\ presented' = presented /\ gpu_done' = gpu_done
      /\ Announced' = Announced /\ Oldest' = Oldest /\ Published' = Published
  BY DEF IInv, TypeOK, FinishCompleted, finStep, ring, frames, appPc, gpu,
         Announced, Going, Oldest, Published
<1>2. /\ fin_seq \in Nat /\ SlotOf(fin_seq) \in Slots /\ Retiring \in Chunk
      /\ frame_latency_fence \in Nat /\ gpu_done \in Nat /\ Announced \in Nat
      /\ presented \in [1 .. MaxFrame -> Nat]
  BY SlotInRing DEF IInv, TypeOK, Retiring, Announced
<1>3. FramesOK' /\ SignalsOK'
  BY <1>1 DEF FInv, FramesOK, SignalsOK, SlotOf, Slots, NoSignal
<1>4. fin_seq <= gpu_done
  BY <1>1, OwnBuffers
<1>5. ASSUME Retiring.signal # NoSignal
      PROVE  Retiring.signal \in 1 .. Announced /\ presented[Retiring.signal] = fin_seq
  <2> DEFINE g == Retiring.signal
  <2>1. /\ g \in 1 .. Announced /\ SlotOf(presented[g]) = SlotOf(fin_seq)
        /\ Oldest <= presented[g]
    BY <1>2, <1>5 DEF FInv, SignalsOK, Retiring
  <2>2. presented[g] \in 1 .. Published
    BY <2>1 DEF FInv, FramesOK
  <2>3. presented[g] \in Oldest .. Published /\ fin_seq \in Oldest .. Published
    BY <1>1, <1>2, <2>1, <2>2, WhoIsLive
       DEF IInv, TypeOK, StageOrder, Oldest, Published
  <2>4. Live(presented[g]) /\ Live(fin_seq)
    BY <2>3, WhoIsLive
  <2> QED BY <2>1, <2>4, LiveSlots
<1>6. FrameFenceOK'
  <2>1. CASE Retiring.signal > frame_latency_fence
    <3>1. Retiring.signal # NoSignal /\ Retiring.signal \in Nat
      BY <1>2, <2>1 DEF NoSignal, Chunk
    <3>2. ASSUME NEW f \in 1 .. Announced, f <= Retiring.signal
          PROVE  presented[f] <= gpu_done
      <4>1. presented[f] <= fin_seq /\ presented[f] \in Nat
        BY <1>2, <1>5, <3>1, <3>2 DEF FInv, FramesOK
      <4> QED BY <4>1, <1>2, <1>4
    <3> QED BY <1>1, <1>2, <1>5, <2>1, <3>1, <3>2 DEF FrameFenceOK
  <2>2. CASE ~(Retiring.signal > frame_latency_fence)
    BY <1>1, <2>2 DEF FInv, FrameFenceOK
  <2> QED BY <2>1, <2>2
<1> QED BY <1>3, <1>6

(* The chunk that is reset forgets its frame; the others are newer.        *)
LEMMA ResetFrames ==
  IInv /\ FInv /\ FinishReset => FramesOK' /\ SignalsOK' /\ FrameFenceOK'
<1> SUFFICES ASSUME IInv, FInv, FinishReset
             PROVE  FramesOK' /\ SignalsOK' /\ FrameFenceOK'
  OBVIOUS
<1>1. /\ Announced' = Announced /\ Published' = Published
      /\ Oldest = fin_seq /\ Oldest' = fin_seq + 1 /\ fin_seq \in Nat
      /\ presented' = presented /\ gpu_done' = gpu_done
      /\ frame_latency_fence' = frame_latency_fence
      /\ chunks \in [Slots -> Chunk] /\ SlotOf(fin_seq) \in Slots
  BY SlotInRing
     DEF IInv, TypeOK, FinishReset, finStep, fences, frames, appPc, gpu,
         Announced, Going, Oldest, Published
<1>2. \A s \in Slots :
        chunks'[s].signal = IF s = SlotOf(fin_seq) THEN NoSignal ELSE chunks[s].signal
  BY <1>1, ResetChunk DEF FinishReset
<1>3. FramesOK' /\ FrameFenceOK'
  BY <1>1 DEF FInv, FramesOK, FrameFenceOK
<1>4. SignalsOK'
  <2> SUFFICES ASSUME NEW s \in Slots, chunks'[s].signal # NoSignal
               PROVE  /\ chunks'[s].signal \in 1 .. Announced
                      /\ SlotOf(presented[chunks'[s].signal]) = s
                      /\ fin_seq + 1 <= presented[chunks'[s].signal]
    BY <1>1 DEF SignalsOK, SlotOf, Slots, NoSignal
  <2>1. s # SlotOf(fin_seq) /\ chunks'[s].signal = chunks[s].signal
    BY <1>2
  <2>2. /\ chunks[s].signal \in 1 .. Announced
        /\ SlotOf(presented[chunks[s].signal]) = s
        /\ fin_seq <= presented[chunks[s].signal]
    BY <1>1, <2>1 DEF FInv, SignalsOK
  <2>3. presented[chunks[s].signal] \in 1 .. Published
    BY <2>2 DEF FInv, FramesOK
  <2>4. presented[chunks[s].signal] \in Nat
    BY <2>3, WhoIsLive
  <2> QED BY <1>1, <2>1, <2>2, <2>4
<1> QED BY <1>3, <1>4

(* Every step preserves the order of frames, signals and fence.            *)
LEMMA FramesStep ==
  IInv /\ IInv' /\ FInv /\ [Next]_vars => FramesOK' /\ SignalsOK' /\ FrameFenceOK'
<1> SUFFICES ASSUME IInv, IInv', FInv, [Next]_vars
             PROVE  FramesOK' /\ SignalsOK' /\ FrameFenceOK'
  OBVIOUS
<1> DEFINE Goal == FramesOK' /\ SignalsOK' /\ FrameFenceOK'
<1>1. ASSUME Present PROVE Goal
  BY <1>1, PresentFrames
<1>2. ASSUME FinishCompleted PROVE Goal
  BY <1>2, CompletedFrames
<1>3. ASSUME FinishReset PROVE Goal
  BY <1>3, ResetFrames
<1>4. ASSUME FrameQuiet PROVE Goal
  BY <1>4, QuietFrames
<1> USE SlotInRing
    DEF IInv, TypeOK, StageOrder, Stopping, FrameQuiet, Announced, Going, Oldest,
        Published, vars, ring, fences, frames, appPc, encPc, finPc, gpu
<1>5. ASSUME UNCHANGED vars PROVE FrameQuiet
  BY <1>5
<1>6. ASSUME Emit PROVE FrameQuiet
  <2>1. \A s \in Slots : chunks'[s].signal = chunks[s].signal
    BY <1>6 DEF Emit, Chunk
  <2>2. UNCHANGED <<presented, frame_latency_fence, frame_count, app, app_then, fin, fin_seq, gpu_done,
                   ready_for_encode>>
    BY <1>6 DEF Emit, encStep
  <2> QED BY <2>1, <2>2
<1>7. ASSUME Flush PROVE FrameQuiet
  <2>1. CurrentSlot \in Slots /\ chunks[CurrentSlot] \in Chunk
    BY DEF CurrentSlot
  <2>2. Sealed(chunks[CurrentSlot]).signal = chunks[CurrentSlot].signal
    BY <2>1, SealedChunk
  <2> QED BY <1>7, <2>1, <2>2 DEF Flush, Publish
<1>8. ASSUME FlushAndWait PROVE FrameQuiet
  <2>1. CurrentSlot \in Slots /\ chunks[CurrentSlot] \in Chunk
    BY DEF CurrentSlot
  <2>2. Sealed(chunks[CurrentSlot]).signal = chunks[CurrentSlot].signal
    BY <2>1, SealedChunk
  <2> QED BY <1>8, <2>1, <2>2 DEF FlushAndWait, Publish
<1>9. ASSUME Throttle PROVE FrameQuiet
  BY <1>9 DEF Throttle
<1>10. ASSUME CountOngoing PROVE FrameQuiet
  BY <1>10 DEF CountOngoing
<1>11. ASSUME CountFrame PROVE FrameQuiet
  BY <1>11 DEF CountFrame
<1>12. ASSUME LatencyTarget PROVE FrameQuiet
  BY <1>12 DEF LatencyTarget
<1>13. ASSUME WaitLatency PROVE FrameQuiet
  BY <1>13 DEF WaitLatency
<1>14. ASSUME WaitCPUFence PROVE FrameQuiet
  BY <1>14 DEF WaitCPUFence
<1>15. ASSUME NEW value \in Latencies, SetMaxLatency(value) PROVE FrameQuiet
  BY <1>15 DEF SetMaxLatency
<1>16. ASSUME Stop PROVE FrameQuiet
  BY <1>16 DEF Stop
<1>17. ASSUME WakeEncode PROVE FrameQuiet
  BY <1>17 DEF WakeEncode
<1>18. ASSUME WakeFinish PROVE FrameQuiet
  BY <1>18 DEF WakeFinish
<1>19. ASSUME Join PROVE FrameQuiet
  <2>1. \A s \in Slots : chunks'[s].signal = NoSignal
    BY <1>19, ResetChunk DEF Join
  <2> QED BY <1>19, <2>1 DEF Join
<1>20. ASSUME EncodeLoop PROVE FrameQuiet
  BY <1>20 DEF EncodeLoop, encStep
<1>21. ASSUME EncodeWait PROVE FrameQuiet
  BY <1>21 DEF EncodeWait, encStep
<1>22. ASSUME Encode PROVE FrameQuiet
  <2>1. \A s \in Slots : chunks'[s].signal = chunks[s].signal
    BY <1>22 DEF Encode, Chunk
  <2>2. UNCHANGED <<presented, frame_latency_fence, frame_count, app, app_then, fin, fin_seq, gpu_done,
                   ready_for_encode>>
    BY <1>22 DEF Encode, encStep
  <2> QED BY <2>1, <2>2
<1>23. ASSUME CommitBuffer PROVE FrameQuiet
  BY <1>23 DEF CommitBuffer, encStep
<1>24. ASSUME ReleaseToFinish PROVE FrameQuiet
  BY <1>24 DEF ReleaseToFinish, encStep
<1>25. ASSUME GpuComplete PROVE FrameQuiet
  BY <1>25 DEF GpuComplete
<1>26. ASSUME FinishLoop PROVE FrameQuiet
  BY <1>26 DEF FinishLoop, finStep
<1>27. ASSUME FinishWait PROVE FrameQuiet
  BY <1>27 DEF FinishWait, finStep
<1>28. ASSUME FinishCoherent PROVE FrameQuiet
  BY <1>28 DEF FinishCoherent, finStep
<1>29. ASSUME FinishRelease PROVE FrameQuiet
  BY <1>29 DEF FinishRelease, finStep
<1> HIDE DEF IInv, TypeOK, StageOrder, Stopping, FrameQuiet, Announced, Going, Oldest,
             Published, vars, ring, fences, frames, appPc, encPc, finPc, gpu
<1> QED
  BY <1>1, <1>2, <1>3, <1>4, <1>5, <1>6, <1>7, <1>8, <1>9, <1>10, <1>11, <1>12, <1>13, <1>14, <1>15, <1>16, <1>17, <1>18, <1>19, <1>20, <1>21, <1>22, <1>23, <1>24, <1>25, <1>26, <1>27, <1>28, <1>29
     DEF Next, AppNext, AppWaits, Destructor, EncodingThread,
         WaitForFinishThread, Destroyed

-----------------------------------------------------------------------------
(* The application never waits for another value than the one it set out   *)
(* to wait for.                                                            *)
LEMMA WaitsStep == IInv /\ FInv /\ [Next]_vars => WaitsOK'
<1> SUFFICES ASSUME IInv, FInv, [Next]_vars PROVE WaitsOK'
  OBVIOUS
<1> USE DEF IInv, TypeOK, StageOrder, Stopping, FInv, WaitsOK, Going, Published,
            vars, ring, fences, frames, appPc, encPc, finPc, gpu
<1>0. ASSUME UNCHANGED vars PROVE WaitsOK'
  BY <1>0
<1>1. ASSUME Emit PROVE WaitsOK'
  BY <1>1 DEF Emit
<1>2. ASSUME Flush PROVE WaitsOK'
  BY <1>2 DEF Flush, Publish
<1>3. ASSUME FlushAndWait PROVE WaitsOK'
  BY <1>3 DEF FlushAndWait, Publish
<1>4. ASSUME Present PROVE WaitsOK'
  BY <1>4 DEF Present, Publish
<1>5. ASSUME Throttle PROVE WaitsOK'
  BY <1>5 DEF Throttle
<1>6. ASSUME CountOngoing PROVE WaitsOK'
  BY <1>6 DEF CountOngoing
<1>7. ASSUME CountFrame PROVE WaitsOK'
  BY <1>7 DEF CountFrame
<1>8. ASSUME LatencyTarget PROVE WaitsOK'
  <2>1. frame_count <= MaxFrame /\ frame_count < Uint64 /\ Uint64 \in Nat
    BY QueueAssumption DEF FramesOK, Announced
  <2>2. frame_count > max_latency =>
          (frame_count - max_latency) % Uint64 = frame_count - max_latency
    BY <2>1
  <2> QED BY <1>8, <2>2 DEF LatencyTarget
<1>9. ASSUME WaitLatency PROVE WaitsOK'
  BY <1>9 DEF WaitLatency
<1>10. ASSUME WaitCPUFence PROVE WaitsOK'
  BY <1>10 DEF WaitCPUFence
<1>11. ASSUME NEW value \in Latencies, SetMaxLatency(value) PROVE WaitsOK'
  BY <1>11 DEF SetMaxLatency
<1>12. ASSUME Stop PROVE WaitsOK'
  BY <1>12 DEF Stop
<1>13. ASSUME WakeEncode PROVE WaitsOK'
  BY <1>13 DEF WakeEncode
<1>14. ASSUME WakeFinish PROVE WaitsOK'
  BY <1>14 DEF WakeFinish
<1>15. ASSUME Join PROVE WaitsOK'
  BY <1>15 DEF Join
<1>16. ASSUME EncodeLoop PROVE WaitsOK'
  BY <1>16 DEF EncodeLoop, encStep
<1>17. ASSUME EncodeWait PROVE WaitsOK'
  BY <1>17 DEF EncodeWait, encStep
<1>18. ASSUME Encode PROVE WaitsOK'
  BY <1>18 DEF Encode, encStep
<1>19. ASSUME CommitBuffer PROVE WaitsOK'
  BY <1>19 DEF CommitBuffer, encStep
<1>20. ASSUME ReleaseToFinish PROVE WaitsOK'
  BY <1>20 DEF ReleaseToFinish, encStep
<1>21. ASSUME GpuComplete PROVE WaitsOK'
  BY <1>21 DEF GpuComplete
<1>22. ASSUME FinishLoop PROVE WaitsOK'
  BY <1>22 DEF FinishLoop, finStep
<1>23. ASSUME FinishWait PROVE WaitsOK'
  BY <1>23 DEF FinishWait, finStep
<1>24. ASSUME FinishCompleted PROVE WaitsOK'
  BY <1>24 DEF FinishCompleted, finStep
<1>25. ASSUME FinishReset PROVE WaitsOK'
  BY <1>25 DEF FinishReset, finStep
<1>26. ASSUME FinishCoherent PROVE WaitsOK'
  BY <1>26 DEF FinishCoherent, finStep
<1>27. ASSUME FinishRelease PROVE WaitsOK'
  BY <1>27 DEF FinishRelease, finStep
<1> QED
  BY <1>0, <1>1, <1>2, <1>3, <1>4, <1>5, <1>6, <1>7, <1>8, <1>9, <1>10, <1>11, <1>12, <1>13, <1>14, <1>15, <1>16, <1>17, <1>18, <1>19, <1>20, <1>21, <1>22, <1>23, <1>24, <1>25, <1>26, <1>27
     DEF Next, AppNext, AppWaits, Destructor, EncodingThread,
         WaitForFinishThread, Destroyed

-----------------------------------------------------------------------------
(* The whole inductive invariant: the ring, and the frames and waits.      *)
THEOREM QueueInvariance == Spec => []QueueInv
<1>1. Init => FInv
  <2> SUFFICES ASSUME Init PROVE FInv
    OBVIOUS
  <2>1. Announced = 0 /\ MaxFrame \in Nat
    BY QueueAssumption DEF Init, Announced, Going
  <2>2. FramesOK /\ FrameFenceOK
    BY <2>1 DEF Init, FramesOK, FrameFenceOK
  <2>3. SignalsOK
    BY DEF Init, SignalsOK
  <2>4. WaitsOK
    BY DEF Init, WaitsOK, Going
  <2> QED BY <2>2, <2>3, <2>4 DEF FInv
<1>2. IInv /\ IInv' /\ FInv /\ [Next]_vars => FInv'
  BY FramesStep, WaitsStep DEF FInv
<1>3. IInv /\ FInv => QueueInv
  BY DEF QueueInv
<1> QED
  BY <1>1, <1>2, <1>3, Invariance, PTL DEF Spec

(* The frame fence never runs ahead of the GPU: a frame at or below it is  *)
(* rendered, for every ring size and every interleaving.                   *)
THEOREM FrameSafety == Spec => []FrameFenceIsRendered
<1>1. QueueInv => FrameFenceIsRendered
  <2> SUFFICES ASSUME QueueInv, NEW f \in 1 .. MaxFrame, f <= frame_latency_fence
               PROVE  presented[f] \in 1 .. gpu_done
    BY DEF FrameFenceIsRendered
  <2>1. f \in 1 .. Announced
    BY QueueAssumption DEF QueueInv, IInv, TypeOK, FInv, FrameFenceOK, Announced
  <2>2. presented[f] \in 1 .. Published /\ presented[f] <= gpu_done
    BY <2>1 DEF QueueInv, FInv, FramesOK, FrameFenceOK
  <2>3. Published \in Nat /\ gpu_done \in Nat
    BY WhoIsLive DEF QueueInv, IInv, TypeOK
  <2> QED BY <2>2, <2>3
<1> QED
  BY <1>1, QueueInvariance, PTL

(* The application leaves its two waits only when the fence it waits on    *)
(* has reached the value.                                                  *)
LEMMA WaitsEnd ==
  [Next]_vars /\ app' = "record" =>
    /\ app = "latency" => frame_latency_fence >= app_wait
    /\ app = "cpu_fence" => cpu_coherent >= app_wait
BY DEF Next, AppNext, AppWaits, Destructor, EncodingThread, WaitForFinishThread,
       Destroyed, vars, appPc, encStep, finStep,
       Emit, Flush, FlushAndWait, Present, Publish, Throttle, CountOngoing, CountFrame,
       LatencyTarget, WaitLatency, WaitCPUFence, SetMaxLatency, Stop, WakeEncode,
       WakeFinish, Join, EncodeLoop, EncodeWait, Encode, CommitBuffer, ReleaseToFinish,
       GpuComplete, FinishLoop, FinishWait, FinishCompleted, FinishReset,
       FinishCoherent, FinishRelease

(* PresentBoundary returns only when every frame that is max_latency_ or   *)
(* more frames older than the one just presented is rendered, as long as   *)
(* SetMaxLatency does not run during the call.                             *)
THEOREM LatencySafety ==
  ASSUME ~LatencyRace
  PROVE  Spec => LatencyBound
<1> DEFINE Bound == app = "latency" /\ app' = "record" =>
                      \A f \in 1 .. frame_count :
                        f + max_latency <= frame_count => presented[f] <= gpu_done
<1>1. QueueInv /\ [Next]_vars => Bound
  <2> SUFFICES ASSUME QueueInv, [Next]_vars,
                      app = "latency", app' = "record",
                      NEW f \in 1 .. frame_count, f + max_latency <= frame_count
               PROVE  presented[f] <= gpu_done
    OBVIOUS
  <2>1. app_wait = frame_count - max_latency
    BY DEF QueueInv, FInv, WaitsOK
  <2>0. Announced = frame_count
    BY DEF QueueInv, IInv, TypeOK, Announced, Going
  <2>2. frame_latency_fence >= app_wait
    BY WaitsEnd
  <2>3. f <= frame_latency_fence
    BY <2>1, <2>2 DEF QueueInv, IInv, TypeOK
  <2> QED BY <2>0, <2>3 DEF QueueInv, FInv, FrameFenceOK
<1> QED
  BY <1>1, QueueInvariance, PTL DEF Spec, LatencyBound

(* WaitUntilGPUIdle returns only when the GPU has completed every chunk    *)
(* that was committed.                                                     *)
THEOREM IdleSafety == Spec => IdleMeansDone
<1> DEFINE Idle == app = "cpu_fence" /\ app' = "record" => gpu_done >= Published
<1>1. QueueInv /\ [Next]_vars => Idle
  <2> SUFFICES ASSUME QueueInv, [Next]_vars, app = "cpu_fence", app' = "record"
               PROVE  gpu_done >= Published
    OBVIOUS
  <2>1. app_wait = Published /\ cpu_coherent >= app_wait
    BY WaitsEnd DEF QueueInv, FInv, WaitsOK, Going
  <2>2. cpu_coherent <= gpu_done /\ Published \in Nat
    BY WhoIsLive DEF QueueInv, IInv, TypeOK, StageOrder
  <2> QED BY <2>1, <2>2 DEF QueueInv, IInv, TypeOK
<1> QED
  BY <1>1, QueueInvariance, PTL DEF Spec, IdleMeansDone
=============================================================================
