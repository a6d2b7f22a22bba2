--------------------- MODULE ResourceInitializer_proofs ---------------------
(***************************************************************************)
(* Proofs about ResourceInitializer, for every size of its heaps, every    *)
(* number of command buffers in flight and every request.  The upload heap *)
(* is RingBump: its lemmas are used with signaled as the coherent value    *)
(* and cached_coherent_seq_id as the value the allocating thread has read. *)
(***************************************************************************)
EXTENDS ResourceInitializer, SequenceTheorems, TLAPS

RBP == INSTANCE RingBump_proofs WITH
         Sizes <- DataSizes, Alignments <- {1}, MaxSeq <- AllOnes - 1,
         role <- "finish", current <- current_seq_id_,
         coherent <- signaled, seen <- cached_coherent_seq_id,
         pc <- "idle", trimming <- FALSE

(* The assumption of RingBump holds of the upload heap.                    *)
LEMMA UploadHeapAssumption == RBP!RingBumpAssumption
BY InitializerAssumption DEF RBP!RingBumpAssumption

(* The two instances are the same formulas.                                *)
LEMMA SameHeap ==
  /\ RB!IInv <=> RBP!IInv
  /\ RB!NoLiveReuse <=> RBP!NoLiveReuse
BY DEF RB!IInv, RB!TypeOK, RB!ClockOK, RB!BlocksOK, RB!FrontIsOldest, RB!PiecesOK,
       RB!Within, RB!Overlap, RB!Block, RB!Piece, RB!NoLiveReuse,
       RBP!IInv, RBP!TypeOK, RBP!ClockOK, RBP!BlocksOK, RBP!FrontIsOldest, RBP!PiecesOK,
       RBP!Within, RBP!Overlap, RBP!Block, RBP!Piece, RBP!NoLiveReuse

LEMMA SameHeapNext == RB!IInv' <=> RBP!IInv'
BY DEF RB!IInv, RB!TypeOK, RB!ClockOK, RB!BlocksOK, RB!FrontIsOldest, RB!PiecesOK,
       RB!Within, RB!Overlap, RB!Block, RB!Piece,
       RBP!IInv, RBP!TypeOK, RBP!ClockOK, RBP!BlocksOK, RBP!FrontIsOldest, RBP!PiecesOK,
       RBP!Within, RBP!Overlap, RBP!Block, RBP!Piece

LEMMA SameFree ==
  ASSUME NEW c PROVE RB!free_blocks(c) <=> RBP!free_blocks(c)
BY DEF RB!free_blocks, RB!Freed, RB!Complete, RB!Expired, RB!AdHoc, RB!Drop,
       RBP!free_blocks, RBP!Freed, RBP!Complete, RBP!Expired, RBP!AdHoc, RBP!Drop

LEMMA SameAllocate ==
  ASSUME NEW size
  PROVE  RB!allocate(current_seq_id_, cached_coherent_seq_id, size, 1)
         <=> RBP!allocate(current_seq_id_, cached_coherent_seq_id, size, 1)
BY DEF RB!allocate, RB!AllocateInLatest, RB!AllocateByReuse, RB!AllocateBlock,
       RB!Discards, RB!Discarded, RB!Reclaimable, RB!Reusable, RB!AdHoc, RB!Drop,
       RB!Fits, RB!Bumped, RB!Cut, RB!align,
       RBP!allocate, RBP!AllocateInLatest, RBP!AllocateByReuse, RBP!AllocateBlock,
       RBP!Discards, RBP!Discarded, RBP!Reclaimable, RBP!Reusable, RBP!AdHoc, RBP!Drop,
       RBP!Fits, RBP!Bumped, RBP!Cut, RBP!align

(* A trim with a coherent value the GPU has reached keeps the upload       *)
(* memory of the copies it has not done, whatever it does to the cached    *)
(* value.                                                                  *)
LEMMA HeapTrim ==
  ASSUME RB!IInv, NEW c \in Nat, c <= signaled, RB!free_blocks(c),
         cached_coherent_seq_id' \in Nat, cached_coherent_seq_id' <= signaled,
         UNCHANGED <<current_seq_id_, signaled, live>>
  PROVE  RB!IInv'
<1>1. RBP!IInv /\ RBP!free_blocks(c)
  BY SameHeap, SameFree
<1>2. RBP!TypeOK /\ RBP!ClockOK /\ RBP!PiecesOK
  BY <1>1 DEF RBP!IInv
<1>3. \A p \in live' : p.seq > c
  BY <1>2 DEF RBP!TypeOK, RBP!PiecesOK, RBP!Piece
<1>4. /\ RBP!BlocksOK' /\ RBP!FrontIsOldest' /\ RBP!PiecesOK'
      /\ fifo' \in Seq(RBP!Block)
  BY <1>1, <1>3, UploadHeapAssumption, RBP!FreePreserves
<1>5. blocks' = blocks
  BY <1>1 DEF RBP!free_blocks
<1>6. RBP!TypeOK' /\ RBP!ClockOK'
  BY <1>2, <1>4, <1>5 DEF RBP!TypeOK, RBP!ClockOK
<1> QED BY <1>4, <1>6, SameHeapNext DEF RBP!IInv

(* Memory for a copy is taken without disturbing the others.               *)
LEMMA HeapAllocate ==
  ASSUME RB!IInv, NEW size \in DataSizes, allocateGpuHeap(size),
         UNCHANGED <<current_seq_id_, cached_coherent_seq_id, signaled>>
  PROVE  RB!IInv'
<1>1. /\ RBP!IInv /\ RBP!TypeOK /\ RBP!ClockOK
      /\ RBP!allocate(current_seq_id_, cached_coherent_seq_id, size, 1)
  BY SameHeap, SameAllocate DEF allocateGpuHeap, RBP!IInv
<1>2. 1 \in {1}
  OBVIOUS
<1>3. /\ RBP!BlocksOK' /\ RBP!FrontIsOldest' /\ RBP!PiecesOK'
      /\ fifo' \in Seq(RBP!Block) /\ live' \subseteq RBP!Piece /\ blocks' \in Nat
  BY <1>1, <1>2, UploadHeapAssumption, RBP!AllocatePreserves
<1>4. RBP!TypeOK' /\ RBP!ClockOK'
  BY <1>1, <1>3 DEF RBP!TypeOK, RBP!ClockOK
<1> QED BY <1>3, <1>4, SameHeapNext DEF RBP!IInv

(* The heap is not concerned by a step that leaves it alone, by the next   *)
(* sequence id, or by a command buffer the GPU finishes.                   *)
LEMMA HeapKept ==
  ASSUME RB!IInv, UNCHANGED <<gpuHeap, cached_coherent_seq_id, current_seq_id_, signaled>>
  PROVE  RB!IInv'
BY DEF gpuHeap, RB!IInv, RB!TypeOK, RB!ClockOK, RB!BlocksOK, RB!FrontIsOldest, RB!PiecesOK,
       RB!Within, RB!Overlap, RB!Block, RB!Piece

LEMMA HeapFlush ==
  ASSUME RB!IInv, UNCHANGED <<gpuHeap, cached_coherent_seq_id, signaled>>,
         current_seq_id_' = current_seq_id_ + 1
  PROVE  RB!IInv'
<1>1. \A i \in 1 .. Len(fifo) : fifo[i].last_used_seq_id \in Nat
  <2>1. \A i \in 1 .. Len(fifo) : fifo[i] \in RB!Block
    BY DEF RB!IInv, RB!TypeOK
  <2> QED BY <2>1 DEF RB!Block
<1>2. RB!TypeOK' /\ RB!ClockOK'
  BY DEF gpuHeap, RB!IInv, RB!TypeOK, RB!ClockOK
<1>3. RB!BlocksOK'
  BY <1>1 DEF gpuHeap, RB!IInv, RB!TypeOK, RB!BlocksOK
<1> QED BY <1>2, <1>3
        DEF gpuHeap, RB!IInv, RB!FrontIsOldest, RB!PiecesOK, RB!Within, RB!Overlap

LEMMA HeapExecute ==
  ASSUME RB!IInv, UNCHANGED <<fifo, blocks, cached_coherent_seq_id, current_seq_id_>>,
         signaled' \in Nat, signaled <= signaled', signaled' < current_seq_id_,
         live' = {p \in live : p.seq > signaled'}
  PROVE  RB!IInv'
<1>1. RB!TypeOK' /\ RB!ClockOK'
  BY DEF RB!IInv, RB!TypeOK, RB!ClockOK
<1>2. RB!PiecesOK'
  BY DEF RB!IInv, RB!PiecesOK, RB!Within, RB!Overlap
<1> QED BY <1>1, <1>2 DEF RB!IInv, RB!BlocksOK, RB!FrontIsOldest

-----------------------------------------------------------------------------
(* Where the inits are.                                                    *)

LEMMA InInitsOf ==
  ASSUME NEW s, NEW k
  PROVE  k \in InitsOf(s) <=> k # 0 /\ \E i \in DOMAIN s : k = s[i].init
BY DEF InitsOf, ToSet

LEMMA InitsOfEmpty == InitsOf(<<>>) = {}
BY DEF InitsOf, ToSet

LEMMA InitsOfAppend ==
  ASSUME NEW s \in Seq(ACommand), NEW c \in ACommand
  PROVE  InitsOf(Append(s, c)) = InitsOf(s) \cup ({c.init} \ {0})
<1>1. /\ DOMAIN Append(s, c) = 1 .. (Len(s) + 1) /\ DOMAIN s = 1 .. Len(s) /\ Len(s) \in Nat
      /\ \A i \in 1 .. Len(s) : Append(s, c)[i] = s[i]
      /\ Append(s, c)[Len(s) + 1] = c
  OBVIOUS
<1> DEFINE t == Append(s, c)
<1> HIDE DEF t
<1>2. /\ DOMAIN t = 1 .. (Len(s) + 1) /\ \A i \in 1 .. Len(s) : t[i] = s[i]
      /\ t[Len(s) + 1] = c
  BY <1>1 DEF t
<1>3. ASSUME NEW k PROVE k \in InitsOf(t) <=> k \in InitsOf(s) \cup ({c.init} \ {0})
  BY <1>1, <1>2, InInitsOf
<1> QED BY <1>3 DEF t

LEMMA InitsOfConcat ==
  ASSUME NEW s \in Seq(ACommand), NEW t \in Seq(ACommand)
  PROVE  InitsOf(s \o t) = InitsOf(s) \cup InitsOf(t)
<1> DEFINE u == s \o t
<1>1. /\ DOMAIN u = 1 .. (Len(s) + Len(t)) /\ DOMAIN s = 1 .. Len(s) /\ DOMAIN t = 1 .. Len(t)
      /\ Len(s) \in Nat /\ Len(t) \in Nat
      /\ \A i \in 1 .. Len(s) : u[i] = s[i]
      /\ \A i \in 1 .. Len(t) : u[Len(s) + i] = t[i]
  OBVIOUS
<1>2. \A i \in DOMAIN u : i \in DOMAIN s \/ (i - Len(s) \in DOMAIN t /\ i = Len(s) + (i - Len(s)))
  BY <1>1
<1> HIDE DEF u
<1>3. ASSUME NEW k PROVE k \in InitsOf(u) <=> k \in InitsOf(s) \cup InitsOf(t)
  <2>1. ASSUME k \in InitsOf(u) PROVE k \in InitsOf(s) \cup InitsOf(t)
    <3>1. PICK i \in DOMAIN u : k # 0 /\ k = u[i].init
      BY <2>1, InInitsOf
    <3>2. CASE i \in DOMAIN s
      BY <3>1, <3>2, <1>1, InInitsOf
    <3>3. CASE i - Len(s) \in DOMAIN t /\ i = Len(s) + (i - Len(s))
      <4>1. u[i] = t[i - Len(s)]
        BY <3>3, <1>1
      <4> QED BY <3>1, <3>3, <4>1, InInitsOf
    <3> QED BY <1>2, <3>2, <3>3
  <2>2. ASSUME k \in InitsOf(s) PROVE k \in InitsOf(u)
    BY <2>2, <1>1, InInitsOf
  <2>3. ASSUME k \in InitsOf(t) PROVE k \in InitsOf(u)
    <3>1. PICK i \in DOMAIN t : k # 0 /\ k = t[i].init
      BY <2>3, InInitsOf
    <3>2. Len(s) + i \in DOMAIN u /\ u[Len(s) + i] = t[i]
      BY <1>1
    <3> QED BY <3>1, <3>2, InInitsOf
  <2> QED BY <2>1, <2>2, <2>3
<1> QED BY <1>3 DEF u

LEMMA InCommitted ==
  ASSUME NEW v, NEW k
  PROVE  k \in CommittedUpTo(v) <=>
           \E n \in DOMAIN committed : committed[n].seq <= v /\ k \in InitsOf(committed[n].commands)
BY DEF CommittedUpTo

LEMMA InCommittedNext ==
  ASSUME NEW v, NEW k
  PROVE  k \in CommittedUpTo(v)' <=>
           \E n \in DOMAIN committed' :
             committed'[n].seq <= v /\ k \in InitsOf(committed'[n].commands)
BY DEF CommittedUpTo, InitsOf, ToSet

LEMMA CommittedKept ==
  ASSUME committed' = committed, NEW v
  PROVE  CommittedUpTo(v)' = CommittedUpTo(v)
<1>1. ASSUME NEW k PROVE k \in CommittedUpTo(v)' <=> k \in CommittedUpTo(v)
  BY InCommitted, InCommittedNext
<1> QED BY <1>1

(* What a command buffer is.                                               *)
LEMMA CommittedFacts ==
  ASSUME TypeOK, SeqIdsOK
  PROVE  /\ Len(committed) \in Nat /\ DOMAIN committed = 1 .. Len(committed)
         /\ current_seq_id_ \in Nat /\ signaled \in Nat
         /\ current_seq_id_ = signaled + Len(committed) + 1
         /\ \A n \in 1 .. Len(committed) :
              /\ committed[n] \in ABuffer
              /\ committed[n].seq = signaled + n /\ committed[n].seq < current_seq_id_
              /\ committed[n].commands \in Seq(ACommand)
              /\ InitsOf(committed[n].commands) \subseteq 1 .. inits
<1>1. /\ committed \in Seq(ABuffer) /\ current_seq_id_ \in Nat /\ signaled \in Nat
      /\ \A n \in DOMAIN committed : InitsOf(committed[n].commands) \subseteq 1 .. inits
  BY DEF TypeOK
<1>2. /\ current_seq_id_ = signaled + Len(committed) + 1
      /\ \A n \in DOMAIN committed : committed[n].seq = signaled + n
  BY DEF SeqIdsOK
<1>3. Len(committed) \in Nat /\ DOMAIN committed = 1 .. Len(committed)
      /\ \A n \in 1 .. Len(committed) : committed[n] \in ABuffer
  BY <1>1
<1>4. \A n \in 1 .. Len(committed) : committed[n].commands \in Seq(ACommand)
  BY <1>3 DEF ABuffer
<1>5. \A n \in 1 .. Len(committed) : committed[n].seq < current_seq_id_
  BY <1>1, <1>2, <1>3
<1> QED BY <1>1, <1>2, <1>3, <1>4, <1>5

(* A new resource: what its init may change without losing track of any.   *)
LEMMA InitPreserves ==
  ASSUME InitializerInv, inits' = inits + 1,
         UNCHANGED <<current_seq_id_, cached_coherent_seq_id, chunks, chunkCount>>, UNCHANGED gpu,
         cpu_command_heap_offset' \in 0 .. CpuHeapSize, slots' \in 0 .. RetainSlots,
         clears' \in Seq(ACommand), blits' \in Seq(ACommand),
         zero_buffer_' \in [id : Nat, size : Nat],
         InitsOf(clears) \subseteq InitsOf(clears'), InitsOf(blits) \subseteq InitsOf(blits'),
         InitsOf(clears') \cup InitsOf(blits') \subseteq tracked',
         tracked' \subseteq tracked \cup {inits + 1},
         dropped \subseteq dropped', dropped' \subseteq dropped \cup {inits + 1},
         inits + 1 \in dropped' \cup InitsOf(clears') \cup InitsOf(blits')
  PROVE  TypeOK' /\ SeqIdsOK' /\ PendingRetained' /\ InitsAccounted' /\ ChunksCovered'
<1>1. TypeOK /\ SeqIdsOK /\ InitsAccounted /\ ChunksCovered
  BY DEF InitializerInv
<1>2. /\ committed' = committed /\ signaled' = signaled /\ filled' = filled
      /\ executed' = executed
  BY DEF gpu
<1>a. inits \in Nat
  BY <1>1 DEF TypeOK
<1>3. /\ inits \in Nat /\ inits' \in Nat
      /\ 1 .. inits \subseteq 1 .. inits' /\ inits + 1 \in 1 .. inits'
      /\ \A k \in 1 .. inits' : k \in 1 .. inits \/ k = inits + 1
  BY <1>a
<1>4. TypeOK'
  <2>1. tracked' \cup dropped' \cup executed' \subseteq 1 .. inits'
    BY <1>1, <1>2, <1>3 DEF TypeOK
  <2>2. \A n \in DOMAIN committed' : InitsOf(committed'[n].commands) \subseteq 1 .. inits'
    BY <1>1, <1>2, <1>3 DEF TypeOK
  <2> QED BY <1>1, <1>2, <1>3, <2>1, <2>2
          DEF TypeOK, ABuffer, ACommand, AChunk, InitsOf, ToSet
<1>5. SeqIdsOK'
  BY <1>1, <1>2 DEF SeqIdsOK
<1>6. PendingRetained'
  BY DEF PendingRetained, InitsOf, ToSet
<1>7. InitsAccounted'
  <2>1. CommittedUpTo(current_seq_id_)' = CommittedUpTo(current_seq_id_)
    BY <1>2, CommittedKept DEF CommittedUpTo
  <2>2. 1 .. inits' \subseteq dropped' \cup executed' \cup CommittedUpTo(current_seq_id_)'
                              \cup InitsOf(clears') \cup InitsOf(blits')
    BY <1>1, <1>2, <1>3, <2>1 DEF InitsAccounted
  <2> QED BY <2>2 DEF InitsAccounted, CommittedUpTo, InitsOf, ToSet
<1>8. ChunksCovered'
  <2> SUFFICES ASSUME NEW c \in chunks' PROVE ChunkCovered(c)'
    BY DEF ChunksCovered
  <2>1. ChunkCovered(c) /\ CommittedUpTo(c.wait)' = CommittedUpTo(c.wait)
    BY <1>1, <1>2, CommittedKept DEF ChunksCovered
  <2> QED BY <1>2, <2>1 DEF ChunkCovered
<1> QED BY <1>4, <1>5, <1>6, <1>7, <1>8

-----------------------------------------------------------------------------
(* Zeros.                                                                  *)

(* The zeros that c copies are written by a command buffer before the n-th *)
(* one, or by a command of the list s.                                     *)
Covered(c, n, s) ==
  c.kind = "copy zero" => FilledBefore(n, c) \/ \E j \in DOMAIN s : Fills(s[j], c)

LEMMA AppendFacts ==
  ASSUME NEW S, NEW s \in Seq(S), NEW c \in S
  PROVE  /\ Append(s, c) \in Seq(S)
         /\ DOMAIN Append(s, c) = 1 .. (Len(s) + 1)
         /\ DOMAIN s = 1 .. Len(s) /\ Len(s) \in Nat
         /\ \A i \in 1 .. Len(s) : Append(s, c)[i] = s[i]
         /\ Append(s, c)[Len(s) + 1] = c
OBVIOUS

LEMMA ReadsAppend ==
  ASSUME NEW s \in Seq(ACommand), NEW c \in ACommand, NEW n, ReadsZeros(s, n), Covered(c, n, s)
  PROVE  ReadsZeros(Append(s, c), n)
<1> DEFINE t == Append(s, c)
<1>1. /\ DOMAIN t = 1 .. (Len(s) + 1) /\ DOMAIN s = 1 .. Len(s) /\ Len(s) \in Nat
      /\ \A i \in 1 .. Len(s) : t[i] = s[i]
      /\ t[Len(s) + 1] = c
  BY AppendFacts
<1>a. \A i \in DOMAIN t : i = Len(s) + 1 \/ i \in DOMAIN s
  BY <1>1
<1> HIDE DEF t
<1>2. ASSUME NEW i \in DOMAIN t, t[i].kind = "copy zero"
      PROVE  FilledBefore(n, t[i]) \/ \E j \in 1 .. (i - 1) : Fills(t[j], t[i])
  <2>1. CASE i = Len(s) + 1
    <3>1. t[i] = c /\ DOMAIN s = 1 .. (i - 1) /\ \A j \in DOMAIN s : t[j] = s[j]
      BY <1>1, <2>1
    <3> QED BY <1>2, <3>1 DEF Covered
  <2>2. CASE i \in DOMAIN s
    <3>1. t[i] = s[i] /\ \A j \in 1 .. (i - 1) : t[j] = s[j]
      BY <1>1, <2>2
    <3>2. FilledBefore(n, s[i]) \/ \E j \in 1 .. (i - 1) : Fills(s[j], s[i])
      BY <1>2, <2>2, <3>1 DEF ReadsZeros
    <3> QED BY <3>1, <3>2
  <2> QED BY <1>a, <1>2, <2>1, <2>2
<1> QED BY <1>2 DEF ReadsZeros, t

(* A longer list fills at least as much.                                   *)
LEMMA FilledAppend ==
  ASSUME NEW s \in Seq(ACommand), NEW c \in ACommand, NEW b, BufferFilled(b, s)
  PROVE  BufferFilled(b, Append(s, c))
<1>1. DOMAIN s \subseteq DOMAIN Append(s, c) /\ \A j \in DOMAIN s : Append(s, c)[j] = s[j]
  BY AppendFacts
<1> QED BY <1>1 DEF BufferFilled

LEMMA FilledBeforeKept ==
  ASSUME UNCHANGED <<committed, filled>>, NEW n, NEW c
  PROVE  FilledBefore(n, c)' <=> FilledBefore(n, c)
BY DEF FilledBefore, Fills

LEMMA ZerosKept ==
  ASSUME ZerosAreZero, UNCHANGED <<committed, filled>>,
         ReadsZeros(blits', Len(committed) + 1), BufferFilled(zero_buffer_', blits')
  PROVE  ZerosAreZero' /\ ZeroBufferFilled'
<1>1. ReadsZeros(blits, Len(committed) + 1)'
  BY FilledBeforeKept DEF ReadsZeros, Fills
<1>2. BufferFilled(zero_buffer_, blits)'
  BY FilledBeforeKept DEF BufferFilled, Fills
<1>3. ZerosAreZero'
  <2>1. \A n \in DOMAIN committed' : ReadsZeros(committed[n].commands, n)'
    BY FilledBeforeKept DEF ZerosAreZero, ReadsZeros, Fills
  <2> QED BY <1>1, <2>1 DEF ZerosAreZero
<1> QED BY <1>2, <1>3 DEF ZeroBufferFilled

(* One more command in the list, other than a copy of zeros.               *)
LEMMA BlitAppended ==
  ASSUME InitializerInv, UNCHANGED <<committed, filled, zero_buffer_>>,
         NEW c \in ACommand, c.kind # "copy zero", blits' = Append(blits, c)
  PROVE  ZerosAreZero' /\ ZeroBufferFilled'
<1>1. /\ blits \in Seq(ACommand) /\ ReadsZeros(blits, Len(committed) + 1)
      /\ ZerosAreZero /\ BufferFilled(zero_buffer_, blits)
  BY DEF InitializerInv, TypeOK, ZerosAreZero, ZeroBufferFilled
<1>2. ReadsZeros(blits', Len(committed) + 1)
  BY <1>1, ReadsAppend DEF Covered
<1>3. BufferFilled(zero_buffer_', blits')
  BY <1>1, FilledAppend
<1> QED BY <1>1, <1>2, <1>3, ZerosKept

LEMMA BlitsKept ==
  ASSUME InitializerInv, UNCHANGED <<committed, filled, zero_buffer_, blits>>
  PROVE  ZerosAreZero' /\ ZeroBufferFilled'
BY ZerosKept DEF InitializerInv, ZerosAreZero, ZeroBufferFilled

-----------------------------------------------------------------------------
(* The calls that create resources.                                        *)

LEMMA ConstantTypes ==
  /\ CpuHeapSize \in Nat /\ BlitSize \in Nat /\ ClearSize \in Nat /\ StorageSize \in Nat
  /\ RetainSlots \in Nat /\ RetainSlots > 0
  /\ kResourceInitializerChunks \in Nat
  /\ \A size \in ZeroSizes \cup DataSizes : size \in Nat /\ size > 0
BY InitializerAssumption

LEMMA CommandFacts ==
  ASSUME NEW kind \in {"fill", "clear", "copy data", "fill zero", "copy zero"}, NEW init \in Nat
  PROVE  /\ Command(kind, init) \in ACommand
         /\ Command(kind, init).init = init /\ Command(kind, init).kind = kind
BY DEF Command, ACommand

LEMMA FillZeroFacts ==
  ASSUME NEW zero \in Nat, NEW size \in Nat
  PROVE  LET c == FillZero(zero, size)
         IN  /\ c \in ACommand /\ c.init = 0 /\ c.kind = "fill zero"
             /\ c.zero = zero /\ c.size = size
BY DEF FillZero, Command, ACommand

(* A fill that is large enough for a copy is for any smaller one.          *)
LEMMA FillsSmaller ==
  ASSUME NEW d \in ACommand, NEW e, NEW c, Fills(d, e), c.zero = e.zero,
         e.size \in Nat, c.size \in Nat, c.size <= e.size
  PROVE  Fills(d, c)
<1>1. d.size \in Nat
  BY DEF ACommand
<1>2. d.size >= e.size
  BY DEF Fills
<1>3. \A x, y, z \in Nat : x >= y /\ z <= y => x >= z
  OBVIOUS
<1>4. d.size >= c.size
  BY <1>1, <1>2, <1>3
<1> QED BY <1>4 DEF Fills

(* A command is added to the batch: its allocation is retained.            *)
LEMMA RecordEffect ==
  ASSUME TypeOK, NEW o \in Nat, NEW size \in Nat,
         retainAllocation(o).ok, Fits(retainAllocation(o).offset, size),
         Record(retainAllocation(o).offset + size, retainAllocation(o))
  PROVE  /\ cpu_command_heap_offset' \in 0 .. CpuHeapSize /\ slots' \in 0 .. RetainSlots
         /\ tracked' = tracked \cup {inits + 1} /\ todo' = todo
<1>1. slots \in Nat /\ slots <= RetainSlots
  BY ConstantTypes DEF TypeOK
<1>2. /\ retainAllocation(o).offset \in Nat
      /\ retainAllocation(o).slots \in 0 .. RetainSlots
      /\ retainAllocation(o).tracks
  BY <1>1, ConstantTypes DEF retainAllocation
<1>3. retainAllocation(o).offset + size \in 0 .. CpuHeapSize
  BY <1>2, ConstantTypes DEF Fits
<1> QED BY <1>2, <1>3 DEF Record

(* A call that adds command c, behind what it has itself put into blits.   *)
LEMMA RecordPreserves ==
  ASSUME InitializerInv, todo = <<>>, inits' = inits + 1,
         UNCHANGED <<current_seq_id_, cached_coherent_seq_id, chunks, chunkCount>>, UNCHANGED gpu,
         NEW o \in Nat, NEW size \in Nat,
         retainAllocation(o).ok, Fits(retainAllocation(o).offset, size),
         Record(retainAllocation(o).offset + size, retainAllocation(o)),
         NEW c \in ACommand,
         \/ c.init = inits + 1 /\ dropped' = dropped
         \/ c.init = 0 /\ dropped' = dropped \cup {inits + 1},
         NEW s \in Seq(ACommand), zero_buffer_' \in [id : Nat, size : Nat],
         \/ clears' = clears /\ blits' = Append(s, c) /\ InitsOf(s) = InitsOf(blits)
         \/ clears' = Append(clears, c) /\ blits' = blits
  PROVE  /\ TypeOK' /\ SeqIdsOK' /\ TodoOK'
         /\ PendingRetained' /\ InitsAccounted' /\ ChunksCovered'
<1>1. TypeOK /\ PendingRetained /\ inits \in Nat
  BY DEF InitializerInv, TypeOK
<1>2. /\ cpu_command_heap_offset' \in 0 .. CpuHeapSize /\ slots' \in 0 .. RetainSlots
      /\ tracked' = tracked \cup {inits + 1} /\ todo' = todo
      /\ dropped \subseteq dropped' /\ dropped' \subseteq dropped \cup {inits + 1}
  BY <1>1, RecordEffect
<1>3. clears \in Seq(ACommand) /\ blits \in Seq(ACommand)
      /\ {inits + 1} \ {0} = {inits + 1}
  BY <1>1 DEF TypeOK
<1>4. /\ InitsOf(clears) \subseteq InitsOf(clears') /\ InitsOf(blits) \subseteq InitsOf(blits')
      /\ InitsOf(clears') \cup InitsOf(blits')
           = InitsOf(clears) \cup InitsOf(blits) \cup ({c.init} \ {0})
      /\ clears' \in Seq(ACommand) /\ blits' \in Seq(ACommand)
  <2>1. CASE clears' = clears /\ blits' = Append(s, c) /\ InitsOf(s) = InitsOf(blits)
    BY <2>1, <1>3, InitsOfAppend
  <2>2. CASE clears' = Append(clears, c) /\ blits' = blits
    BY <2>2, <1>3, InitsOfAppend
  <2> QED BY <2>1, <2>2
<1>5. /\ InitsOf(clears') \cup InitsOf(blits') \subseteq tracked'
      /\ inits + 1 \in dropped' \cup InitsOf(clears') \cup InitsOf(blits')
  BY <1>1, <1>2, <1>3, <1>4 DEF PendingRetained
<1>6. TypeOK' /\ SeqIdsOK' /\ PendingRetained' /\ InitsAccounted' /\ ChunksCovered'
  BY <1>2, <1>4, <1>5, InitPreserves
<1>7. TodoOK'
  BY <1>2 DEF TodoOK, idle
<1> QED BY <1>6, <1>7

(* A call that gives its init up and flushes.                              *)
LEMMA GiveUpPreserves ==
  ASSUME InitializerInv, inits' = inits + 1,
         UNCHANGED <<current_seq_id_, cached_coherent_seq_id, chunks, chunkCount>>, UNCHANGED gpu,
         NEW steps \in {FlushSteps, GrowSteps}, GiveUp(steps),
         UNCHANGED <<clears, tracked, slots>>, cpu_command_heap_offset' \in 0 .. CpuHeapSize,
         blits' \in Seq(ACommand), InitsOf(blits') = InitsOf(blits),
         zero_buffer_' \in [id : Nat, size : Nat]
  PROVE  /\ TypeOK' /\ SeqIdsOK' /\ TodoOK'
         /\ PendingRetained' /\ InitsAccounted' /\ ChunksCovered'
<1>1. TypeOK /\ PendingRetained
  BY DEF InitializerInv
<1>2. InitsOf(clears') \cup InitsOf(blits') \subseteq tracked'
  BY <1>1 DEF PendingRetained
<1>3. clears' \in Seq(ACommand) /\ slots' \in 0 .. RetainSlots
  BY <1>1 DEF TypeOK
<1>4. todo' = steps /\ dropped' = dropped \cup {inits + 1}
  BY DEF GiveUp
<1>5. TypeOK' /\ SeqIdsOK' /\ PendingRetained' /\ InitsAccounted' /\ ChunksCovered'
  BY <1>2, <1>3, <1>4, InitPreserves
<1>6. todo' \in {<<"flush", "trim">>, <<"flush", "trim", "forget", "flush", "trim">>}
  BY <1>4 DEF FlushSteps, GrowSteps
<1>7. TodoOK'
  BY <1>6 DEF TodoOK
<1> QED BY <1>5, <1>7

LEMMA InitBufferStep == ASSUME InitializerInv, InitBuffer PROVE InitializerInv'
<1> DEFINE o == cpu_command_heap_offset
           c == Command("fill", inits + 1)
<1>1. /\ TypeOK /\ ClearsClear /\ RB!IInv /\ inits \in Nat /\ o \in Nat /\ BlitSize \in Nat
      /\ blits \in Seq(ACommand)
  BY ConstantTypes DEF InitializerInv, TypeOK
<1>2. /\ todo = <<>> /\ inits' = inits + 1 /\ zero_buffer_' = zero_buffer_
      /\ UNCHANGED <<current_seq_id_, cached_coherent_seq_id, chunks, chunkCount>>
      /\ UNCHANGED gpu /\ UNCHANGED gpuHeap
  BY DEF InitBuffer, MayInit
<1>3. UNCHANGED <<committed, filled, signaled>> /\ zero_buffer_' \in [id : Nat, size : Nat]
  BY <1>1, <1>2 DEF gpu, TypeOK
<1>4. RB!IInv'
  BY <1>1, <1>2, <1>3, HeapKept
<1>5. CASE retainAllocation(o).ok /\ Fits(retainAllocation(o).offset, BlitSize)
  <2>1. /\ Record(retainAllocation(o).offset + BlitSize, retainAllocation(o))
        /\ blits' = Append(blits, c) /\ UNCHANGED <<clears, dropped>>
    BY <1>5 DEF InitBuffer
  <2>2. c \in ACommand /\ c.init = inits + 1 /\ c.kind = "fill"
    <3>1. inits + 1 \in Nat
      BY <1>1
    <3> QED BY <3>1, CommandFacts
  <2>3. /\ TypeOK' /\ SeqIdsOK' /\ TodoOK'
        /\ PendingRetained' /\ InitsAccounted' /\ ChunksCovered'
    <3> HIDE DEF o, c
    <3> QED BY <1>1, <1>2, <1>3, <1>5, <2>1, <2>2, RecordPreserves
  <2>4. ZerosAreZero' /\ ZeroBufferFilled'
    <3> HIDE DEF o, c
    <3> QED BY <1>2, <1>3, <2>1, <2>2, BlitAppended
  <2>5. ClearsClear'
    BY <1>1, <2>1 DEF ClearsClear
  <2> QED BY <1>4, <2>3, <2>4, <2>5 DEF InitializerInv
<1>6. CASE ~(retainAllocation(o).ok /\ Fits(retainAllocation(o).offset, BlitSize))
  <2>1. GiveUp(FlushSteps) /\ UNCHANGED <<clears, blits, o, tracked, slots>>
    BY <1>6 DEF InitBuffer, lists
  <2>2. o' \in 0 .. CpuHeapSize /\ blits' \in Seq(ACommand)
    BY <1>1, <2>1 DEF TypeOK
  <2>3. /\ TypeOK' /\ SeqIdsOK' /\ TodoOK'
        /\ PendingRetained' /\ InitsAccounted' /\ ChunksCovered'
    BY <1>2, <1>3, <2>1, <2>2, GiveUpPreserves
  <2>4. ZerosAreZero' /\ ZeroBufferFilled' /\ ClearsClear'
    BY <1>1, <1>2, <1>3, <2>1, BlitsKept DEF ClearsClear
  <2> QED BY <1>4, <2>3, <2>4 DEF InitializerInv
<1> QED BY <1>5, <1>6

LEMMA InitTargetStep == ASSUME InitializerInv, InitTarget PROVE InitializerInv'
<1> DEFINE o == cpu_command_heap_offset
           drawn == Command("clear", inits + 1)
           skipped == Command("clear", 0)
<1>1. /\ TypeOK /\ ClearsClear /\ RB!IInv /\ inits \in Nat /\ o \in Nat /\ ClearSize \in Nat
      /\ blits \in Seq(ACommand)
  BY ConstantTypes DEF InitializerInv, TypeOK
<1>2. /\ todo = <<>> /\ inits' = inits + 1 /\ zero_buffer_' = zero_buffer_
      /\ UNCHANGED <<current_seq_id_, cached_coherent_seq_id, chunks, chunkCount>>
      /\ UNCHANGED gpu /\ UNCHANGED gpuHeap
  BY DEF InitTarget, MayInit
<1>3. UNCHANGED <<committed, filled, signaled>> /\ zero_buffer_' \in [id : Nat, size : Nat]
  BY <1>1, <1>2 DEF gpu, TypeOK
<1>4. RB!IInv'
  BY <1>1, <1>2, <1>3, HeapKept
<1>5. CASE retainAllocation(o).ok /\ Fits(retainAllocation(o).offset, ClearSize)
  <2>1. /\ Record(retainAllocation(o).offset + ClearSize, retainAllocation(o))
        /\ blits' = blits
        /\ \/ clears' = Append(clears, drawn) /\ dropped' = dropped
           \/ clears' = Append(clears, skipped) /\ dropped' = dropped \cup {inits + 1}
    BY <1>5 DEF InitTarget
  <2>2. PICK c \in ACommand :
          /\ clears' = Append(clears, c) /\ c.kind = "clear"
          /\ \/ c.init = inits + 1 /\ dropped' = dropped
             \/ c.init = 0 /\ dropped' = dropped \cup {inits + 1}
    <3>1. inits + 1 \in Nat /\ 0 \in Nat
      BY <1>1
    <3>2. /\ drawn \in ACommand /\ drawn.init = inits + 1 /\ drawn.kind = "clear"
          /\ skipped \in ACommand /\ skipped.init = 0 /\ skipped.kind = "clear"
      BY <3>1, CommandFacts
    <3> HIDE DEF drawn, skipped
    <3> QED BY <2>1, <3>2
  <2>3. /\ TypeOK' /\ SeqIdsOK' /\ TodoOK'
        /\ PendingRetained' /\ InitsAccounted' /\ ChunksCovered'
    <3> HIDE DEF o
    <3> QED BY <1>1, <1>2, <1>3, <1>5, <2>1, <2>2, RecordPreserves
  <2>4. ZerosAreZero' /\ ZeroBufferFilled'
    <3> HIDE DEF o
    <3> QED BY <1>2, <1>3, <2>1, BlitsKept
  <2>5. ClearsClear'
    <3>1. clears \in Seq(ACommand)
      BY <1>1 DEF TypeOK
    <3>2. \A i \in DOMAIN clears' : clears'[i].kind = "clear"
      BY <1>1, <2>2, <3>1, AppendFacts DEF ClearsClear
    <3> QED BY <3>2 DEF ClearsClear
  <2> QED BY <1>4, <2>3, <2>4, <2>5 DEF InitializerInv
<1>6. CASE ~(retainAllocation(o).ok /\ Fits(retainAllocation(o).offset, ClearSize))
  <2>1. GiveUp(FlushSteps) /\ UNCHANGED <<clears, blits, o, tracked, slots>>
    BY <1>6 DEF InitTarget, lists
  <2>2. o' \in 0 .. CpuHeapSize /\ blits' \in Seq(ACommand)
    BY <1>1, <2>1 DEF TypeOK
  <2>3. /\ TypeOK' /\ SeqIdsOK' /\ TodoOK'
        /\ PendingRetained' /\ InitsAccounted' /\ ChunksCovered'
    BY <1>2, <1>3, <2>1, <2>2, GiveUpPreserves
  <2>4. ZerosAreZero' /\ ZeroBufferFilled' /\ ClearsClear'
    BY <1>1, <1>2, <1>3, <2>1, BlitsKept DEF ClearsClear
  <2> QED BY <1>4, <2>3, <2>4 DEF InitializerInv
<1> QED BY <1>5, <1>6

LEMMA InitDataStep == ASSUME InitializerInv, InitData PROVE InitializerInv'
<1> DEFINE o == cpu_command_heap_offset
           c == Command("copy data", inits + 1)
<1>1. /\ TypeOK /\ ClearsClear /\ RB!IInv /\ inits \in Nat /\ o \in Nat /\ BlitSize \in Nat
      /\ blits \in Seq(ACommand)
  BY ConstantTypes DEF InitializerInv, TypeOK
<1>2. /\ todo = <<>> /\ inits' = inits + 1 /\ zero_buffer_' = zero_buffer_
      /\ UNCHANGED <<current_seq_id_, cached_coherent_seq_id, chunks, chunkCount>>
      /\ UNCHANGED gpu
  BY DEF InitData, MayInit
<1>3. UNCHANGED <<committed, filled, signaled>> /\ zero_buffer_' \in [id : Nat, size : Nat]
  BY <1>1, <1>2 DEF gpu, TypeOK
<1>4. RB!IInv'
  <2>1. CASE UNCHANGED gpuHeap
    BY <1>1, <1>2, <1>3, <2>1, HeapKept
  <2>2. CASE \E size \in DataSizes : allocateGpuHeap(size)
    BY <1>1, <1>2, <1>3, <2>2, HeapAllocate
  <2> QED BY <2>1, <2>2 DEF InitData
<1>5. CASE retainAllocation(o).ok /\ Fits(retainAllocation(o).offset, BlitSize)
  <2>1. /\ Record(retainAllocation(o).offset + BlitSize, retainAllocation(o))
        /\ blits' = Append(blits, c) /\ UNCHANGED <<clears, dropped>>
    BY <1>5 DEF InitData
  <2>2. c \in ACommand /\ c.init = inits + 1 /\ c.kind = "copy data"
    <3>1. inits + 1 \in Nat
      BY <1>1
    <3> QED BY <3>1, CommandFacts
  <2>3. /\ TypeOK' /\ SeqIdsOK' /\ TodoOK'
        /\ PendingRetained' /\ InitsAccounted' /\ ChunksCovered'
    <3> HIDE DEF o, c
    <3> QED BY <1>1, <1>2, <1>3, <1>5, <2>1, <2>2, RecordPreserves
  <2>4. ZerosAreZero' /\ ZeroBufferFilled'
    <3> HIDE DEF o, c
    <3> QED BY <1>2, <1>3, <2>1, <2>2, BlitAppended
  <2>5. ClearsClear'
    BY <1>1, <2>1 DEF ClearsClear
  <2> QED BY <1>4, <2>3, <2>4, <2>5 DEF InitializerInv
<1>6. CASE ~(retainAllocation(o).ok /\ Fits(retainAllocation(o).offset, BlitSize))
  <2>1. GiveUp(FlushSteps) /\ UNCHANGED <<clears, blits, o, tracked, slots>>
    BY <1>6 DEF InitData, lists
  <2>2. o' \in 0 .. CpuHeapSize /\ blits' \in Seq(ACommand)
    BY <1>1, <2>1 DEF TypeOK
  <2>3. /\ TypeOK' /\ SeqIdsOK' /\ TodoOK'
        /\ PendingRetained' /\ InitsAccounted' /\ ChunksCovered'
    BY <1>2, <1>3, <2>1, <2>2, GiveUpPreserves
  <2>4. ZerosAreZero' /\ ZeroBufferFilled' /\ ClearsClear'
    BY <1>1, <1>2, <1>3, <2>1, BlitsKept DEF ClearsClear
  <2> QED BY <1>4, <2>3, <2>4 DEF InitializerInv
<1> QED BY <1>5, <1>6

(* The zero buffer a copy reads: large enough, and filled by then.         *)
LEMMA ZeroBufferEffect ==
  ASSUME InitializerInv, NEW size \in ZeroSizes, zero_buffer_.size >= size \/ zero_buffer_.size = 0
  PROVE  LET zero == ZeroBuffer(size)
         IN  /\ zero.blits \in Seq(ACommand) /\ InitsOf(zero.blits) = InitsOf(blits)
             /\ zero.offset \in Nat /\ zero.buffer \in [id : Nat, size : Nat]
             /\ zero.buffer.size >= size
             /\ ReadsZeros(zero.blits, Len(committed) + 1)
             /\ BufferFilled(zero.buffer, zero.blits)
<1> DEFINE zero == ZeroBuffer(size)
           n == Len(committed) + 1
<1>1. /\ blits \in Seq(ACommand) /\ cpu_command_heap_offset \in Nat /\ BlitSize \in Nat
      /\ size \in Nat /\ size > 0 /\ zero_buffer_.id \in Nat /\ zero_buffer_.size \in Nat
      /\ zero_buffer_ \in [id : Nat, size : Nat]
      /\ ReadsZeros(blits, n) /\ BufferFilled(zero_buffer_, blits)
  <2>1. TypeOK /\ ZerosAreZero /\ ZeroBufferFilled
    BY DEF InitializerInv
  <2> QED BY <2>1, ConstantTypes DEF TypeOK, ZerosAreZero, ZeroBufferFilled
<1>2. CASE zero_buffer_.size >= size
  <2>1. zero.blits = blits /\ zero.offset = cpu_command_heap_offset /\ zero.buffer = zero_buffer_
    BY <1>2 DEF ZeroBuffer
  <2> QED BY <1>1, <1>2, <2>1
<1>3. CASE ~(zero_buffer_.size >= size)
  <2> DEFINE b == [id |-> zero_buffer_.id + 1, size |-> size]
             c == FillZero(zero_buffer_.id + 1, size)
  <2>1. /\ zero.blits = Append(blits, c) /\ zero.offset = cpu_command_heap_offset + BlitSize
        /\ zero.buffer = b
    BY <1>3 DEF ZeroBuffer
  <2>2. /\ c \in ACommand /\ c.init = 0 /\ c.kind = "fill zero"
        /\ c.zero = zero_buffer_.id + 1 /\ c.size = size
    <3>1. zero_buffer_.id + 1 \in Nat /\ size \in Nat
      BY <1>1
    <3> QED BY <3>1, FillZeroFacts
  <2>3. b \in [id : Nat, size : Nat] /\ b.size = size /\ b.id = zero_buffer_.id + 1
    BY <1>1
  <2> HIDE DEF b, c
  <2>4. InitsOf(Append(blits, c)) = InitsOf(blits)
    <3>1. blits \in Seq(ACommand)
      BY <1>1
    <3>2. c \in ACommand /\ {c.init} \ {0} = {}
      BY <2>2
    <3> QED BY <3>1, <3>2, InitsOfAppend
  <2>5. Covered(c, n, blits)
    BY <2>2 DEF Covered
  <2>6. ReadsZeros(Append(blits, c), n)
    BY <1>1, <2>2, <2>5, ReadsAppend
  <2>7. /\ Append(blits, c) \in Seq(ACommand) /\ Len(blits) + 1 \in DOMAIN Append(blits, c)
        /\ Append(blits, c)[Len(blits) + 1] = c
    <3>1. blits \in Seq(ACommand) /\ c \in ACommand
      BY <1>1, <2>2
    <3>2. Len(blits) \in Nat
      BY <3>1
    <3> QED BY <3>1, <3>2, AppendFacts
  <2>8. Fills(c, [zero |-> b.id, size |-> b.size])
    <3>1. size >= size
      BY <1>1
    <3>2. c.size >= b.size
      BY <2>2, <2>3, <3>1
    <3> QED BY <2>2, <2>3, <3>2 DEF Fills
  <2>9. BufferFilled(b, Append(blits, c))
    BY <2>7, <2>8 DEF BufferFilled
  <2>10. /\ cpu_command_heap_offset + BlitSize \in Nat /\ b.size >= size
    BY <1>1, <2>3
  <2> QED BY <2>1, <2>3, <2>4, <2>6, <2>7, <2>9, <2>10
<1> QED BY <1>2, <1>3

LEMMA InitTextureStep == ASSUME InitializerInv, InitTexture PROVE InitializerInv'
<1>1. /\ TypeOK /\ ClearsClear /\ ZerosAreZero /\ RB!IInv /\ inits \in Nat /\ BlitSize \in Nat
      /\ blits \in Seq(ACommand) /\ clears \in Seq(ACommand)
      /\ zero_buffer_ \in [id : Nat, size : Nat]
  BY ConstantTypes DEF InitializerInv, TypeOK
<1>2. /\ todo = <<>> /\ inits' = inits + 1
      /\ UNCHANGED <<current_seq_id_, cached_coherent_seq_id, chunks, chunkCount>>
      /\ UNCHANGED gpu /\ UNCHANGED gpuHeap
  BY DEF InitTexture, MayInit
<1>3. UNCHANGED <<committed, filled, signaled>>
  BY <1>2 DEF gpu
<1>4. RB!IInv'
  BY <1>1, <1>2, <1>3, HeapKept
<1>5. PICK size \in ZeroSizes : GrowZeroBuffer(size) \/ CopyFromZeroBuffer(size)
  BY DEF InitTexture
<1>6. ASSUME NEW steps \in {FlushSteps, GrowSteps}, GiveUp(steps),
             UNCHANGED <<zero_buffer_, lists>>
      PROVE  InitializerInv'
  <2>1. UNCHANGED <<clears, blits, cpu_command_heap_offset, tracked, slots, zero_buffer_>>
    BY <1>6 DEF lists
  <2>2. /\ cpu_command_heap_offset' \in 0 .. CpuHeapSize /\ blits' \in Seq(ACommand)
        /\ zero_buffer_' \in [id : Nat, size : Nat]
    BY <1>1, <2>1 DEF TypeOK
  <2>3. /\ TypeOK' /\ SeqIdsOK' /\ TodoOK'
        /\ PendingRetained' /\ InitsAccounted' /\ ChunksCovered'
    BY <1>2, <1>6, <2>1, <2>2, GiveUpPreserves
  <2>4. ZerosAreZero' /\ ZeroBufferFilled' /\ ClearsClear'
    BY <1>1, <1>3, <2>1, BlitsKept DEF ClearsClear
  <2> QED BY <1>4, <2>3, <2>4 DEF InitializerInv
<1>7. CASE GrowZeroBuffer(size)
  BY <1>6, <1>7 DEF GrowZeroBuffer
<1>8. CASE CopyFromZeroBuffer(size)
  <2> DEFINE zero == ZeroBuffer(size)
             retained == retainAllocation(zero.offset)
             c == CopyZero(inits + 1, zero.buffer.id, size)
             n == Len(committed) + 1
  <2>1. size \in Nat /\ size > 0 /\ (zero_buffer_.size >= size \/ zero_buffer_.size = 0)
    BY <1>8, ConstantTypes DEF CopyFromZeroBuffer
  <2>2. /\ zero.blits \in Seq(ACommand) /\ InitsOf(zero.blits) = InitsOf(blits)
        /\ zero.offset \in Nat /\ zero.buffer \in [id : Nat, size : Nat]
        /\ zero.buffer.size >= size
        /\ ReadsZeros(zero.blits, n) /\ BufferFilled(zero.buffer, zero.blits)
    BY <2>1, ZeroBufferEffect
  <2>3. CASE zero.offset > CpuHeapSize
    BY <1>6, <1>8, <2>3 DEF CopyFromZeroBuffer
  <2>4. CASE ~(zero.offset > CpuHeapSize) /\ retained.ok /\ Fits(retained.offset, BlitSize)
    <3>1. /\ zero_buffer_' = zero.buffer /\ clears' = clears /\ dropped' = dropped
          /\ Record(retained.offset + BlitSize, retained)
          /\ blits' = Append(zero.blits, c)
      BY <1>8, <2>4 DEF CopyFromZeroBuffer
    <3>2. zero.buffer.id \in Nat /\ zero.buffer.size \in Nat
      BY <2>2
    <3>3. /\ c \in ACommand /\ c.init = inits + 1 /\ c.kind = "copy zero"
          /\ c.zero = zero.buffer.id /\ c.size = size
      <4> HIDE DEF zero
      <4> DEFINE k == inits + 1
                 id == zero.buffer.id
      <4>1. k \in Nat /\ id \in Nat /\ size \in Nat
        BY <1>1, <2>1, <3>2
      <4> HIDE DEF k, id
      <4>2. LET d == CopyZero(k, id, size)
            IN  /\ d \in ACommand /\ d.init = k /\ d.kind = "copy zero"
                /\ d.zero = id /\ d.size = size
        BY <4>1 DEF CopyZero, Command, ACommand
      <4> QED BY <4>2 DEF k, id
    <3> HIDE DEF zero, c
    <3>4. Covered(c, n, zero.blits)
      <4> DEFINE e == [zero |-> zero.buffer.id, size |-> zero.buffer.size]
      <4>1. e.zero = c.zero /\ e.size >= c.size /\ e.size \in Nat /\ c.size \in Nat
        BY <2>1, <2>2, <3>2, <3>3
      <4>2. FilledBefore(n, e) \/ \E j \in DOMAIN zero.blits : Fills(zero.blits[j], e)
        BY <2>1, <2>2, <3>2 DEF BufferFilled
      <4> HIDE DEF e, n
      <4>3. ASSUME NEW d \in ACommand, Fills(d, e) PROVE Fills(d, c)
        BY <4>1, <4>3, FillsSmaller
      <4>4. ASSUME FilledBefore(n, e) PROVE FilledBefore(n, c)
        <5>1. CASE \E z \in filled : z.id = e.zero /\ z.size >= e.size
          <6>1. PICK z \in filled : z.id = e.zero /\ z.size >= e.size
            BY <5>1
          <6>2. z \in [id : Nat, size : Nat]
            BY <1>1, <6>1 DEF TypeOK
          <6> QED BY <4>1, <6>1, <6>2 DEF FilledBefore
        <5>2. CASE \E m \in 1 .. n - 1 : \E j \in DOMAIN committed[m].commands :
                     Fills(committed[m].commands[j], e)
          <6>1. PICK m \in 1 .. n - 1 : \E j \in DOMAIN committed[m].commands :
                       Fills(committed[m].commands[j], e)
            BY <5>2
          <6>2. PICK j \in DOMAIN committed[m].commands : Fills(committed[m].commands[j], e)
            BY <6>1
          <6>3. m \in 1 .. Len(committed)
            BY <6>1, <1>1, CommittedFacts DEF n, InitializerInv
          <6>4. committed[m].commands \in Seq(ACommand)
            BY <6>3, <1>1, CommittedFacts DEF InitializerInv
          <6>5. committed[m].commands[j] \in ACommand
            BY <6>2, <6>4
          <6>6. Fills(committed[m].commands[j], c)
            BY <6>2, <6>5, <4>3
          <6> QED BY <6>1, <6>2, <6>6 DEF FilledBefore
        <5> QED BY <4>4, <5>1, <5>2 DEF FilledBefore
      <4>5. ASSUME \E j \in DOMAIN zero.blits : Fills(zero.blits[j], e)
            PROVE  \E j \in DOMAIN zero.blits : Fills(zero.blits[j], c)
        <5>1. \A j \in DOMAIN zero.blits : zero.blits[j] \in ACommand
          BY <2>2
        <5> QED BY <4>3, <4>5, <5>1
      <4> QED BY <4>2, <4>4, <4>5 DEF Covered
    <3>5. ReadsZeros(blits', n)
      BY <2>2, <3>1, <3>3, <3>4, ReadsAppend
    <3>6. BufferFilled(zero_buffer_', blits')
      BY <2>2, <3>1, <3>3, FilledAppend
    <3>7. ZerosAreZero' /\ ZeroBufferFilled'
      BY <1>1, <1>3, <3>5, <3>6, ZerosKept
    <3>8. /\ TypeOK' /\ SeqIdsOK' /\ TodoOK'
          /\ PendingRetained' /\ InitsAccounted' /\ ChunksCovered'
      BY <1>1, <1>2, <2>2, <2>4, <3>1, <3>3, RecordPreserves
    <3>9. ClearsClear'
      BY <1>1, <3>1 DEF ClearsClear
    <3> QED BY <1>4, <3>7, <3>8, <3>9 DEF InitializerInv
  <2>5. CASE ~(zero.offset > CpuHeapSize) /\ ~(retained.ok /\ Fits(retained.offset, BlitSize))
    <3>1. /\ zero_buffer_' = zero.buffer /\ GiveUp(FlushSteps) /\ blits' = zero.blits
          /\ cpu_command_heap_offset' = zero.offset /\ UNCHANGED <<clears, tracked, slots>>
      BY <1>8, <2>5 DEF CopyFromZeroBuffer
    <3> HIDE DEF zero
    <3>2. cpu_command_heap_offset' \in 0 .. CpuHeapSize
      BY <2>2, <2>5, <3>1, ConstantTypes
    <3>3. /\ TypeOK' /\ SeqIdsOK' /\ TodoOK'
          /\ PendingRetained' /\ InitsAccounted' /\ ChunksCovered'
      BY <1>2, <2>2, <3>1, <3>2, GiveUpPreserves
    <3>4. ZerosAreZero' /\ ZeroBufferFilled' /\ ClearsClear'
      BY <1>1, <1>3, <2>2, <3>1, ZerosKept DEF ClearsClear
    <3> QED BY <1>4, <3>3, <3>4 DEF InitializerInv
  <2> QED BY <2>3, <2>4, <2>5
<1> QED BY <1>5, <1>7, <1>8

-----------------------------------------------------------------------------
(* The steps of a call, and the chunks.                                    *)

(* What the holder of mutex_ has still to do after its next step.          *)
LEMMA TodoTail ==
  ASSUME TodoOK, todo # <<>>
  PROVE  /\ Head(todo) = "flush" =>
              Tail(todo) \in {<<"trim">>, <<"trim", "forget", "flush", "trim">>, <<"trim", "return">>}
         /\ Head(todo) = "trim" =>
              /\ Tail(todo) \in {<<>>, <<"forget", "flush", "trim">>, <<"return">>}
              /\ Tail(todo) = <<"return">> => idle
         /\ Head(todo) = "forget" => Tail(todo) = <<"flush", "trim">>
         /\ Head(todo) = "return" => Tail(todo) = <<>> /\ idle
<1>1. CASE todo = <<"trim">>
  BY <1>1
<1>2. CASE todo = <<"flush", "trim">>
  BY <1>2
<1>3. CASE todo = <<"forget", "flush", "trim">>
  BY <1>3
<1>4. CASE todo = <<"trim", "forget", "flush", "trim">>
  BY <1>4
<1>5. CASE todo = <<"flush", "trim", "forget", "flush", "trim">>
  BY <1>5
<1>6. CASE todo = <<"return">>
  BY <1>6 DEF TodoOK
<1>7. CASE todo = <<"trim", "return">>
  BY <1>7 DEF TodoOK
<1>8. CASE todo = <<"flush", "trim", "return">>
  BY <1>8
<1> QED BY <1>1, <1>2, <1>3, <1>4, <1>5, <1>6, <1>7, <1>8 DEF TodoOK

(* A step that records and executes nothing.                               *)
LEMMA StepPreserves ==
  ASSUME InitializerInv,
         UNCHANGED <<current_seq_id_, signaled, committed, filled, executed, inits, dropped>>,
         UNCHANGED <<clears, blits, cpu_command_heap_offset, tracked, slots>>,
         cached_coherent_seq_id' \in Nat, cached_coherent_seq_id' <= signaled,
         zero_buffer_' = zero_buffer_ \/ zero_buffer_' = [zero_buffer_ EXCEPT !.size = 0],
         chunkCount' \in Nat, chunks' \subseteq AChunk,
         \A c \in chunks' : ChunkCovered(c)
  PROVE  /\ TypeOK' /\ SeqIdsOK' /\ PendingRetained' /\ InitsAccounted' /\ ChunksCovered'
         /\ ClearsClear' /\ ZerosAreZero' /\ ZeroBufferFilled'
<1>1. /\ TypeOK /\ SeqIdsOK /\ PendingRetained /\ InitsAccounted
      /\ ClearsClear /\ ZerosAreZero /\ ZeroBufferFilled
  BY DEF InitializerInv
<1>2. /\ zero_buffer_' \in [id : Nat, size : Nat]
      /\ zero_buffer_' = zero_buffer_ \/ zero_buffer_'.size = 0
  BY <1>1 DEF TypeOK
<1>3. TypeOK'
  <2>1. \A n \in DOMAIN committed' : InitsOf(committed'[n].commands) \subseteq 1 .. inits'
    BY <1>1 DEF TypeOK
  <2>2. /\ inits \in Nat /\ signaled \in Nat /\ current_seq_id_ \in Nat
        /\ tracked' \cup dropped' \cup executed' \subseteq 1 .. inits'
        /\ committed' \in Seq(ABuffer) /\ Len(committed') <= kResourceInitializerChunks
        /\ clears' \in Seq(ACommand) /\ blits' \in Seq(ACommand)
        /\ cpu_command_heap_offset' \in 0 .. CpuHeapSize /\ slots' \in 0 .. RetainSlots
        /\ filled' \subseteq [id : Nat, size : Nat]
    BY <1>1 DEF TypeOK
  <2>3. {current_seq_id_', cached_coherent_seq_id', signaled', inits', chunkCount'} \subseteq Nat
    BY <2>2
  <2> QED BY <1>2, <2>1, <2>2, <2>3
          DEF TypeOK, ABuffer, ACommand, AChunk, InitsOf, ToSet
<1>4. SeqIdsOK'
  BY <1>1 DEF SeqIdsOK
<1>5. PendingRetained'
  BY <1>1 DEF PendingRetained, InitsOf, ToSet
<1>6. InitsAccounted'
  BY <1>1 DEF InitsAccounted, CommittedUpTo, InitsOf, ToSet
<1>7. ASSUME NEW c \in chunks' PROVE ChunkCovered(c)'
  <2>1. ChunkCovered(c) /\ CommittedUpTo(c.wait)' = CommittedUpTo(c.wait)
    BY <1>7, CommittedKept
  <2> QED BY <2>1 DEF ChunkCovered
<1>8. BufferFilled(zero_buffer_', blits')
  <2>1. CASE zero_buffer_' = zero_buffer_
    BY <1>1, <2>1 DEF ZeroBufferFilled
  <2>2. CASE zero_buffer_'.size = 0
    BY <2>2 DEF BufferFilled
  <2> QED BY <1>2, <2>1, <2>2
<1>9. ZerosAreZero' /\ ZeroBufferFilled'
  BY <1>1, <1>8, ZerosKept DEF ZerosAreZero
<1> QED BY <1>1, <1>3, <1>4, <1>5, <1>6, <1>7, <1>9 DEF ChunksCovered, ClearsClear

LEMMA SeqFacts ==
  ASSUME InitializerInv
  PROVE  /\ current_seq_id_ \in Nat /\ cached_coherent_seq_id \in Nat /\ signaled \in Nat
         /\ chunkCount \in Nat /\ inits \in Nat /\ chunks \subseteq AChunk
         /\ cached_coherent_seq_id <= signaled /\ signaled < current_seq_id_
         /\ \A c \in chunks : ChunkCovered(c)
<1>1. TypeOK /\ SeqIdsOK /\ ChunksCovered
  BY DEF InitializerInv
<1>2. Len(committed) \in Nat
  BY <1>1, CommittedFacts
<1> QED BY <1>1, <1>2 DEF TypeOK, SeqIdsOK, ChunksCovered

LEMMA TrimStep == ASSUME InitializerInv, Trim PROVE InitializerInv'
<1>1. /\ UNCHANGED <<current_seq_id_, signaled, committed, filled, executed, inits, dropped>>
      /\ UNCHANGED <<clears, blits, cpu_command_heap_offset, tracked, slots>>
      /\ UNCHANGED <<zero_buffer_, live, chunks, chunkCount>>
      /\ cached_coherent_seq_id' = signaled /\ RB!free_blocks(signaled)
      /\ todo # <<>> /\ Head(todo) = "trim" /\ todo' = Tail(todo)
  BY DEF Trim, Doing, gpu, lists
<1>2. /\ TypeOK' /\ SeqIdsOK' /\ PendingRetained' /\ InitsAccounted' /\ ChunksCovered'
      /\ ClearsClear' /\ ZerosAreZero' /\ ZeroBufferFilled'
  BY <1>1, SeqFacts, StepPreserves
<1>3. RB!IInv'
  BY <1>1, SeqFacts, HeapTrim DEF InitializerInv
<1>4. TodoOK'
  <2>1. /\ todo' \in {<<>>, <<"forget", "flush", "trim">>, <<"return">>}
        /\ todo' = <<"return">> => idle
    BY <1>1, TodoTail DEF InitializerInv
  <2>2. idle' <=> idle
    BY <1>1 DEF idle
  <2>3. CASE todo' = <<>>
    BY <2>3 DEF TodoOK
  <2>4. CASE todo' = <<"forget", "flush", "trim">>
    BY <2>4 DEF TodoOK
  <2>5. CASE todo' = <<"return">>
    BY <2>1, <2>2, <2>5 DEF TodoOK
  <2> QED BY <2>1, <2>3, <2>4, <2>5
<1> QED BY <1>2, <1>3, <1>4 DEF InitializerInv

LEMMA ForgetStep == ASSUME InitializerInv, ForgetZeroBuffer PROVE InitializerInv'
<1>1. /\ UNCHANGED <<current_seq_id_, signaled, committed, filled, executed, inits, dropped>>
      /\ UNCHANGED <<clears, blits, cpu_command_heap_offset, tracked, slots>>
      /\ UNCHANGED <<cached_coherent_seq_id, gpuHeap, chunks, chunkCount>>
      /\ zero_buffer_' = [zero_buffer_ EXCEPT !.size = 0]
      /\ todo # <<>> /\ Head(todo) = "forget" /\ todo' = Tail(todo)
  BY DEF ForgetZeroBuffer, Doing, gpu, lists
<1>2. /\ TypeOK' /\ SeqIdsOK' /\ PendingRetained' /\ InitsAccounted' /\ ChunksCovered'
      /\ ClearsClear' /\ ZerosAreZero' /\ ZeroBufferFilled'
  BY <1>1, SeqFacts, StepPreserves
<1>3. RB!IInv'
  BY <1>1, HeapKept DEF InitializerInv
<1>4. TodoOK'
  BY <1>1, TodoTail DEF TodoOK, InitializerInv
<1> QED BY <1>2, <1>3, <1>4 DEF InitializerInv

LEMMA PendingStep == ASSUME InitializerInv, FlushToWaitPending PROVE InitializerInv'
<1>1. /\ UNCHANGED <<current_seq_id_, signaled, committed, filled, executed, inits, dropped>>
      /\ UNCHANGED <<clears, blits, cpu_command_heap_offset, tracked, slots>>
      /\ UNCHANGED <<cached_coherent_seq_id, gpuHeap, zero_buffer_, chunks, chunkCount>>
      /\ todo' = <<"flush", "trim", "return">>
  BY DEF FlushToWaitPending, ReturnSteps, gpu, lists
<1>2. /\ TypeOK' /\ SeqIdsOK' /\ PendingRetained' /\ InitsAccounted' /\ ChunksCovered'
      /\ ClearsClear' /\ ZerosAreZero' /\ ZeroBufferFilled'
  BY <1>1, SeqFacts, StepPreserves
<1>3. RB!IInv'
  BY <1>1, HeapKept DEF InitializerInv
<1>4. TodoOK'
  <2>1. todo' = <<"flush", "trim", "return">>
    BY <1>1
  <2> QED BY <2>1 DEF TodoOK
<1> QED BY <1>2, <1>3, <1>4 DEF InitializerInv

LEMMA StartChunkStep == ASSUME InitializerInv, StartChunk PROVE InitializerInv'
<1>1. /\ UNCHANGED <<current_seq_id_, signaled, committed, filled, executed, inits, dropped>>
      /\ UNCHANGED <<clears, blits, cpu_command_heap_offset, tracked, slots>>
      /\ UNCHANGED <<cached_coherent_seq_id, gpuHeap, zero_buffer_, chunkCount, todo>>
      /\ chunks' \subseteq chunks
  BY DEF StartChunk, gpu, lists
<1>2. /\ TypeOK' /\ SeqIdsOK' /\ PendingRetained' /\ InitsAccounted' /\ ChunksCovered'
      /\ ClearsClear' /\ ZerosAreZero' /\ ZeroBufferFilled'
  <2>1. chunks' \subseteq AChunk /\ \A c \in chunks' : ChunkCovered(c)
    BY <1>1, SeqFacts
  <2> QED BY <1>1, <2>1, SeqFacts, StepPreserves
<1>3. RB!IInv'
  BY <1>1, HeapKept DEF InitializerInv
<1>4. TodoOK'
  BY <1>1 DEF TodoOK, idle, InitializerInv
<1> QED BY <1>2, <1>3, <1>4 DEF InitializerInv

(* A chunk that waits for every command buffer committed so far, while     *)
(* nothing is in the lists, depends on no other.                           *)
LEMMA NewChunk ==
  ASSUME InitializerInv, idle, NEW value \in Nat, value < current_seq_id_,
         value = current_seq_id_ - 1 \/ signaled = current_seq_id_ - 1,
         Commit(value)
  PROVE  /\ chunks' \subseteq AChunk /\ chunkCount' \in Nat
         /\ \A c \in chunks' : ChunkCovered(c)
<1> DEFINE new == [n |-> chunkCount + 1, wait |-> value, sees |-> 1 .. inits]
<1>1. /\ chunks' = chunks \cup {new} /\ chunkCount' = chunkCount + 1
  BY DEF Commit
<1>2. /\ TypeOK /\ SeqIdsOK /\ InitsAccounted /\ chunkCount \in Nat /\ inits \in Nat
      /\ chunks \subseteq AChunk /\ \A c \in chunks : ChunkCovered(c)
  BY SeqFacts DEF InitializerInv
<1>3. new \in AChunk
  <2>1. 1 .. inits \in SUBSET Nat /\ chunkCount + 1 \in Nat
    BY <1>2
  <2> QED BY <2>1 DEF AChunk
<1>4. InitsOf(clears) = {} /\ InitsOf(blits) = {}
  BY InitsOfEmpty DEF idle
<1>5. CommittedUpTo(current_seq_id_) \subseteq CommittedUpTo(value)
  <2>1. ASSUME NEW n \in DOMAIN committed PROVE committed[n].seq <= value
    <3>1. n \in 1 .. Len(committed) /\ Len(committed) \in Nat /\ signaled \in Nat
          /\ current_seq_id_ \in Nat
          /\ committed[n].seq = signaled + n /\ current_seq_id_ = signaled + Len(committed) + 1
      BY <2>1, <1>2, CommittedFacts
    <3> QED BY <3>1
  <2>2. ASSUME NEW k \in CommittedUpTo(current_seq_id_) PROVE k \in CommittedUpTo(value)
    BY <2>1, <2>2, InCommitted
  <2> QED BY <2>2
<1>6. ChunkCovered(new)
  <2>1. new.wait = value /\ new.sees = 1 .. inits
    OBVIOUS
  <2> QED BY <1>2, <1>4, <1>5, <2>1 DEF ChunkCovered, InitsAccounted
<1> HIDE DEF new
<1> QED BY <1>1, <1>2, <1>3, <1>6

LEMMA ReturnStep == ASSUME InitializerInv, ReturnFlushed PROVE InitializerInv'
<1>1. /\ UNCHANGED <<current_seq_id_, signaled, committed, filled, executed, inits, dropped>>
      /\ UNCHANGED <<clears, blits, cpu_command_heap_offset, tracked, slots>>
      /\ UNCHANGED <<cached_coherent_seq_id, gpuHeap, zero_buffer_>>
      /\ todo # <<>> /\ Head(todo) = "return" /\ todo' = Tail(todo)
      /\ Commit(current_seq_id_ - 1)
  BY DEF ReturnFlushed, Doing, gpu, lists
<1>2. idle /\ Tail(todo) = <<>>
  BY <1>1, TodoTail DEF InitializerInv
<1>3. current_seq_id_ - 1 \in Nat /\ current_seq_id_ - 1 < current_seq_id_
  BY SeqFacts
<1>4. chunks' \subseteq AChunk /\ chunkCount' \in Nat /\ \A c \in chunks' : ChunkCovered(c)
  BY <1>1, <1>2, <1>3, NewChunk
<1>5. /\ TypeOK' /\ SeqIdsOK' /\ PendingRetained' /\ InitsAccounted' /\ ChunksCovered'
      /\ ClearsClear' /\ ZerosAreZero' /\ ZeroBufferFilled'
  BY <1>1, <1>4, SeqFacts, StepPreserves
<1>6. RB!IInv'
  BY <1>1, HeapKept DEF InitializerInv
<1>7. TodoOK'
  <2>1. todo' = <<>>
    BY <1>1, <1>2
  <2> QED BY <2>1 DEF TodoOK
<1> QED BY <1>5, <1>6, <1>7 DEF InitializerInv

LEMMA IdleStep == ASSUME InitializerInv, FlushToWaitIdle PROVE InitializerInv'
<1>1. /\ UNCHANGED <<current_seq_id_, signaled, committed, filled, executed, inits, dropped>>
      /\ UNCHANGED <<clears, blits, cpu_command_heap_offset, tracked, slots>>
      /\ UNCHANGED <<zero_buffer_, live, todo>> /\ todo = <<>> /\ idle
      /\ RB!free_blocks(cached_coherent_seq_id)
      /\ cached_coherent_seq_id' = IF cached_coherent_seq_id = current_seq_id_ - 1
                                   THEN cached_coherent_seq_id ELSE signaled
      /\ Commit(IdleResult)
  BY DEF FlushToWaitIdle, gpu, lists
<1>2. cached_coherent_seq_id' \in Nat /\ cached_coherent_seq_id' <= signaled
  BY <1>1, SeqFacts
<1>3. /\ IdleResult \in Nat /\ IdleResult < current_seq_id_
      /\ IdleResult = current_seq_id_ - 1 \/ signaled = current_seq_id_ - 1
  BY <1>2, SeqFacts DEF IdleResult
<1>4. chunks' \subseteq AChunk /\ chunkCount' \in Nat /\ \A c \in chunks' : ChunkCovered(c)
  BY <1>1, <1>3, NewChunk
<1>5. /\ TypeOK' /\ SeqIdsOK' /\ PendingRetained' /\ InitsAccounted' /\ ChunksCovered'
      /\ ClearsClear' /\ ZerosAreZero' /\ ZeroBufferFilled'
  BY <1>1, <1>2, <1>4, SeqFacts, StepPreserves
<1>6. RB!IInv'
  BY <1>1, <1>2, SeqFacts, HeapTrim DEF InitializerInv
<1>7. TodoOK'
  BY <1>1 DEF TodoOK
<1> QED BY <1>5, <1>6, <1>7 DEF InitializerInv

(* flushInternal: the lists become the last command buffer.                *)
LEMMA FlushStep == ASSUME InitializerInv, Flush PROVE InitializerInv'
<1> DEFINE len == Len(committed)
           commands == clears \o blits
           b == [seq |-> current_seq_id_, commands |-> commands]
<1>1. /\ TypeOK /\ SeqIdsOK /\ TodoOK /\ PendingRetained /\ InitsAccounted /\ ChunksCovered
      /\ ClearsClear /\ ZerosAreZero /\ ZeroBufferFilled /\ RB!IInv
  BY DEF InitializerInv
<1>2. /\ committed' = Append(committed, b) /\ len < kResourceInitializerChunks
      /\ current_seq_id_' = current_seq_id_ + 1
      /\ clears' = <<>> /\ blits' = <<>> /\ cpu_command_heap_offset' = 0
      /\ tracked' = {} /\ slots' = RetainSlots
      /\ UNCHANGED <<cached_coherent_seq_id, signaled, filled, executed, zero_buffer_>>
      /\ UNCHANGED <<inits, dropped, chunks, chunkCount>> /\ UNCHANGED gpuHeap
      /\ todo # <<>> /\ Head(todo) = "flush" /\ todo' = Tail(todo)
  BY DEF Flush, Doing
<1>3. /\ clears \in Seq(ACommand) /\ blits \in Seq(ACommand) /\ committed \in Seq(ABuffer)
      /\ current_seq_id_ \in Nat /\ inits \in Nat /\ signaled \in Nat
      /\ tracked \subseteq 1 .. inits
  BY <1>1 DEF TypeOK
<1>4. /\ commands \in Seq(ACommand) /\ InitsOf(commands) = InitsOf(clears) \cup InitsOf(blits)
  BY <1>3, InitsOfConcat
<1>5. InitsOf(commands) \subseteq 1 .. inits
  BY <1>1, <1>3, <1>4 DEF PendingRetained
<1>6. b \in ABuffer /\ b.seq = current_seq_id_ /\ b.commands = commands
  <2> HIDE DEF commands
  <2> QED BY <1>3, <1>4 DEF ABuffer
<1> HIDE DEF commands, b
<1>7. /\ committed' \in Seq(ABuffer) /\ DOMAIN committed' = 1 .. (len + 1)
      /\ DOMAIN committed = 1 .. len /\ len \in Nat /\ Len(committed') = len + 1
      /\ \A n \in 1 .. len : committed'[n] = committed[n]
      /\ committed'[len + 1] = b
  BY <1>2, <1>3, <1>6, AppendFacts
<1> HIDE DEF len
<1>8. TypeOK'
  <2>1. ASSUME NEW n \in DOMAIN committed'
        PROVE  InitsOf(committed'[n].commands) \subseteq 1 .. inits'
    <3>1. CASE n \in 1 .. len
      BY <1>1, <1>2, <1>7, <3>1 DEF TypeOK
    <3>2. CASE n = len + 1
      BY <1>2, <1>5, <1>6, <1>7, <3>2
    <3> QED BY <1>7, <2>1, <3>1, <3>2
  <2>2. Len(committed') <= kResourceInitializerChunks
    BY <1>2, <1>7, ConstantTypes
  <2>3. /\ {current_seq_id_', cached_coherent_seq_id', signaled', inits', chunkCount'} \subseteq Nat
        /\ tracked' \cup dropped' \cup executed' \subseteq 1 .. inits'
        /\ zero_buffer_' \in [id : Nat, size : Nat] /\ filled' \subseteq [id : Nat, size : Nat]
        /\ chunks' \subseteq AChunk
    BY <1>1, <1>2, <1>3 DEF TypeOK
  <2>4. /\ clears' \in Seq(ACommand) /\ blits' \in Seq(ACommand)
        /\ cpu_command_heap_offset' \in 0 .. CpuHeapSize /\ slots' \in 0 .. RetainSlots
    BY <1>2, ConstantTypes
  <2> QED BY <1>7, <2>1, <2>2, <2>3, <2>4
          DEF TypeOK, ABuffer, ACommand, AChunk, InitsOf, ToSet
<1>9. SeqIdsOK'
  <2>1. current_seq_id_ = signaled + len + 1 /\ \A n \in 1 .. len : committed[n].seq = signaled + n
    BY <1>1, <1>7 DEF SeqIdsOK, len
  <2>2. current_seq_id_' = signaled' + Len(committed') + 1
    BY <1>2, <1>3, <1>7, <2>1
  <2>3. ASSUME NEW n \in 1 .. (len + 1) PROVE committed'[n].seq = signaled' + n
    <3>1. CASE n \in 1 .. len
      BY <1>2, <1>7, <2>1, <3>1
    <3>2. CASE n = len + 1
      BY <1>2, <1>3, <1>6, <1>7, <2>1, <3>2
    <3> QED BY <1>7, <3>1, <3>2
  <2> QED BY <1>1, <1>2, <1>7, <2>2, <2>3 DEF SeqIdsOK
<1>10. PendingRetained'
  <2>1. InitsOf(clears') \cup InitsOf(blits') \subseteq tracked'
    BY <1>2, InitsOfEmpty
  <2> QED BY <2>1 DEF PendingRetained, InitsOf, ToSet
<1>11. ASSUME NEW v PROVE CommittedUpTo(v) \subseteq CommittedUpTo(v)'
  <2>1. ASSUME NEW k \in CommittedUpTo(v) PROVE k \in CommittedUpTo(v)'
    <3>1. PICK n \in DOMAIN committed :
            committed[n].seq <= v /\ k \in InitsOf(committed[n].commands)
      BY <2>1, InCommitted
    <3>2. n \in DOMAIN committed' /\ committed'[n] = committed[n]
      BY <1>7
    <3> QED BY <3>1, <3>2, InCommittedNext
  <2> QED BY <2>1
<1>12. InitsAccounted'
  <2> SUFFICES ASSUME NEW v, v = current_seq_id_ + 1 PROVE InitsAccounted'
    OBVIOUS
  <2>1. ASSUME NEW k \in CommittedUpTo(current_seq_id_) PROVE k \in CommittedUpTo(v)'
    <3>1. PICK n \in DOMAIN committed : k \in InitsOf(committed[n].commands)
      BY <2>1, InCommitted
    <3>2. n \in DOMAIN committed' /\ committed'[n] = committed[n]
      BY <1>7
    <3>3. committed[n].seq < current_seq_id_ /\ committed[n].seq \in Nat
      BY <1>1, <1>3, <1>7, CommittedFacts DEF len
    <3>4. committed'[n].seq <= v
      BY <1>3, <3>2, <3>3
    <3> QED BY <3>1, <3>2, <3>4, InCommittedNext
  <2>2. ASSUME NEW k \in InitsOf(commands) PROVE k \in CommittedUpTo(v)'
    <3>1. len + 1 \in DOMAIN committed' /\ committed'[len + 1].seq <= v
          /\ committed'[len + 1].commands = commands
      BY <1>3, <1>6, <1>7
    <3> QED BY <2>2, <3>1, InCommittedNext
  <2>3. 1 .. inits' \subseteq dropped' \cup executed' \cup CommittedUpTo(v)'
    BY <1>1, <1>2, <1>4, <2>1, <2>2 DEF InitsAccounted
  <2>4. CommittedUpTo(v)' = CommittedUpTo(current_seq_id_)'
    BY <1>2 DEF CommittedUpTo, InitsOf, ToSet
  <2> QED BY <2>3, <2>4 DEF InitsAccounted, CommittedUpTo, InitsOf, ToSet
<1>13. ChunksCovered'
  <2> SUFFICES ASSUME NEW c \in chunks' PROVE ChunkCovered(c)'
    BY DEF ChunksCovered
  <2>1. ChunkCovered(c) /\ CommittedUpTo(c.wait) \subseteq CommittedUpTo(c.wait)' /\ c \in AChunk
    BY <1>1, <1>2, <1>11 DEF ChunksCovered, TypeOK
  <2>2. c.wait < current_seq_id_' /\ c.sees \subseteq dropped' \cup executed' \cup CommittedUpTo(c.wait)'
    BY <1>2, <1>3, <2>1 DEF ChunkCovered, AChunk
  <2> QED BY <2>2 DEF ChunkCovered
<1>14. ZerosAreZero'
  <2> SUFFICES ASSUME NEW l \in Nat, l = len, NEW k \in Nat, k = l + 1, NEW cs \in Seq(ACommand), cs = commands
               PROVE  ZerosAreZero'
    BY <1>4, <1>7
  <2>1. ASSUME NEW n \in 1 .. k, NEW c, FilledBefore(n, c) PROVE FilledBefore(n, c)'
    <3>1. \A m \in 1 .. n - 1 : committed'[m] = committed[m]
      BY <1>7
    <3> QED BY <1>2, <2>1, <3>1 DEF FilledBefore, Fills
  <2>2. ASSUME NEW n \in 1 .. l PROVE ReadsZeros(committed[n].commands, n)'
    <3>1. ReadsZeros(committed[n].commands, n) /\ committed'[n] = committed[n]
          /\ n \in 1 .. k
      BY <1>1, <1>7 DEF ZerosAreZero
    <3> QED BY <2>1, <3>1 DEF ReadsZeros, Fills
  <2>3. ReadsZeros(committed[k].commands, k)'
    <3>1. ReadsZeros(blits, k)
      BY <1>1 DEF ZerosAreZero, len
    <3>2. /\ DOMAIN cs = 1 .. (Len(clears) + Len(blits))
          /\ DOMAIN clears = 1 .. Len(clears) /\ DOMAIN blits = 1 .. Len(blits)
          /\ Len(clears) \in Nat /\ Len(blits) \in Nat
          /\ \A i \in 1 .. Len(clears) : cs[i] = clears[i]
          /\ \A i \in 1 .. Len(blits) : cs[Len(clears) + i] = blits[i]
      BY <1>3 DEF commands
    <3>3. ASSUME NEW i \in DOMAIN cs, cs[i].kind = "copy zero"
          PROVE  FilledBefore(k, cs[i])' \/ \E j \in 1 .. i - 1 : Fills(cs[j], cs[i])
      <4>1. i \notin DOMAIN clears
        BY <1>1, <3>2, <3>3 DEF ClearsClear
      <4> DEFINE d == i - Len(clears)
      <4>2. d \in 1 .. Len(blits) /\ i = Len(clears) + d
        BY <3>2, <4>1
      <4>3. cs[i] = blits[d]
        BY <3>2, <4>2
      <4>4. FilledBefore(k, blits[d]) \/ \E j \in 1 .. d - 1 : Fills(blits[j], blits[d])
        BY <3>1, <3>2, <3>3, <4>2, <4>3 DEF ReadsZeros
      <4> HIDE DEF d
      <4>5. ASSUME NEW j \in 1 .. d - 1 PROVE Len(clears) + j \in 1 .. i - 1 /\ cs[Len(clears) + j] = blits[j]
        BY <3>2, <4>2
      <4>6. CASE \E j \in 1 .. d - 1 : Fills(blits[j], blits[d])
        BY <4>3, <4>5, <4>6
      <4>7. CASE FilledBefore(k, blits[d])
        BY <1>7, <2>1, <4>3, <4>7
      <4> QED BY <4>4, <4>6, <4>7
    <3>4. committed'[k].commands = cs
      BY <1>6, <1>7
    <3>5. ASSUME NEW i \in DOMAIN committed'[k].commands,
                 committed'[k].commands[i].kind = "copy zero"
          PROVE  \/ FilledBefore(k, committed[k].commands[i])'
                 \/ \E j \in 1 .. i - 1 : Fills(committed'[k].commands[j], committed'[k].commands[i])
      <4>1. CASE \E j \in 1 .. i - 1 : Fills(cs[j], cs[i])
        BY <3>4, <4>1
      <4>2. CASE FilledBefore(k, cs[i])'
        <5>1. FilledBefore(k, committed[k].commands[i])'
          BY <3>4, <4>2 DEF FilledBefore
        <5> QED BY <5>1
      <4> QED BY <3>3, <3>4, <3>5, <4>1, <4>2
    <3> QED BY <3>5 DEF ReadsZeros, Fills
  <2>4. ReadsZeros(blits, Len(committed) + 1)'
    <3>1. DOMAIN blits' = {}
      BY <1>2
    <3> QED BY <3>1 DEF ReadsZeros
  <2> QED BY <1>7, <2>2, <2>3, <2>4 DEF ZerosAreZero
<1>15. ZeroBufferFilled'
  <2> SUFFICES ASSUME NEW z, z = zero_buffer_, NEW l \in Nat, l = len, z.size > 0,
                      NEW c, c = [zero |-> z.id, size |-> z.size]
               PROVE  FilledBefore(l + 2, c)'
    <3> SUFFICES ASSUME zero_buffer_.size > 0
                 PROVE  ZeroBufferFilled'
      BY <1>2 DEF ZeroBufferFilled, BufferFilled
    <3>1. Len(committed') + 1 = len + 2
      BY <1>7
    <3> QED BY <1>2, <1>7, <3>1 DEF ZeroBufferFilled, BufferFilled
  <2>1. FilledBefore(l + 1, c) \/ \E j \in DOMAIN blits : Fills(blits[j], c)
    BY <1>1 DEF ZeroBufferFilled, BufferFilled, len
  <2>2. CASE FilledBefore(l + 1, c)
    <3>1. CASE \E x \in filled : x.id = c.zero /\ x.size >= c.size
      BY <1>2, <3>1 DEF FilledBefore
    <3>2. CASE \E m \in 1 .. (l + 1) - 1 : \E j \in DOMAIN committed[m].commands :
                 Fills(committed[m].commands[j], c)
      <4>1. PICK m \in 1 .. (l + 1) - 1 : \E j \in DOMAIN committed[m].commands :
                   Fills(committed[m].commands[j], c)
        BY <3>2
      <4>2. m \in 1 .. (l + 2) - 1 /\ committed'[m] = committed[m]
        BY <1>7, <4>1
      <4> QED BY <4>1, <4>2 DEF FilledBefore, Fills
    <3> QED BY <2>2, <3>1, <3>2 DEF FilledBefore
  <2>3. CASE \E j \in DOMAIN blits : Fills(blits[j], c)
    <3>1. PICK j \in DOMAIN blits : Fills(blits[j], c)
      BY <2>3
    <3>2. Len(clears) + j \in DOMAIN commands /\ commands[Len(clears) + j] = blits[j]
      BY <1>3 DEF commands
    <3>3. l + 1 \in 1 .. (l + 2) - 1 /\ committed'[l + 1].commands = commands
      BY <1>6, <1>7
    <3> QED BY <3>1, <3>2, <3>3 DEF FilledBefore, Fills
  <2> QED BY <2>1, <2>2, <2>3
<1>16. ClearsClear'
  BY <1>2 DEF ClearsClear
<1>17. TodoOK'
  <2>1. todo' \in {<<"trim">>, <<"trim", "forget", "flush", "trim">>, <<"trim", "return">>}
    BY <1>1, <1>2, TodoTail
  <2>2. idle'
    BY <1>2 DEF idle
  <2> QED BY <2>1, <2>2 DEF TodoOK
<1>18. RB!IInv'
  BY <1>1, <1>2, HeapFlush
<1> QED BY <1>8, <1>9, <1>10, <1>12, <1>13, <1>14, <1>15, <1>16, <1>17, <1>18 DEF InitializerInv

LEMMA TailFacts ==
  ASSUME NEW S, NEW s \in Seq(S), s # <<>>
  PROVE  /\ Len(s) > 0 /\ Head(s) = s[1] /\ Tail(s) \in Seq(S)
         /\ Len(Tail(s)) = Len(s) - 1 /\ DOMAIN Tail(s) = 1 .. (Len(s) - 1)
         /\ \A n \in 1 .. (Len(s) - 1) : Tail(s)[n] = s[n + 1]
OBVIOUS

(* The GPU finishes the oldest command buffer.                             *)
LEMMA ExecuteStep == ASSUME InitializerInv, Execute PROVE InitializerInv'
<1> DEFINE b == Head(committed)
<1>1. /\ TypeOK /\ SeqIdsOK /\ TodoOK /\ PendingRetained /\ InitsAccounted /\ ChunksCovered
      /\ ClearsClear /\ ZerosAreZero /\ ZeroBufferFilled /\ RB!IInv
  BY DEF InitializerInv
<1>a. committed # <<>> /\ committed' = Tail(committed) /\ signaled' = b.seq
  BY DEF Execute
<1>b. /\ UNCHANGED <<current_seq_id_, cached_coherent_seq_id, zero_buffer_, fifo, blocks>>
      /\ UNCHANGED <<todo, inits, dropped, chunks, chunkCount>>
      /\ UNCHANGED <<clears, blits, cpu_command_heap_offset, tracked, slots>>
  BY DEF Execute, lists
<1>2. /\ executed' = executed \cup InitsOf(b.commands)
      /\ filled' = filled \cup {[id |-> c.zero, size |-> c.size] :
                                c \in {d \in ToSet(b.commands) : d.kind = "fill zero"}}
      /\ live' = {p \in live : p.seq > b.seq}
  BY DEF Execute
<1>3. /\ Len(committed) \in Nat /\ DOMAIN committed = 1 .. Len(committed)
      /\ current_seq_id_ \in Nat /\ signaled \in Nat
      /\ current_seq_id_ = signaled + Len(committed) + 1
      /\ \A n \in 1 .. Len(committed) :
           /\ committed[n] \in ABuffer
           /\ committed[n].seq = signaled + n
           /\ committed[n].commands \in Seq(ACommand)
           /\ InitsOf(committed[n].commands) \subseteq 1 .. inits
  BY <1>1, CommittedFacts
<1>4. /\ Len(committed) > 0 /\ b = committed[1] /\ committed' \in Seq(ABuffer)
      /\ Len(committed') = Len(committed) - 1 /\ DOMAIN committed' = 1 .. (Len(committed) - 1)
      /\ \A n \in 1 .. (Len(committed) - 1) : committed'[n] = committed[n + 1]
  <2>1. committed \in Seq(ABuffer)
    BY <1>1 DEF TypeOK
  <2> QED BY <1>a, <2>1, TailFacts
<1>5. b \in ABuffer /\ b.commands \in Seq(ACommand) /\ b.seq = signaled + 1
      /\ InitsOf(b.commands) \subseteq 1 .. inits
  BY <1>3, <1>4
<1> HIDE DEF b
<1>6. ASSUME NEW i \in DOMAIN b.commands, b.commands[i].kind = "fill zero"
      PROVE  [id |-> b.commands[i].zero, size |-> b.commands[i].size] \in filled'
  BY <1>2, <1>6 DEF ToSet
<1>7. filled' \subseteq [id : Nat, size : Nat] /\ filled \subseteq filled'
  <2>1. \A d \in ToSet(b.commands) : d \in ACommand
    BY <1>5 DEF ToSet
  <2>2. \A d \in ToSet(b.commands) : [id |-> d.zero, size |-> d.size] \in [id : Nat, size : Nat]
    BY <2>1 DEF ACommand
  <2>3. filled \subseteq [id : Nat, size : Nat]
    BY <1>1 DEF TypeOK
  <2> QED BY <1>2, <2>2, <2>3
<1>8. TypeOK'
  <2>1. ASSUME NEW n \in DOMAIN committed'
        PROVE  InitsOf(committed'[n].commands) \subseteq 1 .. inits'
    <3>1. n + 1 \in 1 .. Len(committed) /\ committed'[n] = committed[n + 1]
      BY <1>3, <1>4, <2>1
    <3> QED BY <1>b, <1>3, <3>1
  <2>2. Len(committed') <= kResourceInitializerChunks
    BY <1>1, <1>3, <1>4, ConstantTypes DEF TypeOK
  <2>3. /\ {current_seq_id_', cached_coherent_seq_id', inits', chunkCount'} \subseteq Nat
        /\ tracked' \cup dropped' \cup executed' \subseteq 1 .. inits'
        /\ zero_buffer_' \in [id : Nat, size : Nat]
        /\ chunks' \subseteq AChunk
        /\ clears' \in Seq(ACommand) /\ blits' \in Seq(ACommand)
        /\ cpu_command_heap_offset' \in 0 .. CpuHeapSize /\ slots' \in 0 .. RetainSlots
    BY <1>1, <1>2, <1>b, <1>5 DEF TypeOK
  <2>4. signaled' \in Nat
    BY <1>a, <1>3, <1>5
  <2> QED BY <1>4, <1>7, <2>1, <2>2, <2>3, <2>4
          DEF TypeOK, ABuffer, ACommand, AChunk, InitsOf, ToSet
<1>9. SeqIdsOK'
  <2>1. cached_coherent_seq_id \in Nat /\ cached_coherent_seq_id <= signaled
    BY <1>1 DEF TypeOK, SeqIdsOK
  <2>2. cached_coherent_seq_id' <= signaled' /\ current_seq_id_' = signaled' + Len(committed') + 1
    BY <1>a, <1>b, <1>3, <1>4, <1>5, <2>1
  <2>3. ASSUME NEW n \in DOMAIN committed' PROVE committed'[n].seq = signaled' + n
    <3>1. n \in 1 .. (Len(committed) - 1) /\ n + 1 \in 1 .. Len(committed)
      BY <1>3, <1>4, <2>3
    <3>2. committed'[n] = committed[n + 1] /\ committed[n + 1].seq = signaled + (n + 1)
      BY <1>3, <1>4, <3>1
    <3>3. signaled' = signaled + 1
      BY <1>a, <1>5
    <3> QED BY <1>3, <3>1, <3>2, <3>3
  <2> QED BY <2>2, <2>3 DEF SeqIdsOK
<1>10. ASSUME NEW v, NEW k \in CommittedUpTo(v)
       PROVE  k \in CommittedUpTo(v)' \cup InitsOf(b.commands)
  <2>1. PICK n \in DOMAIN committed :
          committed[n].seq <= v /\ k \in InitsOf(committed[n].commands)
    BY <1>10, InCommitted
  <2>2. CASE n = 1
    BY <1>4, <2>1, <2>2
  <2>3. CASE n # 1
    <3>1. n - 1 \in DOMAIN committed' /\ committed'[n - 1] = committed[n]
      BY <1>3, <1>4, <2>1, <2>3
    <3> QED BY <2>1, <3>1, InCommittedNext
  <2> QED BY <2>2, <2>3
<1>11. InitsAccounted'
  <2> SUFFICES ASSUME NEW v, v = current_seq_id_ PROVE InitsAccounted'
    OBVIOUS
  <2>1. 1 .. inits \subseteq dropped \cup executed \cup CommittedUpTo(v)
                           \cup InitsOf(clears) \cup InitsOf(blits)
    BY <1>1 DEF InitsAccounted
  <2>2. 1 .. inits' \subseteq dropped' \cup executed' \cup CommittedUpTo(v)'
                            \cup InitsOf(clears') \cup InitsOf(blits')
    BY <1>2, <1>b, <1>10, <2>1
  <2>3. CommittedUpTo(v)' = CommittedUpTo(current_seq_id_)'
    BY <1>b DEF CommittedUpTo, InitsOf, ToSet
  <2> QED BY <2>2, <2>3 DEF InitsAccounted, CommittedUpTo, InitsOf, ToSet
<1>12. ChunksCovered'
  <2> SUFFICES ASSUME NEW c \in chunks' PROVE ChunkCovered(c)'
    BY DEF ChunksCovered
  <2>1. ChunkCovered(c)
    BY <1>1, <1>b DEF ChunksCovered
  <2>2. c.wait < current_seq_id_' /\ c.sees \subseteq dropped' \cup executed' \cup CommittedUpTo(c.wait)'
    BY <1>2, <1>b, <1>10, <2>1 DEF ChunkCovered
  <2> QED BY <2>2 DEF ChunkCovered
<1>13. ASSUME NEW n \in Nat, NEW m \in Nat, m = n + 1, m <= Len(committed) + 1, NEW c, FilledBefore(m, c)
       PROVE  FilledBefore(n, c)'
  <2>1. CASE \E z \in filled : z.id = c.zero /\ z.size >= c.size
    BY <1>7, <2>1 DEF FilledBefore
  <2>2. ASSUME NEW x \in 1 .. m - 1, NEW j \in DOMAIN committed[x].commands,
               Fills(committed[x].commands[j], c)
        PROVE  FilledBefore(n, c)'
    <3>1. CASE x = 1
      <4> DEFINE d == b.commands[j]
      <4>1. j \in DOMAIN b.commands /\ Fills(d, c)
        BY <1>4, <2>2, <3>1
      <4>2. [id |-> d.zero, size |-> d.size] \in filled'
        BY <1>6, <4>1 DEF Fills
      <4> HIDE DEF d
      <4>3. d.zero = c.zero /\ d.size >= c.size
        BY <4>1 DEF Fills
      <4>4. \E z \in filled' : z.id = c.zero /\ z.size >= c.size
        BY <4>2, <4>3
      <4> QED BY <4>4 DEF FilledBefore
    <3>2. CASE x # 1
      <4> DEFINE y == x - 1
      <4>1. y \in 1 .. n - 1
        BY <1>13, <2>2, <3>2
      <4>2. y \in 1 .. (Len(committed) - 1) /\ y + 1 = x
        BY <1>3, <1>13, <2>2, <3>2
      <4>3. committed'[y] = committed[x]
        BY <1>4, <4>2
      <4> HIDE DEF y
      <4> QED BY <2>2, <4>1, <4>3 DEF FilledBefore, Fills
    <3> QED BY <3>1, <3>2
  <2> QED BY <1>13, <2>1, <2>2 DEF FilledBefore
<1>14. ASSUME NEW n \in Nat, NEW m \in Nat, m = n + 1, m <= Len(committed) + 1, NEW s, ReadsZeros(s, m)
       PROVE  ReadsZeros(s, n)'
  BY <1>13, <1>14 DEF ReadsZeros, Fills
<1>15. ZerosAreZero'
  <2>1. ASSUME NEW n \in DOMAIN committed' PROVE ReadsZeros(committed[n].commands, n)'
    <3> SUFFICES ASSUME NEW s, s = committed'[n].commands PROVE ReadsZeros(committed[n].commands, n)'
      OBVIOUS
    <3>1. /\ n \in Nat /\ n + 1 \in Nat /\ n + 1 <= Len(committed) + 1
          /\ n + 1 \in 1 .. Len(committed) /\ s = committed[n + 1].commands
      BY <1>3, <1>4, <2>1
    <3>2. ReadsZeros(s, n + 1)
      BY <1>1, <1>3, <3>1 DEF ZerosAreZero
    <3>3. ReadsZeros(s, n)'
      BY <1>14, <3>1, <3>2
    <3>4. ASSUME NEW i \in DOMAIN committed'[n].commands,
                 committed'[n].commands[i].kind = "copy zero"
          PROVE  \/ FilledBefore(n, committed[n].commands[i])'
                 \/ \E j \in 1 .. i - 1 : Fills(committed'[n].commands[j], committed'[n].commands[i])
      <4>1. FilledBefore(n, s[i])' \/ \E j \in 1 .. i - 1 : Fills(s[j], s[i])
        BY <3>3, <3>4 DEF ReadsZeros, Fills
      <4>2. CASE \E j \in 1 .. i - 1 : Fills(s[j], s[i])
        BY <4>2
      <4>3. CASE FilledBefore(n, s[i])'
        <5>1. FilledBefore(n, committed[n].commands[i])'
          BY <4>3 DEF FilledBefore
        <5> QED BY <5>1
      <4> QED BY <4>1, <4>2, <4>3
    <3> QED BY <3>4 DEF ReadsZeros, Fills
  <2>2. ReadsZeros(blits, Len(committed) + 1)'
    <3> SUFFICES ASSUME NEW s, s = blits, NEW n, n = Len(committed)
                 PROVE  ReadsZeros(blits, Len(committed) + 1)'
      OBVIOUS
    <3>1. ReadsZeros(s, n + 1) /\ n \in Nat /\ n + 1 \in Nat /\ n + 1 <= Len(committed) + 1
      BY <1>1, <1>3 DEF ZerosAreZero
    <3>2. ReadsZeros(s, n)'
      BY <1>14, <3>1
    <3>3. Len(committed') + 1 = n /\ blits' = s
      BY <1>3, <1>4, <1>b
    <3> QED BY <3>2, <3>3 DEF ReadsZeros, FilledBefore, Fills
  <2> QED BY <2>1, <2>2 DEF ZerosAreZero
<1>16. ZeroBufferFilled'
  <2> SUFFICES ASSUME NEW z, z = zero_buffer_, z.size > 0, NEW n, n = Len(committed),
                      NEW c, c = [zero |-> z.id, size |-> z.size]
               PROVE  FilledBefore(n, c)' \/ \E j \in DOMAIN blits : Fills(blits[j], c)
    <3> SUFFICES ASSUME zero_buffer_.size > 0
                 PROVE  ZeroBufferFilled'
      BY <1>b DEF ZeroBufferFilled, BufferFilled
    <3>1. Len(committed') + 1 = Len(committed)
      BY <1>3, <1>4
    <3> QED BY <1>b, <3>1 DEF ZeroBufferFilled, BufferFilled, Fills
  <2>1. n \in Nat /\ n + 1 \in Nat /\ n + 1 <= Len(committed) + 1
    BY <1>3
  <2>2. FilledBefore(n + 1, c) \/ \E j \in DOMAIN blits : Fills(blits[j], c)
    BY <1>1 DEF ZeroBufferFilled, BufferFilled
  <2> QED BY <1>13, <2>1, <2>2
<1>17. PendingRetained' /\ ClearsClear' /\ TodoOK'
  BY <1>1, <1>b DEF PendingRetained, ClearsClear, TodoOK, idle, InitsOf, ToSet
<1>18. RB!IInv'
  <2>1. Len(committed) \in Nat /\ Len(committed) > 0 /\ signaled \in Nat
        /\ current_seq_id_ = signaled + Len(committed) + 1 /\ signaled' = signaled + 1
    BY <1>a, <1>3, <1>4, <1>5
  <2>2. signaled' \in Nat /\ signaled <= signaled' /\ signaled' < current_seq_id_
    BY <2>1
  <2>3. live' = {p \in live : p.seq > signaled'}
    BY <1>a, <1>2
  <2> QED BY <1>1, <1>b, <2>2, <2>3, HeapExecute
<1> QED BY <1>8, <1>9, <1>11, <1>12, <1>15, <1>16, <1>17, <1>18 DEF InitializerInv

-----------------------------------------------------------------------------
LEMMA InitializerInit == Init => InitializerInv
<1> SUFFICES ASSUME Init PROVE InitializerInv
  OBVIOUS
<1>1. /\ current_seq_id_ = 1 /\ cached_coherent_seq_id = 0 /\ signaled = 0
      /\ committed = <<>> /\ filled = {} /\ executed = {} /\ clears = <<>> /\ blits = <<>>
      /\ cpu_command_heap_offset = 0 /\ tracked = {} /\ slots = RetainSlots
      /\ zero_buffer_ = [id |-> 0, size |-> 0] /\ fifo = <<>> /\ blocks = 0 /\ live = {}
      /\ todo = <<>> /\ inits = 0 /\ dropped = {} /\ chunks = {} /\ chunkCount = 0
  BY DEF Init
<1>2. DOMAIN committed = {} /\ Len(committed) = 0 /\ DOMAIN clears = {} /\ DOMAIN blits = {}
  BY <1>1
<1>3. TypeOK
  <2>1. /\ committed \in Seq(ABuffer) /\ clears \in Seq(ACommand) /\ blits \in Seq(ACommand)
        /\ zero_buffer_ \in [id : Nat, size : Nat]
    BY <1>1
  <2>2. /\ cpu_command_heap_offset \in 0 .. CpuHeapSize /\ slots \in 0 .. RetainSlots
        /\ Len(committed) <= kResourceInitializerChunks
    BY <1>1, <1>2, ConstantTypes
  <2> QED BY <1>1, <1>2, <2>1, <2>2 DEF TypeOK
<1>4. SeqIdsOK /\ ClearsClear /\ ChunksCovered /\ TodoOK
  BY <1>1, <1>2 DEF SeqIdsOK, ClearsClear, ChunksCovered, TodoOK
<1>5. PendingRetained /\ InitsAccounted
  BY <1>1, InitsOfEmpty DEF PendingRetained, InitsAccounted
<1>6. ZerosAreZero /\ ZeroBufferFilled
  <2>1. zero_buffer_.size = 0
    BY <1>1
  <2> QED BY <1>2, <2>1 DEF ZerosAreZero, ReadsZeros, ZeroBufferFilled, BufferFilled
<1>7. RB!IInv
  <2>1. RB!TypeOK /\ RB!ClockOK
    BY <1>1 DEF RB!TypeOK, RB!ClockOK
  <2>2. RB!BlocksOK /\ RB!FrontIsOldest /\ RB!PiecesOK
    BY <1>1 DEF RB!BlocksOK, RB!FrontIsOldest, RB!PiecesOK
  <2> QED BY <2>1, <2>2 DEF RB!IInv
<1> QED BY <1>3, <1>4, <1>5, <1>6, <1>7 DEF InitializerInv

LEMMA InitializerNext == InitializerInv /\ [Next]_vars => InitializerInv'
<1> SUFFICES ASSUME InitializerInv, [Next]_vars PROVE InitializerInv'
  OBVIOUS
<1>1. CASE UNCHANGED vars
  <2>1. /\ UNCHANGED <<current_seq_id_, signaled, committed, filled, executed, inits, dropped>>
        /\ UNCHANGED <<clears, blits, cpu_command_heap_offset, tracked, slots>>
        /\ UNCHANGED <<cached_coherent_seq_id, gpuHeap, zero_buffer_, chunks, chunkCount, todo>>
    BY <1>1 DEF vars, gpu, lists
  <2>2. /\ TypeOK' /\ SeqIdsOK' /\ PendingRetained' /\ InitsAccounted' /\ ChunksCovered'
        /\ ClearsClear' /\ ZerosAreZero' /\ ZeroBufferFilled'
    BY <2>1, SeqFacts, StepPreserves
  <2>3. RB!IInv'
    BY <2>1, HeapKept DEF InitializerInv
  <2>4. TodoOK'
    BY <2>1 DEF TodoOK, idle, InitializerInv
  <2> QED BY <2>2, <2>3, <2>4 DEF InitializerInv
<1> QED BY <1>1, InitBufferStep, InitTargetStep, InitTextureStep, InitDataStep, IdleStep,
           PendingStep, FlushStep, TrimStep, ForgetStep, ReturnStep, ExecuteStep,
           StartChunkStep DEF Next, Call

(* Whatever threads create resources, and whenever the GPU finishes its    *)
(* command buffers, no init is lost track of, the event value a chunk is   *)
(* given covers the command buffers it depends on, and retainAllocation    *)
(* holds the allocations of the commands that are not encoded yet.         *)
THEOREM InitializerInvariance == Spec => []InitializerInv
BY InitializerInit, InitializerNext, PTL DEF Spec

(* A chunk that flushToWait lets start, with or without an event to wait   *)
(* for, finds the contents of every resource created before it, except     *)
(* those whose init was given up or whose clear encode skips.              *)
THEOREM InitsBeforeChunks == Spec => []ChunkSeesInits
<1>1. InitializerInv => ChunkSeesInits
  <2> SUFFICES ASSUME InitializerInv, NEW c \in chunks, c.wait <= signaled,
                      NEW k \in c.sees, k \notin dropped
               PROVE  k \in executed
    BY DEF ChunkSeesInits
  <2>1. TypeOK /\ SeqIdsOK /\ c \in AChunk
    BY SeqFacts DEF InitializerInv
  <2>2. k \notin CommittedUpTo(c.wait)
    <3> SUFFICES ASSUME NEW n \in DOMAIN committed, committed[n].seq <= c.wait PROVE FALSE
      BY InCommitted
    <3>1. /\ n \in Nat /\ n > 0 /\ signaled \in Nat /\ committed[n].seq = signaled + n
          /\ c.wait \in Nat
      BY <2>1, CommittedFacts DEF AChunk
    <3> QED BY <3>1
  <2> QED BY <2>2, SeqFacts DEF ChunkCovered
<1> QED BY <1>1, InitializerInvariance, PTL

(* A texture without data is never initialized from a zero buffer that is  *)
(* too small or that the GPU has not filled by then, however often the     *)
(* buffer was grown in between.                                            *)
THEOREM ZeroBuffersFilled == Spec => []ZerosAreZero
BY InitializerInvariance, PTL DEF InitializerInv

(* The upload heap reuses no memory that a copy has still to read, although*)
(* it is told of the event's value only at some flushes.                   *)
THEOREM UploadsIntact == Spec => []UploadIntact
<1>1. InitializerInv => UploadIntact
  BY SameHeap, UploadHeapAssumption, RBP!InvCoversLive DEF InitializerInv, UploadIntact
<1> QED BY <1>1, InitializerInvariance, PTL

=============================================================================
