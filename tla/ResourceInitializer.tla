------------------------ MODULE ResourceInitializer -------------------------
(***************************************************************************)
(* dxmt::ResourceInitializer: the contents of new resources are written on *)
(* a command queue of their own.  Any thread that creates a resource adds  *)
(* a clear or a blit under mutex_; CommitCurrentChunk flushes them and has *)
(* the chunk wait for the event value that flushToWait returns.  Data are  *)
(* copied through an upload heap (RingBump), zeros from a buffer that is   *)
(* filled once; the commands and the list of retained allocations live in  *)
(* a heap of fixed size, which is reused after each flush.                 *)
(*                                                                         *)
(* Init n writes allocation n.  The calls are serialised by mutex_; todo   *)
(* is what the call that holds it has still to do, because it may block in *)
(* the middle of a flush until the GPU has finished a command buffer.      *)
(***************************************************************************)
EXTENDS Integers, Sequences, SequencesExt

CONSTANTS
  CpuHeapSize,     \* kResourceInitializerCpuCommandHeapSize
  BlitSize, ClearSize, StorageSize,     \* what is taken from it
  RetainSlots,     \* allocations a block of the reference tracker holds
  kResourceInitializerChunks,           \* command buffers in flight
  ZeroSizes,       \* sizes of textures without data
  DataSizes,       \* sizes of textures with data
  BlockSize, kStagingBlockLifetime,     \* of the upload heap
  AllOnes, MaxBlocks,
  MaxInits,        \* bound: resources created
  MaxChunks        \* bound: chunks committed

ASSUME InitializerAssumption ==
  /\ {CpuHeapSize, BlitSize, ClearSize, StorageSize, kStagingBlockLifetime,
      MaxBlocks, MaxInits, MaxChunks} \subseteq Nat
  /\ {RetainSlots, kResourceInitializerChunks, BlockSize, AllOnes} \subseteq Nat \ {0}
  /\ ZeroSizes \cup DataSizes \subseteq Nat \ {0}

VARIABLES
  current_seq_id_, cached_coherent_seq_id,
  signaled,          \* the value of upload_queue_event_
  committed,         \* the command buffers of upload_queue_, oldest first
  clears, blits,     \* clear_render_pass_head and blit_cmd_head
  cpu_command_heap_offset,
  tracked, slots,    \* ref_tracker: its allocations, its room
  zero_buffer_,      \* how many there have been, and zero_buffer_size_
  fifo, blocks,      \* gpu_command_heap_allocator
  live,              \* history: the upload memory the GPU has still to read
  todo,              \* what the holder of mutex_ has still to do
  inits,             \* how many inits were asked for
  dropped,           \* history: the inits that were given up or skipped
  filled, executed,  \* history: the zero buffers and inits the GPU wrote
  chunks,            \* chunks that the GPU has not started
  chunkCount

gpuHeap == <<fifo, blocks, live>>
lists == <<clears, blits, cpu_command_heap_offset, tracked, slots>>
gpu == <<signaled, committed, filled, executed>>
vars == <<current_seq_id_, cached_coherent_seq_id, gpu, lists, zero_buffer_,
          gpuHeap, todo, inits, dropped, chunks, chunkCount>>

RB == INSTANCE RingBump WITH
        Sizes <- DataSizes, Alignments <- {1}, MaxSeq <- AllOnes - 1,
        role <- "finish", current <- current_seq_id_,
        coherent <- signaled, seen <- cached_coherent_seq_id,
        pc <- "idle", trimming <- FALSE

Init ==
  /\ current_seq_id_ = 1 /\ cached_coherent_seq_id = 0 /\ signaled = 0
  /\ committed = <<>> /\ filled = {} /\ executed = {}
  /\ clears = <<>> /\ blits = <<>> /\ cpu_command_heap_offset = 0
  /\ tracked = {} /\ slots = RetainSlots
  /\ zero_buffer_ = [id |-> 0, size |-> 0]
  /\ fifo = <<>> /\ blocks = 0 /\ live = {}
  /\ todo = <<>> /\ inits = 0 /\ dropped = {}
  /\ chunks = {} /\ chunkCount = 0

-----------------------------------------------------------------------------
(* Commands.  init is 0 for the fill of a zero buffer and for a clear that *)
(* will be skipped; zero and size tell the zero buffer a command writes or *)
(* reads.                                                                  *)
Command(kind, init) == [kind |-> kind, init |-> init, zero |-> 0, size |-> 0]
FillZero(zero, size) == [Command("fill zero", 0) EXCEPT !.zero = zero, !.size = size]
CopyZero(init, zero, size) ==
  [Command("copy zero", init) EXCEPT !.zero = zero, !.size = size]

(* The inits that a list of commands performs.                             *)
InitsOf(commands) == {c.init : c \in ToSet(commands)} \ {0}

(* Fault: an allocation there is no room for is used without a reference.  *)
retainOrNot(offset) ==
  [ok |-> TRUE, tracks |-> slots > 0, offset |-> offset,
   slots |-> IF slots > 0 THEN slots - 1 ELSE 0]

(* retainAllocation, from an offset of the heap: a block is added to the   *)
(* tracker when it is full.                                                *)
retainAllocation(offset) ==
  LET end == IF slots > 0 THEN offset ELSE offset + StorageSize
  IN  [ok |-> end <= CpuHeapSize, tracks |-> TRUE, offset |-> end,
       slots |-> (IF slots > 0 THEN slots ELSE RetainSlots) - 1]

(* allocateCpuHeap.                                                        *)
Fits(offset, size) == offset + size <= CpuHeapSize

(* What the thread that holds mutex_ does next: flushInternal; a zero       *)
(* buffer that is too small, flushed and forgotten before the macro flushes *)
(* again; flushToWait.                                                      *)
FlushSteps == <<"flush", "trim">>
GrowSteps == <<"flush", "trim", "forget", "flush", "trim">>
ReturnSteps == <<"flush", "trim", "return">>

(* "flushInternal(); continue;" in a do { } while (0): the loop ends, and  *)
(* the init is given up.                                                   *)
GiveUp(steps) ==
  /\ todo' = steps
  /\ dropped' = dropped \cup {inits + 1}

Record(offset, retained) ==
  /\ cpu_command_heap_offset' = offset
  /\ slots' = retained.slots
  /\ tracked' = IF retained.tracks THEN tracked \cup {inits + 1} ELSE tracked
  /\ UNCHANGED todo

MayInit == todo = <<>> /\ inits < MaxInits

(* initWithZero of a buffer.                                               *)
InitBuffer ==
  /\ MayInit /\ inits' = inits + 1
  /\ LET retained == retainAllocation(cpu_command_heap_offset)
     IN  IF retained.ok /\ Fits(retained.offset, BlitSize)
         THEN /\ Record(retained.offset + BlitSize, retained)
              /\ blits' = Append(blits, Command("fill", inits + 1))
              /\ UNCHANGED <<clears, dropped>>
         ELSE GiveUp(FlushSteps) /\ UNCHANGED lists
  /\ UNCHANGED <<current_seq_id_, cached_coherent_seq_id, zero_buffer_, chunks, chunkCount>>
  /\ UNCHANGED gpu /\ UNCHANGED gpuHeap

(* initDepthStencilWithZero and initRenderTargetWithZero.  encode skips    *)
(* the clear of a color texture that turns out not to be a render target.  *)
InitTarget ==
  /\ MayInit /\ inits' = inits + 1
  /\ LET retained == retainAllocation(cpu_command_heap_offset)
     IN  IF retained.ok /\ Fits(retained.offset, ClearSize)
         THEN /\ Record(retained.offset + ClearSize, retained)
              /\ \/ /\ clears' = Append(clears, Command("clear", inits + 1))
                    /\ UNCHANGED dropped
                 \/ /\ clears' = Append(clears, Command("clear", 0))
                    /\ dropped' = dropped \cup {inits + 1}
              /\ UNCHANGED blits
         ELSE GiveUp(FlushSteps) /\ UNCHANGED lists
  /\ UNCHANGED <<current_seq_id_, cached_coherent_seq_id, zero_buffer_, chunks, chunkCount>>
  /\ UNCHANGED gpu /\ UNCHANGED gpuHeap

(* allocateZeroBuffer, when the zero buffer is too small: the first time,  *)
(* or after it was forgotten, it is made and filled; otherwise the pending *)
(* work is flushed and the buffer forgotten.                               *)
GrowZeroBuffer(size) ==
  /\ zero_buffer_.size < size /\ zero_buffer_.size > 0
  /\ GiveUp(GrowSteps)
  /\ UNCHANGED <<zero_buffer_, lists>>

(* Fault: a new zero buffer is used as it is.                              *)
NewZeroBufferUnfilled(size) ==
  IF zero_buffer_.size >= size
  THEN [buffer |-> zero_buffer_, blits |-> blits, offset |-> cpu_command_heap_offset]
  ELSE [buffer |-> [id |-> zero_buffer_.id + 1, size |-> size],
        blits |-> blits, offset |-> cpu_command_heap_offset]

ZeroBuffer(size) ==
  IF zero_buffer_.size >= size
  THEN [buffer |-> zero_buffer_, blits |-> blits, offset |-> cpu_command_heap_offset]
  ELSE [buffer |-> [id |-> zero_buffer_.id + 1, size |-> size],
        blits |-> Append(blits, FillZero(zero_buffer_.id + 1, size)),
        offset |-> cpu_command_heap_offset + BlitSize]

CopyFromZeroBuffer(size) ==
  /\ zero_buffer_.size >= size \/ zero_buffer_.size = 0
  /\ LET zero == ZeroBuffer(size)
         retained == retainAllocation(zero.offset)
     IN  IF zero.offset > CpuHeapSize
         THEN GiveUp(FlushSteps) /\ UNCHANGED <<zero_buffer_, lists>>
         ELSE /\ zero_buffer_' = zero.buffer
              /\ IF retained.ok /\ Fits(retained.offset, BlitSize)
                 THEN /\ Record(retained.offset + BlitSize, retained)
                      /\ blits' = Append(zero.blits,
                                         CopyZero(inits + 1, zero.buffer.id, size))
                      /\ UNCHANGED <<clears, dropped>>
                 ELSE /\ GiveUp(FlushSteps)
                      /\ blits' = zero.blits
                      /\ cpu_command_heap_offset' = zero.offset
                      /\ UNCHANGED <<clears, tracked, slots>>

(* initWithZero of a texture that is neither a target nor depth-stencil.   *)
InitTexture ==
  /\ MayInit /\ inits' = inits + 1
  /\ \E size \in ZeroSizes : GrowZeroBuffer(size) \/ CopyFromZeroBuffer(size)
  /\ UNCHANGED <<current_seq_id_, cached_coherent_seq_id, chunks, chunkCount>>
  /\ UNCHANGED gpu /\ UNCHANGED gpuHeap

(* Fault: the two sequence ids are confused.                               *)
allocateGpuHeapSwapped(size) ==
  RB!allocate(cached_coherent_seq_id, current_seq_id_, size, 1)

allocateGpuHeap(size) ==
  RB!allocate(current_seq_id_, cached_coherent_seq_id, size, 1)

(* initWithData.                                                           *)
InitData ==
  /\ MayInit /\ inits' = inits + 1
  /\ LET retained == retainAllocation(cpu_command_heap_offset)
     IN  IF retained.ok /\ Fits(retained.offset, BlitSize)
         THEN /\ Record(retained.offset + BlitSize, retained)
              /\ \E size \in DataSizes : allocateGpuHeap(size)
              /\ blits' = Append(blits, Command("copy data", inits + 1))
              /\ UNCHANGED <<clears, dropped>>
         ELSE GiveUp(FlushSteps) /\ UNCHANGED lists /\ UNCHANGED gpuHeap
  /\ UNCHANGED <<current_seq_id_, cached_coherent_seq_id, zero_buffer_, chunks, chunkCount>>
  /\ UNCHANGED gpu

-----------------------------------------------------------------------------
(* flushInternal.  commandBuffer() blocks while the queue is full.         *)

Doing(step) == todo # <<>> /\ Head(todo) = step

Flush ==
  /\ Doing("flush") /\ todo' = Tail(todo)
  /\ Len(committed) < kResourceInitializerChunks
  /\ committed' = Append(committed, [seq |-> current_seq_id_, commands |-> clears \o blits])
  /\ current_seq_id_' = current_seq_id_ + 1
  /\ clears' = <<>> /\ blits' = <<>> /\ cpu_command_heap_offset' = 0
  /\ tracked' = {} /\ slots' = RetainSlots
  /\ UNCHANGED <<cached_coherent_seq_id, signaled, filled, executed, zero_buffer_,
                 inits, dropped, chunks, chunkCount>> /\ UNCHANGED gpuHeap

Trim ==
  /\ Doing("trim") /\ todo' = Tail(todo)
  /\ cached_coherent_seq_id' = signaled
  /\ RB!free_blocks(signaled)
  /\ UNCHANGED <<current_seq_id_, zero_buffer_, live, inits, dropped, chunks, chunkCount>>
  /\ UNCHANGED gpu /\ UNCHANGED lists

ForgetZeroBuffer ==
  /\ Doing("forget") /\ todo' = Tail(todo)
  /\ zero_buffer_' = [zero_buffer_ EXCEPT !.size = 0]
  /\ UNCHANGED <<current_seq_id_, cached_coherent_seq_id, inits, dropped, chunks, chunkCount>>
  /\ UNCHANGED gpu /\ UNCHANGED lists /\ UNCHANGED gpuHeap

-----------------------------------------------------------------------------
(* flushToWait, and the chunk that waits for its result.                   *)

(* Fault: pending clears are not work.                                     *)
idleWithClears == blits = <<>>

idle == clears = <<>> /\ blits = <<>>

Commit(value) ==
  /\ chunks' = chunks \cup {[n |-> chunkCount + 1, wait |-> value, sees |-> 1 .. inits]}
  /\ chunkCount' = chunkCount + 1

(* Fault: the id of the next flush is returned.                            *)
IdleResultNext ==
  IF cached_coherent_seq_id' = current_seq_id_ - 1 THEN 0 ELSE current_seq_id_

IdleResult ==
  IF cached_coherent_seq_id' = current_seq_id_ - 1 THEN 0 ELSE current_seq_id_ - 1

FlushToWaitIdle ==
  /\ todo = <<>> /\ chunkCount < MaxChunks /\ idle
  /\ RB!free_blocks(cached_coherent_seq_id)
  /\ cached_coherent_seq_id' =
       IF cached_coherent_seq_id = current_seq_id_ - 1
       THEN cached_coherent_seq_id ELSE signaled
  /\ Commit(IdleResult)
  /\ UNCHANGED <<current_seq_id_, zero_buffer_, live, todo, inits, dropped>>
  /\ UNCHANGED gpu /\ UNCHANGED lists

FlushToWaitPending ==
  /\ todo = <<>> /\ chunkCount < MaxChunks /\ ~idle
  /\ todo' = ReturnSteps
  /\ UNCHANGED <<current_seq_id_, cached_coherent_seq_id, zero_buffer_, inits,
                 dropped, chunks, chunkCount>>
  /\ UNCHANGED gpu /\ UNCHANGED lists /\ UNCHANGED gpuHeap

ReturnFlushed ==
  /\ Doing("return") /\ todo' = Tail(todo)
  /\ Commit(current_seq_id_ - 1)
  /\ UNCHANGED <<current_seq_id_, cached_coherent_seq_id, zero_buffer_, inits, dropped>>
  /\ UNCHANGED gpu /\ UNCHANGED lists /\ UNCHANGED gpuHeap

-----------------------------------------------------------------------------
(* The GPU: a command buffer of the upload queue, and the start of a chunk *)
(* whose wait is satisfied.                                                *)

Execute ==
  /\ committed # <<>>
  /\ LET buffer == Head(committed)
         commands == ToSet(buffer.commands)
     IN  /\ signaled' = buffer.seq
         /\ executed' = executed \cup InitsOf(buffer.commands)
         /\ filled' = filled \cup {[id |-> c.zero, size |-> c.size] :
                                   c \in {d \in commands : d.kind = "fill zero"}}
         /\ live' = {p \in live : p.seq > buffer.seq}
  /\ committed' = Tail(committed)
  /\ UNCHANGED <<current_seq_id_, cached_coherent_seq_id, zero_buffer_, fifo, blocks,
                 todo, inits, dropped, chunks, chunkCount>> /\ UNCHANGED lists

StartChunk ==
  /\ \E c \in chunks : c.wait <= signaled /\ chunks' = chunks \ {c}
  /\ UNCHANGED <<current_seq_id_, cached_coherent_seq_id, zero_buffer_, todo, inits,
                 dropped, chunkCount>>
  /\ UNCHANGED gpu /\ UNCHANGED lists /\ UNCHANGED gpuHeap

Call == Flush \/ Trim \/ ForgetZeroBuffer \/ ReturnFlushed

Next ==
  \/ InitBuffer \/ InitTarget \/ InitTexture \/ InitData
  \/ FlushToWaitIdle \/ FlushToWaitPending
  \/ Call
  \/ Execute \/ StartChunk

(* A call goes on and the GPU makes progress; no one has to call.          *)
Spec == Init /\ [][Next]_vars /\ WF_vars(Call) /\ WF_vars(Execute) /\ WF_vars(StartChunk)

-----------------------------------------------------------------------------
(* Properties.                                                             *)

ACommand == [kind : {"fill", "clear", "copy data", "fill zero", "copy zero"},
             init : Nat, zero : Nat, size : Nat]
ABuffer == [seq : Nat, commands : Seq(ACommand)]
AChunk == [n : Nat, wait : Nat, sees : SUBSET Nat]

TypeOK ==
  /\ {current_seq_id_, cached_coherent_seq_id, signaled, inits, chunkCount} \subseteq Nat
  /\ committed \in Seq(ABuffer) /\ Len(committed) <= kResourceInitializerChunks
  /\ clears \in Seq(ACommand) /\ blits \in Seq(ACommand)
  /\ cpu_command_heap_offset \in 0 .. CpuHeapSize
  /\ slots \in 0 .. RetainSlots
  /\ zero_buffer_ \in [id : Nat, size : Nat] /\ filled \subseteq [id : Nat, size : Nat]
  /\ tracked \cup dropped \cup executed \subseteq 1 .. inits
  /\ \A n \in DOMAIN committed : InitsOf(committed[n].commands) \subseteq 1 .. inits
  /\ chunks \subseteq AChunk

(* A chunk starts after the contents of every resource created before it   *)
(* was committed are written, whoever's flush wrote them, also when it is  *)
(* told that there is nothing to wait for; given up and skipped inits      *)
(* excepted.                                                               *)
ChunkSeesInits ==
  \A c \in chunks : c.wait <= signaled => c.sees \ dropped \subseteq executed

(* d, or the n-th command buffer's predecessors, write the zeros c reads.  *)
Fills(d, c) == d.kind = "fill zero" /\ d.zero = c.zero /\ d.size >= c.size
FilledBefore(n, c) ==
  \/ \E z \in filled : z.id = c.zero /\ z.size >= c.size
  \/ \E m \in 1 .. n - 1 : \E j \in DOMAIN committed[m].commands :
       Fills(committed[m].commands[j], c)

(* The commands of the n-th command buffer copy zeros that were written.   *)
ReadsZeros(commands, n) ==
  \A i \in DOMAIN commands : commands[i].kind = "copy zero" =>
    FilledBefore(n, commands[i]) \/ \E j \in 1 .. i - 1 : Fills(commands[j], commands[i])

(* Whatever copies zeros reads a zero buffer that is large enough and was  *)
(* filled before, in the same or in an earlier command buffer.             *)
ZerosAreZero ==
  /\ \A n \in DOMAIN committed : ReadsZeros(committed[n].commands, n)
  /\ ReadsZeros(blits, Len(committed) + 1)

(* The allocation a recorded command writes cannot go away before the      *)
(* command buffer, which holds its own references, is encoded.             *)
PendingRetained == InitsOf(clears) \cup InitsOf(blits) \subseteq tracked

(* The ids: the event trails the ids given out and leads the cached value, *)
(* and the command buffers carry the ids in between, in order.             *)
SeqIdsOK ==
  /\ cached_coherent_seq_id <= signaled
  /\ current_seq_id_ = signaled + Len(committed) + 1
  /\ \A n \in DOMAIN committed : committed[n].seq = signaled + n

(* The call that holds mutex_ has flushed when it is about to return.      *)
TodoOK ==
  /\ todo \in {<<>>, <<"trim">>, <<"flush", "trim">>, <<"forget", "flush", "trim">>,
               <<"trim", "forget", "flush", "trim">>,
               <<"flush", "trim", "forget", "flush", "trim">>,
               <<"return">>, <<"trim", "return">>, <<"flush", "trim", "return">>}
  /\ todo \in {<<"return">>, <<"trim", "return">>} => idle

(* No init is lost: it was dropped, or the GPU  wrote it, or it is in a    *)
(* command buffer or in the lists.                                         *)
CommittedUpTo(value) ==
  UNION {InitsOf(committed[n].commands) : n \in {m \in DOMAIN committed : committed[m].seq <= value}}
InitsAccounted ==
  1 .. inits \subseteq dropped \cup executed \cup CommittedUpTo(current_seq_id_)
                      \cup InitsOf(clears) \cup InitsOf(blits)

(* The value a chunk waits for covers the command buffers it depends on.   *)
ChunkCovered(c) ==
  /\ c.wait < current_seq_id_
  /\ c.sees \subseteq dropped \cup executed \cup CommittedUpTo(c.wait)
ChunksCovered == \A c \in chunks : ChunkCovered(c)

(* The zero buffer in use was filled, or will be by a command recorded     *)
(* before any that is recorded from now on.                                *)
BufferFilled(b, commands) ==
  b.size > 0 => LET c == [zero |-> b.id, size |-> b.size]
                IN  \/ FilledBefore(Len(committed) + 1, c)
                    \/ \E j \in DOMAIN commands : Fills(commands[j], c)
ZeroBufferFilled == BufferFilled(zero_buffer_, blits)
ClearsClear == \A i \in DOMAIN clears : clears[i].kind = "clear"

(* What always holds of the initializer, strong enough to be inductive:    *)
(* types, sequence ids, what each thread of control has still to do, where *)
(* each init is, what each chunk waits for, which zero buffers are filled, *)
(* that retainAllocation covers every command of the batch, and the upload *)
(* heap's own invariant with signaled as its coherent value.               *)
InitializerInv ==
  /\ TypeOK /\ SeqIdsOK /\ TodoOK
  /\ PendingRetained /\ InitsAccounted /\ ChunksCovered
  /\ ClearsClear /\ ZerosAreZero /\ ZeroBufferFilled
  /\ RB!IInv

(* The upload memory of a copy is neither refilled nor freed until the GPU *)
(* has read it, although the allocator is told of the event only at some   *)
(* flushes (cached_coherent_seq_id).                                       *)
UploadIntact == RB!NoLiveReuse

(* A chunk is never told to wait for a value that is not signaled: every   *)
(* chunk starts, without any further call.                                 *)
ChunksStart ==
  \A n \in 1 .. MaxChunks : chunkCount >= n ~> \A c \in chunks : c.n # n

=============================================================================
