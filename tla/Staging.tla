------------------------------- MODULE Staging -------------------------------
(***************************************************************************)
(* One staging resource (StagingResource): copies to and from it, recorded *)
(* by the immediate context or in command lists, and Map calls that read   *)
(* or write it.  A Map call holds the device lock until it returns.        *)
(*                                                                         *)
(* `held' is what Direct3D says the resource holds, in program order, as   *)
(* the set of writes applied; stored[b] is what buffer b of the pool       *)
(* holds, and the copies not completed are in `copies' in program order.   *)
(***************************************************************************)
EXTENDS Timeline, Sequences, SequencesExt

CONSTANTS
    MaxPool,            \* bound: buffers of the pool
    MaxStagingWrites,   \* bound: copies to the resource and writing maps
    MaxCopies           \* bound: copies not completed

ASSUME StagingAssumption ==
    /\ {MaxPool, MaxCopies} \subseteq Nat \ {0}
    /\ MaxStagingWrites \in Nat

VARIABLES
    pool,               \* buffer_pool.size(); buffers are 0 .. pool - 1
    free,               \* fifo: [id, will_free_at]
    immediate_name_,
    cpu_coherent_after_finished_seq_id,
    gpu_occupied_until_finished_seq_id,
    bound,              \* buffer_->current(), in encode order
    stored,             \* what each buffer of the pool holds
    held,               \* what the resource holds, in program order
    written,            \* writes so far
    copies,             \* copies not completed
    dirty,              \* has_dirty_op_since_last_event
    promote_flush,
    call                \* the Map call

stagingVars == <<pool, free, immediate_name_,
                 cpu_coherent_after_finished_seq_id,
                 gpu_occupied_until_finished_seq_id, bound, stored, held,
                 written, copies, dirty, promote_flush, call>>

Buffers == 0 .. MaxPool - 1
StagingWrites == 1 .. MaxStagingWrites

(* A copy by the GPU: from the resource, which must then hold `want', or   *)
(* to it, adding the write `adds'.                                         *)
Copy == [op: {"source"}, buffer: Buffers, seq: 1 .. MaxSeq, want: SUBSET StagingWrites]
        \cup [op: {"destination"}, buffer: Buffers, seq: 1 .. MaxSeq, adds: StagingWrites]

(* state: the caller is outside Map, in its loop, in WaitCPUFence(target), *)
(* or has the memory mapped.                                               *)
MapCall == [state: {"none", "try", "wait", "mapped"}, read: BOOLEAN,
            write: BOOLEAN, target: 0 .. MaxSeq]
NoCall == [state |-> "none", read |-> FALSE, write |-> FALSE, target |-> 0]

FreeEntry == [id: Buffers, will_free_at: 1 .. MaxSeq]

StagingTypeOK ==
    /\ TimelineTypeOK
    /\ pool \in 1 .. MaxPool
    /\ free \in Seq(FreeEntry)
    /\ immediate_name_ \in 0 .. pool - 1
    /\ cpu_coherent_after_finished_seq_id \in 0 .. gpu_occupied_until_finished_seq_id
    /\ gpu_occupied_until_finished_seq_id \in 0 .. ready_for_encode
    /\ bound \in 0 .. pool - 1
    /\ stored \in [Buffers -> SUBSET StagingWrites]
    /\ held \in SUBSET StagingWrites
    /\ written \in 0 .. MaxStagingWrites
    /\ copies \in Seq(Copy)
    /\ {dirty, promote_flush} \subseteq BOOLEAN
    /\ call \in MapCall
    /\ call.state # "none" => call.read \/ call.write

StagingInit ==
    /\ pool = 1
    /\ free = <<>>
    /\ immediate_name_ = 0
    /\ cpu_coherent_after_finished_seq_id = 0
    /\ gpu_occupied_until_finished_seq_id = 0
    /\ bound = 0
    /\ stored = [b \in Buffers |-> {}]
    /\ held = {}
    /\ written = 0
    /\ copies = <<>>
    /\ dirty = FALSE
    /\ promote_flush = FALSE
    /\ call = NoCall

-----------------------------------------------------------------------------
AtLeast(a, b) == IF a >= b THEN a ELSE b

(* useCopyDestination() and useCopySource() for the copies of one command  *)
(* list or one call: ops is the set of directions used.                    *)
useCopies(ops, seq) ==
    /\ cpu_coherent_after_finished_seq_id' =
        IF "destination" \in ops
            THEN AtLeast(seq, cpu_coherent_after_finished_seq_id)
            ELSE cpu_coherent_after_finished_seq_id
    /\ gpu_occupied_until_finished_seq_id' =
        AtLeast(seq, gpu_occupied_until_finished_seq_id)

(* The copies as the encoder sees them: from and to the buffer bound when  *)
(* they are encoded.                                                       *)
Source == [op |-> "source", buffer |-> bound, seq |-> CurrentSeqId, want |-> held]
Destination ==
    [op |-> "destination", buffer |-> bound, seq |-> CurrentSeqId, adds |-> written + 1]

Sourced(ops) == IF "source" \in ops THEN Append(copies, Source) ELSE copies

Outside == call.state = "none"

EmitCopies(ops) ==
    /\ Len(copies) + 2 <= MaxCopies
    /\ "destination" \in ops => written < MaxStagingWrites
    /\ useCopies(ops, CurrentSeqId)
    /\ copies' = IF "destination" \in ops THEN Append(Sourced(ops), Destination)
                                          ELSE Sourced(ops)
    /\ written' = IF "destination" \in ops THEN written + 1 ELSE written
    /\ held' = IF "destination" \in ops THEN held \cup {written + 1} ELSE held
    /\ dirty' = TRUE
    /\ UNCHANGED <<pool, free, immediate_name_, bound, stored, call, timeVars>>

(* CopyResource and CopySubresourceRegion on the immediate context.  A     *)
(* copy to a staging resource promotes the next flush, this one or the     *)
(* destination of a copy from this one; a copy to the device does not.     *)
CopyNow(op) ==
    /\ Outside
    /\ EmitCopies({op})
    /\ \/ promote_flush' = TRUE
       \/ op = "source" /\ UNCHANGED promote_flush

(* ExecuteCommandList() of a list that recorded the copies ops: the list's *)
(* promote_flush replaces the context's.                                   *)
ExecuteCopies(ops, promote) ==
    /\ Outside
    /\ EmitCopies(ops)
    /\ promote_flush' = promote

(* Mutant: the event's signal is taken for the last pending operation.     *)
EndEventUnpromoted ==
    /\ Outside
    /\ dirty
    /\ dirty' = FALSE
    /\ UNCHANGED <<pool, free, immediate_name_,
                   cpu_coherent_after_finished_seq_id,
                   gpu_occupied_until_finished_seq_id, bound, stored, held,
                   written, copies, promote_flush, call, timeVars>>

(* End() of an event query, or any operation on other resources.           *)
EndEvent ==
    /\ Outside
    /\ dirty
    /\ promote_flush' = TRUE
    /\ dirty' = FALSE
    /\ UNCHANGED <<pool, free, immediate_name_,
                   cpu_coherent_after_finished_seq_id,
                   gpu_occupied_until_finished_seq_id, bound, stored, held,
                   written, copies, call, timeVars>>

(* Commit() of the immediate context.                                      *)
Commit ==
    /\ CommitCurrentChunk
    /\ promote_flush' = FALSE
    /\ dirty' = FALSE

StagingCommit ==
    /\ Outside
    /\ Commit
    /\ UNCHANGED <<pool, free, immediate_name_,
                   cpu_coherent_after_finished_seq_id,
                   gpu_occupied_until_finished_seq_id, bound, stored, held,
                   written, copies, call>>

-----------------------------------------------------------------------------
(* Map(): E_INVALIDARG unless it reads or writes.                          *)
BeginMap(read, write) ==
    /\ Outside
    /\ read \/ write
    /\ call' = [state |-> "try", read |-> read, write |-> write, target |-> 0]
    /\ UNCHANGED <<pool, free, immediate_name_,
                   cpu_coherent_after_finished_seq_id,
                   gpu_occupied_until_finished_seq_id, bound, stored, held,
                   written, copies, dirty, promote_flush, timeVars>>

(* Mutant: reads of the GPU do not keep a write away.                      *)
tryMapCoherent(coherent_seq_id) ==
    IF coherent_seq_id < cpu_coherent_after_finished_seq_id
        THEN [result |-> "wait", target |-> cpu_coherent_after_finished_seq_id]
        ELSE [result |-> "mappable", target |-> 0]

(* tryMap(): "mappable", "renamable", or the chunk to wait for.            *)
tryMap(coherent_seq_id) ==
    IF call.read /\ coherent_seq_id < cpu_coherent_after_finished_seq_id
        THEN [result |-> "wait", target |-> cpu_coherent_after_finished_seq_id]
    ELSE IF call.write /\ coherent_seq_id < gpu_occupied_until_finished_seq_id
        THEN IF coherent_seq_id >= cpu_coherent_after_finished_seq_id
                THEN [result |-> "renamable", target |-> 0]
                ELSE [result |-> "wait", target |-> gpu_occupied_until_finished_seq_id]
        ELSE [result |-> "mappable", target |-> 0]

FrontFree == free # <<>> /\ Head(free).will_free_at <= CoherentSeqId

MapReady ==
    /\ call.state = "try"
    /\ tryMap(CoherentSeqId).result = "mappable"
    /\ call' = [call EXCEPT !.state = "mapped"]
    /\ UNCHANGED <<pool, free, immediate_name_,
                   cpu_coherent_after_finished_seq_id,
                   gpu_occupied_until_finished_seq_id, bound, stored, held,
                   written, copies, dirty, promote_flush, timeVars>>

(* The pool after the memcpy of the immediate name's bytes.                *)
memcpy(next_name) == [stored EXCEPT ![next_name] = stored[immediate_name_]]

(* allocate(): the buffer returned, and the fifo and the pool after.       *)
next_name == IF FrontFree THEN Head(free).id ELSE pool
FreeLeft == IF FrontFree THEN Tail(free) ELSE free
PoolSize == IF FrontFree THEN pool ELSE pool + 1

(* allocate(), the memcpy, updateImmediateName() and the command that      *)
(* renames the buffer.                                                     *)
Rename ==
    /\ call.state = "try"
    /\ tryMap(CoherentSeqId).result = "renamable"
    /\ FrontFree \/ pool < MaxPool
    /\ pool' = PoolSize
    /\ free' = Append(FreeLeft, [id |-> immediate_name_, will_free_at |-> CurrentSeqId])
    /\ stored' = memcpy(next_name)
    /\ immediate_name_' = next_name
    /\ cpu_coherent_after_finished_seq_id' = 0
    /\ gpu_occupied_until_finished_seq_id' = 0
    /\ bound' = next_name
    /\ call' = [call EXCEPT !.state = "mapped"]
    /\ UNCHANGED <<held, written, copies, dirty, promote_flush, timeVars>>

(* D3D11_MAP_FLAG_DO_NOT_WAIT: DXGI_ERROR_WAS_STILL_DRAWING.               *)
MapStillDrawing ==
    /\ call.state = "try"
    /\ tryMap(CoherentSeqId).result = "wait"
    /\ call' = NoCall
    /\ UNCHANGED <<pool, free, immediate_name_,
                   cpu_coherent_after_finished_seq_id,
                   gpu_occupied_until_finished_seq_id, bound, stored, held,
                   written, copies, dirty, promote_flush, timeVars>>

(* Flush(), which commits only when there is something to commit, and the  *)
(* start of WaitCPUFence(coherent_seq_id + result).                        *)
FlushAndWait ==
    /\ call.state = "try"
    /\ tryMap(CoherentSeqId).result = "wait"
    /\ call' = [call EXCEPT !.state = "wait", !.target = tryMap(CoherentSeqId).target]
    /\ \/ (dirty \/ promote_flush) /\ Commit
       \/ ~(dirty \/ promote_flush) /\ UNCHANGED <<dirty, promote_flush, timeVars>>
    /\ UNCHANGED <<pool, free, immediate_name_,
                   cpu_coherent_after_finished_seq_id,
                   gpu_occupied_until_finished_seq_id, bound, stored, held,
                   written, copies>>

(* WaitCPUFence() returns and the loop tries again.                        *)
Woken ==
    /\ call.state = "wait"
    /\ CoherentSeqId >= call.target
    /\ call' = [call EXCEPT !.state = "try", !.target = 0]
    /\ UNCHANGED <<pool, free, immediate_name_,
                   cpu_coherent_after_finished_seq_id,
                   gpu_occupied_until_finished_seq_id, bound, stored, held,
                   written, copies, dirty, promote_flush, timeVars>>

(* Unmap(), after the application has written if it asked to.              *)
Unmap ==
    /\ call.state = "mapped"
    /\ call.write => written < MaxStagingWrites
    /\ call' = NoCall
    /\ IF call.write
        THEN /\ written' = written + 1
             /\ held' = held \cup {written + 1}
             /\ stored' = [stored EXCEPT ![immediate_name_] = @ \cup {written + 1}]
        ELSE UNCHANGED <<written, held, stored>>
    /\ UNCHANGED <<pool, free, immediate_name_,
                   cpu_coherent_after_finished_seq_id,
                   gpu_occupied_until_finished_seq_id, bound, copies, dirty,
                   promote_flush, timeVars>>

-----------------------------------------------------------------------------
(* The copies to buffer b among the first n, and what b holds after them.  *)
CopiesTo(n, b) ==
    {i \in 1 .. n : copies[i].op = "destination" /\ copies[i].buffer = b}
StoredAfter(n, b) == stored[b] \cup {copies[i].adds : i \in CopiesTo(n, b)}

(* The GPU has completed a chunk, hence its copies, which are the first n. *)
StagingBeginFinish ==
    /\ BeginFinish
    /\ \E n \in 0 .. Len(copies) :
        /\ \A i \in DOMAIN copies : copies[i].seq <= finishing' <=> i <= n
        /\ stored' = [b \in Buffers |-> StoredAfter(n, b)]
        /\ copies' = SubSeq(copies, n + 1, Len(copies))
    /\ UNCHANGED <<pool, free, immediate_name_,
                   cpu_coherent_after_finished_seq_id,
                   gpu_occupied_until_finished_seq_id, bound, held,
                   written, dirty, promote_flush, call>>

StagingSignal ==
    /\ SignalCoherent
    /\ UNCHANGED stagingVars

StagingNext ==
    \/ \E op \in {"source", "destination"} : CopyNow(op)
    \/ \E ops \in SUBSET {"source", "destination"} \ {{}}, promote \in BOOLEAN :
            ExecuteCopies(ops, promote)
    \/ EndEvent
    \/ StagingCommit
    \/ \E read, write \in BOOLEAN : BeginMap(read, write)
    \/ MapReady
    \/ Rename
    \/ MapStillDrawing
    \/ FlushAndWait
    \/ Woken
    \/ Unmap
    \/ StagingBeginFinish
    \/ StagingSignal

(* The GPU and the finishing thread go on, and so does a thread inside Map *)
(* that may proceed; nothing obliges the application to call anything.     *)
StagingFairness ==
    /\ WF_<<timeVars, stagingVars>>(StagingBeginFinish)
    /\ WF_<<timeVars, stagingVars>>(StagingSignal)
    /\ WF_<<timeVars, stagingVars>>(MapReady \/ Rename \/ FlushAndWait \/ Woken)

-----------------------------------------------------------------------------
(* Properties *)

(* Copies and maps take effect in the order of the program: a copy from    *)
(* the resource that the GPU has not completed will find exactly the       *)
(* writes made before it - none missing, none of a later Map already there *)
(* (tryMap, the renaming, the fifo).                                       *)
CopiesReadTheirValue ==
    \A i \in DOMAIN copies : copies[i].op = "source" =>
        StoredAfter(i - 1, copies[i].buffer) = copies[i].want

(* The memory a Map call returns holds exactly what the resource holds at  *)
(* that point of the program: copies to it are complete, the bytes were    *)
(* carried over a renaming, and no copy to it will land later.             *)
MapSeesValue ==
    call.state = "mapped" =>
        /\ stored[immediate_name_] = held
        /\ StoredAfter(Len(copies), immediate_name_) = held

(* The CPU and the GPU see the contents of a staging resource in the order *)
(* of the program, whichever of waiting, renaming and proceeding Map chose.*)
StagingInOrder == CopiesReadTheirValue /\ MapSeesValue

(* The encoder uses the buffer that the CPU names, and this one will hold  *)
(* what the resource holds.                                                *)
NameHolds ==
    /\ bound = immediate_name_
    /\ StoredAfter(Len(copies), immediate_name_) = held

(* The copies in flight belong to chunks not completed, in their order.    *)
CopiesPending ==
    /\ \A i \in DOMAIN copies :
        /\ copies[i].seq \in cpu_coherent + 1 .. ready_for_encode
        /\ copies[i].seq # finishing
        /\ copies[i].buffer < pool
    /\ \A i, j \in DOMAIN copies : i <= j => copies[i].seq <= copies[j].seq

(* A buffer of the fifo is not the name, is there once, and is used by no  *)
(* copy of a chunk after the one that frees it.                            *)
FreeUnused ==
    \A n \in DOMAIN free :
        /\ free[n].id < pool
        /\ free[n].id # immediate_name_
        /\ \A m \in DOMAIN free : m # n => free[m].id # free[n].id
        /\ \A i \in DOMAIN copies :
            copies[i].buffer = free[n].id => copies[i].seq <= free[n].will_free_at

(* tryMap's two sequence numbers cover the copies in flight of the name.   *)
NameTracked ==
    \A i \in DOMAIN copies : copies[i].buffer = immediate_name_ =>
        /\ copies[i].seq <= gpu_occupied_until_finished_seq_id
        /\ copies[i].op = "destination" =>
            copies[i].seq <= cpu_coherent_after_finished_seq_id

(* While the memory is mapped no copy writes it, and none reads it if the  *)
(* application writes.                                                     *)
MappedQuiet ==
    call.state = "mapped" =>
        \A i \in DOMAIN copies : copies[i].buffer = immediate_name_ =>
            ~call.write /\ copies[i].op = "source"

(* What always holds of a staging resource, strong enough to be inductive. *)
StagingInv ==
    /\ StagingTypeOK
    /\ NameHolds
    /\ CopiesPending
    /\ FreeUnused
    /\ NameTracked
    /\ MappedQuiet
    /\ CopiesReadTheirValue

StagingSpec ==
    StagingInit /\ TimelineInit /\ [][StagingNext]_<<timeVars, stagingVars>>

(* A Map call that has to wait for the GPU returns: the chunk it waits for *)
(* has been committed by Flush(), although Flush() commits only if         *)
(* operations are marked pending and event queries, command lists and      *)
(* commits all change the marks.                                           *)
MapReturns ==
    call.state = "wait" ~> call.state = "mapped"

=============================================================================
