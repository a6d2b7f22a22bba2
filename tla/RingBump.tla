------------------------------ MODULE RingBump ------------------------------
(***************************************************************************)
(* dxmt::RingBumpState: a queue of memory blocks.  The newest block is     *)
(* filled by bumping an offset; a block is given back, or refilled from    *)
(* its start, once the chunk that used it last is complete.                *)
(*                                                                         *)
(* The module follows one allocator among its users.  The allocating       *)
(* thread works on chunk `current' (ready_for_encode for the thread that   *)
(* records, seq_id_ for the encode thread) and reads cpu_coherent before   *)
(* it takes the allocator's mutex; the finish thread signals cpu_coherent  *)
(* and trims afterwards.  CommandQueue shows that cpu_coherent stays below *)
(* the chunk being recorded and the chunk being encoded.  `role' tells who *)
(* trims this allocator:                                                   *)
(*   finish    staging, copy_temp, argbuf, argbuf_shadow                   *)
(*   commit    cpu_command                                                 *)
(*   never     reftracker_storage                                          *)
(*   deferred  the two allocators of a D3D11 command list                  *)
(***************************************************************************)
EXTENDS Integers, Sequences

CONSTANTS
  BlockSize,             \* size of a regular block
  kStagingBlockLifetime, \* trims an idle block survives (300 in the source)
  Sizes, Alignments,     \* what the users ask for
  AllOnes,               \* ~0ull
  MaxSeq,                \* bound: chunks
  MaxBlocks              \* bound: blocks ever created

ASSUME RingBumpAssumption ==
  /\ BlockSize \in Nat \ {0}
  /\ kStagingBlockLifetime \in Nat
  /\ Sizes \subseteq Nat \ {0}
  /\ Alignments \subseteq Nat \ {0}
  /\ MaxSeq \in Nat
  /\ AllOnes \in Nat /\ AllOnes > MaxSeq
  /\ MaxBlocks \in Nat

VARIABLES
  fifo,       \* the blocks, oldest first
  blocks,     \* how many blocks were created: the newest identity
  role,
  current,    \* the chunk the allocating thread works on
  coherent,   \* cpu_coherent
  pc, seen,   \* the allocating thread: program counter, coherent value read
  trimming,   \* the finish thread has signaled and not trimmed yet
  live        \* history: the pieces that incomplete chunks still use

vars == <<fifo, blocks, role, current, coherent, pc, seen, trimming, live>>

Block == [id : Nat, allocated_size : Nat, total_size : Nat,
          last_used_seq_id : Nat, inc_time_to_live : Nat]
Piece == [block : Nat, offset : Nat, size : Nat, seq : Nat]

Init ==
  /\ fifo = <<>> /\ blocks = 0
  /\ role \in {"finish", "commit", "never", "deferred"}
  /\ current = 1 /\ coherent = 0
  /\ pc = "idle" /\ seen = 0
  /\ trimming = FALSE
  /\ live = {}

-----------------------------------------------------------------------------
(* The allocator.                                                          *)

(* align(): every alignment in use is a power of two, for which masking    *)
(* the low bits is rounding up.                                            *)
align(what, to) == ((what + to - 1) \div to) * to

Fits(b, size, alignment) ==
  align(b.allocated_size, alignment) + size <= b.total_size

(* suballocate, after last_used_seq_id has been set                        *)
Bumped(b, seq, size, alignment) ==
  [b EXCEPT !.last_used_seq_id = seq,
            !.allocated_size = align(b.allocated_size, alignment) + size]

Cut(b, seq, size, alignment) ==
  [block |-> b.id, offset |-> align(b.allocated_size, alignment),
   size |-> size, seq |-> seq]

AdHoc(b) == b.total_size # BlockSize

Drop(n) == SubSeq(fifo, n + 1, Len(fifo))

(* allocate, when the newest block has room                                *)
AllocateInLatest(seq, size, alignment) ==
  LET n == Len(fifo) IN
  /\ n > 0 /\ Fits(fifo[n], size, alignment)
  /\ fifo' = [fifo EXCEPT ![n] = Bumped(@, seq, size, alignment)]
  /\ live' = live \cup {Cut(fifo[n], seq, size, alignment)}
  /\ UNCHANGED blocks

(* The two tests of allocate_or_reuse_block on the front of the queue.     *)
Reclaimable(b, coherent_id) == b.last_used_seq_id < coherent_id
Discarded(b, coherent_id) == Reclaimable(b, coherent_id) /\ AdHoc(b)

(* The loop of allocate_or_reuse_block pops n blocks.                      *)
Discards(n, coherent_id) ==
  /\ n \in 0 .. Len(fifo)
  /\ \A i \in 1 .. n : Discarded(fifo[i], coherent_id)
  /\ n < Len(fifo) => ~Discarded(fifo[n + 1], coherent_id)

Reusable(n, coherent_id, size) ==
  /\ n < Len(fifo) /\ Reclaimable(fifo[n + 1], coherent_id)
  /\ size <= BlockSize

(* Fault: the reused block stays at the front of the queue.                *)
AllocateByReuseInPlace(n, seq, size, alignment) ==
  LET b == [fifo[n + 1] EXCEPT !.allocated_size = 0, !.inc_time_to_live = 0] IN
  /\ fifo' = [Drop(n) EXCEPT ![1] = Bumped(b, seq, size, alignment)]
  /\ live' = live \cup {Cut(b, seq, size, alignment)}
  /\ UNCHANGED blocks

(* allocate from the oldest block, whose chunk is complete                 *)
AllocateByReuse(n, seq, size, alignment) ==
  LET b == [fifo[n + 1] EXCEPT !.allocated_size = 0, !.inc_time_to_live = 0] IN
  /\ fifo' = Append(Drop(n + 1), Bumped(b, seq, size, alignment))
  /\ live' = live \cup {Cut(b, seq, size, alignment)}
  /\ UNCHANGED blocks

(* allocate from a new block                                               *)
AllocateBlock(n, seq, size, alignment) ==
  LET b == [id |-> blocks + 1, allocated_size |-> 0,
            total_size |-> IF size > BlockSize THEN size ELSE BlockSize,
            last_used_seq_id |-> seq, inc_time_to_live |-> 0] IN
  /\ blocks < MaxBlocks
  /\ fifo' = Append(Drop(n), Bumped(b, seq, size, alignment))
  /\ live' = live \cup {Cut(b, seq, size, alignment)}
  /\ blocks' = blocks + 1

allocate(seq, coherent_id, size, alignment) ==
  \/ AllocateInLatest(seq, size, alignment)
  \/ /\ Len(fifo) > 0 => ~Fits(fifo[Len(fifo)], size, alignment)
     /\ \E n \in 0 .. Len(fifo) :
          /\ Discards(n, coherent_id)
          /\ IF Reusable(n, coherent_id, size)
             THEN AllocateByReuse(n, seq, size, alignment)
             ELSE AllocateBlock(n, seq, size, alignment)

(* Fault: ad hoc blocks are freed whether or not they are in use.          *)
FreedWhileInUse(b, coherent_id) == b.total_size # BlockSize

(* The tests of free_blocks.                                               *)
Complete(b, coherent_id) == b.last_used_seq_id <= coherent_id
Expired(b, coherent_id) ==
  \/ coherent_id - b.last_used_seq_id > kStagingBlockLifetime
  \/ b.inc_time_to_live > kStagingBlockLifetime
  \/ coherent_id = AllOnes
Freed(b, coherent_id) ==
  Complete(b, coherent_id) /\ (Expired(b, coherent_id) \/ AdHoc(b))

(* free_blocks pops n blocks and ages the next one if it is idle.          *)
free_blocks(coherent_id) ==
  \E n \in 0 .. Len(fifo) :
    /\ \A i \in 1 .. n : Freed(fifo[i], coherent_id)
    /\ n < Len(fifo) => ~Freed(fifo[n + 1], coherent_id)
    /\ fifo' = IF n < Len(fifo) /\ Complete(fifo[n + 1], coherent_id)
               THEN [Drop(n) EXCEPT ![1].inc_time_to_live = @ + 1]
               ELSE Drop(n)
    /\ UNCHANGED blocks

-----------------------------------------------------------------------------
(* The allocating thread.                                                  *)

(* The arguments of allocate are evaluated before the mutex is taken.      *)
ReadCoherent ==
  /\ pc = "idle"
  /\ seen' = IF role = "deferred" THEN 0 ELSE coherent
  /\ pc' = "allocate"
  /\ UNCHANGED <<fifo, blocks, role, current, coherent, trimming, live>>

Allocate ==
  /\ pc = "allocate"
  /\ \E size \in Sizes, alignment \in Alignments :
       allocate(current, seen, size, alignment)
  /\ pc' = "idle"
  /\ UNCHANGED <<role, current, coherent, seen, trimming>>

(* The thread goes on to the next chunk; CommitCurrentChunk ends by        *)
(* trimming cpu_command_allocator.                                         *)
NextChunk ==
  /\ pc = "idle" /\ role # "deferred"
  /\ current < MaxSeq
  /\ current' = current + 1
  /\ pc' = IF role = "commit" THEN "committed" ELSE "idle"
  /\ UNCHANGED <<fifo, blocks, role, coherent, seen, trimming, live>>

ReadCoherentToTrim ==
  /\ pc = "committed"
  /\ seen' = coherent
  /\ pc' = "trim"
  /\ UNCHANGED <<fifo, blocks, role, current, coherent, trimming, live>>

CommitTrim ==
  /\ pc = "trim"
  /\ free_blocks(seen)
  /\ pc' = "idle"
  /\ UNCHANGED <<role, current, coherent, seen, trimming, live>>

(* MTLD3D11CommandList::Reset: the list is recycled once no chunk holds a  *)
(* reference to it.                                                        *)
ResetList ==
  /\ pc = "idle" /\ role = "deferred"
  /\ live' = {}
  /\ free_blocks(AllOnes)
  /\ UNCHANGED <<role, current, coherent, pc, seen, trimming>>

(* The finish thread retires the next chunk, then trims.                   *)
Signal ==
  /\ role # "deferred" /\ ~trimming
  /\ coherent + 1 < current
  /\ coherent' = coherent + 1
  /\ live' = {p \in live : p.seq > coherent'}
  /\ trimming' = (role = "finish")
  /\ UNCHANGED <<fifo, blocks, role, current, pc, seen>>

FinishTrim ==
  /\ trimming
  /\ free_blocks(coherent)
  /\ trimming' = FALSE
  /\ UNCHANGED <<role, current, coherent, pc, seen, live>>

Next ==
  \/ ReadCoherent \/ Allocate \/ NextChunk \/ ReadCoherentToTrim
  \/ CommitTrim \/ ResetList \/ Signal \/ FinishTrim

Spec == Init /\ [][Next]_vars

-----------------------------------------------------------------------------
TypeOK ==
  /\ fifo \in Seq(Block)
  /\ blocks \in Nat
  /\ role \in {"finish", "commit", "never", "deferred"}
  /\ current \in Nat /\ coherent \in Nat /\ seen \in Nat
  /\ pc \in {"idle", "allocate", "committed", "trim"}
  /\ trimming \in BOOLEAN
  /\ live \subseteq Piece

(* Two pieces share memory.                                                *)
Overlap(p, q) ==
  /\ p.block = q.block
  /\ p.offset < q.offset + q.size
  /\ q.offset < p.offset + p.size

(* What allocate() returned stays the caller's own until its chunk is      *)
(* complete: the block is neither freed nor refilled, whatever the         *)
(* interleaving with the trims of the finish thread, the piece lies inside *)
(* the block, and no later allocation overlaps it.                         *)
NoLiveReuse ==
  /\ \A p \in live : \E i \in 1 .. Len(fifo) :
       /\ fifo[i].id = p.block
       /\ p.offset + p.size <= fifo[i].total_size
  /\ \A p, q \in live : p # q => ~Overlap(p, q)

(* allocate_or_reuse_block and free_blocks look at the front of the queue  *)
(* only: no block behind it was last used by an earlier chunk.             *)
FrontIsOldest ==
  \A i, j \in 1 .. Len(fifo) :
    i <= j => fifo[i].last_used_seq_id <= fifo[j].last_used_seq_id

(* The inductive invariant.                                                *)
ClockOK == seen <= coherent /\ coherent < current

BlocksOK ==
  /\ \A i \in 1 .. Len(fifo) :
       /\ fifo[i].id <= blocks
       /\ fifo[i].last_used_seq_id <= current
       /\ fifo[i].allocated_size <= fifo[i].total_size
  /\ \A i, j \in 1 .. Len(fifo) : fifo[i].id = fifo[j].id => i = j

(* The piece lies in the filled part of a block that records its use.      *)
Within(p, b) ==
  /\ b.id = p.block
  /\ p.offset + p.size <= b.allocated_size
  /\ p.seq <= b.last_used_seq_id

PiecesOK ==
  /\ \A p \in live : p.seq > coherent /\ \E i \in 1 .. Len(fifo) : Within(p, fifo[i])
  /\ \A p, q \in live : p # q => ~Overlap(p, q)

IInv == TypeOK /\ ClockOK /\ BlocksOK /\ FrontIsOldest /\ PiecesOK

=============================================================================
