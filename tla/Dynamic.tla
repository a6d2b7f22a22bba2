------------------------------- MODULE Dynamic -------------------------------
(***************************************************************************)
(* One dynamic resource (DynamicBuffer or DynamicLinearTexture) renamed by *)
(* the immediate context and by deferred contexts.                         *)
(*                                                                         *)
(* The CPU keeps a name (the allocation the next write goes to) and a fifo *)
(* of allocations with the chunk that frees them; the encoder keeps the    *)
(* allocation that commands access.  Commands are encoded in the order in  *)
(* which they were emitted, so `current' is the encoder's view at the      *)
(* point of the program the immediate context has reached.                 *)
(*                                                                         *)
(* What the application writes is a number per write.  A slot (allocation, *)
(* suballocation) holds the writes since it was last discarded, and `value'*)
(* is what Direct3D says the resource holds, in program order.             *)
(***************************************************************************)
EXTENDS Timeline, Sequences, FiniteSets, SequencesExt

CONSTANTS
    Lists,              \* command list objects
    Suballocations,     \* the largest suballocation_count_
    MaxAllocations,     \* bound: allocations ever made
    MaxWrites,          \* bound: Map calls that write
    MaxUsed,            \* bound: used_dynamic_* entries of a command list
    MaxReads            \* bound: reads not completed, and reads of a list

ASSUME DynamicAssumption ==
    /\ {Suballocations, MaxAllocations, MaxUsed, MaxReads} \subseteq Nat \ {0}
    /\ MaxWrites \in Nat

VARIABLES
    kind,               \* "buffer" or "linear": which class this is
    suballocation_count_,   \* of each of its allocations
    fifo,               \* QueueEntry: [allocation, will_free_at]
    name_,              \* the immediate name
    name_suballocation_,
    owned_by_command_list_,
    allocated,          \* allocations made so far
    current,            \* Buffer::current_, in encode order
    current_suballocation_,
    content,            \* the writes each slot holds
    value,              \* the writes the resource holds, in program order
    writes,             \* writes so far
    uses,               \* GPU reads not completed: [slot, want, seq]
    cmdlist,            \* the command lists
    limits              \* known limits this behaviour has run into

(* What never changes: the class of the resource and its size.             *)
resource == <<kind, suballocation_count_>>

dynamicVars == <<resource, fifo, name_, name_suballocation_,
                 owned_by_command_list_, allocated, current,
                 current_suballocation_, content, value, writes, uses,
                 cmdlist, limits>>

Allocations == 1 .. MaxAllocations
Subs == 0 .. Suballocations - 1
Slots == Allocations \X Subs
WriteIds == 1 .. MaxWrites
QueueEntry == [allocation: Allocations, will_free_at: 1 .. MaxSeq]
Draw == [slot: Slots, want: SUBSET WriteIds]
UsedDynamic == [allocation: Allocations, suballocation: Subs, latest: BOOLEAN]

CommandList ==
    [state: {"pool", "recording", "finished", "resetting"},
     used: Seq(UsedDynamic),    \* used_dynamic_buffers / _lineartextures
     value: SUBSET WriteIds,    \* what the recording has written, at its end
     draws: SUBSET Draw,        \* reads of what it wrote itself
     inherits: BOOLEAN,         \* it reads the resource before writing it
     held: BOOLEAN,             \* the application's reference
     chunks: SUBSET (1 .. MaxSeq),  \* references of the chunks' commands
     by: {"app", "finish"},     \* the thread that runs Reset()
     current_seq_id: 0 .. MaxSeq]   \* Reset()'s local

FreshList ==
    [state |-> "pool", used |-> <<>>, value |-> {}, draws |-> {},
     inherits |-> FALSE, held |-> FALSE, chunks |-> {}, by |-> "app",
     current_seq_id |-> 0]

DynamicTypeOK ==
    /\ TimelineTypeOK
    /\ kind \in {"buffer", "linear"}
    /\ suballocation_count_ \in 1 .. Suballocations
    /\ fifo \in Seq(QueueEntry)
    /\ name_ \in 1 .. allocated
    /\ name_suballocation_ \in 0 .. suballocation_count_ - 1
    /\ owned_by_command_list_ \in BOOLEAN
    /\ allocated \in Allocations
    /\ current \in 1 .. allocated
    /\ current_suballocation_ \in [Allocations -> Subs]
    /\ content \in [Slots -> SUBSET WriteIds]
    /\ value \in SUBSET WriteIds
    /\ writes \in 0 .. MaxWrites
    /\ uses \subseteq [slot: Slots, want: SUBSET WriteIds, seq: 1 .. MaxSeq]
    /\ \A u \in uses : u.seq \in cpu_coherent + 1 .. ready_for_encode /\ u.seq # finishing
    /\ cmdlist \in [Lists -> CommandList]
    /\ limits \subseteq {"forgotten", "reused", "stale"}

DynamicInit ==
    /\ kind \in {"buffer", "linear"}
    /\ suballocation_count_ \in 1 .. Suballocations
    /\ kind = "linear" => suballocation_count_ = 1
    /\ fifo = <<>>
    /\ name_ = 1
    /\ name_suballocation_ = 0
    /\ owned_by_command_list_ = FALSE
    /\ allocated = 1
    /\ current = 1
    /\ current_suballocation_ = [a \in Allocations |-> 0]
    /\ content = [s \in Slots |-> {}]
    /\ value = {}
    /\ writes = 0
    /\ uses = {}
    /\ cmdlist = [l \in Lists |-> FreshList]
    /\ limits = {}

-----------------------------------------------------------------------------
(* Only the allocation of a small buffer is divided.                       *)
hasSuballocation(s) == s < suballocation_count_

(* The suballocation a discard moves to, 0 when it needs an allocation.    *)
nextSuballocation ==
    IF hasSuballocation(name_suballocation_ + 1)
        THEN name_suballocation_ + 1
        ELSE 0

(* Mutant: the chunk that frees the allocation is not compared.            *)
FrontExists == fifo # <<>>

(* Whether allocate() takes the front of the fifo: only the front is       *)
(* looked at, and only if the chunk that uses it has been retired.         *)
FrontIsFree ==
    fifo # <<>> /\ Head(fifo).will_free_at <= CoherentSeqId

CanAllocate == FrontIsFree \/ allocated < MaxAllocations

(* allocate(): the allocation returned, and the fifo and the count after.  *)
allocate ==
    IF FrontIsFree
        THEN [ret |-> Head(fifo).allocation, fifo |-> Tail(fifo),
              allocated |-> allocated]
        ELSE [ret |-> allocated + 1, fifo |-> fifo,
              allocated |-> allocated + 1]

Entry(a, seq) == [allocation |-> a, will_free_at |-> seq]

(* Mutant: the suballocation of the new name is not set.                   *)
updateImmediateNameOnly(f, seq, allocation, suballocation, owned) ==
    /\ fifo' = IF owned_by_command_list_ THEN f
                                         ELSE Append(f, Entry(name_, seq))
    /\ name_' = allocation
    /\ owned_by_command_list_' = owned
    /\ UNCHANGED name_suballocation_

(* updateImmediateName(), from the fifo f that allocate() left.            *)
updateImmediateName(f, seq, allocation, suballocation, owned) ==
    /\ fifo' = IF owned_by_command_list_ THEN f
                                         ELSE Append(f, Entry(name_, seq))
    /\ name_' = allocation
    /\ name_suballocation_' = suballocation
    /\ owned_by_command_list_' = owned

(* The GPU reads of an allocation that outlive the chunk freeing it.       *)
UsedAfter(a, seq) == \E u \in uses : u.slot[1] = a /\ u.seq > seq

(* Mutant: the immediate name is pushed to the fifo as well.               *)
recycleAlways(seq, allocation) ==
    /\ fifo' = Append(fifo, Entry(allocation, seq))
    /\ UNCHANGED <<owned_by_command_list_, limits>>

(* recycle(): an allocation that has become the immediate name stays the   *)
(* name and stops being the list's; any other goes to the fifo.            *)
recycle(seq, allocation) ==
    IF owned_by_command_list_ /\ name_ = allocation
        THEN /\ owned_by_command_list_' = FALSE
             /\ UNCHANGED <<fifo, limits>>
        ELSE /\ fifo' = Append(fifo, Entry(allocation, seq))
             /\ limits' = IF UsedAfter(allocation, seq)
                              THEN limits \cup {"stale"} ELSE limits
             /\ UNCHANGED owned_by_command_list_

-----------------------------------------------------------------------------
(* The bytes of the application's next write: a discard starts the slot    *)
(* afresh, a NO_OVERWRITE adds to it.                                      *)
NextWrite == writes + 1

Discarded(slot) == content' = [content EXCEPT ![slot] = {NextWrite}]
Appended(slot) == content' = [content EXCEPT ![slot] = @ \cup {NextWrite}]

(* Map(D3D11_MAP_WRITE_DISCARD) on the immediate context.  The command it  *)
(* emits tells the encoder the suballocation and, for a new allocation,    *)
(* renames the buffer.                                                     *)
MapDiscard ==
    /\ writes < MaxWrites
    /\ writes' = NextWrite
    /\ value' = {NextWrite}
    /\ \/ /\ nextSuballocation # 0
          /\ name_suballocation_' = nextSuballocation
          /\ current_suballocation_' =
                [current_suballocation_ EXCEPT ![name_] = nextSuballocation]
          /\ Discarded(<<name_, nextSuballocation>>)
          /\ UNCHANGED <<fifo, name_, owned_by_command_list_, allocated, current>>
       \/ /\ nextSuballocation = 0
          /\ CanAllocate
          /\ allocated' = allocate.allocated
          /\ updateImmediateName(allocate.fifo, CurrentSeqId, allocate.ret, 0, FALSE)
          /\ current' = allocate.ret
          /\ current_suballocation_' =
                [current_suballocation_ EXCEPT ![allocate.ret] = 0]
          /\ Discarded(<<allocate.ret, 0>>)
    /\ UNCHANGED <<resource, uses, cmdlist, limits, timeVars>>

(* Map(D3D11_MAP_WRITE_NO_OVERWRITE) on the immediate context: the memory  *)
(* of the CPU's name.                                                      *)
MapNoOverwrite ==
    /\ writes < MaxWrites
    /\ writes' = NextWrite
    /\ value' = value \cup {NextWrite}
    /\ Appended(<<name_, name_suballocation_>>)
    /\ UNCHANGED <<resource, fifo, name_, name_suballocation_,
                   owned_by_command_list_, allocated, current,
                   current_suballocation_, uses, cmdlist, limits, timeVars>>

(* The slot a command emitted now reads: the encoder's allocation and that *)
(* allocation's own suballocation.                                         *)
CurrentSlot == <<current, current_suballocation_[current]>>

Use(d) == [slot |-> d.slot, want |-> d.want, seq |-> CurrentSeqId]

(* A command of the immediate context that reads the resource.             *)
DrawNow ==
    /\ uses' = uses \cup {Use([slot |-> CurrentSlot, want |-> value])}
    /\ Cardinality(uses') <= MaxReads
    /\ UNCHANGED <<resource, fifo, name_, name_suballocation_,
                   owned_by_command_list_, allocated, current,
                   current_suballocation_, content, value, writes, cmdlist,
                   limits, timeVars>>

-----------------------------------------------------------------------------
(* A deferred context's list starts from the pool (CreateCommandList).     *)
CreateCommandList(l) ==
    /\ cmdlist[l].state = "pool"
    /\ cmdlist' = [cmdlist EXCEPT ![l].state = "recording", ![l].held = TRUE]
    /\ UNCHANGED <<resource, fifo, name_, name_suballocation_,
                   owned_by_command_list_, allocated, current,
                   current_suballocation_, content, value, writes, uses,
                   limits, timeVars>>

(* current_dynamic_*_allocations: what the recording last mapped.          *)
Recorded(l) == Last(cmdlist[l].used)
RecordedSlot(l) == <<Recorded(l).allocation, Recorded(l).suballocation>>

(* The flag a deferred discard gives its entry: TRUE for a buffer, FALSE   *)
(* for a linear texture.                                                   *)
PushedLatest == kind = "buffer"

(* The list's entries with the newest no longer the latest.                *)
Superseded(used) ==
    IF used = <<>> THEN used
                   ELSE [used EXCEPT ![Len(used)].latest = FALSE]

(* The list's entries with the newest moved to the next suballocation.     *)
Advanced(used) == [used EXCEPT ![Len(used)].suballocation = @ + 1]

(* Map(D3D11_MAP_WRITE_DISCARD) on a deferred context.                     *)
DeferredMapDiscard(l) ==
    /\ cmdlist[l].state = "recording"
    /\ writes < MaxWrites
    /\ writes' = NextWrite
    /\ LET used == cmdlist[l].used
           more == used # <<>> /\ hasSuballocation(Recorded(l).suballocation + 1)
       IN \/ /\ more
             /\ cmdlist' = [cmdlist EXCEPT
                    ![l].used = Advanced(used),
                    ![l].value = {NextWrite}]
             /\ Discarded(<<Recorded(l).allocation, Recorded(l).suballocation + 1>>)
             /\ UNCHANGED <<fifo, allocated>>
          \/ /\ ~more
             /\ Len(used) < MaxUsed
             /\ CanAllocate
             /\ fifo' = allocate.fifo
             /\ allocated' = allocate.allocated
             /\ cmdlist' = [cmdlist EXCEPT
                    ![l].used = Append(Superseded(used),
                        [allocation |-> allocate.ret, suballocation |-> 0,
                         latest |-> PushedLatest]),
                    ![l].value = {NextWrite}]
             /\ Discarded(<<allocate.ret, 0>>)
    /\ UNCHANGED <<resource, name_, name_suballocation_, owned_by_command_list_,
                   current, current_suballocation_, value, uses, limits,
                   timeVars>>

(* NO_OVERWRITE on a deferred context: E_INVALIDARG without a discard.     *)
DeferredMapNoOverwrite(l) ==
    /\ cmdlist[l].state = "recording"
    /\ cmdlist[l].used # <<>>
    /\ writes < MaxWrites
    /\ writes' = NextWrite
    /\ cmdlist' = [cmdlist EXCEPT ![l].value = @ \cup {NextWrite}]
    /\ Appended(RecordedSlot(l))
    /\ UNCHANGED <<resource, fifo, name_, name_suballocation_,
                   owned_by_command_list_, allocated, current,
                   current_suballocation_, value, uses, limits, timeVars>>

(* A recorded command that reads the resource: what the list has written,  *)
(* or what the resource holds when the list is executed.                   *)
DeferredDraw(l) ==
    /\ cmdlist[l].state = "recording"
    /\ Cardinality(cmdlist[l].draws) < MaxReads
    /\ cmdlist' =
        IF cmdlist[l].used = <<>>
            THEN [cmdlist EXCEPT ![l].inherits = TRUE]
            ELSE [cmdlist EXCEPT ![l].draws =
                    @ \cup {[slot |-> RecordedSlot(l), want |-> cmdlist[l].value]}]
    /\ UNCHANGED <<resource, fifo, name_, name_suballocation_,
                   owned_by_command_list_, allocated, current,
                   current_suballocation_, content, value, writes, uses,
                   limits, timeVars>>

FinishCommandList(l) ==
    /\ cmdlist[l].state = "recording"
    /\ cmdlist' = [cmdlist EXCEPT ![l].state = "finished"]
    /\ UNCHANGED <<resource, fifo, name_, name_suballocation_,
                   owned_by_command_list_, allocated, current,
                   current_suballocation_, content, value, writes, uses,
                   limits, timeVars>>

(* The suballocations of a after the list's renames have been encoded.     *)
EncodedSubs(l) ==
    [a \in Allocations |->
        IF \E i \in DOMAIN cmdlist[l].used : cmdlist[l].used[i].allocation = a
            THEN LET i == CHOOSE i \in DOMAIN cmdlist[l].used :
                            cmdlist[l].used[i].allocation = a
                 IN cmdlist[l].used[i].suballocation
            ELSE current_suballocation_[a]]

(* The list starts over below suballocations that the immediate context    *)
(* has already given out after an earlier execution.                       *)
StartsOver(l, reads) ==
    \E u \in reads : /\ u.slot[1] = Recorded(l).allocation
                     /\ u.slot[2] > Recorded(l).suballocation

(* ExecuteCommandList(): the entry still marked latest becomes the         *)
(* immediate name, owned by the list; the commands are encoded with the    *)
(* chunk, which keeps a reference to the list.                             *)
ExecuteCommandList(l) ==
    LET used == cmdlist[l].used
        inherited == IF cmdlist[l].inherits
                        THEN {[slot |-> CurrentSlot, want |-> value]} ELSE {}
    IN /\ cmdlist[l].state = "finished"
       /\ cmdlist[l].held
       /\ cmdlist' = [cmdlist EXCEPT ![l].chunks = @ \cup {CurrentSeqId}]
       /\ uses' = uses \cup {Use(d) : d \in cmdlist[l].draws \cup inherited}
       /\ Cardinality(uses') <= MaxReads
       /\ IF used # <<>> /\ Recorded(l).latest
            THEN updateImmediateName(fifo, CurrentSeqId, Recorded(l).allocation,
                                     Recorded(l).suballocation, TRUE)
            ELSE UNCHANGED <<fifo, name_, name_suballocation_, owned_by_command_list_>>
       /\ IF used = <<>>
            THEN UNCHANGED <<current, current_suballocation_, value, limits>>
            ELSE /\ current' = Recorded(l).allocation
                 /\ current_suballocation_' = EncodedSubs(l)
                 /\ value' = cmdlist[l].value
                 /\ limits' = limits
                        \cup (IF Recorded(l).latest THEN {} ELSE {"forgotten"})
                        \cup (IF StartsOver(l, uses') THEN {"reused"} ELSE {})
       /\ UNCHANGED <<resource, allocated, content, writes, timeVars>>

-----------------------------------------------------------------------------
(* Dropping the last reference runs Recycle(): Reset() first reads the     *)
(* current sequence number.                                                *)
Dropped(list, thread) ==
    IF list.held \/ list.chunks # {}
        THEN list
        ELSE [list EXCEPT !.state = "resetting", !.by = thread,
                          !.current_seq_id = CurrentSeqId]

Released(list) == [list EXCEPT !.held = FALSE]
CommandDestroyed(list) == [list EXCEPT !.chunks = list.chunks \ {finishing}]

(* The application releases a finished list.                               *)
Release(l) ==
    /\ cmdlist[l].state = "finished"
    /\ cmdlist[l].held
    /\ cmdlist' = [cmdlist EXCEPT ![l] = Dropped(Released(@), "app")]
    /\ UNCHANGED <<resource, fifo, name_, name_suballocation_,
                   owned_by_command_list_, allocated, current,
                   current_suballocation_, content, value, writes, uses,
                   limits, timeVars>>

(* Reset(): each entry is recycled in a lock of its own, the last first.   *)
ResetEntry(l) ==
    /\ cmdlist[l].state = "resetting"
    /\ cmdlist[l].used # <<>>
    /\ recycle(cmdlist[l].current_seq_id, Recorded(l).allocation)
    /\ cmdlist' = [cmdlist EXCEPT ![l].used = Front(@)]
    /\ UNCHANGED <<resource, name_, name_suballocation_, allocated, current,
                   current_suballocation_, content, value, writes, uses,
                   timeVars>>

(* The rest of Reset(), and RecycleCommandList().                          *)
ResetDone(l) ==
    /\ cmdlist[l].state = "resetting"
    /\ cmdlist[l].used = <<>>
    /\ cmdlist' = [cmdlist EXCEPT ![l] = FreshList]
    /\ UNCHANGED <<resource, fifo, name_, name_suballocation_,
                   owned_by_command_list_, allocated, current,
                   current_suballocation_, content, value, writes, uses,
                   limits, timeVars>>

-----------------------------------------------------------------------------
DynamicCommit ==
    /\ CommitCurrentChunk
    /\ UNCHANGED dynamicVars

(* The GPU has completed a chunk: its reads are over.                      *)
DynamicBeginFinish ==
    /\ BeginFinish
    /\ uses' = {u \in uses : u.seq # finishing'}
    /\ UNCHANGED <<resource, fifo, name_, name_suballocation_,
                   owned_by_command_list_, allocated, current,
                   current_suballocation_, content, value, writes, cmdlist,
                   limits>>

(* Whether the finishing thread is inside the Reset() of a list.           *)
FinishThreadBusy ==
    \E l \in Lists : cmdlist[l].state = "resetting" /\ cmdlist[l].by = "finish"

(* chunk.reset() destroys the command that holds the list.                 *)
DestroyCommand(l) ==
    /\ finishing \in cmdlist[l].chunks
    /\ ~FinishThreadBusy
    /\ cmdlist' = [cmdlist EXCEPT
            ![l] = Dropped(CommandDestroyed(@), "finish")]
    /\ UNCHANGED <<resource, fifo, name_, name_suballocation_,
                   owned_by_command_list_, allocated, current,
                   current_suballocation_, content, value, writes, uses,
                   limits, timeVars>>

DynamicSignal ==
    /\ ~FinishThreadBusy
    /\ \A l \in Lists : finishing \notin cmdlist[l].chunks
    /\ SignalCoherent
    /\ UNCHANGED dynamicVars

DynamicNext ==
    \/ MapDiscard
    \/ MapNoOverwrite
    \/ DrawNow
    \/ DynamicCommit
    \/ DynamicBeginFinish
    \/ DynamicSignal
    \/ \E l \in Lists :
        \/ CreateCommandList(l)
        \/ DeferredMapDiscard(l)
        \/ DeferredMapNoOverwrite(l)
        \/ DeferredDraw(l)
        \/ FinishCommandList(l)
        \/ ExecuteCommandList(l)
        \/ Release(l)
        \/ ResetEntry(l)
        \/ ResetDone(l)
        \/ DestroyCommand(l)

-----------------------------------------------------------------------------
(* Properties *)

(* Renaming keeps the promise of a discard: as long as none of the known   *)
(* limits is met, every read the GPU has not completed, and every read     *)
(* recorded in a command list that may still be executed, finds the bytes  *)
(* the application wrote for it; no Map has handed its memory out again    *)
(* (allocate, updateImmediateName, recycle).                               *)
DrawsSeeTheirWrites ==
    limits = {} =>
        /\ \A u \in uses : u.want \subseteq content[u.slot]
        /\ \A l \in Lists : cmdlist[l].state \in {"recording", "finished"} =>
              \A d \in cmdlist[l].draws : d.want \subseteq content[d.slot]

(* The places that hold an allocation and may give it away.                *)
InFifo(a) == \E i \in DOMAIN fifo : fifo[i].allocation = a
UsedBy(l, a) == \E i \in DOMAIN cmdlist[l].used : cmdlist[l].used[i].allocation = a
IsName(a) == a = name_ /\ ~owned_by_command_list_

(* Every allocation is in one place, never lost and never in two that      *)
(* would both give it away: the fifo once, one entry of one command list,  *)
(* or the immediate name; a name owned by a command list is an entry of    *)
(* one (updateImmediateName and recycle decide which of them pushes it).   *)
AllocationInOnePlace ==
    /\ \A a \in 1 .. allocated : InFifo(a) \/ IsName(a) \/ \E l \in Lists : UsedBy(l, a)
    /\ \A i, j \in DOMAIN fifo : fifo[i].allocation = fifo[j].allocation => i = j
    /\ \A l \in Lists : \A i, j \in DOMAIN cmdlist[l].used :
         cmdlist[l].used[i].allocation = cmdlist[l].used[j].allocation => i = j
    /\ \A l, m \in Lists, a \in 1 .. allocated : UsedBy(l, a) /\ UsedBy(m, a) => l = m
    /\ \A l \in Lists, a \in 1 .. allocated : UsedBy(l, a) => ~InFifo(a) /\ ~IsName(a)
    /\ ~InFifo(name_)
    /\ owned_by_command_list_ => \E l \in Lists : UsedBy(l, name_)

(* The memory a NO_OVERWRITE map returns is the memory the commands        *)
(* emitted next will read: the CPU's name and the encoder's agree at every *)
(* point of the program, whichever contexts renamed the resource.          *)
EncoderAgreesWithName ==
    "forgotten" \notin limits => CurrentSlot = <<name_, name_suballocation_>>

(* The parts of the inductive invariant.  Only allocations that were made  *)
(* are handed around.                                                      *)
AllocationsMade ==
    /\ \A i \in DOMAIN fifo : fifo[i].allocation <= allocated
    /\ \A l \in Lists : \A i \in DOMAIN cmdlist[l].used :
         cmdlist[l].used[i].allocation <= allocated
    /\ \A u \in uses : u.slot[1] <= allocated

Executable(l) == cmdlist[l].state \in {"recording", "finished"}

(* A list in the pool is empty; a list being recorded does not own the     *)
(* name; a finished one that does has given out no suballocation above the *)
(* name's; a list reads what it has mapped.                                *)
ListOK(l) ==
    /\ cmdlist[l].state = "pool" => cmdlist[l].used = <<>> /\ cmdlist[l].draws = {}
    /\ cmdlist[l].state = "resetting" => cmdlist[l].current_seq_id >= 1
    /\ cmdlist[l].state = "recording" => ~UsedBy(l, name_)
    /\ \A i \in DOMAIN cmdlist[l].used :
         cmdlist[l].used[i].suballocation < suballocation_count_
    /\ cmdlist[l].state = "finished" => \A i \in DOMAIN cmdlist[l].used :
         cmdlist[l].used[i].allocation = name_ =>
            cmdlist[l].used[i].suballocation <= name_suballocation_
    /\ Executable(l) => \A d \in cmdlist[l].draws : \E i \in DOMAIN cmdlist[l].used :
         /\ d.slot[1] = cmdlist[l].used[i].allocation
         /\ d.slot[2] <= cmdlist[l].used[i].suballocation
ListsOK == \A l \in Lists : ListOK(l)

(* A read not completed keeps its memory away from a discard: an           *)
(* allocation of the fifo is freed after it, the name's suballocations     *)
(* above the current one are unread, and so is a list being recorded.      *)
Unread(u) ==
    /\ \A i \in DOMAIN fifo :
         u.slot[1] = fifo[i].allocation => u.seq <= fifo[i].will_free_at
    /\ u.slot[1] = name_ => u.slot[2] <= name_suballocation_
    /\ \A l \in Lists : cmdlist[l].state = "recording" => ~UsedBy(l, u.slot[1])

(* The resource, and each list at its end, hold what was written last.     *)
LatestStored ==
    /\ value \subseteq content[<<name_, name_suballocation_>>]
    /\ \A l \in Lists : Executable(l) /\ cmdlist[l].used # <<>> =>
         cmdlist[l].value \subseteq content[RecordedSlot(l)]

MemoryKept == limits = {} => LatestStored /\ \A u \in uses : Unread(u)

(* What always holds of a dynamic resource, strong enough to be inductive. *)
DynamicInv ==
    /\ DynamicTypeOK
    /\ AllocationInOnePlace
    /\ AllocationsMade
    /\ ListsOK
    /\ EncoderAgreesWithName
    /\ MemoryKept
    /\ DrawsSeeTheirWrites

DynamicSpec ==
    DynamicInit /\ TimelineInit /\ [][DynamicNext]_<<timeVars, dynamicVars>>

=============================================================================
