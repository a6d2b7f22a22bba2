------------------------------ MODULE DepTrack ------------------------------
(***************************************************************************)
(* dxmt_deptrack and the passes of ArgumentEncodingContext that use it:    *)
(* the GPU runs encoders in any order that their fences allow, so that     *)
(* whatever the application expects to happen in order must be enforced by *)
(* a fence, between encoders, or by a memory barrier, inside an encoder.   *)
(*                                                                         *)
(* Every encoder has an id; a render encoder has two, one for its stages   *)
(* before rasterisation (`vertex' below) and, one higher, one for its      *)
(* fragment stage (`pixel').  There are kParityLane fences; an id updates  *)
(* the fence in the slot id % kParityLane, and waiting for a slot means    *)
(* waiting for the last id that updates it.                                *)
(*   strong fences   what the access tracker of a resource asks for: it    *)
(*                   knows the conflicting accesses of the last kLane ids  *)
(*   weak fences     stand for everything older: one generation of kLane   *)
(*                   ids, waited for by every encoder in every lane that   *)
(*                   has no strong fence                                   *)
(* collectAndSimplifyWaits adds the weak fences and leaves out the waits   *)
(* that the other waits imply.                                             *)
(*                                                                         *)
(* One resource is followed: trackers do not know of one another, and the  *)
(* encoders that leave it alone stand for the uses of the others.          *)
(* Clear, resolve, blit, upscale and present encoders have one id and use  *)
(* the tracker like a compute encoder: all of them are `plain'.            *)
(***************************************************************************)
EXTENDS Integers, FiniteSets

CONSTANTS
  kLog2Lane, kParity,   \* 6 and 4 in the source
  Control,              \* intrapass_barrier_control_bits_: ignored types
  MaxId,                \* bound: encoder ids
  MaxAccesses           \* bound: accesses to the resource

kLane == 2 ^ kLog2Lane
kParityLane == kParity * kLane

(* "can also use 3", dxmt_deptrack.hpp                                     *)
ASSUME DepTrackAssumption ==
  /\ kLog2Lane \in Nat \ {0}
  /\ kParity \in Nat /\ kParity >= 3
  /\ Control \subseteq {"RW", "WaW"}
  /\ MaxId \in Nat /\ MaxAccesses \in Nat

VARIABLES
  encoder_id,   \* the next id
  enc,          \* encoder_current
  tracker,      \* the GenericAccessTracker of the resource
  summary,      \* FenceLocalityCheck: the full fences of the last ids
  accesses,     \* how many accesses were made
  before,       \* history: the ids each id is made to wait for, in the end
  users,        \* history: the last writer, the readers since
  need,         \* history: what the last pass has to wait for, per id
  pending,      \* history: the accesses of the command being prepared
  open,         \* history: accesses in the pass, not yet behind a barrier
  omitted,      \* history: a fragment-vertex barrier was omitted
  stale,        \* history: a strong fence of an older generation was set
  unrecorded    \* history: reads of fragments that no tracker knows of

tracking == <<encoder_id, enc, tracker, summary, accesses>>
history == <<before, users, need, pending, open, omitted, stale, unrecorded>>
vars == <<tracking, history>>

Slot(id) == id % kParityLane
Slots(ids) == {Slot(id) : id \in ids}
laneMask(fences) == {f % kLane : f \in fences}

NoEncoder == [type |-> "none", id |-> 0, fence_wait |-> {},
              fence_wait_vertex |-> {}, barrier |-> {}]
Passes == {<<"compute", "compute">>, <<"vertex", "vertex">>,
           <<"vertex", "pixel">>, <<"pixel", "pixel">>}
Unwritten == MaxId + kParityLane   \* stands for indeterminate memory

Init ==
  /\ encoder_id = kParityLane
  /\ enc = NoEncoder
  /\ tracker = [storage |-> [i \in 0 .. kLane - 1 |->
                               IF i = 0 THEN 0 ELSE Unwritten],
                cursor |-> 0, exclusive |-> 0, isShared |-> FALSE,
                isSharedPreRaster |-> FALSE, lastWriteFromPreRaster |-> FALSE]
  /\ summary = [s \in 0 .. kParityLane - 1 |-> {}]
  /\ accesses = 0
  /\ before = <<>> /\ need = <<>>
  /\ users = [writer |-> {}, readers |-> {}]
  /\ pending = {} /\ open = [p \in Passes |-> {}]
  /\ omitted = FALSE /\ stale = FALSE /\ unrecorded = {}

-----------------------------------------------------------------------------
(* TrackingSet: a ring of the ids that read, newest at the cursor.         *)

isLastAccess(t, id) == t.storage[t.cursor] = id

add(t, id) ==
  IF isLastAccess(t, id) THEN t
  ELSE LET c == (t.cursor + 1) % kLane
       IN  [t EXCEPT !.cursor = c, !.storage[c] = id]

(* Fault: clear moves on instead of marking the entry.                     *)
clearMovesOn(t) == [t EXCEPT !.cursor = (@ + 1) % kLane]

clear(t) == [t EXCEPT !.storage[t.cursor] = 0]

(* The entries from the newest back to the first that is too old.          *)
Visited(t, id) ==
  LET entry(i) == t.storage[(t.cursor + kLane - i) % kLane]
  IN  {entry(i) : i \in {i \in 0 .. kLane - 1 :
                           \A j \in 0 .. i : entry(j) > id - kLane}}

(* Fault: the oldest id of the window is left out.                         *)
enumerateShort(t, id) == {c \in Visited(t, id) : c < id /\ c > id - kLane + 1}

enumerate(t, id) == {c \in Visited(t, id) : c < id}

-----------------------------------------------------------------------------
(* GenericAccessTracker: the new tracker, the ids to wait for and the      *)
(* bits to set in EncoderBarrierState.                                     *)

Result(t, ids, bits) == [tracker |-> t, waits |-> ids, barrier |-> bits]
Nothing(t) == Result(t, {}, {})
Bits(cond, set, type) == IF cond THEN {<<set, type>>} ELSE {}
Type(uav) == IF uav THEN "WaW" ELSE "RW"

Recent(t, id) == IF id - t.exclusive < kLane THEN {t.exclusive} ELSE {}
Ever(t) == IF t.exclusive # 0 THEN {t.exclusive} ELSE {}

(* A read after a write of the same encoder sets the barrier once.         *)
accessShared(t, id) ==
  CASE t.exclusive = id ->
         Result([t EXCEPT !.isShared = TRUE], {},
                Bits(~t.isShared, "Set", "RW"))
    [] t.exclusive # id /\ isLastAccess(t, id) -> Nothing(t)
    [] OTHER -> Result(add(t, id), Recent(t, id), {})

accessExclusive(t, id, uav) ==
  LET s == [t EXCEPT !.isShared = FALSE] IN
  IF t.exclusive = id
  THEN Result(s, {}, {<<"Set", Type(uav)>>})
  ELSE Result([clear(s) EXCEPT !.exclusive = id],
              enumerate(t, id) \cup Recent(t, id),
              Bits(isLastAccess(t, id), "Set", "RW"))

accessSharedPreRaster(t, id) ==
  LET read == [t EXCEPT !.isSharedPreRaster = TRUE] IN
  CASE t.exclusive = id + 1 ->
         Result(read, {},
           Bits(~t.isSharedPreRaster,
                IF t.lastWriteFromPreRaster
                THEN "PreRasterSet" ELSE "PreRasterAfterFragmentSet", "RW"))
    [] t.exclusive = id ->
         Result(read, {}, Bits(~t.isSharedPreRaster, "PreRasterSet", "RW"))
    [] OTHER ->
         CASE isLastAccess(t, id + 1) ->
                IF t.isSharedPreRaster THEN Nothing(t)
                ELSE Result(read, Recent(t, id), {})
           [] isLastAccess(t, id) -> Nothing(t)
           [] OTHER -> Result([add(read, id) EXCEPT !.isShared = FALSE],
                              Recent(t, id), {})

(* What a write does to the flags of the reads before it in the pass.      *)
Unread(t) == [t EXCEPT !.isShared = FALSE, !.isSharedPreRaster = FALSE]

(* Fault: only reads of the fragment stage are remembered.                 *)
AfterReadsOfFragments(t, preRaster, fragment) == Bits(t.isShared, fragment, "RW")

AfterReads(t, preRaster, fragment) ==
  Bits(t.isSharedPreRaster, preRaster, "RW") \cup Bits(t.isShared, fragment, "RW")
IsUnread(t) == ~t.isShared /\ ~t.isSharedPreRaster

accessExclusivePreRaster(t, id, uav) ==
  LET s == [Unread(t) EXCEPT !.exclusive = id]
      reads == AfterReads(t, "PreRasterSet", "PreRasterAfterFragmentSet") IN
  CASE t.exclusive = id + 1 ->
         Result([s EXCEPT !.lastWriteFromPreRaster = TRUE], {},
           IF ~IsUnread(t) THEN reads
           ELSE {<<IF t.lastWriteFromPreRaster THEN "PreRasterSet"
                   ELSE "PreRasterAfterFragmentSet", Type(uav)>>})
    [] t.exclusive = id ->
         Result(s, {}, IF IsUnread(t) THEN {<<"PreRasterSet", Type(uav)>>}
                       ELSE reads)
    [] OTHER ->
         Result(clear(s), enumerate(t, id) \cup Ever(t),
                IF isLastAccess(t, id + 1) \/ isLastAccess(t, id)
                THEN reads ELSE {})

(* A read before rasterisation already has the barrier that orders the     *)
(* fragments after it ("IMPLICIT BARRIER").                                *)
accessSharedFragment(t, id) ==
  LET read == [t EXCEPT !.isShared = TRUE]
      first == ~t.isShared /\ ~t.isSharedPreRaster IN
  CASE t.exclusive = id ->
         Result(read, {},
           Bits(first, IF t.lastWriteFromPreRaster
                       THEN "FragmentAfterPreRasterSet" ELSE "Set", "RW"))
    [] t.exclusive = id - 1 ->
         Result(read, {}, Bits(first, "FragmentAfterPreRasterSet", "RW"))
    [] OTHER ->
         IF isLastAccess(t, id) THEN Nothing(t)
         ELSE Result([add(read, id) EXCEPT !.isSharedPreRaster =
                        @ /\ isLastAccess(t, id - 1)],
                     Recent(t, id), {})

accessExclusiveFragment(t, id, uav) ==
  LET s == [Unread(t) EXCEPT !.exclusive = id, !.lastWriteFromPreRaster = FALSE]
      reads == AfterReads(t, "FragmentAfterPreRasterSet", "Set") IN
  CASE t.exclusive = id ->
         Result(s, {},
           IF ~IsUnread(t) THEN reads
           ELSE {<<IF t.lastWriteFromPreRaster THEN "FragmentAfterPreRasterSet"
                   ELSE "Set", Type(uav)>>})
    [] t.exclusive = id - 1 ->
         Result(s, {}, IF ~IsUnread(t) THEN reads
                       ELSE {<<"FragmentAfterPreRasterSet", Type(uav)>>})
    [] OTHER ->
         Result(clear(s), enumerate(t, id) \cup Ever(t),
                IF isLastAccess(t, id) \/ isLastAccess(t, id - 1)
                THEN reads ELSE {})

(* ArgumentEncodingContext::track<stage>                                   *)
track(t, stage, id, write, uav) ==
  CASE stage = "compute" /\ write  -> accessExclusive(t, id, uav)
    [] stage = "compute" /\ ~write -> accessShared(t, id)
    [] stage = "vertex" /\ write   -> accessExclusivePreRaster(t, id, uav)
    [] stage = "vertex" /\ ~write  -> accessSharedPreRaster(t, id)
    [] stage = "pixel" /\ write    -> accessExclusiveFragment(t, id, uav)
    [] stage = "pixel" /\ ~write   -> accessSharedFragment(t, id)

-----------------------------------------------------------------------------
(* FenceLocalityCheck.                                                     *)

(* Fault: the generation starts one id too late.                           *)
WeakFencesLate(id) == Slots({id - kLane - o : o \in 1 .. kLane - 1})

WeakFences(id) == Slots({id - kLane - o : o \in 0 .. kLane - 1})

FullFences(strong, id) ==
  strong \cup {f \in WeakFences(id) : f % kLane \notin laneMask(strong)}

(* The walk back over the ids: what has to be waited for, and what that    *)
(* makes accessible.  The loop stops when everything is.                   *)
WalkStart == [minimal |-> {}, accessible |-> {}, stop |-> FALSE]

WalkStep(full, p, sum, w) ==
  LET waited == p \in full /\ p \notin w.accessible
      reached == waited \/ p \in w.accessible
      accessible == IF reached THEN w.accessible \cup {p} \cup sum[p]
                    ELSE w.accessible
  IN  IF w.stop THEN w
      ELSE [minimal |-> IF waited THEN w.minimal \cup {p} ELSE w.minimal,
            accessible |-> accessible,
            stop |-> full \subseteq accessible]

Walk(full, id, sum) ==
  LET walk[o \in 0 .. kParityLane - 1] ==
        IF o = 0 THEN WalkStart
        ELSE WalkStep(full, Slot(id - o), sum, walk[o - 1])
  IN  walk[kParityLane - 1].minimal

(* The waits that are left, and the summary with the entry of this id.     *)
collectAndSimplifyWaits(strong_fences, id, implicit, sum) ==
  LET strong == strong_fences \cup (IF implicit THEN {Slot(id - 1)} ELSE {})
      full == FullFences(strong, id)
  IN  [minimal |-> Walk(full, id, sum)
                     \ (IF implicit THEN {Slot(id - 1)} ELSE {}),
       summary |-> [sum EXCEPT ![Slot(id)] = full]]

-----------------------------------------------------------------------------
(* What the GPU makes of it: a stage starts after the ids whose fences it  *)
(* waits for, and after what those have waited for.                        *)

Known == DOMAIN before

(* The id that has updated a fence last.                                   *)
Latest(slot, known) ==
  LET ids == {n \in known : Slot(n) = slot}
  IN  {n \in ids : \A k \in ids : k <= n}

After(waits, order) ==
  LET ids == UNION {Latest(s, DOMAIN order) : s \in waits}
  IN  ids \cup UNION {order[n] : n \in ids}

Extended(order, id, ids) ==
  [n \in DOMAIN order \cup {id} |-> IF n = id THEN ids ELSE order[n]]

-----------------------------------------------------------------------------
(* The passes.                                                             *)

IdOf(e, stage) == IF stage = "vertex" THEN e.id - 1 ELSE e.id
StagesOf(e) == CASE e.type = "plain"  -> {"compute"}
                 [] e.type = "render" -> {"vertex", "pixel"}
                 [] e.type = "none"   -> {}
IdsOf(e) == {IdOf(e, stage) : stage \in StagesOf(e)}

NewPass(type, ids) ==
  /\ enc.type = "none" /\ ~omitted
  /\ encoder_id + ids - 1 <= MaxId
  /\ enc' = [NoEncoder EXCEPT !.type = type, !.id = encoder_id + ids - 1]
  /\ encoder_id' = encoder_id + ids
  /\ need' = [n \in encoder_id .. encoder_id + ids - 1 |-> {}]
  /\ UNCHANGED <<tracker, summary, accesses, before, users, pending, open,
                 omitted, stale, unrecorded>>

startComputePass == NewPass("plain", 1)
startRenderPass == NewPass("render", 2)

(* An access by a stage of the current encoder, and what it has to wait    *)
(* for: a read for the last writer, a write for the readers as well.  D3D  *)
(* does not let one command bind a resource for reading and for writing.   *)
Track(e, t, us, nd, stage, write, uav) ==
  LET id == IdOf(e, stage)
      r == track(t, stage, id, write, uav)
      e1 == IF stage = "vertex"
            THEN [e EXCEPT !.fence_wait_vertex = @ \cup Slots(r.waits)]
            ELSE [e EXCEPT !.fence_wait = @ \cup Slots(r.waits)]
      others == us.writer \cup (IF write THEN us.readers ELSE {})
  IN  [enc |-> [e1 EXCEPT !.barrier = @ \cup r.barrier],
       tracker |-> r.tracker,
       users |-> IF write THEN [writer |-> {id}, readers |-> {}]
                 ELSE [us EXCEPT !.readers = @ \cup {id}],
       need |-> [nd EXCEPT ![id] = @ \cup (others \ IdsOf(e))],
       stale |-> \E n \in r.waits : id - n >= 2 * kLane]

Access(stage, write, uav) ==
  /\ stage \in StagesOf(enc) /\ accesses < MaxAccesses
  /\ uav => write
  /\ \A a \in pending : a[2] = write
  /\ LET r == Track(enc, tracker, users, need, stage, write, uav) IN
       /\ enc' = r.enc /\ tracker' = r.tracker
       /\ users' = r.users /\ need' = r.need
       /\ stale' = (stale \/ r.stale)
  /\ unrecorded' = IF stage = "pixel" /\ ~write /\ tracker.exclusive = enc.id - 1
                   THEN unrecorded \cup {enc.id} ELSE unrecorded
  /\ accesses' = accesses + 1
  /\ pending' = pending \cup {<<stage, write>>}
  /\ UNCHANGED <<encoder_id, summary, before, open, omitted>>

Emitted == {b[1] : b \in {b \in enc.barrier : b[2] \notin Control}}
Writes(stage) == {a[2] : a \in {a \in pending : a[1] = stage}}

(* The barriers that order the two stages.  The fragments of a draw come   *)
(* after its own earlier stages, so that vertices are before the fragments *)
(* of later draws also when those draws start, or their fragments start,   *)
(* after a barrier for one stage alone.                                    *)
Orders(p) ==
  CASE p = <<"compute", "compute">> -> {"Set"}
    [] p = <<"vertex", "vertex">>   -> {"PreRasterSet"}
    [] p = <<"vertex", "pixel">>    -> {"PreRasterSet", "FragmentAfterPreRasterSet",
                                       "Set"}
    [] p = <<"pixel", "pixel">>     -> {"Set"}

(* What the commands before this one have accessed, not behind a barrier.  *)
Exposed(p, emitted) == IF Orders(p) \cap emitted # {} THEN {} ELSE open[p]

Command(emitted) ==
  /\ enc' = [enc EXCEPT !.barrier = {b \in @ : b[1] \notin emitted}]
  /\ open' = [p \in Passes |-> Exposed(p, emitted) \cup Writes(p[1])]
  /\ pending' = {}
  /\ UNCHANGED <<encoder_id, tracker, summary, accesses, before, users, need,
                 stale, unrecorded>>

(* resolveComputePassBarrier, then the dispatch                            *)
Dispatch ==
  /\ enc.type = "plain" /\ pending # {}
  /\ Command(Emitted \cap {"Set"})
  /\ UNCHANGED omitted

(* resolveRenderPassBarrier, then the draw: "A fragment-vertex barrier is  *)
(* omitted", and then every other barrier with it.                         *)
Draw ==
  /\ enc.type = "render" /\ pending # {}
  /\ IF "PreRasterAfterFragmentSet" \in Emitted
     THEN /\ enc' = [enc EXCEPT !.barrier = {}]
          /\ omitted' = TRUE
          /\ pending' = {}
          /\ UNCHANGED <<encoder_id, tracker, summary, accesses, before, users,
                         need, open, stale, unrecorded>>
     ELSE Command(Emitted) /\ UNCHANGED omitted

EndPlainPass ==
  /\ enc.type = "plain"
  /\ LET c == collectAndSimplifyWaits(enc.fence_wait, enc.id, FALSE, summary) IN
       /\ summary' = c.summary
       /\ before' = Extended(before, enc.id, After(c.minimal, before))
  /\ enc' = NoEncoder
  /\ pending' = {} /\ open' = [p \in Passes |-> {}]
  /\ UNCHANGED <<encoder_id, tracker, accesses, users, need, omitted, stale,
                 unrecorded>>

(* endPass of a render encoder: a depth or stencil attachment is written   *)
(* first.  The fragment stage starts after the stages before it, so that   *)
(* what those wait for is not waited for again.                            *)
EndRenderPass(depth) ==
  /\ enc.type = "render"
  /\ depth => accesses < MaxAccesses
  /\ accesses' = IF depth THEN accesses + 1 ELSE accesses
  /\ LET r == IF depth THEN Track(enc, tracker, users, need, "pixel", TRUE, FALSE)
              ELSE [enc |-> enc, tracker |-> tracker, users |-> users,
                    need |-> need, stale |-> FALSE]
         v == collectAndSimplifyWaits(r.enc.fence_wait_vertex, enc.id - 1, FALSE,
                                      summary)
         f == collectAndSimplifyWaits(r.enc.fence_wait, enc.id, TRUE, v.summary)
         vertex == Extended(before, enc.id - 1, After(v.minimal, before))
     IN  /\ tracker' = r.tracker /\ users' = r.users /\ need' = r.need
         /\ stale' = (stale \/ r.stale)
         /\ summary' = f.summary
         /\ before' = Extended(vertex, enc.id,
                        {enc.id - 1} \cup vertex[enc.id - 1]
                          \cup After(f.minimal \ v.minimal, vertex))
         /\ omitted' = (omitted \/ \E b \in r.enc.barrier :
                                     b[1] = "PreRasterAfterFragmentSet")
  /\ enc' = NoEncoder
  /\ pending' = {} /\ open' = [p \in Passes |-> {}]
  /\ UNCHANGED <<encoder_id, unrecorded>>

(* Whether a write is a UAV write matters if some types are ignored only.  *)
Uavs == IF Control = {} THEN {FALSE} ELSE BOOLEAN

Next ==
  \/ startComputePass
  \/ startRenderPass
  \/ \E stage \in {"compute", "vertex", "pixel"}, write \in BOOLEAN, uav \in Uavs :
       Access(stage, write, uav)
  \/ Dispatch
  \/ Draw
  \/ EndPlainPass
  \/ \E depth \in BOOLEAN : EndRenderPass(depth)

Spec == Init /\ [][Next]_vars

-----------------------------------------------------------------------------
(* Properties.                                                             *)

(* The assertions of TrackingSet and GenericAccessTracker hold for every   *)
(* access the current encoder can make next: ids never go back, and no     *)
(* entry of the ring is read before it was written.                        *)
AssertionsHold ==
  \A stage \in StagesOf(enc) :
    LET id == IdOf(enc, stage)
        t == tracker
        same == IF stage = "compute" THEN {id} ELSE IdsOf(enc)
    IN  /\ t.exclusive \in same \/ t.exclusive < id - (IF stage = "pixel" THEN 1 ELSE 0)
        /\ \A c \in Visited(t, id) : c >= id => c - id <= 1
        /\ id > kLane
        /\ t.exclusive \notin same =>
             t.storage[t.cursor] <= (IF stage = "vertex" THEN id + 1 ELSE id)

(* Conflicting accesses happen in the order of the commands: when a pass   *)
(* has ended, each of its stages waits, directly or through others, for    *)
(* the last writer of the resource and, if it writes, for the readers      *)
(* since.  Three cases are left out, in which the code loses the order: a  *)
(* fragment-vertex barrier was omitted (the code warns); a fragment read   *)
(* what its own pass had written before rasterisation, which shared_ does  *)
(* not record; and users of older generations once a write of a render     *)
(* stage has set a strong fence from before the last generation.           *)
ConflictsOrdered ==
  enc.type = "none" /\ ~omitted =>
    \A m \in DOMAIN need : \A n \in need[m] :
      n \in before[m] \/ n \in unrecorded \/ (stale /\ m - n >= kLane)

(* Every encoder waits, in the end, for all encoders at least kLane ids    *)
(* before it, although it names at most one fence in every lane: what lets *)
(* the trackers forget older accesses.                                     *)
GenerationsOrdered ==
  enc.type = "none" /\ ~stale =>
    \A m \in DOMAIN need : \A n \in Known : m - n >= kLane => n \in before[m]

(* Inside a pass, a command that conflicts with an earlier one is behind a *)
(* barrier that orders the two stages.                                     *)
Conflict(as, bs) == \E a \in as, b \in bs : a \/ b
BarriersSeparate ==
  [][pending # {} /\ pending' = {} /\ enc'.id = enc.id /\ ~omitted' =>
       \A p \in Passes :
         ~Conflict(Exposed(p, Emitted), Writes(p[2]))]_vars

-----------------------------------------------------------------------------
(* Why the assertions hold: ids only grow, and of the ring only the part   *)
(* up to the cursor may be read until it has gone round once, because the  *)
(* walk back ends at the 0 in the first entry.                             *)
Ring == 0 .. kLane - 1
Trackers ==
  [storage : [Ring -> Nat], cursor : Ring, exclusive : Nat, isShared : BOOLEAN,
   isSharedPreRaster : BOOLEAN, lastWriteFromPreRaster : BOOLEAN]
Fences == 0 .. kParityLane - 1
Barriers == {"Set", "PreRasterSet", "FragmentAfterPreRasterSet",
             "PreRasterAfterFragmentSet"} \X {"RW", "WaW"}
Encoders ==
  [type : {"none", "plain", "render"}, id : Nat, fence_wait : SUBSET Fences,
   fence_wait_vertex : SUBSET Fences, barrier : SUBSET Barriers]

PassOK ==
  /\ encoder_id \in Nat /\ encoder_id >= kParityLane
  /\ enc \in Encoders
  /\ enc.type = "plain" => enc.id = encoder_id - 1 /\ enc.id >= kParityLane
  /\ enc.type = "render" => enc.id = encoder_id - 1 /\ enc.id > kParityLane

WrittenBelow(t, n) ==
  \/ \A i \in Ring : t.storage[i] < n
  \/ t.storage[0] = 0 /\ \A i \in 0 .. t.cursor : t.storage[i] < n

RingOK ==
  /\ tracker \in Trackers /\ tracker.exclusive < encoder_id
  /\ WrittenBelow(tracker, encoder_id)

TrackerInv == PassOK /\ RingOK

(* Why the barriers suffice.  Left behind: the accesses that a barrier has *)
(* yet to order with those of the commands after the one being prepared.   *)
LeftBehind(p) == Exposed(p, Emitted) \cup Writes(p[1])

(* No command so far has to come after what is not behind a barrier.       *)
Separated == \A p \in Passes : ~Conflict(Exposed(p, Emitted), Writes(p[2]))

(* A tracker knows what the plain pass id has left behind: its write as    *)
(* long as nothing has read it, and its reads by the newest entry.         *)
PlainKnown(t, id, cc) ==
  /\ t.exclusive = id /\ t.isShared => TRUE \notin cc
  /\ t.exclusive # id => TRUE \notin cc /\ (cc # {} => isLastAccess(t, id))

(* It knows what the render pass id has left behind of the stages before   *)
(* rasterisation, for them (vv) and for the fragments after (vp), and of   *)
(* the fragments (pp): before the first write, ...                         *)
UnwrittenKnown(t, id, vv, vp, pp) ==
  /\ TRUE \notin vv /\ TRUE \notin vp /\ TRUE \notin pp
  /\ vv # {} \/ vp # {} \/ pp # {} => isLastAccess(t, id - 1) \/ isLastAccess(t, id)
  /\ vv # {} \/ vp # {} \/ isLastAccess(t, id - 1) => t.isSharedPreRaster
  /\ pp # {} \/ isLastAccess(t, id) => t.isShared

(* ... after a write before rasterisation, ...                             *)
VertexWrittenKnown(t, vv, vp, pp) ==
  /\ t.isSharedPreRaster => TRUE \notin vv /\ TRUE \notin vp
  /\ t.isShared => TRUE \notin vp
  /\ TRUE \notin pp /\ (pp # {} => t.isShared)

(* ... and after a write of fragments, when whatever the other stages do   *)
(* asks for the barrier that is omitted.                                   *)
PixelWrittenKnown(t, vp, pp) ==
  /\ ~t.isSharedPreRaster /\ ~t.lastWriteFromPreRaster
  /\ t.isShared => TRUE \notin vp /\ TRUE \notin pp

RenderKnown(t, id, vv, vp, pp) ==
  /\ t.exclusive = id - 1 => VertexWrittenKnown(t, vv, vp, pp)
  /\ t.exclusive = id => PixelWrittenKnown(t, vp, pp)
  /\ t.exclusive \notin {id - 1, id} => UnwrittenKnown(t, id, vv, vp, pp)

PassKnown ==
  /\ enc.type = "plain" =>
       PlainKnown(tracker, enc.id, LeftBehind(<<"compute", "compute">>))
  /\ enc.type = "render" =>
       RenderKnown(tracker, enc.id, LeftBehind(<<"vertex", "vertex">>),
                   LeftBehind(<<"vertex", "pixel">>), LeftBehind(<<"pixel", "pixel">>))

CommandsOK ==
  /\ \A a \in pending : a[1] \in StagesOf(enc) /\ a[2] \in BOOLEAN
  /\ \A a, b \in pending : a[2] = b[2]
  /\ \A p \in Passes : open[p] \subseteq BOOLEAN /\ (p[1] \notin StagesOf(enc) => open[p] = {})
  /\ enc.type = "plain" => Emitted \subseteq {"Set"}

BarrierInv ==
  /\ CommandsOK
  /\ ~omitted /\ "PreRasterAfterFragmentSet" \notin Emitted => Separated /\ PassKnown

=============================================================================
