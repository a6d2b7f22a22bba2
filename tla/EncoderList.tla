---------------------------- MODULE EncoderList ----------------------------
(***************************************************************************)
(* ArgumentEncodingContext::flushCommands: the encoders of a chunk are     *)
(* recorded into a list, each with the fences it waits for and updates;    *)
(* before the list is encoded into a command buffer, neighbours are merged *)
(* and others moved together so that they become neighbours:               *)
(*   a clear turns into the load action of a later render pass,            *)
(*   a resolve into the store action of an earlier one,                    *)
(*   two render passes on the same attachments into one,                   *)
(*   two blit passes into one,                                             *)
(*   and what is cleared next is not stored.                               *)
(* checkEncoderRelation decides for a pair, and whether the former may be  *)
(* moved past the latter (SWAP) or not (SYNCHRONIZE).                      *)
(*                                                                         *)
(* Encoder n of the list has the id 2n; the stages of a render pass before *)
(* rasterisation have an id of their own, 2n - 1.  The trackers of the     *)
(* resources are taken at their word here (DepTrack is about them): an     *)
(* access waits for the conflicting ones before it.  The commands of an    *)
(* encoder are one operation, named by the place n where it was recorded.  *)
(***************************************************************************)
EXTENDS Integers, Sequences, SequencesExt, FiniteSets, FiniteSetsExt

CONSTANTS
  Kinds,         \* the passes that may be recorded
  MaxEncoders    \* bound: the length of the list

None == "none"
DepthStencil == "Z"        \* the depth-stencil texture, of two planes
Planes == {"depth", "stencil"}

(* What a pass of each type is told.  A slot shows a texture or a buffer;  *)
(* len is the array length; planar and readonly are the planes of the      *)
(* depth-stencil view; plane1 says that the stencil plane is named 1, as   *)
(* D3D12 does and D3D11 and the clears do not.                             *)
Slot(tex, buf) == [tex |-> tex, buf |-> buf]
Pass(type) ==
  [type |-> type, colors |-> <<>>, planar |-> {}, readonly |-> {}, len |-> 0,
   vread |-> {}, vwrite |-> {}, read |-> {}, write |-> {},
   plane1 |-> FALSE,
   target |-> Slot(None, None), clear_dsv |-> {}, src |-> None, dst |-> None]

VARIABLES
  list,       \* encoder_head, as the array flushCommands makes of it
  program,    \* history: the passes in the order of the application
  users,      \* the last writer of a resource and the readers since
  reach,      \* FenceLocalityCheck: what waiting for an id implies
  phase,      \* recording, merging or merged
  j, i        \* the loops of flushCommands; j = 0 when they have ended
vars == <<list, program, users, reach, phase, j, i>>

Attached(k) ==
  ({k.colors[s].tex : s \in DOMAIN k.colors} \cup
   {k.colors[s].buf : s \in DOMAIN k.colors}) \ {None}

(* The accesses of a pass by stage; "v" is before rasterisation.           *)
Writes(k, stage) ==
  IF stage = "v" THEN k.vwrite
  ELSE CASE k.type = "Render" -> k.write \cup Attached(k) \cup
              (IF k.planar \subseteq k.readonly THEN {} ELSE {DepthStencil})
         [] k.type = "Clear" ->
              IF k.clear_dsv # {} THEN {DepthStencil}
              ELSE {k.target.tex, k.target.buf} \ {None}
         [] k.type = "Resolve" -> {k.dst}
         [] OTHER -> k.write
Reads(k, stage) ==
  IF stage = "v" THEN k.vread
  ELSE CASE k.type = "Render" -> k.read \cup
              (IF k.planar = {} THEN {} ELSE {DepthStencil})
         [] k.type = "Resolve" -> {k.src}
         [] OTHER -> k.read
Accesses(k, stage) == Reads(k, stage) \cup Writes(k, stage)

Resources == UNION {Accesses(k, stage) : k \in Kinds, stage \in {"v", "f"}}

Init ==
  /\ list = <<>> /\ program = <<>>
  /\ users = [r \in Resources |-> [writer |-> {}, readers |-> {}]]
  /\ reach = <<>>
  /\ phase = "recording" /\ j = 0 /\ i = 0

-----------------------------------------------------------------------------
(* Recording.                                                              *)

Events == {"SignalEvent", "WaitForEvent", "SampleTimestamp"}

(* The ids an access has to wait for, and the tracker after it.            *)
Conflicting(us, k, stage) ==
  UNION ({us[r].writer : r \in Accesses(k, stage)} \cup
         {us[r].readers : r \in Writes(k, stage)})
Tracked(us, k, stage, id) ==
  [r \in Resources |->
     CASE r \in Writes(k, stage) -> [writer |-> {id}, readers |-> {}]
       [] r \in Reads(k, stage) \ Writes(k, stage) ->
            [us[r] EXCEPT !.readers = @ \cup {id}]
       [] OTHER -> us[r]]

(* collectAndSimplifyWaits: a wait that another implies is left out.       *)
Minimal(ids) == {n \in ids : \A m \in ids : n \notin reach[m]}
Reach(ids) == ids \cup UNION {reach[m] : m \in ids}

Color(slot) ==
  LET shown == slot # Slot(None, None)
  IN  [slot |-> slot, clear |-> 0, resolve |-> None, resolvedBy |-> 0,
       load |-> IF shown THEN "Load" ELSE "DontCare",
       store |-> IF shown THEN "Store" ELSE "DontCare"]
Plane == [load |-> "Load", clear |-> 0, store |-> "Store"]

(* The encoder of a pass, with its fences.                                 *)
Encoder(k, n, wait, wait_vertex) ==
  [type |-> k.type, ops |-> <<n>>, members |-> {n}, len |-> k.len,
   colors |-> [s \in DOMAIN k.colors |-> Color(k.colors[s])],
   dsv |-> [p \in k.planar |-> Plane], readonly |-> k.readonly,
   plane1 |-> k.plane1,
   target |-> k.target, clear_dsv |-> k.clear_dsv, src |-> k.src, dst |-> k.dst,
   fence_wait |-> wait, fence_wait_vertex |-> wait_vertex,
   fence_update |-> IF k.type \in Events THEN {} ELSE {2 * n},
   fence_update_vertex |-> IF k.type = "Render" THEN {2 * n - 1} ELSE {}]

(* start...Pass or clear, resolve, ..., and endPass.  The fragment stage   *)
(* starts after the stages before it ("implicit_pre_raster_wait").         *)
Record(k) ==
  /\ phase = "recording" /\ Len(list) < MaxEncoders
  /\ LET n == Len(list) + 1
         us == Tracked(users, k, "v", 2 * n - 1)
         v == Conflicting(users, k, "v")
         f == Conflicting(us, k, "f") \ {2 * n - 1}
         behind == Reach(v)
     IN  /\ list' = Append(list,
              Encoder(k, n, Minimal(f) \ behind, Minimal(v)))
         /\ users' = Tracked(us, k, "f", 2 * n)
         /\ reach' = reach \o <<behind, {2 * n - 1} \cup behind \cup Reach(f)>>
  /\ program' = Append(program, k)
  /\ UNCHANGED <<phase, j, i>>

-----------------------------------------------------------------------------
(* The loops of flushCommands.                                             *)

Merging == {"Clear", "Render", "Blit"}
Above(es, n) == {m \in n + 1 .. Len(es) : es[m].type # "Null"}

(* The next former below a place, with the first latter above it.          *)
NextFormer(es, below) ==
  LET rows == {n \in 1 .. below - 1 : es[n].type \in Merging /\ Above(es, n) # {}}
  IN  IF rows = {} THEN j' = 0 /\ i' = 0
      ELSE j' = Max(rows) /\ i' = Min(Above(es, Max(rows)))

flushCommands ==
  /\ phase = "recording" /\ list # <<>>
  /\ phase' = "merging"
  /\ NextFormer(list, Len(list))
  /\ UNCHANGED <<list, program, users, reach>>

(* The result of checkEncoderRelation is used.                             *)
Related(former, latter, op) ==
  LET es == [list EXCEPT ![j] = former, ![i] = latter]
      more == Above(es, i)
  IN  /\ list' = es
      /\ IF op = "SWAP" /\ more # {} THEN j' = j /\ i' = Min(more)
         ELSE NextFormer(es, j)
      /\ UNCHANGED <<program, users, reach, phase>>

Comparing == phase = "merging" /\ j # 0
former_ == list[j]
latter_ == list[i]
Types(former, latter) == former_.type = former /\ latter_.type = latter

(* The command buffer is encoded and the list emptied.                     *)
Encode ==
  /\ phase = "merging" /\ j = 0
  /\ list' = <<>> /\ program' = <<>> /\ phase' = "recording"
  /\ users' = [r \in Resources |-> [writer |-> {}, readers |-> {}]]
  /\ reach' = <<>>
  /\ UNCHANGED <<j, i>>

-----------------------------------------------------------------------------
(* checkEncoderRelation.                                                   *)

AllWaits(e) == e.fence_wait \cup e.fence_wait_vertex
AllUpdates(e) == e.fence_update \cup e.fence_update_vertex

(* Fault: only the writes of the former are considered.                    *)
hasDependencyForward(latter, former) ==
  AllUpdates(former) \cap latter.fence_wait # {}

hasDataDependency(latter, former) ==
  \/ AllUpdates(former) \cap AllWaits(latter) # {}
  \/ AllUpdates(latter) \cap AllWaits(former) # {}

Relation(latter, former) ==
  IF hasDataDependency(latter, former) THEN "SYNCHRONIZE" ELSE "SWAP"

Nulled(e) == [e EXCEPT !.type = "Null", !.ops = <<>>, !.members = {}]

(* The fences of an encoder that takes the work of another.                *)
Absorb(e, other) ==
  [e EXCEPT !.members = @ \cup other.members,
            !.fence_update = @ \cup other.fence_update,
            !.fence_wait = (@ \cup other.fence_wait) \ other.fence_update]

(* Fault: an event is compared by its fences, of which it has none.        *)
SynchronizeNothing ==
  /\ Comparing /\ former_.type # "Null"
  /\ latter_.type \in Events
  /\ Related(former_, latter_, "SWAP")

(* Nothing is moved past an event or a timestamp.                          *)
Synchronize ==
  /\ Comparing /\ former_.type # "Null"
  /\ latter_.type \in Events
  /\ Related(former_, latter_, "SYNCHRONIZE")

(* The former has been merged already: the inner loop runs on.             *)
NullFormer == Comparing /\ former_.type = "Null" /\ Related(former_, latter_, "SWAP")

(* tryMergeBlitEncoders: the commands of the former come first.            *)
tryMergeBlitEncoders ==
  /\ Comparing /\ Types("Blit", "Blit")
  /\ IF hasDataDependency(latter_, former_)
     THEN Related(former_, latter_, "SYNCHRONIZE")
     ELSE Related(Nulled(former_),
                  [Absorb(latter_, former_) EXCEPT !.ops = former_.ops \o @],
                  "SWAP")

(* The first slot of a render pass that shows what is cleared.  A slot     *)
(* without a texture and a clear without one compare equal.                *)
isClearColorSignatureMatched(clear, render) ==
  {s \in DOMAIN render.colors :
     LET c == render.colors[s].slot IN
       \/ c.tex = clear.target.tex
       \/ c.buf # None /\ c.buf = clear.target.buf}

(* isClearDepthSignatureMatched and isClearStencilSignatureMatched.        *)
isClearPlaneSignatureMatched(clear, render) ==
  {p \in clear.clear_dsv \cap DOMAIN render.dsv : p = "stencil" => ~render.plane1}

Cleared(attachment, op) ==
  IF attachment.load = "Load"
  THEN [attachment EXCEPT !.load = "Clear", !.clear = op] ELSE attachment

(* A clear becomes the load action of a render pass, if all of it can.     *)
ClearBeforeRender ==
  /\ Comparing /\ Types("Clear", "Render")
  /\ LET clear == former_
         op == CHOOSE n \in clear.members : TRUE
         planes == isClearPlaneSignatureMatched(clear, latter_)
         slots == isClearColorSignatureMatched(clear, latter_)
         render == IF clear.clear_dsv # {}
           THEN [latter_ EXCEPT !.dsv =
                  [p \in DOMAIN @ |-> IF p \in planes THEN Cleared(@[p], op) ELSE @[p]]]
           ELSE [latter_ EXCEPT !.colors[Min(slots)] = Cleared(@, op)]
     IN  CASE clear.len # latter_.len ->
                Related(clear, latter_, Relation(latter_, clear))
           [] clear.len = latter_.len /\
              (IF clear.clear_dsv # {} THEN clear.clear_dsv = planes ELSE slots # {}) ->
                Related(Nulled(clear), Absorb(render, clear), "SYNCHRONIZE")
           [] clear.len = latter_.len /\ clear.clear_dsv # {} /\ clear.clear_dsv # planes ->
                Related([clear EXCEPT !.clear_dsv = @ \ planes], render,
                        Relation(latter_, clear))
           [] clear.len = latter_.len /\ clear.clear_dsv = {} /\ slots = {} ->
                Related(clear, latter_, Relation(latter_, clear))

(* What is cleared next is not stored: "DontCare can be used because it's  *)
(* going to be cleared anyway".                                            *)
RenderBeforeClear ==
  /\ Comparing /\ Types("Render", "Clear")
  /\ Related([former_ EXCEPT !.dsv =
                [p \in DOMAIN @ |-> IF p \in latter_.clear_dsv
                                    THEN [@[p] EXCEPT !.store = "DontCare"] ELSE @[p]]],
             latter_, Relation(latter_, former_))

(* A resolve becomes the store action of a render pass.                    *)
isResolveSignatureMatched(render, resolve) ==
  {s \in DOMAIN render.colors :
     LET c == render.colors[s] IN
       c.slot.tex = resolve.src /\ c.store = "Store" /\ c.resolve = None}

RenderBeforeResolve ==
  /\ Comparing /\ Types("Render", "Resolve")
  /\ LET slots == isResolveSignatureMatched(former_, latter_)
         op == CHOOSE n \in latter_.members : TRUE
     IN  IF slots = {}
         THEN Related(former_, latter_, Relation(latter_, former_))
         ELSE Related([Absorb(former_, latter_) EXCEPT
                         !.colors[Min(slots)].store = "StoreAndMultisampleResolve",
                         !.colors[Min(slots)].resolve = latter_.dst,
                         !.colors[Min(slots)].resolvedBy = op],
                      Nulled(latter_), "SWAP")

isEncoderSignatureMatched(r0, r1) ==
  /\ DOMAIN r0.colors = DOMAIN r1.colors
  /\ DOMAIN r0.dsv = DOMAIN r1.dsv
  /\ r0.readonly = r1.readonly
  /\ r0.len = r1.len
  /\ "stencil" \in DOMAIN r0.dsv => r0.plane1 = r1.plane1
  /\ \A p \in DOMAIN r0.dsv :
       IF p \in r0.readonly THEN r1.dsv[p].load # "Clear"
       ELSE r0.dsv[p].store = "Store" /\ r1.dsv[p].load = "Load"
  /\ \A s \in DOMAIN r0.colors :
       /\ r0.colors[s].slot = r1.colors[s].slot
       /\ r0.colors[s].slot # Slot(None, None) =>
            r0.colors[s].store = "Store" /\ r1.colors[s].load = "Load"

(* Fault: the stages before rasterisation are forgotten.                   *)
MayShareAnyPass(r0, r1) == isEncoderSignatureMatched(r0, r1)

(* A pass cannot make its own vertices wait for its fragments.             *)
MaySharePass(r0, r1) ==
  /\ isEncoderSignatureMatched(r0, r1)
  /\ r1.fence_wait_vertex \cap r0.fence_update = {}

(* The latter pass with the commands of the former before its own.         *)
SharedPass(r0, r1) ==
  LET r == Absorb(r1, r0)
  IN  [r EXCEPT
         !.ops = r0.ops \o @,
         !.colors = [s \in DOMAIN @ |->
            [@[s] EXCEPT !.load = r0.colors[s].load, !.clear = r0.colors[s].clear]],
         !.dsv = r0.dsv,
         !.fence_update_vertex = @ \cup r0.fence_update_vertex,
         !.fence_wait_vertex = (@ \cup r0.fence_wait_vertex) \ r0.fence_update_vertex,
         !.fence_wait = @ \ r0.fence_update_vertex]

RenderBeforeRender ==
  /\ Comparing /\ Types("Render", "Render")
  /\ IF MaySharePass(former_, latter_)
     THEN Related(Nulled(former_), SharedPass(former_, latter_), "SYNCHRONIZE")
     ELSE Related(former_, latter_, Relation(latter_, former_))

(* The pairs of which nothing can be merged.                               *)
OtherPair ==
  /\ Comparing
  /\ former_.type # "Null" /\ latter_.type \notin Events
  /\ <<former_.type, latter_.type>> \notin
       {<<"Blit", "Blit">>, <<"Clear", "Render">>, <<"Render", "Clear">>,
        <<"Render", "Resolve">>, <<"Render", "Render">>}
  /\ Related(former_, latter_, Relation(latter_, former_))

Next ==
  \/ \E k \in Kinds : Record(k)
  \/ flushCommands
  \/ NullFormer
  \/ Synchronize
  \/ tryMergeBlitEncoders
  \/ ClearBeforeRender
  \/ RenderBeforeClear
  \/ RenderBeforeResolve
  \/ RenderBeforeRender
  \/ OtherPair
  \/ Encode

Spec == Init /\ [][Next]_vars

-----------------------------------------------------------------------------
(* What the GPU computes when encoders run one after another.  A texture,  *)
(* a buffer or a plane holds the operations that made its contents: a      *)
(* clear starts anew, a draw, a dispatch or a copy adds itself, a resolve  *)
(* copies, and 0 stands for contents that are lost.                        *)

Merged == phase = "merging" /\ j = 0

Parts(rs) == (rs \ {DepthStencil}) \cup IF DepthStencil \in rs THEN Planes ELSE {}
Cells == Parts(Resources)

Changed(k) == k.vwrite \cup k.write \cup Attached(k) \cup (k.planar \ k.readonly)
Observed(k) == Parts(k.vread \cup k.read) \cup k.planar

Operate(st, n) ==
  LET k == program[n]
  IN  [mem |-> [c \in Cells |-> IF c \in Changed(k) THEN Append(st.mem[c], n)
                                ELSE st.mem[c]],
       seen |-> [st.seen EXCEPT ![n] = [c \in Observed(k) |-> st.mem[c]]]]

(* The attachments of a render pass that show a cell.                      *)
Showing(e, c) ==
  {e.colors[s] : s \in {t \in DOMAIN e.colors : c \in {e.colors[t].slot.tex,
                                                      e.colors[t].slot.buf}}}
  \cup {e.dsv[p] : p \in DOMAIN e.dsv \cap {c}}

LoadAction(e, mem) ==
  [c \in Cells |->
     LET cleared == {a.clear : a \in {b \in Showing(e, c) : b.load = "Clear"}}
     IN  IF cleared = {} THEN mem[c] ELSE <<Max(cleared)>>]

StoreAction(e, mem) ==
  [c \in Cells |->
     LET resolves == {s \in DOMAIN e.colors : e.colors[s].resolve = c}
     IN  IF resolves # {}
         THEN <<e.colors[Max(resolves)].resolvedBy>>
                \o mem[e.colors[Max(resolves)].slot.tex]
         ELSE IF \E a \in Showing(e, c) : a.store = "DontCare" THEN <<0>>
         ELSE mem[c]]

Execute(st, e) ==
  CASE e.type = "Render" ->
         LET started == [st EXCEPT !.mem = LoadAction(e, @)]
         IN  [FoldLeft(Operate, started, e.ops) EXCEPT !.mem = StoreAction(e, @)]
    [] e.type = "Clear" ->
         LET cells == IF e.clear_dsv # {} THEN e.clear_dsv
                      ELSE {e.target.tex, e.target.buf}
         IN  [st EXCEPT !.mem =
                [c \in Cells |-> IF c \in cells THEN <<Max(e.members)>> ELSE @[c]]]
    [] e.type = "Resolve" ->
         [st EXCEPT !.mem = [@ EXCEPT ![e.dst] = <<Max(e.members)>> \o st.mem[e.src]]]
    [] OTHER -> FoldLeft(Operate, st, e.ops)

Outcome(encoders) ==
  FoldLeft(Execute, [mem |-> [c \in Cells |-> <<>>],
                     seen |-> [n \in DOMAIN program |-> <<>>]], encoders)

ProgramOrder == [n \in DOMAIN program |-> Encoder(program[n], n, {}, {})]

-----------------------------------------------------------------------------
(* What is known to go wrong, in terms of what the application recorded.   *)

(* A clear of a buffer and a later pass of the same array length, in which *)
(* a slot that shows no texture comes before the buffer, or instead of it. *)
ClearOfBufferMistaken ==
  \E n, m \in DOMAIN program :
    LET clear == program[n]
        blank == {s \in DOMAIN program[m].colors :
                    program[m].colors[s].tex = None}
    IN  /\ n < m /\ clear.type = "Clear" /\ clear.target.buf # None
        /\ program[m].type = "Render" /\ program[m].len = clear.len /\ blank # {}
        /\ program[m].colors[Min(blank)].buf # clear.target.buf

(* The destination of a resolve is used between the pass that drew the     *)
(* source and the resolve.                                                 *)
ResolveMovedOver ==
  \E a, c \in DOMAIN program :
    /\ program[a].type = "Render" /\ program[c].type = "Resolve"
    /\ program[c].src \in Attached(program[a])
    /\ \E b \in a + 1 .. c - 1, stage \in {"v", "f"} :
         program[c].dst \in Accesses(program[b], stage)

(* A pass shows the depth-stencil texture read-only, another one reads it, *)
(* and then it is cleared.                                                 *)
DiscardedBeforeRead ==
  \E a, c \in DOMAIN program :
    /\ program[a].planar \cap program[a].readonly \cap program[c].clear_dsv # {}
    /\ \E b \in a + 1 .. c - 1, stage \in {"v", "f"} :
         DepthStencil \in Reads(program[b], stage)

KnownLimit == ClearOfBufferMistaken \/ ResolveMovedOver \/ DiscardedBeforeRead

-----------------------------------------------------------------------------
(* Properties.                                                             *)

(* Types, and the loops compare places of the list in order.               *)
TypeOK ==
  /\ Len(list) <= MaxEncoders /\ Len(program) = Len(list)
  /\ Len(reach) = 2 * Len(list)
  /\ phase \in {"recording", "merging"}
  /\ j = 0 \/ (j \in 1 .. i - 1 /\ i \in DOMAIN list)
  /\ \A n \in DOMAIN list :
       /\ list[n].members \subseteq DOMAIN list
       /\ AllWaits(list[n]) \cup AllUpdates(list[n]) \subseteq DOMAIN reach

(* The encoders flushCommands hands to the command buffer leave in every   *)
(* texture and buffer, and show to every draw, dispatch and copy, what the *)
(* passes in the order of the application would have: no clear, store,     *)
(* resolve or command is lost, doubled or moved over one it conflicts with *)
(* by the merges of checkEncoderRelation, but for its known limits.        *)
ResultsPreserved ==
  Merged /\ ~KnownLimit => Outcome(list) = Outcome(ProgramOrder)

(* The places at which the GPU may be: 2p - 1 is what encoder p does       *)
(* before rasterisation, 2p is the rest of it.  A fence is waited for      *)
(* before rasterisation or at the fragment stage, and updated at the end.  *)
UpdatedAt(w, q) ==
  UNION {IF w \in list[p].fence_update THEN {2 * p}
         ELSE IF w \in list[p].fence_update_vertex THEN {2 * p - 1} ELSE {} :
         p \in 1 .. q - 1}

Waited(x) ==
  LET e == list[(x + 1) \div 2]
  IN  IF x % 2 = 1 THEN e.fence_wait_vertex
      ELSE e.fence_wait \ e.fence_wait_vertex

Earlier ==
  LET before[x \in 1 .. 2 * Len(list)] ==
        LET direct == UNION {UpdatedAt(w, (x + 1) \div 2) : w \in Waited(x)}
                      \cup IF x % 2 = 0 THEN {x - 1} ELSE {}
        IN  direct \cup UNION {before[y] : y \in direct}
  IN  before

Place(n) == CHOOSE p \in DOMAIN list : n \in list[p].members
At(n, stage) == IF stage = "v" THEN 2 * Place(n) - 1 ELSE 2 * Place(n)

Conflict(a, sa, b, sb) ==
  \/ Writes(program[a], sa) \cap Accesses(program[b], sb) # {}
  \/ Accesses(program[a], sa) \cap Writes(program[b], sb) # {}

(* The fences left after the merges still order every two conflicting      *)
(* accesses that are in different encoders, stage by stage; and those that *)
(* a merge brought into one pass do not need the vertices of the pass to   *)
(* wait for its fragments, which no fence can do.                          *)
ConflictsFenced ==
  Merged /\ ~KnownLimit =>
    LET earlier == Earlier
    IN  \A a, b \in DOMAIN program : \A sa, sb \in {"v", "f"} :
          a < b /\ Conflict(a, sa, b, sb) =>
            IF Place(a) = Place(b) THEN ~(sa = "f" /\ sb = "v")
            ELSE At(a, sa) \in earlier[At(b, sb)]

(* What was recorded before an event is signalled, waited for or a         *)
(* timestamp sampled stays before it, and what came after stays after.     *)
EventsKeepPlace ==
  Merged => \A n, e \in DOMAIN program :
    program[e].type \in Events =>
      (n < e => Place(n) < Place(e)) /\ (n > e => Place(n) > Place(e))

(* What always holds of the list: its types, and the places of events,     *)
(* which no merge or move of flushCommands may cross.                      *)
ListInv == TypeOK /\ EventsKeepPlace

=============================================================================
