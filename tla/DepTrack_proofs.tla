--------------------------- MODULE DepTrack_proofs ---------------------------
(***************************************************************************)
(* Proofs about DepTrack, for every width of the lanes and every number of *)
(* encoders and accesses: first the ids that a tracker holds (assertions   *)
(* of TrackingSet and GenericAccessTracker), then the barriers inside a    *)
(* pass, then the fences between encoders.  The last part needs what the   *)
(* loop of collectAndSimplifyWaits computes (Walk, a recursive function):  *)
(* induction over its steps is derived here, from the pigeonhole principle *)
(* of finite sets, for a set of numbers instead of a predicate.            *)
(***************************************************************************)
EXTENDS DepTrack, FiniteSetTheorems, TLAPS

-----------------------------------------------------------------------------
(* The lanes.                                                              *)

(* A power of two is the number of subsets of a set.                       *)
LEMMA Lanes == kLane \in Nat /\ kLane > 1 /\ kParityLane \in Nat /\ kParityLane >= 3 * kLane
<1> DEFINE S == 1 .. kLog2Lane
<1>1. IsFiniteSet(S) /\ Cardinality(S) = kLog2Lane
  BY FS_Interval, DepTrackAssumption
<1>2. IsFiniteSet(SUBSET S) /\ Cardinality(SUBSET S) = kLane
  BY <1>1, FS_SUBSET DEF kLane
<1>3. kLane \in Nat
  BY <1>2, FS_CardinalityType
<1>4. {{}, {1}} \subseteq SUBSET S /\ {} # {1}
  BY DepTrackAssumption
<1>5. Cardinality({{}, {1}}) = 2
  <2>1. IsFiniteSet({{}}) /\ Cardinality({{}}) = 1
    BY FS_Singleton
  <2>2. Cardinality({{}} \cup {{1}}) = Cardinality({{}}) + 1
    BY <2>1, FS_AddElement, <1>4
  <2>3. {{}} \cup {{1}} = {{}, {1}}
    OBVIOUS
  <2> QED BY <2>1, <2>2, <2>3
<1>6. kLane >= 2
  BY <1>2, <1>3, <1>4, <1>5, FS_Subset
<1>7. kParity \in Nat /\ kParity >= 3
  BY DepTrackAssumption
<1>8. kParityLane \in Nat /\ kParityLane >= 3 * kLane
  <2> DEFINE n == kLane
  <2>1. kParityLane = kParity * n
    BY DEF kParityLane
  <2>2. n \in Nat
    BY <1>3
  <2> HIDE DEF n
  <2>3. kParity * n \in Nat /\ kParity * n >= 3 * n
    BY <2>2, <1>7
  <2> QED BY <2>1, <2>3 DEF n
<1> QED BY <1>3, <1>6, <1>8

-----------------------------------------------------------------------------
(* What an access does to a tracker.                                       *)

(* The ring stays as it is, has the id added, or the newest entry cleared. *)
RingMoved(t, u, id) ==
  \/ u.storage = t.storage /\ u.cursor = t.cursor
  \/ /\ u.cursor = (t.cursor + 1) % kLane
     /\ u.storage = [t.storage EXCEPT ![u.cursor] = id]
  \/ u.storage = [t.storage EXCEPT ![t.cursor] = 0] /\ u.cursor = t.cursor

ResultOK(t, r, id) ==
  /\ r.tracker \in Trackers /\ r.tracker.exclusive \in {t.exclusive, id}
  /\ RingMoved(t, r.tracker, id)
  /\ r.waits \subseteq Nat /\ r.barrier \subseteq Barriers

LEMMA Waits ==
  ASSUME NEW t \in Trackers, NEW id \in Nat
  PROVE  /\ enumerate(t, id) \subseteq Nat /\ Recent(t, id) \subseteq Nat
         /\ Ever(t) \subseteq Nat
<1>1. \A i \in Ring : (t.cursor + kLane - i) % kLane \in Ring
  BY Lanes DEF Ring, Trackers
<1>2. Visited(t, id) \subseteq Nat
  BY <1>1 DEF Visited, Trackers, Ring
<1> QED BY <1>2 DEF enumerate, Recent, Ever, Trackers

LEMMA AddResult ==
  ASSUME NEW t \in Trackers, NEW id \in Nat
  PROVE  /\ add(t, id) \in Trackers /\ RingMoved(t, add(t, id), id)
         /\ add(t, id).exclusive = t.exclusive /\ add(t, id).isShared = t.isShared
         /\ add(t, id).isSharedPreRaster = t.isSharedPreRaster
         /\ add(t, id).lastWriteFromPreRaster = t.lastWriteFromPreRaster
         /\ add(t, id).storage[add(t, id).cursor] = id
<1>1. (t.cursor + 1) % kLane \in Ring /\ t.cursor \in Ring /\ t.storage \in [Ring -> Nat]
  BY Lanes DEF Ring, Trackers
<1> QED BY <1>1 DEF add, isLastAccess, Trackers, RingMoved

LEMMA ClearResult ==
  ASSUME NEW t \in Trackers, NEW id \in Nat
  PROVE  /\ clear(t) \in Trackers /\ RingMoved(t, clear(t), id)
         /\ clear(t).exclusive = t.exclusive /\ clear(t).isShared = t.isShared
         /\ clear(t).isSharedPreRaster = t.isSharedPreRaster
         /\ clear(t).lastWriteFromPreRaster = t.lastWriteFromPreRaster
BY Lanes DEF clear, Trackers, RingMoved, Ring

(* Only the ring and its cursor matter to it.                              *)
LEMMA SameRing ==
  ASSUME NEW t, NEW v, NEW u, NEW w, NEW id,
         v.storage = t.storage, v.cursor = t.cursor,
         w.storage = u.storage, w.cursor = u.cursor, RingMoved(v, u, id)
  PROVE  RingMoved(t, w, id)
BY DEF RingMoved

LEMMA SharedOK ==
  ASSUME NEW t \in Trackers, NEW id \in Nat
  PROVE  ResultOK(t, accessShared(t, id), id)
<1> DEFINE s == [t EXCEPT !.isShared = TRUE]
           r == accessShared(t, id)
<1>1. /\ s \in Trackers /\ RingMoved(t, s, id) /\ RingMoved(t, t, id)
      /\ s.exclusive = t.exclusive
  BY DEF Trackers, RingMoved
<1>2. r.tracker \in {t, s, add(t, id)}
  BY DEF accessShared, Result, Nothing
<1>3. r.waits \subseteq Recent(t, id) /\ r.barrier \subseteq Barriers
  BY DEF accessShared, Result, Nothing, Bits, Barriers
<1> HIDE DEF s, r
<1>4. r.tracker \in Trackers /\ r.tracker.exclusive = t.exclusive /\ RingMoved(t, r.tracker, id)
  BY <1>1, <1>2, AddResult
<1>5. r.waits \subseteq Nat
  BY <1>3, Waits
<1> QED BY <1>3, <1>4, <1>5 DEF ResultOK, r

LEMMA ExclusiveOK ==
  ASSUME NEW t \in Trackers, NEW id \in Nat, NEW uav \in BOOLEAN
  PROVE  ResultOK(t, accessExclusive(t, id, uav), id)
<1> DEFINE s == [t EXCEPT !.isShared = FALSE]
           u == [clear(s) EXCEPT !.exclusive = id]
           r == accessExclusive(t, id, uav)
<1>1. /\ s \in Trackers /\ s.storage = t.storage /\ s.cursor = t.cursor
      /\ s.exclusive = t.exclusive /\ RingMoved(t, s, id)
  BY DEF Trackers, RingMoved
<1>2. (t.exclusive = id /\ r.tracker = s) \/ r.tracker = u
  BY DEF accessExclusive, Result
<1>3. r.waits \subseteq enumerate(t, id) \cup Recent(t, id)
  BY DEF accessExclusive, Result
<1>4. r.barrier \subseteq Barriers
  BY DEF accessExclusive, Result, Type, Bits, Barriers
<1>5. u \in Trackers /\ u.exclusive = id /\ u.storage = clear(s).storage /\ u.cursor = clear(s).cursor
  BY <1>1, ClearResult DEF Trackers
<1>6. RingMoved(s, clear(s), id)
  BY <1>1, ClearResult
<1> HIDE DEF s, u, r
<1>7. RingMoved(t, u, id)
  BY <1>1, <1>5, <1>6, SameRing
<1> QED BY <1>1, <1>2, <1>3, <1>4, <1>5, <1>7, Waits DEF ResultOK, r

LEMMA SharedPreRasterOK ==
  ASSUME NEW t \in Trackers, NEW id \in Nat
  PROVE  ResultOK(t, accessSharedPreRaster(t, id), id)
<1> DEFINE s == [t EXCEPT !.isSharedPreRaster = TRUE]
           u == [add(s, id) EXCEPT !.isShared = FALSE]
           r == accessSharedPreRaster(t, id)
<1>1. /\ s \in Trackers /\ RingMoved(t, s, id) /\ RingMoved(t, t, id)
      /\ s.storage = t.storage /\ s.cursor = t.cursor /\ s.exclusive = t.exclusive
  BY DEF Trackers, RingMoved
<1>2. r.tracker \in {t, s, u}
  BY DEF accessSharedPreRaster, Result, Nothing
<1>3. r.waits \subseteq Recent(t, id) /\ r.barrier \subseteq Barriers
  BY DEF accessSharedPreRaster, Result, Nothing, Bits, Barriers
<1>4. RingMoved(s, add(s, id), id)
  BY <1>1, AddResult
<1> HIDE DEF s
<1>5. /\ u \in Trackers /\ u.exclusive = t.exclusive
      /\ u.storage = add(s, id).storage /\ u.cursor = add(s, id).cursor
  BY <1>1, AddResult DEF Trackers
<1> HIDE DEF u, r
<1>6. RingMoved(t, u, id)
  BY <1>1, <1>4, <1>5, SameRing
<1>7. r.tracker \in Trackers /\ r.tracker.exclusive = t.exclusive /\ RingMoved(t, r.tracker, id)
  BY <1>1, <1>2, <1>5, <1>6
<1>8. r.waits \subseteq Nat
  BY <1>3, Waits
<1> QED BY <1>3, <1>7, <1>8 DEF ResultOK, r

LEMMA UnreadResult ==
  ASSUME NEW t \in Trackers
  PROVE  /\ Unread(t) \in Trackers /\ Unread(t).storage = t.storage
         /\ Unread(t).cursor = t.cursor /\ Unread(t).exclusive = t.exclusive
         /\ Unread(t).isShared = FALSE /\ Unread(t).isSharedPreRaster = FALSE
         /\ Unread(t).lastWriteFromPreRaster = t.lastWriteFromPreRaster
BY DEF Unread, Trackers

LEMMA ExclusivePreRasterOK ==
  ASSUME NEW t \in Trackers, NEW id \in Nat, NEW uav \in BOOLEAN
  PROVE  ResultOK(t, accessExclusivePreRaster(t, id, uav), id)
<1> DEFINE s == [Unread(t) EXCEPT !.exclusive = id]
           w == [s EXCEPT !.lastWriteFromPreRaster = TRUE]
           r == accessExclusivePreRaster(t, id, uav)
<1>1. /\ s \in Trackers /\ s.storage = t.storage /\ s.cursor = t.cursor /\ s.exclusive = id
      /\ w \in Trackers /\ w.storage = t.storage /\ w.cursor = t.cursor /\ w.exclusive = id
  BY UnreadResult DEF Trackers
<1>2. r.tracker \in {s, w, clear(s)}
  BY DEF accessExclusivePreRaster, Result
<1>3. r.waits \subseteq enumerate(t, id) \cup Ever(t)
  BY DEF accessExclusivePreRaster, Result
<1>4. AfterReads(t, "PreRasterSet", "PreRasterAfterFragmentSet") \subseteq Barriers
  BY DEF AfterReads, Bits, Barriers
<1>5. r.barrier \subseteq Barriers
  BY <1>4 DEF accessExclusivePreRaster, Result, Type, Barriers
<1>6. s \in Trackers /\ w \in Trackers /\ RingMoved(t, s, id) /\ RingMoved(t, w, id)
  BY <1>1 DEF RingMoved
<1> HIDE DEF s, r
<1>7. clear(s) \in Trackers /\ clear(s).exclusive = id /\ RingMoved(t, clear(s), id)
  <2>1. RingMoved(s, clear(s), id)
    BY <1>1, ClearResult
  <2> QED BY <1>1, <2>1, ClearResult, SameRing
<1> QED BY <1>1, <1>2, <1>3, <1>5, <1>6, <1>7, Waits DEF ResultOK, r

LEMMA SharedFragmentOK ==
  ASSUME NEW t \in Trackers, NEW id \in Nat
  PROVE  ResultOK(t, accessSharedFragment(t, id), id)
<1> DEFINE s == [t EXCEPT !.isShared = TRUE]
           r == accessSharedFragment(t, id)
           u == [add(s, id) EXCEPT !.isSharedPreRaster = @ /\ isLastAccess(t, id - 1)]
<1>1. /\ s \in Trackers /\ RingMoved(t, s, id) /\ RingMoved(t, t, id)
      /\ s.storage = t.storage /\ s.cursor = t.cursor /\ s.exclusive = t.exclusive
  BY DEF Trackers, RingMoved
<1>2. r.tracker \in {t, s, u}
  BY DEF accessSharedFragment, Result, Nothing
<1>3. r.waits \subseteq Recent(t, id) /\ r.barrier \subseteq Barriers
  BY DEF accessSharedFragment, Result, Nothing, Bits, Barriers
<1>4. RingMoved(s, add(s, id), id)
  BY <1>1, AddResult
<1> HIDE DEF s
<1>5. /\ u \in Trackers /\ u.exclusive = t.exclusive
      /\ u.storage = add(s, id).storage /\ u.cursor = add(s, id).cursor
  BY <1>1, AddResult DEF Trackers
<1> HIDE DEF u, r
<1>6. RingMoved(t, u, id)
  BY <1>1, <1>4, <1>5, SameRing
<1> QED BY <1>1, <1>2, <1>3, <1>5, <1>6, Waits DEF ResultOK, r

LEMMA ExclusiveFragmentOK ==
  ASSUME NEW t \in Trackers, NEW id \in Nat, NEW uav \in BOOLEAN
  PROVE  ResultOK(t, accessExclusiveFragment(t, id, uav), id)
<1> DEFINE s == [Unread(t) EXCEPT !.exclusive = id, !.lastWriteFromPreRaster = FALSE]
           r == accessExclusiveFragment(t, id, uav)
<1>1. s \in Trackers /\ s.storage = t.storage /\ s.cursor = t.cursor /\ s.exclusive = id
  BY UnreadResult DEF Trackers
<1>2. r.tracker \in {s, clear(s)}
  BY DEF accessExclusiveFragment, Result
<1>3. r.waits \subseteq enumerate(t, id) \cup Ever(t)
  BY DEF accessExclusiveFragment, Result
<1>4. AfterReads(t, "FragmentAfterPreRasterSet", "Set") \subseteq Barriers
  BY DEF AfterReads, Bits, Barriers
<1>5. r.barrier \subseteq Barriers
  BY <1>4 DEF accessExclusiveFragment, Result, Type, Barriers
<1>6. RingMoved(t, s, id)
  BY <1>1 DEF RingMoved
<1> HIDE DEF s, r
<1>7. clear(s) \in Trackers /\ clear(s).exclusive = id /\ RingMoved(t, clear(s), id)
  <2>1. RingMoved(s, clear(s), id)
    BY <1>1, ClearResult
  <2> QED BY <1>1, <2>1, ClearResult, SameRing
<1> QED BY <1>1, <1>2, <1>3, <1>5, <1>6, <1>7, Waits DEF ResultOK, r

LEMMA TrackOK ==
  ASSUME NEW t \in Trackers, NEW stage \in {"compute", "vertex", "pixel"}, NEW id \in Nat,
         NEW write \in BOOLEAN, NEW uav \in BOOLEAN
  PROVE  ResultOK(t, track(t, stage, id, write, uav), id)
BY SharedOK, ExclusiveOK, SharedPreRasterOK, ExclusivePreRasterOK, SharedFragmentOK,
   ExclusiveFragmentOK DEF track

-----------------------------------------------------------------------------
(* The ring.                                                               *)

LEMMA RingKept ==
  ASSUME NEW t \in Trackers, NEW u \in Trackers, NEW id \in Nat, NEW n \in Nat,
         RingMoved(t, u, id), WrittenBelow(t, n), id < n
  PROVE  WrittenBelow(u, n)
<1> USE Lanes
<1>1. t.cursor \in Ring /\ t.storage \in [Ring -> Nat] /\ u.cursor \in Ring /\ 0 \in Ring
  BY DEF Trackers, Ring
<1>2. CASE u.storage = t.storage /\ u.cursor = t.cursor
  BY <1>2 DEF WrittenBelow
<1>3. CASE u.storage = [t.storage EXCEPT ![t.cursor] = 0] /\ u.cursor = t.cursor
  BY <1>1, <1>3 DEF WrittenBelow, Ring
<1>4. CASE u.cursor = (t.cursor + 1) % kLane /\ u.storage = [t.storage EXCEPT ![u.cursor] = id]
  <2>1. CASE t.cursor = kLane - 1
    <3>1. \A i \in Ring : t.storage[i] < n
      BY <1>1, <2>1 DEF WrittenBelow, Ring
    <3> QED BY <1>1, <1>4, <3>1 DEF WrittenBelow
  <2>2. CASE t.cursor < kLane - 1
    <3>1. u.cursor = t.cursor + 1
      <4>1. PICK c \in Nat : c = t.cursor
        BY <1>1 DEF Ring
      <4>2. c + 1 \in Nat /\ c + 1 < kLane
        BY <2>2, <4>1
      <4>3. (c + 1) % kLane = c + 1
        BY <4>2
      <4> QED BY <1>4, <4>1, <4>3
    <3>2. \A k \in Ring : u.storage[k] = IF k = u.cursor THEN id ELSE t.storage[k]
      BY <1>1, <1>4
    <3>3. CASE \A k \in Ring : t.storage[k] < n
      BY <3>2, <3>3 DEF WrittenBelow
    <3>4. CASE t.storage[0] = 0 /\ \A k \in 0 .. t.cursor : t.storage[k] < n
      <4>1. \A k \in 0 .. u.cursor : k \in Ring /\ (k = u.cursor \/ k \in 0 .. t.cursor)
        BY <1>1, <2>2, <3>1 DEF Ring
      <4>2. \A k \in 0 .. u.cursor : u.storage[k] < n
        BY <3>2, <3>4, <4>1
      <4>3. u.storage[0] = 0
        BY <1>1, <3>1, <3>2, <3>4 DEF Ring
      <4> QED BY <4>2, <4>3 DEF WrittenBelow
    <3> QED BY <3>3, <3>4 DEF WrittenBelow
  <2> QED BY <1>1, <2>1, <2>2 DEF Ring
<1> QED BY <1>2, <1>3, <1>4 DEF RingMoved

(* What the assertions ask for follows: the walk of enumerate ends before  *)
(* the first entry that was never written.                                 *)
LEMMA VisitedWritten ==
  ASSUME NEW t \in Trackers, NEW n \in Nat, NEW id \in Nat,
         WrittenBelow(t, n), id >= kLane, NEW c \in Visited(t, id)
  PROVE  c < n
<1> USE Lanes
<1> DEFINE entry(i) == t.storage[(t.cursor + kLane - i) % kLane]
<1>1. t.cursor \in Ring /\ t.storage \in [Ring -> Nat] /\ t.cursor \in 0 .. kLane - 1
  BY DEF Trackers, Ring
<1>2. PICK i \in 0 .. kLane - 1 : c = entry(i) /\ \A j \in 0 .. i : entry(j) > id - kLane
  BY DEF Visited
<1>3. (t.cursor + kLane - i) % kLane \in Ring
  BY <1>1 DEF Ring
<1>4. CASE \A k \in Ring : t.storage[k] < n
  BY <1>2, <1>3, <1>4
<1>5. CASE t.storage[0] = 0 /\ \A k \in 0 .. t.cursor : t.storage[k] < n
  <2>1. (t.cursor + kLane - t.cursor) % kLane = 0
    BY <1>1
  <2>2. entry(t.cursor) = 0
    BY <1>5, <2>1
  <2>3. i < t.cursor
    <3> SUFFICES ASSUME i >= t.cursor PROVE FALSE
      BY <1>1
    <3>1. t.cursor \in 0 .. i
      BY <1>1
    <3>2. entry(t.cursor) > id - kLane
      BY <1>2, <3>1
    <3> QED BY <2>2, <3>2
  <2>4. (t.cursor + kLane - i) % kLane = t.cursor - i
    BY <1>1, <2>3
  <2>5. t.cursor - i \in 0 .. t.cursor
    BY <1>1, <2>3
  <2> QED BY <1>2, <1>5, <2>4, <2>5
<1> QED BY <1>4, <1>5 DEF WrittenBelow

LEMMA InvCoversAssertions == TrackerInv => AssertionsHold
<1> SUFFICES ASSUME TrackerInv, NEW stage \in StagesOf(enc)
             PROVE  LET id == IdOf(enc, stage)
                        same == IF stage = "compute" THEN {id} ELSE IdsOf(enc)
                    IN  /\ tracker.exclusive \in same
                             \/ tracker.exclusive < id - (IF stage = "pixel" THEN 1 ELSE 0)
                        /\ \A c \in Visited(tracker, id) : c >= id => c - id <= 1
                        /\ id > kLane
                        /\ tracker.exclusive \notin same =>
                             tracker.storage[tracker.cursor]
                               <= (IF stage = "vertex" THEN id + 1 ELSE id)
  BY DEF AssertionsHold
<1> USE Lanes
<1> DEFINE id == IdOf(enc, stage)
           same == IF stage = "compute" THEN {id} ELSE IdsOf(enc)
<1>1. /\ encoder_id \in Nat /\ enc.id \in Nat /\ enc.id = encoder_id - 1
      /\ \/ enc.type = "plain" /\ stage = "compute" /\ enc.id >= kParityLane
         \/ enc.type = "render" /\ stage \in {"vertex", "pixel"} /\ enc.id > kParityLane
  BY DEF TrackerInv, PassOK, Encoders, StagesOf
<1>2. /\ id = IF stage = "vertex" THEN enc.id - 1 ELSE enc.id
      /\ id \in Nat /\ id > kLane
  BY <1>1 DEF IdOf
<1>3. /\ tracker \in Trackers /\ tracker.exclusive \in Nat /\ tracker.exclusive < encoder_id
      /\ WrittenBelow(tracker, encoder_id) /\ tracker.cursor \in 0 .. kLane - 1
      /\ tracker.storage \in [Ring -> Nat]
  BY DEF TrackerInv, RingOK, Trackers, Ring
<1>4. \A c \in Visited(tracker, id) : c < encoder_id
  BY <1>1, <1>2, <1>3, VisitedWritten
<1>5. Visited(tracker, id) \subseteq Nat
  <2>1. \A i \in 0 .. kLane - 1 : (tracker.cursor + kLane - i) % kLane \in Ring
    BY <1>3 DEF Ring
  <2> QED BY <1>3, <2>1 DEF Visited
<1>6. tracker.storage[tracker.cursor] \in Nat /\ tracker.storage[tracker.cursor] < encoder_id
  <2>1. tracker.cursor \in Ring /\ tracker.cursor \in 0 .. tracker.cursor
    BY <1>3 DEF Ring
  <2> QED BY <1>3, <2>1 DEF WrittenBelow
<1>7. stage # "compute" => same = {enc.id - 1, enc.id}
  BY <1>1 DEF IdsOf, IdOf, StagesOf
<1>8. stage = "compute" => same = {id}
  OBVIOUS
<1> HIDE DEF id, same
<1>9. \A c \in Visited(tracker, id) : c >= id => c - id <= 1
  BY <1>1, <1>2, <1>4, <1>5
<1>10. tracker.exclusive \in same \/ tracker.exclusive < id - (IF stage = "pixel" THEN 1 ELSE 0)
  BY <1>1, <1>2, <1>3, <1>7, <1>8
<1>11. tracker.storage[tracker.cursor] <= (IF stage = "vertex" THEN id + 1 ELSE id)
  BY <1>1, <1>2, <1>6
<1> QED BY <1>2, <1>9, <1>10, <1>11 DEF id, same

-----------------------------------------------------------------------------
(* The invariant.                                                          *)

LEMMA TrackerInit == Init => TrackerInv
<1> SUFFICES ASSUME Init PROVE TrackerInv
  OBVIOUS
<1> USE Lanes
<1>1. PassOK
  BY DEF Init, PassOK, NoEncoder, Encoders
<1>2. /\ tracker.storage = [i \in 0 .. kLane - 1 |-> IF i = 0 THEN 0 ELSE Unwritten]
      /\ tracker.cursor = 0 /\ tracker.exclusive = 0
  BY DEF Init
<1>3. Unwritten \in Nat
  BY DepTrackAssumption DEF Unwritten
<1>4. tracker \in Trackers
  BY <1>3 DEF Init, Trackers, Ring
<1>5. WrittenBelow(tracker, encoder_id)
  <2>1. tracker.storage[0] = 0 /\ encoder_id > 0
    BY <1>2 DEF Init
  <2> QED BY <1>2, <2>1 DEF WrittenBelow
<1>6. tracker.exclusive < encoder_id
  BY <1>2 DEF Init
<1> QED BY <1>1, <1>4, <1>5, <1>6 DEF TrackerInv, RingOK

(* An access, of a command or of a depth attachment.                       *)
TrackOf(stage, write, uav) == Track(enc, tracker, users, need, stage, write, uav)

LEMMA TrackKeeps ==
  ASSUME TrackerInv, NEW stage \in StagesOf(enc), NEW write \in BOOLEAN, NEW uav \in BOOLEAN
  PROVE  LET r == TrackOf(stage, write, uav) IN
           /\ r.tracker \in Trackers /\ r.tracker.exclusive < encoder_id
           /\ WrittenBelow(r.tracker, encoder_id)
           /\ r.enc \in Encoders /\ r.enc.type = enc.type /\ r.enc.id = enc.id
<1> USE Lanes
<1> DEFINE id == IdOf(enc, stage)
           a == track(tracker, stage, id, write, uav)
           r == TrackOf(stage, write, uav)
<1>1. /\ encoder_id \in Nat /\ enc \in Encoders /\ id \in Nat /\ id < encoder_id
      /\ stage \in {"compute", "vertex", "pixel"}
      /\ tracker \in Trackers /\ tracker.exclusive < encoder_id
      /\ WrittenBelow(tracker, encoder_id)
  BY DEF TrackerInv, PassOK, RingOK, Encoders, StagesOf, IdOf
<1> HIDE DEF id
<1>2. ResultOK(tracker, a, id)
  BY <1>1, TrackOK
<1> DEFINE e == IF stage = "vertex"
                THEN [enc EXCEPT !.fence_wait_vertex = @ \cup Slots(a.waits)]
                ELSE [enc EXCEPT !.fence_wait = @ \cup Slots(a.waits)]
<1>3. r.tracker = a.tracker /\ r.enc = [e EXCEPT !.barrier = @ \cup a.barrier]
  BY DEF TrackOf, Track, id
<1> HIDE DEF a, r
<1>4. Slots(a.waits) \subseteq Fences
  BY <1>2 DEF Slots, Slot, Fences, ResultOK
<1>5. e \in Encoders /\ e.type = enc.type /\ e.id = enc.id
  BY <1>1, <1>4 DEF Encoders
<1> HIDE DEF e
<1>6. r.enc \in Encoders /\ r.enc.type = enc.type /\ r.enc.id = enc.id
  BY <1>2, <1>3, <1>5 DEF Encoders, ResultOK
<1>7. r.tracker \in Trackers /\ r.tracker.exclusive < encoder_id
  BY <1>1, <1>2, <1>3 DEF ResultOK
<1>8. WrittenBelow(r.tracker, encoder_id)
  BY <1>1, <1>2, <1>3, RingKept DEF ResultOK
<1> QED BY <1>6, <1>7, <1>8 DEF r

LEMMA TrackerNext == TrackerInv /\ [Next]_vars => TrackerInv'
<1> SUFFICES ASSUME TrackerInv, [Next]_vars PROVE TrackerInv'
  OBVIOUS
<1> USE Lanes
<1>1. ASSUME NEW type \in {"plain", "render"}, NEW n \in {1, 2}, NewPass(type, n),
             type = "plain" => n = 1, type = "render" => n = 2
      PROVE  TrackerInv'
  <2>1. /\ encoder_id' = encoder_id + n /\ tracker' = tracker
        /\ enc' = [NoEncoder EXCEPT !.type = type, !.id = encoder_id + n - 1]
    BY <1>1 DEF NewPass
  <2>2. /\ encoder_id \in Nat /\ encoder_id >= kParityLane
        /\ n \in Nat /\ n >= 1 /\ ((type = "plain" /\ n = 1) \/ (type = "render" /\ n = 2))
    BY <1>1 DEF TrackerInv, PassOK
  <2>3. PassOK'
    <3>1. enc' = [type |-> type, id |-> encoder_id + n - 1, fence_wait |-> {},
                  fence_wait_vertex |-> {}, barrier |-> {}]
      BY <2>1 DEF NoEncoder
    <3>2. enc' \in Encoders
      BY <2>2, <3>1 DEF Encoders
    <3>3. enc'.type = type /\ enc'.id = encoder_id + n - 1
      BY <3>1
    <3> QED BY <2>1, <2>2, <3>2, <3>3 DEF PassOK
  <2>4. RingOK'
    <3>1. tracker \in Trackers /\ tracker.storage \in [Ring -> Nat] /\ tracker.cursor \in Ring
      BY DEF TrackerInv, RingOK, Trackers
    <3>2. WrittenBelow(tracker, encoder_id + n)
      <4>1. WrittenBelow(tracker, encoder_id)
        BY DEF TrackerInv, RingOK
      <4>2. \A i \in Ring : tracker.storage[i] \in Nat
        BY <3>1
      <4>3. \A i \in Ring : tracker.storage[i] < encoder_id => tracker.storage[i] < encoder_id + n
        BY <2>2, <4>2
      <4>4. \A i \in 0 .. tracker.cursor : i \in Ring
        BY <3>1 DEF Ring
      <4> QED BY <4>1, <4>3, <4>4 DEF WrittenBelow
    <3> QED BY <2>1, <2>2, <3>1, <3>2 DEF TrackerInv, RingOK, Trackers, WrittenBelow
  <2> QED BY <2>3, <2>4 DEF TrackerInv
<1>2. ASSUME NEW stage, NEW write \in BOOLEAN, NEW uav \in BOOLEAN, Access(stage, write, uav)
      PROVE  TrackerInv'
  <2>1. /\ stage \in StagesOf(enc) /\ encoder_id' = encoder_id
        /\ enc' = TrackOf(stage, write, uav).enc
        /\ tracker' = TrackOf(stage, write, uav).tracker
    BY <1>2 DEF Access, TrackOf
  <2> QED BY <2>1, TrackKeeps DEF TrackerInv, PassOK, RingOK, WrittenBelow
<1>3. ASSUME encoder_id' = encoder_id, tracker' = tracker, enc' \in Encoders,
             enc'.type \in {"none", enc.type}, enc'.type = "none" \/ enc'.id = enc.id
      PROVE  TrackerInv'
  BY <1>3 DEF TrackerInv, PassOK, RingOK, WrittenBelow
<1>4. ASSUME NEW emitted, Command(emitted) PROVE TrackerInv'
  <2>1. enc' = [enc EXCEPT !.barrier = {b \in @ : b[1] \notin emitted}]
        /\ encoder_id' = encoder_id /\ tracker' = tracker
    BY <1>4 DEF Command
  <2>2. enc \in Encoders
    BY DEF TrackerInv, PassOK
  <2>3. enc' \in Encoders /\ enc'.type = enc.type /\ enc'.id = enc.id
    BY <2>1, <2>2 DEF Encoders
  <2> QED BY <1>3, <2>1, <2>3
<1>5. CASE Dispatch
  BY <1>4, <1>5 DEF Dispatch
<1>6. CASE Draw
  <2>1. CASE "PreRasterAfterFragmentSet" \in Emitted
    <3>1. enc' = [enc EXCEPT !.barrier = {}] /\ encoder_id' = encoder_id /\ tracker' = tracker
      BY <1>6, <2>1 DEF Draw
    <3>2. enc \in Encoders
      BY DEF TrackerInv, PassOK
    <3>3. enc' \in Encoders /\ enc'.type = enc.type /\ enc'.id = enc.id
      BY <3>1, <3>2 DEF Encoders
    <3> QED BY <1>3, <3>1, <3>3
  <2> QED BY <1>4, <1>6, <2>1 DEF Draw
<1>7. NoEncoder \in Encoders /\ NoEncoder.type = "none"
  BY DEF NoEncoder, Encoders
<1>8. CASE EndPlainPass
  BY <1>3, <1>7, <1>8 DEF EndPlainPass
<1>9. ASSUME NEW depth \in BOOLEAN, EndRenderPass(depth) PROVE TrackerInv'
  <2>1. encoder_id' = encoder_id /\ enc' = NoEncoder /\ "pixel" \in StagesOf(enc)
    BY <1>9 DEF EndRenderPass, StagesOf
  <2>2. tracker' = tracker \/ tracker' = TrackOf("pixel", TRUE, FALSE).tracker
    BY <1>9 DEF EndRenderPass, TrackOf
  <2>3. CASE tracker' = tracker
    BY <1>3, <1>7, <2>1, <2>3
  <2>4. CASE tracker' = TrackOf("pixel", TRUE, FALSE).tracker
    BY <1>7, <2>1, <2>4, TrackKeeps DEF TrackerInv, PassOK, RingOK, WrittenBelow
  <2> QED BY <2>2, <2>3, <2>4
<1>10. CASE UNCHANGED vars
  BY <1>3, <1>10 DEF vars, tracking, TrackerInv, PassOK
<1>11. CASE startComputePass
  BY <1>1, <1>11 DEF startComputePass
<1>12. CASE startRenderPass
  BY <1>1, <1>12 DEF startRenderPass
<1> QED BY <1>2, <1>5, <1>6, <1>8, <1>9, <1>10, <1>11, <1>12 DEF Next, Uavs

(* The invariant of the pass, its ids and the ring of the tracker.         *)
THEOREM TrackerInvariance == Spec => []TrackerInv
<1>1. Init => TrackerInv
  BY TrackerInit
<1>2. TrackerInv /\ [Next]_vars => TrackerInv'
  BY TrackerNext
<1> QED BY <1>1, <1>2, PTL DEF Spec

(* TrackingSet and GenericAccessTracker never meet an id from the future,  *)
(* nor an entry of the ring that was never written.                        *)
THEOREM TrackerAssertions == Spec => []AssertionsHold
BY TrackerInvariance, InvCoversAssertions, PTL

-----------------------------------------------------------------------------
(* Barriers inside a pass.                                                 *)

vv == <<"vertex", "vertex">>
vp == <<"vertex", "pixel">>
pp == <<"pixel", "pixel">>
cc == <<"compute", "compute">>
Omitted == "PreRasterAfterFragmentSet"

LEMMA OrdersOf ==
  /\ Passes = {cc, vv, vp, pp}
  /\ Orders(vv) = {"PreRasterSet"} /\ Orders(cc) = {"Set"} /\ Orders(pp) = {"Set"}
  /\ Orders(vp) = {"PreRasterSet", "FragmentAfterPreRasterSet", "Set"}
  /\ vv[1] = "vertex" /\ vp[1] = "vertex" /\ pp[1] = "pixel" /\ cc[1] = "compute"
  /\ vv[2] = "vertex" /\ vp[2] = "pixel" /\ pp[2] = "pixel" /\ cc[2] = "compute"
BY DEF Orders, Passes, vv, vp, pp, cc

(* The barriers an access raises.                                          *)
Raised(r) == {b[1] : b \in r.barrier}

(* What is left behind after an access, u, was left behind before, s, and  *)
(* is not ordered by a barrier that was raised, or is the access.          *)
ReadLeaves(s, u, cut, own) ==
  (TRUE \in u => TRUE \in s /\ ~cut) /\ (u # {} => s # {} \/ own)
WriteLeaves(s, u, cut, own) ==
  (TRUE \in u => TRUE \in s \/ own) /\ (u # {} => (s # {} /\ ~cut) \/ TRUE \in s \/ own)

LEMMA RaisedBit ==
  ASSUME NEW r, NEW set, NEW type, <<set, type>> \in r.barrier
  PROVE  set \in Raised(r)
<1>1. <<set, type>>[1] = set
  OBVIOUS
<1> QED BY <1>1 DEF Raised

LEMMA VertexReadKnown ==
  ASSUME NEW t \in Trackers, NEW i \in Nat, NEW VV, NEW VP, NEW PP, NEW VV2, NEW VP2, NEW PP2,
         i > 0, RenderKnown(t, i, VV, VP, PP),
         NEW n, n = Raised(accessSharedPreRaster(t, i - 1)), Omitted \notin n,
         ReadLeaves(VV, VV2, "PreRasterSet" \in n, TRUE),
         ReadLeaves(VP, VP2, n \cap Orders(vp) # {}, TRUE),
         ReadLeaves(PP, PP2, "Set" \in n, FALSE)
  PROVE  /\ RenderKnown(accessSharedPreRaster(t, i - 1).tracker, i, VV2, VP2, PP2)
         /\ "PreRasterSet" \in n \/ TRUE \notin VV
<1> DEFINE s == [t EXCEPT !.isSharedPreRaster = TRUE]
           r == accessSharedPreRaster(t, i - 1)
<1>1. /\ s.exclusive = t.exclusive /\ s.storage = t.storage /\ s.cursor = t.cursor
      /\ s.isShared = t.isShared /\ s.isSharedPreRaster = TRUE /\ s \in Trackers
      /\ s.lastWriteFromPreRaster = t.lastWriteFromPreRaster /\ t.exclusive \in Nat
      /\ i - 1 \in Nat /\ i - 1 + 1 = i /\ i - 1 # i
  <2>1. i - 1 \in Nat /\ i - 1 + 1 = i /\ i - 1 # i
    OBVIOUS
  <2> QED BY <2>1 DEF Trackers
<1>2. CASE t.exclusive = i
  <2>1. ~t.isSharedPreRaster /\ ~t.lastWriteFromPreRaster
    BY <1>2 DEF RenderKnown, PixelWrittenKnown
  <2>2. <<Omitted, "RW">> \in r.barrier
    BY <1>1, <1>2, <2>1 DEF accessSharedPreRaster, Result, Bits, Omitted
  <2> QED BY <2>2, RaisedBit
<1>3. CASE t.exclusive = i - 1
  <2>1. r.tracker = s
    BY <1>1, <1>3 DEF accessSharedPreRaster, Result
  <2>2. CASE ~t.isSharedPreRaster
    <3>1. <<"PreRasterSet", "RW">> \in r.barrier
      BY <1>1, <1>3, <2>2 DEF accessSharedPreRaster, Result, Bits
    <3>2. "PreRasterSet" \in n
      BY <3>1, RaisedBit
    <3>3. n \cap Orders(vp) # {}
      BY <3>2, OrdersOf
    <3>4. VertexWrittenKnown(s, VV2, VP2, PP2)
      BY <1>1, <1>3, <3>2, <3>3 DEF RenderKnown, VertexWrittenKnown, ReadLeaves
    <3> HIDE DEF s, r
    <3> QED BY <1>1, <1>3, <2>1, <3>2, <3>4 DEF RenderKnown, r
  <2>3. CASE t.isSharedPreRaster
    <3>1. TRUE \notin VV /\ VertexWrittenKnown(s, VV2, VP2, PP2)
      BY <1>1, <1>3, <2>3 DEF RenderKnown, VertexWrittenKnown, ReadLeaves
    <3> HIDE DEF s, r
    <3> QED BY <1>1, <1>3, <2>1, <3>1 DEF RenderKnown, r
  <2> QED BY <2>2, <2>3
<1>4. CASE t.exclusive \notin {i - 1, i}
  <2>1. UnwrittenKnown(t, i, VV, VP, PP)
    BY <1>4 DEF RenderKnown
  <2>2. TRUE \notin VV2 /\ TRUE \notin VP2 /\ TRUE \notin PP2 /\ (PP2 # {} => PP # {}) /\ TRUE \notin VV
    BY <2>1 DEF UnwrittenKnown, ReadLeaves
  <2>3. SUFFICES UnwrittenKnown(r.tracker, i, VV2, VP2, PP2) /\ r.tracker.exclusive = t.exclusive
    BY <1>4, <2>2 DEF RenderKnown
  <2>4. CASE isLastAccess(t, i)
    <3>1. r.tracker = t \/ r.tracker = s
      BY <1>1, <1>4, <2>4 DEF accessSharedPreRaster, Result, Nothing
    <3>2. r.tracker.isSharedPreRaster
      <4>1. CASE t.isSharedPreRaster
        BY <1>1, <3>1, <4>1
      <4>2. CASE ~t.isSharedPreRaster
        <5>1. isLastAccess(t, i - 1 + 1) /\ ~isLastAccess(t, i - 1)
          BY <1>1, <2>4 DEF isLastAccess
        <5>2. r = Result(s, Recent(t, i - 1), {})
          BY <1>1, <1>4, <4>2, <5>1 DEF accessSharedPreRaster
        <5> HIDE DEF s, r
        <5> QED BY <1>1, <5>2 DEF Result
      <4> QED BY <4>1, <4>2
    <3> HIDE DEF s, r
    <3>3. /\ r.tracker.storage = t.storage /\ r.tracker.cursor = t.cursor
          /\ r.tracker.isShared = t.isShared /\ r.tracker.exclusive = t.exclusive
      BY <1>1, <3>1
    <3> QED BY <2>1, <2>2, <2>4, <3>2, <3>3 DEF UnwrittenKnown, isLastAccess
  <2>5. CASE ~isLastAccess(t, i) /\ isLastAccess(t, i - 1)
    <3>1. r.tracker = t
      BY <1>1, <1>4, <2>5 DEF accessSharedPreRaster, Result, Nothing
    <3> HIDE DEF s, r
    <3> QED BY <2>1, <2>2, <2>5, <3>1 DEF UnwrittenKnown
  <2>6. CASE ~isLastAccess(t, i) /\ ~isLastAccess(t, i - 1)
    <3>1. PP2 = {}
      BY <2>1, <2>2, <2>6 DEF UnwrittenKnown
    <3>2. r.tracker = [add(s, i - 1) EXCEPT !.isShared = FALSE]
      BY <1>1, <1>4, <2>6 DEF accessSharedPreRaster, Result
    <3> HIDE DEF s, r
    <3>3. /\ add(s, i - 1).isSharedPreRaster = TRUE /\ add(s, i - 1).exclusive = t.exclusive
          /\ add(s, i - 1).storage[add(s, i - 1).cursor] = i - 1 /\ add(s, i - 1) \in Trackers
      BY <1>1, AddResult
    <3>4. /\ r.tracker.isSharedPreRaster = TRUE /\ r.tracker.isShared = FALSE
          /\ r.tracker.storage[r.tracker.cursor] = i - 1 /\ r.tracker.exclusive = t.exclusive
      BY <3>2, <3>3 DEF Trackers
    <3> QED BY <1>1, <2>2, <3>1, <3>4 DEF UnwrittenKnown, isLastAccess
  <2> QED BY <2>4, <2>5, <2>6
<1> QED BY <1>2, <1>3, <1>4

LEMMA VertexWriteKnown ==
  ASSUME NEW t \in Trackers, NEW i \in Nat, NEW VV, NEW VP, NEW PP, NEW VV2, NEW VP2, NEW PP2,
         NEW uav \in BOOLEAN, i > 0, RenderKnown(t, i, VV, VP, PP),
         NEW n, n = Raised(accessExclusivePreRaster(t, i - 1, uav)), Omitted \notin n,
         WriteLeaves(PP, PP2, "Set" \in n, FALSE)
  PROVE  /\ RenderKnown(accessExclusivePreRaster(t, i - 1, uav).tracker, i, VV2, VP2, PP2)
         /\ "PreRasterSet" \in n \/ VV = {}
<1> DEFINE r == accessExclusivePreRaster(t, i - 1, uav)
           s == [Unread(t) EXCEPT !.exclusive = i - 1]
           reads == AfterReads(t, "PreRasterSet", Omitted)
<1>1. i - 1 \in Nat /\ i - 1 + 1 = i /\ i - 1 # i
  OBVIOUS
<1>2. /\ ~t.isSharedPreRaster \/ <<"PreRasterSet", "RW">> \in reads
      /\ ~t.isShared \/ <<Omitted, "RW">> \in reads
  BY DEF AfterReads, Bits
<1>3. /\ s.isShared = FALSE /\ s.isSharedPreRaster = FALSE /\ s.exclusive = i - 1
      /\ s \in Trackers
  BY <1>1, UnreadResult DEF Trackers
<1>4. /\ r.tracker.isShared = FALSE /\ r.tracker.isSharedPreRaster = FALSE
      /\ r.tracker.exclusive = i - 1
  <2>1. r.tracker \in {s, [s EXCEPT !.lastWriteFromPreRaster = TRUE], clear(s)}
    BY DEF accessExclusivePreRaster, Result
  <2> HIDE DEF s, r
  <2> QED BY <1>1, <1>3, <2>1, ClearResult DEF Trackers
<1>5. SUFFICES PP = {} /\ ("PreRasterSet" \in n \/ VV = {})
  <2> SUFFICES ASSUME PP = {} PROVE RenderKnown(r.tracker, i, VV2, VP2, PP2)
    OBVIOUS
  <2>1. PP2 = {}
    BY DEF WriteLeaves
  <2> HIDE DEF r
  <2> QED BY <1>1, <1>4, <2>1 DEF RenderKnown, VertexWrittenKnown
<1>6. CASE t.exclusive = i
  <2>1. ~t.isSharedPreRaster /\ ~t.lastWriteFromPreRaster
    BY <1>6 DEF RenderKnown, PixelWrittenKnown
  <2>2. CASE t.isShared
    <3>1. r.barrier = reads
      BY <1>1, <1>6, <2>2 DEF accessExclusivePreRaster, Result, IsUnread, Omitted
    <3> HIDE DEF r, reads
    <3> QED BY <1>2, <2>2, <3>1, RaisedBit DEF r
  <2>3. CASE ~t.isShared
    <3>1. <<Omitted, Type(uav)>> \in r.barrier
      BY <1>1, <1>6, <2>1, <2>3 DEF accessExclusivePreRaster, Result, IsUnread, Omitted
    <3> QED BY <3>1, RaisedBit
  <2> QED BY <2>2, <2>3
<1>7. CASE t.exclusive = i - 1
  <2>1. CASE IsUnread(t)
    <3>1. <<"PreRasterSet", Type(uav)>> \in r.barrier
      BY <1>1, <1>7, <2>1 DEF accessExclusivePreRaster, Result
    <3>2. "PreRasterSet" \in n
      BY <3>1, RaisedBit
    <3> QED BY <1>1, <1>7, <2>1, <3>2 DEF RenderKnown, VertexWrittenKnown, IsUnread
  <2>2. CASE ~IsUnread(t)
    <3>1. r.barrier = reads
      BY <1>1, <1>7, <2>2 DEF accessExclusivePreRaster, Result, Omitted
    <3> HIDE DEF r, reads
    <3>2. ~t.isShared
      BY <1>2, <3>1, RaisedBit DEF r
    <3>3. "PreRasterSet" \in n
      BY <1>2, <2>2, <3>1, <3>2, RaisedBit DEF r, IsUnread
    <3> QED BY <1>1, <1>7, <3>2, <3>3 DEF RenderKnown, VertexWrittenKnown
  <2> QED BY <2>1, <2>2
<1>8. CASE t.exclusive \notin {i - 1, i}
  <2>1. UnwrittenKnown(t, i, VV, VP, PP)
    BY <1>8 DEF RenderKnown
  <2>2. CASE isLastAccess(t, i) \/ isLastAccess(t, i - 1)
    <3>1. r.barrier = reads
      BY <1>1, <1>8, <2>2 DEF accessExclusivePreRaster, Result, Omitted
    <3> HIDE DEF r, reads
    <3>2. ~t.isShared
      BY <1>2, <3>1, RaisedBit DEF r
    <3>3. "PreRasterSet" \in n \/ ~t.isSharedPreRaster
      BY <1>2, <3>1, RaisedBit DEF r
    <3> QED BY <2>1, <3>2, <3>3 DEF UnwrittenKnown
  <2> QED BY <2>1, <2>2 DEF UnwrittenKnown
<1> QED BY <1>6, <1>7, <1>8

LEMMA PixelReadKnown ==
  ASSUME NEW t \in Trackers, NEW i \in Nat, NEW VV, NEW VP, NEW PP, NEW VV2, NEW VP2, NEW PP2,
         i > 0, RenderKnown(t, i, VV, VP, PP),
         NEW n, n = Raised(accessSharedFragment(t, i)),
         ReadLeaves(VV, VV2, "PreRasterSet" \in n, FALSE),
         ReadLeaves(VP, VP2, n \cap Orders(vp) # {}, FALSE),
         ReadLeaves(PP, PP2, "Set" \in n, TRUE)
  PROVE  /\ RenderKnown(accessSharedFragment(t, i).tracker, i, VV2, VP2, PP2)
         /\ n \cap Orders(vp) # {} \/ TRUE \notin VP
         /\ "Set" \in n \/ TRUE \notin PP
<1> DEFINE s == [t EXCEPT !.isShared = TRUE]
           r == accessSharedFragment(t, i)
<1>1. /\ s.exclusive = t.exclusive /\ s.storage = t.storage /\ s.cursor = t.cursor
      /\ s.isSharedPreRaster = t.isSharedPreRaster /\ s.isShared = TRUE /\ s \in Trackers
      /\ s.lastWriteFromPreRaster = t.lastWriteFromPreRaster
  BY DEF Trackers
<1>2. i - 1 \in Nat /\ i - 1 # i
  OBVIOUS
<1>3. CASE t.exclusive = i
  <2>1. r.tracker = s
    BY <1>3 DEF accessSharedFragment, Result
  <2>2. PixelWrittenKnown(t, VP, PP)
    BY <1>3 DEF RenderKnown
  <2>3. CASE ~t.isShared
    <3>1. <<"Set", "RW">> \in r.barrier
      BY <1>3, <2>2, <2>3 DEF accessSharedFragment, Result, Bits, PixelWrittenKnown
    <3>2. "Set" \in n
      BY <3>1, RaisedBit
    <3>3. n \cap Orders(vp) # {}
      BY <3>2, OrdersOf
    <3> HIDE DEF s, r
    <3>4. PixelWrittenKnown(s, VP2, PP2)
      BY <1>1, <2>2, <3>2, <3>3 DEF PixelWrittenKnown, ReadLeaves
    <3> QED BY <1>1, <1>2, <1>3, <2>1, <3>2, <3>3, <3>4 DEF RenderKnown, r
  <2>4. CASE t.isShared
    <3> HIDE DEF s, r
    <3>1. PixelWrittenKnown(s, VP2, PP2) /\ TRUE \notin VP /\ TRUE \notin PP
      BY <1>1, <2>2, <2>4 DEF PixelWrittenKnown, ReadLeaves
    <3> QED BY <1>1, <1>2, <1>3, <2>1, <3>1 DEF RenderKnown, r
  <2> QED BY <2>3, <2>4
<1>4. CASE t.exclusive = i - 1
  <2>1. r.tracker = s
    BY <1>2, <1>4 DEF accessSharedFragment, Result
  <2>2. VertexWrittenKnown(t, VV, VP, PP)
    BY <1>4 DEF RenderKnown
  <2>3. n \cap Orders(vp) # {} \/ TRUE \notin VP
    <3>1. CASE ~t.isShared /\ ~t.isSharedPreRaster
      <4>1. <<"FragmentAfterPreRasterSet", "RW">> \in r.barrier
        BY <1>2, <1>4, <3>1 DEF accessSharedFragment, Result, Bits
      <4>2. "FragmentAfterPreRasterSet" \in n
        BY <4>1, RaisedBit
      <4> QED BY <4>2, OrdersOf
    <3> QED BY <2>2, <3>1 DEF VertexWrittenKnown
  <2> HIDE DEF s, r
  <2>4. VertexWrittenKnown(s, VV2, VP2, PP2)
    BY <1>1, <2>2, <2>3 DEF VertexWrittenKnown, ReadLeaves
  <2> QED BY <1>1, <1>2, <1>4, <2>1, <2>2, <2>3, <2>4 DEF RenderKnown, VertexWrittenKnown, r
<1>5. CASE t.exclusive \notin {i - 1, i}
  <2>1. UnwrittenKnown(t, i, VV, VP, PP)
    BY <1>5 DEF RenderKnown
  <2>2. /\ TRUE \notin VV2 /\ TRUE \notin VP2 /\ TRUE \notin PP2 /\ TRUE \notin VP /\ TRUE \notin PP
        /\ (VV2 # {} => VV # {}) /\ (VP2 # {} => VP # {})
    BY <2>1 DEF UnwrittenKnown, ReadLeaves
  <2>3. SUFFICES UnwrittenKnown(r.tracker, i, VV2, VP2, PP2) /\ r.tracker.exclusive = t.exclusive
    BY <1>5, <2>2 DEF RenderKnown
  <2>4. CASE isLastAccess(t, i)
    <3>1. r.tracker = t
      BY <1>5, <2>4 DEF accessSharedFragment, Result, Nothing
    <3> HIDE DEF s, r
    <3> QED BY <2>1, <2>2, <2>4, <3>1 DEF UnwrittenKnown
  <2>5. CASE ~isLastAccess(t, i)
    <3> DEFINE a == add(s, i)
    <3>1. r.tracker = [a EXCEPT !.isSharedPreRaster = @ /\ isLastAccess(t, i - 1)]
      BY <1>2, <1>5, <2>5 DEF accessSharedFragment, Result
    <3> HIDE DEF s, r
    <3>2. /\ a \in Trackers /\ a.exclusive = t.exclusive /\ a.isShared = TRUE
          /\ a.isSharedPreRaster = t.isSharedPreRaster /\ a.storage[a.cursor] = i
      BY <1>1, AddResult
    <3> HIDE DEF a
    <3>3. /\ r.tracker.exclusive = t.exclusive /\ r.tracker.isShared = TRUE
          /\ r.tracker.storage[r.tracker.cursor] = i
      BY <3>1, <3>2 DEF Trackers
    <3>4. t.isSharedPreRaster /\ isLastAccess(t, i - 1) => r.tracker.isSharedPreRaster
      BY <3>1, <3>2 DEF Trackers
    <3>5. VV2 # {} \/ VP2 # {} => r.tracker.isSharedPreRaster
      BY <2>1, <2>2, <2>5, <3>4 DEF UnwrittenKnown
    <3> QED BY <1>2, <2>2, <3>3, <3>5 DEF UnwrittenKnown, isLastAccess
  <2> QED BY <2>4, <2>5
<1> QED BY <1>3, <1>4, <1>5

LEMMA PixelWritten ==
  ASSUME NEW t \in Trackers, NEW i \in Nat, NEW uav \in BOOLEAN
  PROVE  \A VV, VP, PP :
           RenderKnown(accessExclusiveFragment(t, i, uav).tracker, i, VV, VP, PP)
<1> DEFINE r == accessExclusiveFragment(t, i, uav)
           s == [Unread(t) EXCEPT !.exclusive = i, !.lastWriteFromPreRaster = FALSE]
<1>1. i - 1 # i
  OBVIOUS
<1>2. /\ s.isShared = FALSE /\ s.isSharedPreRaster = FALSE /\ s.exclusive = i
      /\ s.lastWriteFromPreRaster = FALSE /\ s \in Trackers
  BY <1>1, UnreadResult DEF Trackers
<1>3. /\ r.tracker.isShared = FALSE /\ r.tracker.isSharedPreRaster = FALSE
      /\ r.tracker.lastWriteFromPreRaster = FALSE /\ r.tracker.exclusive = i
  <2>1. r.tracker \in {s, clear(s)}
    BY DEF accessExclusiveFragment, Result
  <2> HIDE DEF s, r
  <2> QED BY <1>1, <1>2, <2>1, ClearResult
<1> HIDE DEF r
<1> QED BY <1>1, <1>3 DEF RenderKnown, PixelWrittenKnown, r

LEMMA PixelWriteKnown ==
  ASSUME NEW t \in Trackers, NEW i \in Nat, NEW VV, NEW VP, NEW PP,
         NEW uav \in BOOLEAN, i > 0, RenderKnown(t, i, VV, VP, PP),
         NEW n, n = Raised(accessExclusiveFragment(t, i, uav))
  PROVE  /\ n \cap Orders(vp) # {} \/ VP = {}
         /\ "Set" \in n \/ PP = {}
<1> DEFINE r == accessExclusiveFragment(t, i, uav)
           reads == AfterReads(t, "FragmentAfterPreRasterSet", "Set")
<1>1. i - 1 \in Nat /\ i - 1 # i
  OBVIOUS
<1>2. /\ ~t.isSharedPreRaster \/ <<"FragmentAfterPreRasterSet", "RW">> \in reads
      /\ ~t.isShared \/ <<"Set", "RW">> \in reads
  BY DEF AfterReads, Bits
<1>3. "Set" \in Orders(vp) /\ "FragmentAfterPreRasterSet" \in Orders(vp)
  BY OrdersOf
<1>4. ASSUME r.barrier = reads
      PROVE  (t.isSharedPreRaster \/ t.isShared => n \cap Orders(vp) # {}) /\ (t.isShared => "Set" \in n)
  <2> HIDE DEF r, reads
  <2>1. t.isSharedPreRaster => "FragmentAfterPreRasterSet" \in n
    BY <1>2, <1>4, RaisedBit DEF r
  <2>2. t.isShared => "Set" \in n
    BY <1>2, <1>4, RaisedBit DEF r
  <2> QED BY <1>3, <2>1, <2>2
<1>5. CASE t.exclusive = i
  <2>1. ~t.isSharedPreRaster /\ ~t.lastWriteFromPreRaster
    BY <1>5 DEF RenderKnown, PixelWrittenKnown
  <2>2. "Set" \in n
    <3>1. CASE t.isShared
      <4>1. r.barrier = reads
        BY <1>5, <3>1 DEF accessExclusiveFragment, Result, IsUnread
      <4> QED BY <1>4, <3>1, <4>1
    <3>2. CASE ~t.isShared
      <4>1. <<"Set", Type(uav)>> \in r.barrier
        BY <1>5, <2>1, <3>2 DEF accessExclusiveFragment, Result, IsUnread
      <4> QED BY <4>1, RaisedBit
    <3> QED BY <3>1, <3>2
  <2> QED BY <1>3, <2>2
<1>6. CASE t.exclusive = i - 1
  <2>1. VertexWrittenKnown(t, VV, VP, PP)
    BY <1>6 DEF RenderKnown
  <2>2. CASE IsUnread(t)
    <3>1. <<"FragmentAfterPreRasterSet", Type(uav)>> \in r.barrier
      BY <1>1, <1>6, <2>2 DEF accessExclusiveFragment, Result
    <3>2. "FragmentAfterPreRasterSet" \in n
      BY <3>1, RaisedBit
    <3> QED BY <1>3, <2>1, <2>2, <3>2 DEF VertexWrittenKnown, IsUnread
  <2>3. CASE ~IsUnread(t)
    <3>1. r.barrier = reads
      BY <1>1, <1>6, <2>3 DEF accessExclusiveFragment, Result
    <3> QED BY <1>4, <2>1, <2>3, <3>1 DEF VertexWrittenKnown, IsUnread
  <2> QED BY <2>2, <2>3
<1>7. CASE t.exclusive \notin {i - 1, i}
  <2>1. UnwrittenKnown(t, i, VV, VP, PP)
    BY <1>7 DEF RenderKnown
  <2>2. CASE isLastAccess(t, i) \/ isLastAccess(t, i - 1)
    <3>1. r.barrier = reads
      BY <1>1, <1>7, <2>2 DEF accessExclusiveFragment, Result
    <3> QED BY <1>4, <2>1, <3>1 DEF UnwrittenKnown
  <2> QED BY <2>1, <2>2 DEF UnwrittenKnown
<1> QED BY <1>5, <1>6, <1>7

LEMMA PlainRaises ==
  ASSUME NEW t, NEW id, NEW uav
  PROVE  /\ Raised(accessShared(t, id)) \subseteq {"Set"}
         /\ Raised(accessExclusive(t, id, uav)) \subseteq {"Set"}
<1>1. \A b \in accessShared(t, id).barrier : b[1] = "Set"
  BY DEF accessShared, Result, Nothing, Bits
<1>2. \A b \in accessExclusive(t, id, uav).barrier : b[1] = "Set"
  BY DEF accessExclusive, Result, Bits
<1> QED BY <1>1, <1>2 DEF Raised

LEMMA PlainReadKnown ==
  ASSUME NEW t \in Trackers, NEW id \in Nat, NEW CC, NEW CC2, PlainKnown(t, id, CC),
         NEW n, n = Raised(accessShared(t, id)), ReadLeaves(CC, CC2, "Set" \in n, TRUE)
  PROVE  /\ PlainKnown(accessShared(t, id).tracker, id, CC2)
         /\ "Set" \in n \/ TRUE \notin CC
<1> DEFINE r == accessShared(t, id)
           s == [t EXCEPT !.isShared = TRUE]
<1>1. CASE t.exclusive = id
  <2>1. r.tracker = s /\ s.exclusive = id
    BY <1>1 DEF accessShared, Result, Trackers
  <2>2. "Set" \in n \/ TRUE \notin CC
    <3>1. CASE ~t.isShared
      <4>1. <<"Set", "RW">> \in r.barrier
        BY <1>1, <3>1 DEF accessShared, Result, Bits
      <4> QED BY <4>1, RaisedBit
    <3> QED BY <1>1, <3>1 DEF PlainKnown
  <2> HIDE DEF s, r
  <2> QED BY <2>1, <2>2 DEF PlainKnown, ReadLeaves, r
<1>2. CASE t.exclusive # id
  <2>1. TRUE \notin CC2 /\ TRUE \notin CC
    BY <1>2 DEF PlainKnown, ReadLeaves
  <2>2. r.tracker = IF isLastAccess(t, id) THEN t ELSE add(t, id)
    BY <1>2 DEF accessShared, Result, Nothing
  <2>3. r.tracker.exclusive # id /\ isLastAccess(r.tracker, id)
    <3> HIDE DEF r
    <3> QED BY <1>2, <2>2, AddResult DEF isLastAccess
  <2> HIDE DEF r
  <2> QED BY <2>1, <2>3 DEF PlainKnown, r
<1> QED BY <1>1, <1>2

LEMMA PlainWriteKnown ==
  ASSUME NEW t \in Trackers, NEW id \in Nat, NEW CC, NEW CC2, PlainKnown(t, id, CC),
         NEW uav \in BOOLEAN, NEW n, n = Raised(accessExclusive(t, id, uav))
  PROVE  /\ PlainKnown(accessExclusive(t, id, uav).tracker, id, CC2)
         /\ "Set" \in n \/ CC = {}
<1> DEFINE r == accessExclusive(t, id, uav)
           s == [t EXCEPT !.isShared = FALSE]
<1>1. s \in Trackers /\ s.exclusive = t.exclusive /\ s.isShared = FALSE
  BY DEF Trackers
<1>2. r.tracker.exclusive = id /\ r.tracker.isShared = FALSE
  <2>1. (t.exclusive = id /\ r.tracker = s) \/ r.tracker = [clear(s) EXCEPT !.exclusive = id]
    BY DEF accessExclusive, Result
  <2> HIDE DEF s, r
  <2>2. clear(s) \in Trackers /\ clear(s).isShared = FALSE
    BY <1>1, ClearResult
  <2> QED BY <1>1, <2>1, <2>2 DEF Trackers
<1>3. "Set" \in n \/ CC = {}
  <2>1. CASE t.exclusive = id
    <3>1. <<"Set", Type(uav)>> \in r.barrier
      BY <2>1 DEF accessExclusive, Result
    <3> QED BY <3>1, RaisedBit
  <2>2. CASE t.exclusive # id /\ isLastAccess(t, id)
    <3>1. <<"Set", "RW">> \in r.barrier
      BY <2>2 DEF accessExclusive, Result, Bits
    <3> QED BY <3>1, RaisedBit
  <2> QED BY <2>1, <2>2 DEF PlainKnown
<1> HIDE DEF r, s
<1> QED BY <1>2, <1>3 DEF PlainKnown, r

-----------------------------------------------------------------------------
(* The accesses of a command.                                              *)

Pass(e, stage) == IF stage = "compute" THEN e.type = "plain" ELSE e.type = "render"

(* What an access does to the state, with r what the tracker answered.     *)
AccessBy(stage, write, r) ==
  /\ enc'.type = enc.type /\ enc'.id = enc.id /\ tracker' = r.tracker
  /\ enc'.barrier = enc.barrier \cup r.barrier
  /\ pending' = pending \cup {<<stage, write>>} /\ open' = open /\ omitted' = omitted
  /\ \A a \in pending : a[2] = write

LEMMA AccessIs ==
  ASSUME TrackerInv, NEW stage, NEW write \in BOOLEAN, NEW uav \in BOOLEAN,
         Access(stage, write, uav)
  PROVE  /\ stage \in StagesOf(enc)
         /\ AccessBy(stage, write, track(tracker, stage, IdOf(enc, stage), write, uav))
<1> DEFINE a == track(tracker, stage, IdOf(enc, stage), write, uav)
           e == IF stage = "vertex"
                THEN [enc EXCEPT !.fence_wait_vertex = @ \cup Slots(a.waits)]
                ELSE [enc EXCEPT !.fence_wait = @ \cup Slots(a.waits)]
           r == TrackOf(stage, write, uav)
<1>1. stage \in StagesOf(enc) /\ enc \in Encoders
  BY DEF Access, TrackerInv, PassOK
<1>2. r.tracker = a.tracker /\ r.enc = [e EXCEPT !.barrier = @ \cup a.barrier]
  BY DEF TrackOf, Track
<1>3. /\ enc' = r.enc /\ tracker' = r.tracker /\ pending' = pending \cup {<<stage, write>>}
      /\ open' = open /\ omitted' = omitted /\ \A b \in pending : b[2] = write
  BY DEF Access, TrackOf
<1> HIDE DEF a, r
<1>4. /\ e.type = enc.type /\ e.id = enc.id /\ e.barrier = enc.barrier
      /\ DOMAIN e = {"type", "id", "fence_wait", "fence_wait_vertex", "barrier"}
  BY <1>1 DEF Encoders
<1> HIDE DEF e
<1>5. enc'.type = enc.type /\ enc'.id = enc.id /\ enc'.barrier = enc.barrier \cup a.barrier
  BY <1>2, <1>3, <1>4
<1> QED BY <1>1, <1>2, <1>3, <1>5 DEF AccessBy, a

LEMMA EmittedAfter ==
  ASSUME Control = {}, NEW stage, NEW write \in BOOLEAN, NEW r, AccessBy(stage, write, r)
  PROVE  Emitted' = Emitted \cup Raised(r)
<1>1. enc'.barrier = enc.barrier \cup r.barrier
  BY DEF AccessBy
<1> QED BY <1>1 DEF Emitted, Raised

LEMMA WritesAfter ==
  ASSUME NEW stage, NEW write \in BOOLEAN, NEW r, AccessBy(stage, write, r), NEW st
  PROVE  /\ Writes(st)' = Writes(st) \cup (IF st = stage THEN {write} ELSE {})
         /\ Writes(st) \subseteq {write}
<1>1. pending' = pending \cup {<<stage, write>>} /\ \A a \in pending : a[2] = write
  BY DEF AccessBy
<1>2. Writes(st)' = {a[2] : a \in {a \in pending' : a[1] = st}}
  BY DEF Writes
<1>3. <<stage, write>>[1] = stage /\ <<stage, write>>[2] = write
  OBVIOUS
<1> QED BY <1>1, <1>2, <1>3 DEF Writes

LEMMA ExposedAfter ==
  ASSUME Control = {}, NEW stage, NEW write \in BOOLEAN, NEW r, AccessBy(stage, write, r), NEW p
  PROVE  Exposed(p, Emitted)' = IF Orders(p) \cap Raised(r) # {} THEN {} ELSE Exposed(p, Emitted)
<1>1. Emitted' = Emitted \cup Raised(r) /\ open' = open
  BY EmittedAfter DEF AccessBy
<1>2. Exposed(p, Emitted)' = IF Orders(p) \cap Emitted' # {} THEN {} ELSE open'[p]
  BY DEF Exposed, Orders
<1>3. Exposed(p, Emitted) = IF Orders(p) \cap Emitted # {} THEN {} ELSE open[p]
  BY DEF Exposed
<1> QED BY <1>1, <1>2, <1>3

LEMMA ReadEffect ==
  ASSUME Control = {}, CommandsOK, NEW stage, NEW r, AccessBy(stage, FALSE, r),
         NEW p \in Passes
  PROVE  /\ ReadLeaves(LeftBehind(p), LeftBehind(p)', Raised(r) \cap Orders(p) # {}, p[1] = stage)
         /\ Conflict(Exposed(p, Emitted), Writes(p[2]))' =>
              \/ Conflict(Exposed(p, Emitted), Writes(p[2]))
              \/ p[2] = stage /\ Raised(r) \cap Orders(p) = {} /\ TRUE \in LeftBehind(p)
<1> DEFINE X == Exposed(p, Emitted)
           cut == Orders(p) \cap Raised(r) # {}
<1>1. /\ X' = IF cut THEN {} ELSE X
      /\ Writes(p[1])' = Writes(p[1]) \cup (IF p[1] = stage THEN {FALSE} ELSE {})
      /\ Writes(p[2])' = Writes(p[2]) \cup (IF p[2] = stage THEN {FALSE} ELSE {})
      /\ Writes(p[1]) \subseteq {FALSE} /\ Writes(p[2]) \subseteq {FALSE}
  BY ExposedAfter, WritesAfter
<1>2. LeftBehind(p) = X \cup Writes(p[1]) /\ LeftBehind(p)' = X' \cup Writes(p[1])'
  BY DEF LeftBehind
<1>3. X \subseteq BOOLEAN
  BY DEF CommandsOK, Exposed
<1>4. ReadLeaves(LeftBehind(p), LeftBehind(p)', Raised(r) \cap Orders(p) # {}, p[1] = stage)
  <2> HIDE DEF X
  <2> QED BY <1>1, <1>2 DEF ReadLeaves
<1>5. ASSUME Conflict(X, Writes(p[2]))'
      PROVE  \/ Conflict(X, Writes(p[2]))
             \/ p[2] = stage /\ Raised(r) \cap Orders(p) = {} /\ TRUE \in LeftBehind(p)
  <2>1. PICK a \in X', b \in Writes(p[2])' : a \/ b
    BY <1>5 DEF Conflict
  <2> HIDE DEF X
  <2>2. ~cut /\ a \in X
    BY <1>1, <2>1
  <2>3. b = FALSE
    BY <1>1, <2>1
  <2>4. a
    BY <2>1, <2>3
  <2>5. CASE b \in Writes(p[2])
    BY <2>1, <2>2, <2>5 DEF Conflict
  <2>6. CASE p[2] = stage
    <3>1. a \in BOOLEAN
      BY <1>3, <2>2
    <3>2. a = TRUE
      BY <2>4, <3>1
    <3> QED BY <1>2, <2>2, <2>6, <3>2
  <2> QED BY <1>1, <2>1, <2>5, <2>6
<1> QED BY <1>4, <1>5

LEMMA WriteEffect ==
  ASSUME Control = {}, NEW stage, NEW r, AccessBy(stage, TRUE, r), NEW p \in Passes
  PROVE  /\ WriteLeaves(LeftBehind(p), LeftBehind(p)', Raised(r) \cap Orders(p) # {}, p[1] = stage)
         /\ Conflict(Exposed(p, Emitted), Writes(p[2]))' =>
              \/ Conflict(Exposed(p, Emitted), Writes(p[2]))
              \/ p[2] = stage /\ Raised(r) \cap Orders(p) = {} /\ LeftBehind(p) # {}
<1> DEFINE X == Exposed(p, Emitted)
           cut == Orders(p) \cap Raised(r) # {}
<1>1. /\ X' = IF cut THEN {} ELSE X
      /\ Writes(p[1])' = Writes(p[1]) \cup (IF p[1] = stage THEN {TRUE} ELSE {})
      /\ Writes(p[2])' = Writes(p[2]) \cup (IF p[2] = stage THEN {TRUE} ELSE {})
      /\ Writes(p[1]) \subseteq {TRUE} /\ Writes(p[2]) \subseteq {TRUE}
  BY ExposedAfter, WritesAfter
<1>2. LeftBehind(p) = X \cup Writes(p[1]) /\ LeftBehind(p)' = X' \cup Writes(p[1])'
  BY DEF LeftBehind
<1>3. WriteLeaves(LeftBehind(p), LeftBehind(p)', Raised(r) \cap Orders(p) # {}, p[1] = stage)
  <2> HIDE DEF X
  <2> QED BY <1>1, <1>2 DEF WriteLeaves
<1>4. ASSUME Conflict(X, Writes(p[2]))'
      PROVE  \/ Conflict(X, Writes(p[2]))
             \/ p[2] = stage /\ Raised(r) \cap Orders(p) = {} /\ LeftBehind(p) # {}
  <2>1. PICK a \in X', b \in Writes(p[2])' : a \/ b
    BY <1>4 DEF Conflict
  <2> HIDE DEF X
  <2>2. ~cut /\ a \in X
    BY <1>1, <2>1
  <2>3. CASE b \in Writes(p[2])
    BY <2>1, <2>2, <2>3 DEF Conflict
  <2>4. CASE p[2] = stage
    BY <1>2, <2>2, <2>4
  <2> QED BY <1>1, <2>1, <2>3, <2>4
<1> QED BY <1>3, <1>4

LEMMA AccessBarriers ==
  ASSUME Control = {}, TrackerInv, BarrierInv, NEW stage, NEW write \in BOOLEAN,
         NEW uav \in BOOLEAN, Access(stage, write, uav)
  PROVE  BarrierInv'
<1> DEFINE id == IdOf(enc, stage)
           r == track(tracker, stage, id, write, uav)
           n == Raised(r)
<1>1. stage \in StagesOf(enc) /\ AccessBy(stage, write, r)
  BY AccessIs
<1>2. /\ tracker \in Trackers /\ enc.id \in Nat /\ enc.type \in {"none", "plain", "render"}
      /\ (enc.type = "plain" /\ stage = "compute" /\ id = enc.id)
           \/ (enc.type = "render" /\ stage = "vertex" /\ id = enc.id - 1 /\ enc.id > 0)
           \/ (enc.type = "render" /\ stage = "pixel" /\ id = enc.id /\ enc.id > 0)
  BY <1>1, Lanes DEF TrackerInv, PassOK, RingOK, Encoders, StagesOf, IdOf
<1>3. /\ enc'.type = enc.type /\ enc'.id = enc.id /\ tracker' = r.tracker
      /\ omitted' = omitted /\ open' = open
      /\ pending' = pending \cup {<<stage, write>>} /\ \A a \in pending : a[2] = write
  BY <1>1 DEF AccessBy
<1>4. CommandsOK'
  <2>1. StagesOf(enc') = StagesOf(enc)
    BY <1>3 DEF StagesOf
  <2>2. <<stage, write>>[1] = stage /\ <<stage, write>>[2] = write
    OBVIOUS
  <2>3. enc'.type = "plain" => Emitted' \subseteq {"Set"}
    <3>1. SUFFICES ASSUME enc.type = "plain" PROVE n \subseteq {"Set"}
      <4> HIDE DEF n
      <4> QED BY <1>1, <1>3, <3>1, EmittedAfter DEF BarrierInv, CommandsOK, n
    <3>2. r = IF write THEN accessExclusive(tracker, id, uav) ELSE accessShared(tracker, id)
      BY <1>2, <3>1 DEF track
    <3> HIDE DEF r, id
    <3> QED BY <3>2, PlainRaises
  <2> QED BY <1>1, <1>3, <2>1, <2>2, <2>3 DEF BarrierInv, CommandsOK
<1>5. SUFFICES ASSUME ~omitted, Omitted \notin Emitted' PROVE Separated' /\ PassKnown'
  BY <1>3, <1>4 DEF BarrierInv, Omitted
<1>6. Emitted' = Emitted \cup n
  BY <1>1, EmittedAfter
<1>7. Omitted \notin n /\ Separated /\ PassKnown /\ CommandsOK
  BY <1>5, <1>6 DEF BarrierInv, Omitted
<1> DEFINE L(p) == LeftBehind(p)
<1>8. ASSUME write = FALSE, NEW p \in Passes
      PROVE  /\ ReadLeaves(L(p), L(p)', n \cap Orders(p) # {}, p[1] = stage)
             /\ (p[2] = stage => n \cap Orders(p) # {} \/ TRUE \notin L(p))
                  => ~Conflict(Exposed(p, Emitted), Writes(p[2]))'
  <2>1. AccessBy(stage, FALSE, r)
    BY <1>1, <1>8
  <2> HIDE DEF r
  <2> QED BY <1>7, <1>8, <2>1, ReadEffect DEF Separated
<1>9. ASSUME write = TRUE, NEW p \in Passes
      PROVE  /\ WriteLeaves(L(p), L(p)', n \cap Orders(p) # {}, p[1] = stage)
             /\ (p[2] = stage => n \cap Orders(p) # {} \/ L(p) = {})
                  => ~Conflict(Exposed(p, Emitted), Writes(p[2]))'
  <2>1. AccessBy(stage, TRUE, r)
    BY <1>1, <1>9
  <2> HIDE DEF r
  <2> QED BY <1>7, <1>9, <2>1, WriteEffect DEF Separated
<1>10. vv \in Passes /\ vp \in Passes /\ pp \in Passes /\ cc \in Passes
  BY OrdersOf
<1>11. CASE enc.type = "plain"
  <2>1. PlainKnown(tracker, id, L(cc)) /\ stage = "compute" /\ id = enc.id /\ id \in Nat
    BY <1>2, <1>7, <1>11 DEF PassKnown, cc
  <2>2. SUFFICES PlainKnown(r.tracker, id, L(cc)') /\ \A p \in Passes : p[2] = stage =>
                   IF write THEN n \cap Orders(p) # {} \/ L(p) = {}
                   ELSE n \cap Orders(p) # {} \/ TRUE \notin L(p)
    <3>1. PassKnown'
      BY <1>3, <1>11, <2>1, <2>2 DEF PassKnown, cc
    <3>2. ASSUME NEW p \in Passes PROVE ~Conflict(Exposed(p, Emitted), Writes(p[2]))'
      BY <1>8, <1>9, <2>2, <3>2
    <3> QED BY <3>1, <3>2 DEF Separated
  <2>3. \A p \in Passes : p[2] = stage => p = cc
    BY <2>1, OrdersOf
  <2>4. CASE write = FALSE
    <3>1. r = accessShared(tracker, id)
      BY <2>1, <2>4 DEF track
    <3>2. ReadLeaves(L(cc), L(cc)', "Set" \in n, TRUE)
      BY <1>8, <1>10, <2>1, <2>4, OrdersOf DEF ReadLeaves
    <3> HIDE DEF r, id, L
    <3>3. PlainKnown(r.tracker, id, L(cc)') /\ ("Set" \in n \/ TRUE \notin L(cc))
      BY <1>2, <2>1, <3>1, <3>2, PlainReadKnown
    <3> QED BY <2>3, <2>4, <3>3, OrdersOf
  <2>5. CASE write = TRUE
    <3>1. r = accessExclusive(tracker, id, uav)
      BY <2>1, <2>5 DEF track
    <3> HIDE DEF r, id, L
    <3>2. PlainKnown(r.tracker, id, L(cc)') /\ ("Set" \in n \/ L(cc) = {})
      BY <1>2, <2>1, <3>1, PlainWriteKnown
    <3> QED BY <2>3, <2>5, <3>2, OrdersOf
  <2> QED BY <2>4, <2>5
<1>12. CASE enc.type = "render"
  <2> DEFINE i == enc.id
  <2>1. RenderKnown(tracker, i, L(vv), L(vp), L(pp)) /\ i \in Nat /\ i > 0
    BY <1>2, <1>7, <1>12 DEF PassKnown, vv, vp, pp
  <2>2. SUFFICES /\ RenderKnown(r.tracker, i, L(vv)', L(vp)', L(pp)')
                 /\ \A p \in Passes : p[2] = stage =>
                      IF write THEN n \cap Orders(p) # {} \/ L(p) = {}
                      ELSE n \cap Orders(p) # {} \/ TRUE \notin L(p)
    <3>1. PassKnown'
      BY <1>3, <1>12, <2>1, <2>2 DEF PassKnown, vv, vp, pp
    <3>2. ASSUME NEW p \in Passes PROVE ~Conflict(Exposed(p, Emitted), Writes(p[2]))'
      BY <1>8, <1>9, <2>2, <3>2
    <3> QED BY <3>1, <3>2 DEF Separated
  <2>3. CASE stage = "vertex" /\ write = FALSE
    <3>1. r = accessSharedPreRaster(tracker, i - 1)
      BY <1>2, <2>3 DEF track
    <3>2. /\ ReadLeaves(L(vv), L(vv)', "PreRasterSet" \in n, TRUE)
          /\ ReadLeaves(L(vp), L(vp)', n \cap Orders(vp) # {}, TRUE)
          /\ ReadLeaves(L(pp), L(pp)', "Set" \in n, FALSE)
      BY <1>8, <1>10, <2>3, OrdersOf DEF ReadLeaves
    <3> HIDE DEF r, L, i
    <3>3. /\ RenderKnown(r.tracker, i, L(vv)', L(vp)', L(pp)')
          /\ "PreRasterSet" \in n \/ TRUE \notin L(vv)
      BY <1>2, <1>7, <2>1, <3>1, <3>2, VertexReadKnown
    <3> QED BY <2>3, <3>3, OrdersOf
  <2>4. CASE stage = "vertex" /\ write = TRUE
    <3>1. r = accessExclusivePreRaster(tracker, i - 1, uav)
      BY <1>2, <2>4 DEF track
    <3>2. WriteLeaves(L(pp), L(pp)', "Set" \in n, FALSE)
      BY <1>9, <1>10, <2>4, OrdersOf DEF WriteLeaves
    <3> HIDE DEF r, L, i
    <3>3. /\ RenderKnown(r.tracker, i, L(vv)', L(vp)', L(pp)')
          /\ "PreRasterSet" \in n \/ L(vv) = {}
      BY <1>2, <1>7, <2>1, <3>1, <3>2, VertexWriteKnown
    <3> QED BY <2>4, <3>3, OrdersOf
  <2>5. CASE stage = "pixel" /\ write = FALSE
    <3>1. r = accessSharedFragment(tracker, i)
      BY <1>2, <2>5 DEF track
    <3>2. /\ ReadLeaves(L(vv), L(vv)', "PreRasterSet" \in n, FALSE)
          /\ ReadLeaves(L(vp), L(vp)', n \cap Orders(vp) # {}, FALSE)
          /\ ReadLeaves(L(pp), L(pp)', "Set" \in n, TRUE)
      BY <1>8, <1>10, <2>5, OrdersOf DEF ReadLeaves
    <3> HIDE DEF r, L, i
    <3>3. /\ RenderKnown(r.tracker, i, L(vv)', L(vp)', L(pp)')
          /\ n \cap Orders(vp) # {} \/ TRUE \notin L(vp)
          /\ "Set" \in n \/ TRUE \notin L(pp)
      BY <1>2, <2>1, <3>1, <3>2, PixelReadKnown
    <3> QED BY <2>5, <3>3, OrdersOf
  <2>6. CASE stage = "pixel" /\ write = TRUE
    <3>1. r = accessExclusiveFragment(tracker, i, uav)
      BY <1>2, <2>6 DEF track
    <3> HIDE DEF r, L, i
    <3>2. n = Raised(accessExclusiveFragment(tracker, i, uav)) /\ tracker \in Trackers
      BY <1>2, <3>1
    <3> HIDE DEF n
    <3>3. n \cap Orders(vp) # {} \/ L(vp) = {}
      BY <2>1, <3>2, PixelWriteKnown
    <3>4. "Set" \in n \/ L(pp) = {}
      BY <2>1, <3>2, PixelWriteKnown
    <3>5. \A V, W, X : RenderKnown(accessExclusiveFragment(tracker, i, uav).tracker, i, V, W, X)
      BY <2>1, <3>2, PixelWritten
    <3> QED BY <2>6, <3>1, <3>3, <3>4, <3>5, OrdersOf
  <2> QED BY <1>2, <1>12, <2>3, <2>4, <2>5, <2>6
<1> QED BY <1>2, <1>11, <1>12

-----------------------------------------------------------------------------
(* The commands, and the passes.                                           *)

LEMMA NothingPending ==
  ASSUME NEW st, pending' = {} PROVE Writes(st)' = {}
BY DEF Writes

LEMMA QuietSeparated == pending' = {} => Separated'
<1> SUFFICES ASSUME pending' = {}, NEW p \in Passes
             PROVE  ~Conflict(Exposed(p, Emitted), Writes(p[2]))'
  BY DEF Separated
<1>1. Writes(p[2])' = {}
  BY NothingPending
<1> QED BY <1>1 DEF Conflict

(* A command that emits what orders a pair of stages leaves behind what is *)
(* known to be left behind.                                                *)
LEMMA CommandBarriers ==
  ASSUME Control = {}, TrackerInv, BarrierInv, NEW emitted, Command(emitted), omitted' = omitted,
         \/ enc.type = "plain" /\ emitted = Emitted \cap {"Set"}
         \/ enc.type = "render" /\ emitted = Emitted /\ Omitted \notin Emitted
  PROVE  BarrierInv'
<1>1. /\ enc' = [enc EXCEPT !.barrier = {b \in @ : b[1] \notin emitted}]
      /\ open' = [p \in Passes |-> Exposed(p, emitted) \cup Writes(p[1])]
      /\ pending' = {} /\ tracker' = tracker
  BY DEF Command
<1>2. enc \in Encoders /\ CommandsOK
  BY DEF TrackerInv, PassOK, BarrierInv
<1>3. /\ enc'.type = enc.type /\ enc'.id = enc.id
      /\ enc'.barrier = {b \in enc.barrier : b[1] \notin emitted}
  BY <1>1, <1>2 DEF Encoders
<1>4. Emitted' = Emitted \ emitted
  BY <1>3 DEF Emitted
<1>5. Emitted' = {}
  BY <1>2, <1>4 DEF CommandsOK
<1>6. ASSUME NEW p \in Passes
      PROVE  /\ open'[p] = Exposed(p, emitted) \cup Writes(p[1])
             /\ Exposed(p, emitted) \subseteq open[p]
             /\ LeftBehind(p)' = Exposed(p, emitted) \cup Writes(p[1])
  <2>1. open'[p] = Exposed(p, emitted) \cup Writes(p[1])
    BY <1>1
  <2>2. Exposed(p, Emitted)' = open'[p]
    BY <1>5 DEF Exposed, Orders
  <2>3. Writes(p[1])' = {}
    BY <1>1, NothingPending
  <2>4. LeftBehind(p)' = open'[p]
    BY <2>2, <2>3 DEF LeftBehind
  <2>5. Exposed(p, emitted) \subseteq open[p]
    BY DEF Exposed
  <2> QED BY <2>1, <2>4, <2>5
<1>7. CommandsOK'
  <2>1. StagesOf(enc') = StagesOf(enc)
    BY <1>3 DEF StagesOf
  <2>2. ASSUME NEW p \in Passes
        PROVE  open'[p] \subseteq BOOLEAN /\ (p[1] \notin StagesOf(enc) => open'[p] = {})
    <3>1. Writes(p[1]) \subseteq BOOLEAN /\ (p[1] \notin StagesOf(enc) => Writes(p[1]) = {})
      BY <1>2 DEF CommandsOK, Writes
    <3> QED BY <1>2, <1>6, <2>2, <3>1 DEF CommandsOK
  <2> QED BY <1>1, <1>5, <2>1, <2>2 DEF CommandsOK
<1>8. Separated'
  BY <1>1, QuietSeparated
<1>9. SUFFICES ASSUME ~omitted, Omitted \notin Emitted' PROVE PassKnown'
  BY <1>7, <1>8 DEF BarrierInv, Omitted
<1>10. vv \in Passes /\ vp \in Passes /\ pp \in Passes /\ cc \in Passes
  BY OrdersOf
<1>11. CASE enc.type = "plain"
  <2>1. Omitted \notin Emitted
    BY <1>2, <1>11 DEF CommandsOK, Omitted
  <2>2. PlainKnown(tracker, enc.id, LeftBehind(cc))
    BY <1>9, <1>11, <2>1 DEF BarrierInv, PassKnown, Omitted, cc
  <2>3. Exposed(cc, emitted) = Exposed(cc, Emitted)
    <3>1. Orders(cc) \cap emitted = Orders(cc) \cap Emitted
      BY <1>11, OrdersOf
    <3> QED BY <3>1 DEF Exposed
  <2>4. LeftBehind(cc)' = LeftBehind(cc)
    BY <1>6, <1>10, <2>3 DEF LeftBehind
  <2> QED BY <1>1, <1>3, <1>11, <2>2, <2>4 DEF PassKnown, cc
<1>12. CASE enc.type = "render"
  <2>1. RenderKnown(tracker, enc.id, LeftBehind(vv), LeftBehind(vp), LeftBehind(pp))
    BY <1>9, <1>12 DEF BarrierInv, PassKnown, Omitted, vv, vp, pp
  <2>2. \A p \in Passes : LeftBehind(p)' = LeftBehind(p)
    BY <1>6, <1>12 DEF LeftBehind
  <2>3. /\ LeftBehind(vv)' = LeftBehind(vv) /\ LeftBehind(vp)' = LeftBehind(vp)
        /\ LeftBehind(pp)' = LeftBehind(pp)
    BY <1>10, <2>2
  <2> QED BY <1>1, <1>3, <1>12, <2>1, <2>3 DEF PassKnown, vv, vp, pp
<1> QED BY <1>11, <1>12

(* Between passes nothing is left behind.                                  *)
LEMMA IdleBarriers ==
  ASSUME enc' = NoEncoder, pending' = {}, open' = [p \in Passes |-> {}]
  PROVE  BarrierInv'
<1>1. enc'.type = "none" /\ enc'.barrier = {}
  BY DEF NoEncoder
<1>2. CommandsOK' /\ PassKnown'
  BY <1>1 DEF CommandsOK, PassKnown
<1> QED BY <1>2, QuietSeparated DEF BarrierInv

LEMMA PassBarriers ==
  ASSUME TrackerInv, BarrierInv, NEW type \in {"plain", "render"}, NEW k \in {1, 2},
         NewPass(type, k), type = "plain" => k = 1, type = "render" => k = 2
  PROVE  BarrierInv'
<1>1. /\ enc.type = "none" /\ ~omitted /\ tracker' = tracker /\ pending' = pending /\ open' = open
      /\ enc' = [NoEncoder EXCEPT !.type = type, !.id = encoder_id + k - 1]
  BY DEF NewPass
<1>2. enc'.type = type /\ enc'.id = encoder_id + k - 1 /\ enc'.barrier = {}
  BY <1>1 DEF NoEncoder
<1>3. pending = {} /\ \A p \in Passes : open[p] = {}
  BY <1>1 DEF BarrierInv, CommandsOK, StagesOf
<1>4. Emitted' = {}
  BY <1>2 DEF Emitted
<1>5. CommandsOK'
  BY <1>1, <1>3, <1>4 DEF CommandsOK
<1>6. \A p \in Passes : LeftBehind(p)' = {}
  <2> SUFFICES ASSUME NEW p \in Passes PROVE LeftBehind(p)' = {}
    OBVIOUS
  <2>1. Writes(p[1])' = {}
    BY <1>1, <1>3, NothingPending
  <2>2. Exposed(p, Emitted)' = {}
    BY <1>1, <1>3 DEF Exposed
  <2> QED BY <2>1, <2>2 DEF LeftBehind
<1>7. LeftBehind(vv)' = {} /\ LeftBehind(vp)' = {} /\ LeftBehind(pp)' = {} /\ LeftBehind(cc)' = {}
  BY <1>6, OrdersOf
<1>8. /\ encoder_id \in Nat /\ tracker.exclusive \in Nat /\ tracker.exclusive < encoder_id
      /\ tracker.storage[tracker.cursor] \in Nat /\ tracker.storage[tracker.cursor] < encoder_id
  <2>1. tracker.cursor \in Ring /\ tracker.cursor \in 0 .. tracker.cursor
    BY DEF TrackerInv, RingOK, Trackers, Ring
  <2> QED BY <2>1 DEF TrackerInv, PassOK, RingOK, Trackers, WrittenBelow
<1>9. PassKnown'
  <2>1. CASE type = "plain"
    <3>1. PlainKnown(tracker, encoder_id, {})
      BY <1>8 DEF PlainKnown
    <3>2. enc'.id = encoder_id
      BY <1>2, <1>8, <2>1
    <3> QED BY <1>1, <1>2, <1>7, <2>1, <3>1, <3>2 DEF PassKnown, cc
  <2>2. CASE type = "render"
    <3> DEFINE i == enc'.id
    <3>1. i = encoder_id + 1 /\ i - 1 = encoder_id
      BY <1>2, <1>8, <2>2
    <3>2. tracker.exclusive \notin {i - 1, i} /\ ~isLastAccess(tracker, i - 1) /\ ~isLastAccess(tracker, i)
      BY <1>8, <3>1 DEF isLastAccess
    <3> HIDE DEF i
    <3>3. ASSUME NEW none, none = {} PROVE RenderKnown(tracker, i, none, none, none)
      BY <3>2, <3>3 DEF RenderKnown, UnwrittenKnown
    <3> QED BY <1>1, <1>2, <1>7, <2>2, <3>3 DEF PassKnown, vv, vp, pp, i
  <2> QED BY <2>1, <2>2
<1> QED BY <1>1, <1>3, <1>5, <1>9, QuietSeparated DEF BarrierInv

LEMMA DrawBarriers ==
  ASSUME Control = {}, TrackerInv, BarrierInv, Draw PROVE BarrierInv'
<1>1. CASE "PreRasterAfterFragmentSet" \in Emitted
  <2>1. /\ enc' = [enc EXCEPT !.barrier = {}] /\ omitted' = TRUE /\ pending' = {} /\ open' = open
        /\ enc.type = "render" /\ enc \in Encoders /\ CommandsOK
    BY <1>1 DEF Draw, TrackerInv, PassOK, BarrierInv
  <2>2. enc'.type = enc.type /\ enc'.id = enc.id /\ StagesOf(enc') = StagesOf(enc)
    BY <2>1 DEF Encoders, StagesOf
  <2>3. CommandsOK'
    BY <2>1, <2>2 DEF CommandsOK
  <2> QED BY <2>1, <2>3 DEF BarrierInv
<1>2. CASE "PreRasterAfterFragmentSet" \notin Emitted
  BY <1>2, CommandBarriers DEF Draw, Omitted
<1> QED BY <1>1, <1>2

LEMMA BarrierNext ==
  ASSUME Control = {}, TrackerInv, BarrierInv, [Next]_vars PROVE BarrierInv'
<1>1. CASE startComputePass
  BY <1>1, PassBarriers DEF startComputePass
<1>2. CASE startRenderPass
  BY <1>2, PassBarriers DEF startRenderPass
<1>3. ASSUME NEW stage \in {"compute", "vertex", "pixel"}, NEW write \in BOOLEAN,
             NEW uav \in BOOLEAN, Access(stage, write, uav)
      PROVE  BarrierInv'
  BY <1>3, AccessBarriers
<1>4. CASE Dispatch
  BY <1>4, CommandBarriers DEF Dispatch
<1>5. CASE Draw
  BY <1>5, DrawBarriers
<1>6. CASE EndPlainPass
  BY <1>6, IdleBarriers DEF EndPlainPass
<1>7. ASSUME NEW depth \in BOOLEAN, EndRenderPass(depth) PROVE BarrierInv'
  BY <1>7, IdleBarriers DEF EndRenderPass
<1>8. CASE UNCHANGED vars
  BY <1>8 DEF vars, tracking, history, BarrierInv, CommandsOK, Separated, PassKnown,
       LeftBehind, Exposed, Emitted, Writes, StagesOf, Orders
<1> QED BY <1>1, <1>2, <1>3, <1>4, <1>5, <1>6, <1>7, <1>8 DEF Next, Uavs

LEMMA BarrierInit == Init => BarrierInv
<1> SUFFICES ASSUME Init PROVE BarrierInv
  OBVIOUS
<1>1. enc = NoEncoder /\ pending = {} /\ open = [p \in Passes |-> {}]
  BY DEF Init
<1>2. enc.type = "none" /\ enc.barrier = {}
  BY <1>1 DEF NoEncoder
<1>3. CommandsOK
  BY <1>1, <1>2 DEF CommandsOK
<1>4. Separated /\ PassKnown
  BY <1>1, <1>2 DEF Separated, PassKnown, Writes, Conflict
<1> QED BY <1>3, <1>4 DEF BarrierInv

(* The commands of a pass: what the invariant knows of the barriers is     *)
(* what BarriersSeparate asks of the step that encodes a command.          *)
LEMMA CommandSeparated ==
  ASSUME Control = {}, TrackerInv, BarrierInv, [Next]_vars,
         pending # {}, pending' = {}, enc'.id = enc.id, ~omitted', NEW p \in Passes
  PROVE  ~Conflict(Exposed(p, Emitted), Writes(p[2]))
<1>1. SUFFICES ~omitted /\ Omitted \notin Emitted
  BY DEF BarrierInv, Separated, Omitted
<1>2. CommandsOK /\ enc \in Encoders
  BY DEF BarrierInv, TrackerInv, PassOK
<1>3. enc.type # "none" /\ enc.id > 0
  <2>1. enc.type # "none"
    BY <1>2 DEF CommandsOK, StagesOf
  <2> QED BY <1>2, <2>1, Lanes DEF TrackerInv, PassOK, Encoders
<1>4. enc'.id # 0
  BY <1>2, <1>3 DEF Encoders
<1>5. CASE Dispatch
  <2>1. enc.type = "plain" /\ omitted' = omitted
    BY <1>5 DEF Dispatch
  <2> QED BY <1>2, <2>1 DEF CommandsOK, Omitted
<1>6. CASE Draw
  BY <1>6 DEF Draw, Omitted
<1>7. ASSUME NEW stage, NEW write, NEW uav, Access(stage, write, uav) PROVE FALSE
  BY <1>7 DEF Access
<1>8. ASSUME NEW type, NEW k, NewPass(type, k) PROVE FALSE
  BY <1>3, <1>8 DEF NewPass
<1>9. NoEncoder.id = 0
  BY DEF NoEncoder
<1>10. CASE EndPlainPass
  BY <1>4, <1>9, <1>10 DEF EndPlainPass
<1>11. ASSUME NEW depth, EndRenderPass(depth) PROVE FALSE
  BY <1>4, <1>9, <1>11 DEF EndRenderPass
<1>12. CASE UNCHANGED vars
  BY <1>12 DEF vars, history
<1> QED BY <1>5, <1>6, <1>7, <1>8, <1>10, <1>11, <1>12
      DEF Next, startComputePass, startRenderPass

(* Inside a pass a command that conflicts with an earlier one is behind a  *)
(* barrier that orders the two stages, for any number of accesses, unless  *)
(* the application has some hazards ignored (Control): the barriers of     *)
(* EncoderBarrierState suffice, although each is asked for only once.      *)
THEOREM BarrierSafety == ASSUME Control = {} PROVE Spec => BarriersSeparate
<1>1. Init => TrackerInv /\ BarrierInv
  BY TrackerInit, BarrierInit
<1>2. TrackerInv /\ BarrierInv /\ [Next]_vars => TrackerInv' /\ BarrierInv'
  BY TrackerNext, BarrierNext
<1>3. TrackerInv /\ BarrierInv /\ [Next]_vars =>
        [pending # {} /\ pending' = {} /\ enc'.id = enc.id /\ ~omitted' =>
           \A p \in Passes : ~Conflict(Exposed(p, Emitted), Writes(p[2]))]_vars
  BY CommandSeparated
<1> QED BY <1>1, <1>2, <1>3, PTL DEF Spec, BarriersSeparate

-----------------------------------------------------------------------------
(* Why the fences suffice.  An id m is made to wait for the ids that its   *)
(* full fences stand for, those of the last turn of the slots.             *)
Covers(ids, m, full) ==
  \A k \in kParityLane .. m - 1 : m - k < kParityLane /\ Slot(k) \in full => k \in ids

(* Of the ids below n: each waits for what those it waits for have waited  *)
(* for, and the summary has the full fences of the last of each slot.      *)
OrderOK(order, sum, n) ==
  /\ DOMAIN order = kParityLane .. n - 1
  /\ \A m \in DOMAIN order :
       /\ order[m] \subseteq kParityLane .. m - 1
       /\ \A k \in order[m] : order[k] \subseteq order[m]
       /\ n - m <= kParityLane => Covers(order[m], m, sum[Slot(m)])
  /\ sum \in [Fences -> SUBSET Fences]
  /\ \A s \in Fences : (\A m \in DOMAIN order : Slot(m) # s) => sum[s] = {}

GenerationsOK(order) ==
  \A m, n \in DOMAIN order : m - n >= kLane => n \in order[m]

(* The ids below Begun belong to passes that have ended.                   *)
Begun == CASE enc.type = "none"   -> encoder_id
           [] enc.type = "plain"  -> encoder_id - 1
           [] enc.type = "render" -> encoder_id - 2

(* The fences that the trackers asked for are of earlier ids, and of one   *)
(* of the last two generations unless stale.                               *)
WaitsOf(e, stage) == IF stage = "vertex" THEN e.fence_wait_vertex ELSE e.fence_wait
FencesReal(fences, id, old) ==
  \A f \in fences : \E n \in kParityLane .. id - 1 :
    Slot(n) = f /\ (old \/ id - n < 2 * kLane)

FencesOK(e, old) ==
  \A stage \in StagesOf(e) : FencesReal(WaitsOf(e, stage), IdOf(e, stage), old)

(* A reader in the ring comes after enough newer ones to be in its place,  *)
(* or was overwritten when the newest is kLane ids ahead.                  *)
Entry(t, i) == t.storage[(t.cursor + kLane - i) % kLane]
Remembered(t, r) ==
  \/ Entry(t, 0) - r >= kLane
  \/ \E i \in Ring : Entry(t, i) = r /\ \A j \in 0 .. i : Entry(t, j) >= r + (i - j)

(* The stages of one pass: whoever waits for the fragments waits for both. *)
Paired(e, r) ==
  \/ r \in IdsOf(e) /\ r + 1 \in IdsOf(e)
  \/ r + 1 \in Known /\ r \in before[r + 1]

(* A tracker knows every reader since the last write by its id or that of  *)
(* the fragments of its pass, in the ring or as the writer.                *)
ReaderKnown(e, t, un, r) ==
  \/ r = t.exclusive \/ r \in un \/ Remembered(t, r)
  \/ Paired(e, r) /\ (r + 1 = t.exclusive \/ Remembered(t, r + 1))

IdsReal(t) ==
  /\ \A i \in Ring : t.storage[i] = 0 \/ t.storage[i] >= kParityLane
  /\ t.exclusive = 0 \/ t.exclusive >= kParityLane

UsersOK(e, t, us, un) ==
  /\ us \in [writer : SUBSET Nat, readers : SUBSET Nat] /\ us.writer = Ever(t)
  /\ us.readers \subseteq kParityLane .. encoder_id - 1
  /\ t.exclusive \in IdsOf(e) => us.readers \subseteq IdsOf(e)
  /\ \A r \in us.readers : ReaderKnown(e, t, un, r)

(* A stage that the tracker takes for a reader waits for the writer.       *)
Awaited(e, t, stage) ==
  Slots(Recent(t, IdOf(e, stage))) \subseteq WaitsOf(e, stage)

ReadersWait(e, t) ==
  t.exclusive \notin IdsOf(e) =>
    /\ e.type = "plain" /\ isLastAccess(t, e.id) => Awaited(e, t, "compute")
    /\ e.type = "render" /\ isLastAccess(t, e.id - 1) => Awaited(e, t, "vertex")
    /\ e.type = "render" /\ isLastAccess(t, e.id) =>
         /\ t.isShared /\ Awaited(e, t, "pixel")
         /\ t.isSharedPreRaster => Awaited(e, t, "vertex")

(* What is needed of id m is met by a fence in waits, by that of the       *)
(* fragments of the same pass, or by the generations.                      *)
NeedMet(n, m, waits, un) ==
  \/ m - n >= kLane \/ n \in un \/ Slot(n) \in waits
  \/ n + 1 \in Known /\ n \in before[n + 1] /\ Slot(n + 1) \in waits

Excused(e) ==
  \/ omitted
  \/ e.type = "render" /\ \E b \in e.barrier : b[1] = "PreRasterAfterFragmentSet"

NeedsMet(e, nd, un) ==
  /\ DOMAIN nd = IdsOf(e)
  /\ \A stage \in StagesOf(e) : \A n \in nd[IdOf(e, stage)] :
       /\ n \in Known
       /\ Excused(e) \/ NeedMet(n, IdOf(e, stage), WaitsOf(e, stage), un)

PassOrdered(e, t, us, nd, un, old) ==
  /\ FencesOK(e, old) /\ IdsReal(t) /\ UsersOK(e, t, us, un)
  /\ ReadersWait(e, t) /\ (e.type # "none" => NeedsMet(e, nd, un))

OrderInv ==
  /\ OrderOK(before, summary, Begun)
  /\ stale \in BOOLEAN /\ (~stale => GenerationsOK(before))
  /\ PassOrdered(enc, tracker, users, need, unrecorded, stale)
  /\ enc.type = "none" => DOMAIN need \subseteq Known
  /\ ConflictsOrdered

(* Division with remainder.                                                *)
LEMMA DivMod ==
  ASSUME NEW n \in Nat \ {0}, NEW a \in Nat
  PROVE  a = n * (a \div n) + (a % n) /\ a \div n \in Nat /\ a % n \in 0 .. (n - 1)
OBVIOUS

LEMMA TimesPositive ==
  ASSUME NEW n \in Nat \ {0}, NEW d \in Int, d >= 1
  PROVE  n * d >= n
OBVIOUS

(* Two numbers less than n apart with the same remainder are equal.        *)
LEMMA SameRemainder ==
  ASSUME NEW n \in Nat \ {0}, NEW a \in Nat, NEW b \in Nat, a < b, NEW r \in Int,
         NEW p \in Int, NEW q \in Int, a = n * p + r, b = n * q + r
  PROVE  b >= a + n
<1>1. n * (q - p) = n * q - n * p
  OBVIOUS
<1>2. CASE q - p >= 1
  BY <1>1, <1>2, TimesPositive
<1>3. CASE q = p
  BY <1>3
<1>4. CASE p - q >= 1
  <2>1. n * (p - q) = n * p - n * q
    OBVIOUS
  <2>2. n * (p - q) >= n
    BY <1>4, TimesPositive
  <2> QED BY <2>1, <2>2
<1> QED BY <1>2, <1>3, <1>4

LEMMA RemaindersApart ==
  ASSUME NEW n \in Nat \ {0}, NEW a \in Nat, NEW b \in Nat, a % n = b % n, a < b
  PROVE  b >= a + n
<1> DEFINE p == a \div n
           q == b \div n
           r == a % n
<1>1. a = n * p + r /\ b = n * q + r /\ p \in Int /\ q \in Int /\ r \in Int
  BY DivMod
<1> HIDE DEF p, q, r
<1> QED BY ONLY <1>1, SameRemainder, n \in Nat \ {0}, a \in Nat, b \in Nat, a < b

LEMMA RemainderOf ==
  ASSUME NEW n \in Nat \ {0}, NEW q \in Nat, NEW r \in 0 .. n - 1
  PROVE  n * q + r \in Nat /\ (n * q + r) % n = r
<1> DEFINE a == n * q + r
           p == a \div n
           s == a % n
<1>1. a \in Nat
  <2>1. n * q \in Nat
    OBVIOUS
  <2> QED BY <2>1
<1>2. a = n * p + s /\ p \in Nat /\ s \in 0 .. n - 1
  BY <1>1, DivMod
<1>3. a = n * q + r
  OBVIOUS
<1> HIDE DEF a, p, s
<1>4. CASE s = r
  BY <1>1, <1>4 DEF a, s
<1>5. CASE p = q
  BY <1>2, <1>3, <1>5, <1>1 DEF a, s
<1>6. CASE p - q >= 1
  <2>1. n * (p - q) >= n /\ n * (p - q) = n * p - n * q
    BY <1>6, <1>2, TimesPositive
  <2>2. n * p \in Nat /\ n * q \in Nat
    BY <1>2
  <2> QED BY <1>2, <1>3, <2>1, <2>2
<1>7. CASE q - p >= 1
  <2>1. n * (q - p) >= n /\ n * (q - p) = n * q - n * p
    BY <1>7, <1>2, TimesPositive
  <2>2. n * p \in Nat /\ n * q \in Nat
    BY <1>2
  <2> QED BY <1>2, <1>3, <2>1, <2>2
<1> QED BY <1>2, <1>5, <1>6, <1>7

LEMMA RemainderTwice ==
  ASSUME NEW n \in Nat \ {0}, NEW k \in Nat \ {0}, NEW x \in Nat
  PROVE  (x % (k * n)) % n = x % n
<1> DEFINE m == k * n
           q == x \div m
           s == x % m
           b == s \div n
           c == s % n
<1>1. m \in Nat \ {0}
  OBVIOUS
<1> HIDE DEF m
<1>2. x = m * q + s /\ q \in Nat /\ s \in Nat
  BY <1>1, DivMod
<1> HIDE DEF q
<1>3. s = n * b + c /\ b \in Nat /\ c \in 0 .. n - 1
  BY <1>2, DivMod
<1> HIDE DEF s, b, c
<1>4. k * q + b \in Nat
  BY <1>2, <1>3
<1>5. m * q = n * (k * q)
  BY <1>2 DEF m
<1>6. x = n * (k * q + b) + c
  <2> DEFINE y == k * q
  <2>1. y \in Nat
    BY <1>2
  <2> HIDE DEF y
  <2>2. n * (y + b) = n * y + n * b
    BY <2>1, <1>3
  <2>3. m * q = n * y
    BY <1>5 DEF y
  <2>4. n * y \in Nat /\ n * b \in Nat
    BY <2>1, <1>3
  <2>5. x = n * (y + b) + c
    BY <2>2, <2>3, <2>4, <1>2, <1>3
  <2> QED BY <2>5 DEF y
<1>7. x % n = c
  BY <1>4, <1>3, <1>6, RemainderOf
<1> QED BY <1>7 DEF c, s, m

(* Each remainder occurs among the last n numbers.                         *)
LEMMA RemainderBelow ==
  ASSUME NEW n \in Nat \ {0}, NEW m \in Nat, m >= n, NEW r \in 0 .. n - 1
  PROVE  \E o \in 0 .. n - 1 : (m - o) % n = r
<1> DEFINE q == m \div n
           s == m % n
<1>1. m = n * q + s /\ q \in Nat /\ s \in 0 .. n - 1
  BY DivMod
<1> HIDE DEF q, s
<1>2. n * q \in Nat
  BY <1>1
<1>3. CASE r <= s
  <2>1. m - (s - r) = n * q + r
    BY <1>1, <1>2
  <2> DEFINE o == s - r
  <2>2. (m - o) % n = r
    BY <2>1, <1>1, RemainderOf
  <2>3. o \in 0 .. n - 1
    BY <1>1, <1>3
  <2> HIDE DEF o
  <2> QED BY ONLY <2>2, <2>3
<1>4. CASE r > s
  <2>1. q # 0
    BY <1>1, <1>2, m >= n
  <2>2. n * (q - 1) = n * q - n
    BY <1>1
  <2>3. m - (s + n - r) = n * (q - 1) + r
    BY <1>1, <1>2, <2>2
  <2> DEFINE o == s + n - r
  <2>4. (m - o) % n = r
    BY <2>1, <2>3, <1>1, RemainderOf
  <2>5. o \in 0 .. n - 1
    BY <1>1, <1>4
  <2> HIDE DEF o
  <2> QED BY ONLY <2>4, <2>5
<1> QED BY <1>1, <1>3, <1>4

(* Ids less than a turn of the slots apart have slots of their own.        *)
LEMMA SlotOfId == ASSUME NEW id \in Nat PROVE Slot(id) \in Fences
BY Lanes, DivMod DEF Slot, Fences

LEMMA SlotsApart ==
  ASSUME NEW a \in Nat, NEW b \in Nat, Slot(a) = Slot(b),
         a - b < kParityLane, b - a < kParityLane
  PROVE  a = b
<1>1. kParityLane \in Nat \ {0}
  BY Lanes
<1>2. a % kParityLane = b % kParityLane
  BY DEF Slot
<1>3. CASE a < b
  <2>1. b >= a + kParityLane
    BY <1>1, <1>2, <1>3, RemaindersApart, Zenon
  <2> QED BY <1>1, <2>1
<1>4. CASE b < a
  <2>1. a >= b + kParityLane
    BY <1>1, <1>2, <1>4, RemaindersApart, Zenon
  <2> QED BY <1>1, <2>1
<1> QED BY <1>3, <1>4

(* A fence is in the lane of the ids that update it.                       *)
LEMMA LaneOfSlot == ASSUME NEW id \in Nat PROVE Slot(id) % kLane = id % kLane
<1> DEFINE n == kLane
           k == kParity
<1>1. n \in Nat \ {0}
  BY Lanes
<1>2. k \in Nat \ {0}
  BY DepTrackAssumption
<1>3. Slot(id) = id % (k * n)
  BY DEF Slot, kParityLane
<1> HIDE DEF n, k
<1>4. (id % (k * n)) % n = id % n
  BY <1>1, <1>2, RemainderTwice
<1> QED BY <1>3, <1>4 DEF n

LEMMA Induction ==
  ASSUME NEW S, 0 \in S, \A n \in Nat : n \in S => n + 1 \in S
  PROVE  Nat \subseteq S
<1>1. SUFFICES ASSUME NEW m \in Nat, m \notin S PROVE FALSE
  OBVIOUS
<1> DEFINE U == {n \in 0 .. m : n < m /\ n \in S}
           f == [n \in U |-> n + 1]
<1>2. IsFiniteSet(U)
  <2>1. U \subseteq 0 .. m
    OBVIOUS
  <2>2. IsFiniteSet(0 .. m)
    BY FS_Interval
  <2> QED BY ONLY <2>1, <2>2, FS_Subset
<1>3. 0 \in U
  BY <1>1
<1>4. ASSUME NEW n \in U PROVE f[n] \in U
  <2>1. n + 1 \in S /\ n + 1 # m
    BY <1>1
  <2> QED BY <2>1
<1>5. f \in Injection(U, U)
  BY <1>4 DEF Injection, IsInjective
<1>6. f \in Surjection(U, U)
  BY ONLY <1>2, <1>5, FS_Injection
<1>7. PICK n \in U : f[n] = 0
  BY <1>3, <1>6 DEF Surjection
<1> QED BY <1>7

WalkOf(full, id, sum, w, n) ==
  w = [o \in 0 .. n |-> IF o = 0 THEN WalkStart
                        ELSE WalkStep(full, Slot(id - o), sum, w[o - 1])]

LEMMA WalkExists ==
  ASSUME NEW full, NEW id, NEW sum, NEW n \in Nat
  PROVE  \E w : WalkOf(full, id, sum, w, n)
<1> DEFINE S == {m \in Nat : \E w : WalkOf(full, id, sum, w, m)}
           first == [o \in 0 .. 0 |-> WalkStart]
<1>1. 0 \in S
  <2>1. WalkOf(full, id, sum, first, 0)
    BY DEF WalkOf
  <2> QED BY <2>1
<1>2. ASSUME NEW m \in Nat, m \in S PROVE m + 1 \in S
  <2>1. PICK w : WalkOf(full, id, sum, w, m)
    BY <1>2
  <2> DEFINE step(o, x) == WalkStep(full, Slot(id - o), sum, x)
  <2> HIDE DEF step
  <2>2. w = [o \in 0 .. m |-> IF o = 0 THEN WalkStart ELSE step(o, w[o - 1])]
    BY <2>1 DEF WalkOf, step
  <2> DEFINE next == step(m + 1, w[m])
             v == [o \in 0 .. m + 1 |-> IF o = m + 1 THEN next ELSE w[o]]
  <2> HIDE DEF next
  <2>3. ASSUME NEW o \in 0 .. m + 1
        PROVE  v[o] = IF o = 0 THEN WalkStart ELSE step(o, v[o - 1])
    <3>1. CASE o = m + 1
      <4>1. v[o - 1] = w[m] /\ v[o] = next /\ o # 0
        BY <3>1
      <4> QED BY <3>1, <4>1 DEF next
    <3>2. CASE o \in 0 .. m
      <4>1. v[o] = w[o] /\ (o # 0 => v[o - 1] = w[o - 1])
        BY <3>2
      <4>2. w[o] = IF o = 0 THEN WalkStart ELSE step(o, w[o - 1])
        BY <2>2, <3>2
      <4> QED BY <4>1, <4>2
    <3> QED BY <3>1, <3>2
  <2>4. v = [o \in 0 .. m + 1 |-> IF o = 0 THEN WalkStart ELSE step(o, v[o - 1])]
    BY <2>3
  <2>5. WalkOf(full, id, sum, v, m + 1)
    BY <2>4 DEF WalkOf, step
  <2> QED BY <2>5
<1>3. Nat \subseteq S
  BY ONLY <1>1, <1>2, Induction
<1> QED BY <1>3

LEMMA WalkFound ==
  ASSUME NEW full, NEW id, NEW sum
  PROVE  \E w : /\ WalkOf(full, id, sum, w, kParityLane - 1)
                /\ Walk(full, id, sum) = w[kParityLane - 1].minimal
<1> DEFINE w == CHOOSE w : WalkOf(full, id, sum, w, kParityLane - 1)
<1>1. kParityLane - 1 \in Nat
  BY Lanes
<1>2. WalkOf(full, id, sum, w, kParityLane - 1)
  BY <1>1, WalkExists
<1>3. Walk(full, id, sum) = w[kParityLane - 1].minimal
  BY DEF Walk, WalkOf
<1> QED BY <1>2, <1>3

-----------------------------------------------------------------------------
(* What an encoder comes after.                                            *)
Closed(ids, order) == \A k \in ids : order[k] \subseteq ids

LEMMA AfterClosed ==
  ASSUME NEW order, NEW sum, NEW m \in Nat, OrderOK(order, sum, m), NEW waits
  PROVE  After(waits, order) \subseteq kParityLane .. m - 1 /\ Closed(After(waits, order), order)
<1> DEFINE L == UNION {Latest(s, DOMAIN order) : s \in waits}
<1>1. L \subseteq DOMAIN order
  BY DEF Latest
<1>2. After(waits, order) = L \cup UNION {order[n] : n \in L}
  BY DEF After
<1> HIDE DEF L
<1>3. \A k \in DOMAIN order : order[k] \subseteq kParityLane .. m - 1
  <2> TAKE k \in DOMAIN order
  <2>1. k \in kParityLane .. m - 1 /\ order[k] \subseteq kParityLane .. k - 1
    BY DEF OrderOK
  <2> QED BY <2>1, Lanes
<1>4. DOMAIN order = kParityLane .. m - 1
  BY DEF OrderOK
<1>5. ASSUME NEW k \in After(waits, order), NEW j \in order[k] PROVE j \in After(waits, order)
  <2>1. CASE k \in L
    BY <1>2, <2>1
  <2>2. ASSUME NEW n \in L, k \in order[n] PROVE j \in After(waits, order)
    <3>1. order[k] \subseteq order[n]
      BY <1>1, <2>2 DEF OrderOK
    <3> QED BY <3>1, <1>2
  <2> QED BY <1>2, <2>1, <2>2
<1> QED BY <1>1, <1>2, <1>3, <1>4, <1>5 DEF Closed

LEMMA AfterGrows ==
  ASSUME NEW order, NEW waits, NEW more, waits \subseteq more
  PROVE  After(waits, order) \subseteq After(more, order)
BY DEF After

(* A fence stands for the last id of its slot.                             *)
LEMMA LatestOf ==
  ASSUME NEW m \in Nat, NEW k \in kParityLane .. m - 1, m - k <= kParityLane
  PROVE  Latest(Slot(k), kParityLane .. m - 1) = {k}
<1> USE Lanes
<1>1. ASSUME NEW j \in kParityLane .. m - 1, Slot(j) = Slot(k), j >= k PROVE j = k
  <2>1. j - k < kParityLane /\ k - j < kParityLane /\ j \in Nat /\ k \in Nat
    BY <1>1
  <2> QED BY ONLY <2>1, <1>1, SlotsApart
<1>2. \A j \in kParityLane .. m - 1 : Slot(j) = Slot(k) => j <= k
  <2> SUFFICES ASSUME NEW j \in kParityLane .. m - 1, Slot(j) = Slot(k), ~(j <= k) PROVE FALSE
    OBVIOUS
  <2>1. j >= k
    OBVIOUS
  <2>2. j = k
    BY <2>1, <1>1
  <2> QED BY <2>2
<1>3. k \in Latest(Slot(k), kParityLane .. m - 1)
  BY <1>2 DEF Latest
<1>4. ASSUME NEW n \in Latest(Slot(k), kParityLane .. m - 1) PROVE n = k
  <2>1. n \in kParityLane .. m - 1 /\ Slot(n) = Slot(k) /\ k <= n
    BY DEF Latest
  <2> QED BY <2>1, <1>1
<1> QED BY <1>3, <1>4

LEMMA AfterHas ==
  ASSUME NEW order, NEW sum, NEW m \in Nat, OrderOK(order, sum, m), NEW waits,
         NEW k \in kParityLane .. m - 1, m - k <= kParityLane, Slot(k) \in waits
  PROVE  k \in After(waits, order)
<1>1. DOMAIN order = kParityLane .. m - 1
  BY DEF OrderOK
<1>2. Latest(Slot(k), DOMAIN order) = {k}
  BY <1>1, LatestOf
<1> QED BY <1>2 DEF After

-----------------------------------------------------------------------------
(* The loop of collectAndSimplifyWaits: after o ids it has a fence for, or *)
(* knows accessible, each of the full fences that it has come across; and  *)
(* what it knows accessible is waited for through the fences it has.       *)
WalkGood(x, o, full, m, order) ==
  /\ x.stop => full \subseteq x.accessible
  /\ \A j \in 1 .. o : Slot(m - j) \in full => Slot(m - j) \in x.accessible
  /\ \A j \in 1 .. kParityLane - 1 :
       m - j >= kParityLane /\ Slot(m - j) \in x.accessible /\ (j > o \/ Slot(m - j) \in full)
         => m - j \in After(x.minimal, order)

LEMMA WalkStepGood ==
  ASSUME NEW order, NEW sum, NEW m \in Nat, m >= kParityLane, OrderOK(order, sum, m),
         NEW full, NEW x, NEW o \in 1 .. kParityLane - 1,
         WalkGood(x, o - 1, full, m, order)
  PROVE  WalkGood(WalkStep(full, Slot(m - o), sum, x), o, full, m, order)
<1> USE Lanes
<1> DEFINE p == Slot(m - o)
           y == WalkStep(full, p, sum, x)
           waited == p \in full /\ p \notin x.accessible
           reached == waited \/ p \in x.accessible
           acc == IF reached THEN x.accessible \cup {p} \cup sum[p] ELSE x.accessible
           min == IF waited THEN x.minimal \cup {p} ELSE x.minimal
<1>1. CASE x.stop
  <2>1. y = x
    BY <1>1 DEF WalkStep
  <2>2. full \subseteq x.accessible
    BY <1>1 DEF WalkGood
  <2> QED BY <2>1, <2>2 DEF WalkGood
<1>2. CASE ~x.stop
  <2>1. y = [minimal |-> min, accessible |-> acc, stop |-> full \subseteq acc]
    BY <1>2 DEF WalkStep
  <2> HIDE DEF y
  <2>2. y.minimal = min /\ y.accessible = acc /\ y.stop = (full \subseteq acc)
    BY <2>1
  <2>3. x.accessible \subseteq acc /\ x.minimal \subseteq min
    OBVIOUS
  <2>4. After(x.minimal, order) \subseteq After(min, order)
    BY <2>3, AfterGrows
  <2>5. p \in full => p \in acc
    OBVIOUS
  <2>6. ASSUME NEW j \in 1 .. o, Slot(m - j) \in full PROVE Slot(m - j) \in acc
    <3>1. CASE j = o
      BY <3>1, <2>5, <2>6
    <3>2. CASE j \in 1 .. o - 1
      BY <3>2, <2>3, <2>6 DEF WalkGood
    <3> QED BY <3>1, <3>2
  <2>7. m - o >= kParityLane /\ waited => m - o \in After(min, order)
    <3> SUFFICES ASSUME m - o >= kParityLane, waited PROVE m - o \in After(min, order)
      OBVIOUS
    <3>1. p \in min
      OBVIOUS
    <3> DEFINE k == m - o
    <3>2. k \in kParityLane .. m - 1 /\ m - k <= kParityLane /\ Slot(k) \in min
      BY <3>1
    <3> HIDE DEF k, min
    <3> QED BY <3>2, AfterHas DEF k
  <2>8. m - o >= kParityLane /\ p \in x.accessible => m - o \in After(x.minimal, order)
    BY DEF WalkGood
  <2>9. m - o >= kParityLane /\ reached => m - o \in After(min, order)
    BY <2>7, <2>8, <2>4
  <2>10. ASSUME NEW j \in 1 .. kParityLane - 1, m - j >= kParityLane, Slot(m - j) \in acc,
                j > o \/ Slot(m - j) \in full
         PROVE  m - j \in After(min, order)
    <3>1. CASE Slot(m - j) \in x.accessible
      <4>1. j > o - 1 \/ Slot(m - j) \in full
        BY <2>10
      <4>2. m - j \in After(x.minimal, order)
        BY <4>1, <3>1, <2>10 DEF WalkGood
      <4> QED BY <4>2, <2>4
    <3>2. CASE Slot(m - j) \notin x.accessible
      <4>1. reached /\ Slot(m - j) \in {p} \cup sum[p]
        BY <3>2, <2>10
      <4>2. j >= o
        <5>1. ASSUME j < o PROVE FALSE
          <6>1. Slot(m - j) \in full /\ j \in 1 .. o - 1
            BY <5>1, <2>10
          <6> QED BY <6>1, <3>2 DEF WalkGood
        <5> QED BY <5>1
      <4>3. CASE j = o
        BY <4>3, <4>1, <2>9, <2>10
      <4>4. CASE j > o
        <5> DEFINE n == m - o
                   k == m - j
        <5>1. n \in Nat /\ k \in Nat /\ k < n /\ n - k < kParityLane /\ k >= kParityLane
          BY <4>4, <2>10
        <5>2. Slot(k) # p
          <6>1. k # n /\ n - k < kParityLane /\ k - n < kParityLane /\ p = Slot(n)
            BY <5>1
          <6> QED BY ONLY <6>1, <5>1, SlotsApart
        <5>3. Slot(k) \in sum[Slot(n)]
          BY <5>2, <4>1
        <5>4. n \in After(min, order)
          BY <4>1, <2>9, <5>1
        <5>5. n \in DOMAIN order /\ m - n <= kParityLane
          <6>1. DOMAIN order = kParityLane .. m - 1
            BY DEF OrderOK
          <6>2. n \in kParityLane .. m - 1 /\ m - n <= kParityLane
            BY <5>1
          <6> QED BY <6>1, <6>2
        <5>6. Covers(order[n], n, sum[Slot(n)])
          BY <5>5 DEF OrderOK
        <5> HIDE DEF n, k, min
        <5>7. k \in order[n]
          BY <5>6, <5>1, <5>3 DEF Covers
        <5>8. Closed(After(min, order), order)
          BY AfterClosed
        <5>9. k \in After(min, order)
          BY <5>4, <5>7, <5>8 DEF Closed
        <5> QED BY <5>9 DEF k, min
      <4> QED BY <4>2, <4>3, <4>4
    <3> QED BY <3>1, <3>2
  <2> HIDE DEF acc, min, waited, reached, p
  <2> QED BY <2>2, <2>6, <2>10 DEF WalkGood, y, p
<1> QED BY <1>1, <1>2

LEMMA WalkCovers ==
  ASSUME NEW order, NEW sum, NEW m \in Nat, m >= kParityLane, OrderOK(order, sum, m), NEW full
  PROVE  Covers(After(Walk(full, m, sum), order), m, full)
<1> USE Lanes
<1>1. PICK w : /\ WalkOf(full, m, sum, w, kParityLane - 1)
               /\ Walk(full, m, sum) = w[kParityLane - 1].minimal
  BY WalkFound
<1> DEFINE S == {o \in Nat : o <= kParityLane - 1 => WalkGood(w[o], o, full, m, order)}
<1>2. \A o \in 0 .. kParityLane - 1 :
        w[o] = IF o = 0 THEN WalkStart ELSE WalkStep(full, Slot(m - o), sum, w[o - 1])
  <2> DEFINE step(o, x) == WalkStep(full, Slot(m - o), sum, x)
  <2>1. w = [o \in 0 .. kParityLane - 1 |-> IF o = 0 THEN WalkStart ELSE step(o, w[o - 1])]
    BY <1>1 DEF WalkOf
  <2> HIDE DEF step
  <2>2. \A o \in 0 .. kParityLane - 1 : w[o] = IF o = 0 THEN WalkStart ELSE step(o, w[o - 1])
    BY <2>1
  <2> QED BY <2>2 DEF step
<1>3. 0 \in S
  <2>1. w[0] = WalkStart
    BY <1>2
  <2>2. WalkGood(WalkStart, 0, full, m, order)
    BY DEF WalkGood, WalkStart
  <2> QED BY <2>1, <2>2
<1>4. ASSUME NEW o \in Nat, o \in S PROVE o + 1 \in S
  <2> SUFFICES ASSUME o + 1 <= kParityLane - 1 PROVE WalkGood(w[o + 1], o + 1, full, m, order)
    OBVIOUS
  <2> DEFINE q == o + 1
  <2>1. q \in 1 .. kParityLane - 1 /\ q - 1 = o
    OBVIOUS
  <2>2. WalkGood(w[q - 1], q - 1, full, m, order)
    BY <1>4, <2>1
  <2>3. w[q] = WalkStep(full, Slot(m - q), sum, w[q - 1])
    BY <1>2, <2>1
  <2> HIDE DEF q
  <2>4. WalkGood(WalkStep(full, Slot(m - q), sum, w[q - 1]), q, full, m, order)
    BY <2>1, <2>2, WalkStepGood
  <2> QED BY <2>3, <2>4 DEF q
<1> DEFINE e == kParityLane - 1
<1>5. WalkGood(w[e], e, full, m, order)
  <2> HIDE DEF S
  <2>1. Nat \subseteq S
    BY ONLY <1>3, <1>4, Induction
  <2> QED BY <2>1 DEF S
<1> HIDE DEF S
<1>6. ASSUME NEW k \in kParityLane .. m - 1, m - k < kParityLane, Slot(k) \in full
      PROVE  k \in After(w[e].minimal, order)
  <2> DEFINE j == m - k
  <2>1. j \in 1 .. e /\ m - j = k
    BY <1>6
  <2>2. m - j >= kParityLane /\ Slot(m - j) \in full
    BY <2>1, <1>6
  <2> HIDE DEF j
  <2>3. Slot(m - j) \in w[e].accessible
    BY <1>5, <2>1, <2>2 DEF WalkGood
  <2>4. m - j \in After(w[e].minimal, order)
    BY <1>5, <2>1, <2>2, <2>3 DEF WalkGood
  <2> QED BY <2>1, <2>4
<1> QED BY <1>1, <1>6 DEF Covers

-----------------------------------------------------------------------------
(* The end of a pass: an id joins the order.                               *)
LEMMA OrderExtended ==
  ASSUME NEW order, NEW sum, NEW m \in Nat, m >= kParityLane, OrderOK(order, sum, m),
         NEW ids \in SUBSET (kParityLane .. m - 1), Closed(ids, order),
         NEW full \in SUBSET Fences, Covers(ids, m, full)
  PROVE  OrderOK(Extended(order, m, ids), [sum EXCEPT ![Slot(m)] = full], m + 1)
<1> USE Lanes
<1> DEFINE new == Extended(order, m, ids)
           fences == [sum EXCEPT ![Slot(m)] = full]
<1>1. DOMAIN order = kParityLane .. m - 1 /\ m \notin DOMAIN order
  BY DEF OrderOK
<1>2. DOMAIN new = kParityLane .. (m + 1) - 1
  BY <1>1 DEF Extended
<1>3. new[m] = ids /\ \A k \in DOMAIN order : new[k] = order[k]
  BY <1>1 DEF Extended
<1>4. sum \in [Fences -> SUBSET Fences] /\ Slot(m) \in Fences
  BY SlotOfId DEF OrderOK
<1>5. fences \in [Fences -> SUBSET Fences] /\ fences[Slot(m)] = full
  BY <1>4
<1>6. \A s \in Fences : s # Slot(m) => fences[s] = sum[s]
  BY <1>4
<1> HIDE DEF new, fences
<1>7. ASSUME NEW k \in DOMAIN new
      PROVE  /\ new[k] \subseteq kParityLane .. k - 1
             /\ \A j \in new[k] : new[j] \subseteq new[k]
             /\ (m + 1) - k <= kParityLane => Covers(new[k], k, fences[Slot(k)])
  <2>1. CASE k = m
    <3>1. new[k] = ids
      BY <2>1, <1>3
    <3>2. \A j \in ids : new[j] = order[j]
      BY <1>1, <1>3
    <3>3. \A j \in ids : new[j] \subseteq ids
      BY <3>2 DEF Closed
    <3> QED BY <3>1, <3>3, <2>1, <1>5
  <2>2. CASE k # m
    <3>1. k \in DOMAIN order /\ k \in kParityLane .. m - 1 /\ k \in Nat
      BY <2>2, <1>1, <1>2
    <3>2. new[k] = order[k]
      BY <3>1, <1>3
    <3>3. order[k] \subseteq kParityLane .. k - 1 /\ \A j \in order[k] : order[j] \subseteq order[k]
      BY <3>1 DEF OrderOK
    <3>4. \A j \in order[k] : new[j] = order[j]
      <4>1. \A j \in order[k] : j \in DOMAIN order
        BY <3>1, <3>3, <1>1
      <4> QED BY <4>1, <1>3
    <3>5. ASSUME (m + 1) - k <= kParityLane PROVE Covers(new[k], k, fences[Slot(k)])
      <4>1. m - k < kParityLane /\ k - m < kParityLane /\ k # m
        BY <3>1, <3>5
      <4>2. Slot(k) # Slot(m)
        BY ONLY <4>1, <3>1, m \in Nat, SlotsApart
      <4>3. Slot(k) \in Fences
        BY <3>1, SlotOfId
      <4>4. fences[Slot(k)] = sum[Slot(k)]
        BY <4>2, <4>3, <1>6
      <4>5. m - k <= kParityLane
        BY <3>1, <3>5
      <4>6. Covers(order[k], k, sum[Slot(k)])
        BY <4>5, <3>1 DEF OrderOK
      <4> QED BY <4>4, <4>6, <3>2
    <3> QED BY <3>2, <3>3, <3>4, <3>5
  <2> QED BY <2>1, <2>2
<1>8. ASSUME NEW s \in Fences, \A k \in DOMAIN new : Slot(k) # s PROVE fences[s] = {}
  <2>1. s # Slot(m) /\ \A k \in DOMAIN order : Slot(k) # s
    BY <1>8, <1>1, <1>2
  <2>2. sum[s] = {}
    BY <2>1 DEF OrderOK
  <2> QED BY <2>1, <2>2, <1>6
<1> QED BY <1>2, <1>5, <1>7, <1>8 DEF OrderOK, new, fences

(* Numbers of one lane are a lane apart, and each lane has recent ones.     *)
LEMMA LanesApart ==
  ASSUME NEW a \in Nat, NEW b \in Nat, a % kLane = b % kLane, a < b
  PROVE  b >= a + kLane
<1>1. kLane \in Nat \ {0}
  BY Lanes
<1> QED BY <1>1, RemaindersApart, Zenon

LEMMA LaneBelow ==
  ASSUME NEW m \in Nat, m >= kLane, NEW r \in 0 .. kLane - 1
  PROVE  \E o \in 0 .. kLane - 1 : (m - o) % kLane = r
<1>1. kLane \in Nat \ {0}
  BY Lanes
<1> QED BY <1>1, RemainderBelow, Zenon

(* Every lane has a fence of the last two generations to wait for, and so  *)
(* everything older is waited for.                                         *)
LEMMA GenerationsExtended ==
  ASSUME NEW order, NEW sum, NEW m \in Nat, m >= kParityLane, OrderOK(order, sum, m),
         GenerationsOK(order), NEW strong, FencesReal(strong, m, FALSE),
         NEW ids \in SUBSET (kParityLane .. m - 1), Closed(ids, order),
         Covers(ids, m, FullFences(strong, m))
  PROVE  GenerationsOK(Extended(order, m, ids))
<1> USE Lanes
<1> DEFINE new == Extended(order, m, ids)
<1>1. DOMAIN order = kParityLane .. m - 1 /\ m \notin DOMAIN order
  BY DEF OrderOK
<1>2. DOMAIN new = kParityLane .. m
  BY <1>1 DEF Extended
<1>3. new[m] = ids /\ \A k \in DOMAIN order : new[k] = order[k]
  BY <1>1 DEF Extended
<1>4. ASSUME NEW n \in kParityLane .. m - 1, m - n >= kLane PROVE n \in ids
  <2> DEFINE l == n % kLane
  <2>1. n \in Nat /\ l \in 0 .. kLane - 1
    BY DivMod
  <2>2. \E k \in kParityLane .. m - 1 :
          k >= n /\ k % kLane = l /\ m - k < kParityLane /\ Slot(k) \in FullFences(strong, m)
    <3>1. CASE l \in laneMask(strong)
      <4>1. PICK f \in strong : f % kLane = l
        BY <3>1 DEF laneMask
      <4>2. PICK k \in kParityLane .. m - 1 : Slot(k) = f /\ m - k < 2 * kLane
        BY DEF FencesReal
      <4>3. k \in Nat /\ k % kLane = l
        BY <4>1, <4>2, LaneOfSlot
      <4>4. k >= n
        <5>1. ASSUME k < n PROVE FALSE
          <6>1. n % kLane = k % kLane
            BY <4>3
          <6>2. n >= k + kLane
            BY ONLY <5>1, <6>1, <4>3, <2>1, Lanes, LanesApart
          <6>3. m - k < 2 * kLane
            BY <4>2
          <6> QED BY ONLY <6>2, <6>3, <4>3, <2>1, <1>4, Lanes, m \in Nat
        <5> QED BY <5>1, <4>3, <2>1
      <4>5. Slot(k) \in FullFences(strong, m)
        BY <4>1, <4>2 DEF FullFences
      <4>6. m - k < kParityLane
        BY <4>2, <4>3
      <4> QED BY <4>3, <4>4, <4>5, <4>6
    <3>2. CASE l \notin laneMask(strong)
      <4> DEFINE g == m - kLane
      <4>1. g \in Nat /\ g >= kLane
        OBVIOUS
      <4>2. PICK o \in 0 .. kLane - 1 : (g - o) % kLane = l
        <5> HIDE DEF g, l
        <5> QED BY <4>1, <2>1, LaneBelow
      <4> DEFINE k == g - o
      <4>3. k \in Nat /\ k <= m - kLane /\ m - k < 2 * kLane /\ k % kLane = l
        BY <4>1, <4>2
      <4>4. k = m - kLane - o
        OBVIOUS
      <4> HIDE DEF g, k, l
      <4>5. k >= n
        <5>1. ASSUME k < n PROVE FALSE
          <6>1. n % kLane = l
            BY DEF l
          <6>2. n % kLane = k % kLane
            BY <6>1, <4>3
          <6>3. n >= k + kLane
            BY ONLY <5>1, <6>2, <4>3, <2>1, Lanes, LanesApart
          <6> QED BY ONLY <6>3, <4>3, <2>1, <1>4, Lanes, m \in Nat
        <5> QED BY <5>1, <4>3, <2>1
      <4>6. Slot(k) \in WeakFences(m)
        BY <4>4 DEF WeakFences, Slots
      <4>7. Slot(k) % kLane = l
        BY <4>3, LaneOfSlot
      <4>8. Slot(k) \in FullFences(strong, m)
        BY <4>6, <4>7, <3>2 DEF FullFences
      <4>9. k \in kParityLane .. m - 1 /\ m - k < kParityLane
        BY <4>3, <4>5, <2>1
      <4> QED BY <4>3, <4>5, <4>8, <4>9
    <3> QED BY <3>1, <3>2
  <2>3. PICK k \in kParityLane .. m - 1 :
          k >= n /\ k % kLane = l /\ m - k < kParityLane /\ Slot(k) \in FullFences(strong, m)
    BY <2>2
  <2>4. k \in ids
    BY <2>3 DEF Covers
  <2>5. CASE k = n
    BY <2>4, <2>5
  <2>6. CASE k > n
    <3>1. k \in Nat /\ k % kLane = n % kLane
      BY <2>3
    <3>2. k >= n + kLane
      BY ONLY <3>1, <2>6, <2>1, Lanes, LanesApart
    <3>3. k - n >= kLane
      BY ONLY <3>2, <3>1, <2>1, Lanes
    <3>4. n \in order[k]
      BY <3>3, <1>1, <2>3 DEF GenerationsOK
    <3> QED BY <3>4, <2>4 DEF Closed
  <2> QED BY <2>3, <2>5, <2>6, <2>1
<1> HIDE DEF new
<1>5. ASSUME NEW k \in DOMAIN new, NEW n \in DOMAIN new, k - n >= kLane PROVE n \in new[k]
  <2>1. CASE k = m
    <3>1. n \in kParityLane .. m - 1
      BY <2>1, <1>2, <1>5
    <3> QED BY <3>1, <2>1, <1>4, <1>5, <1>3
  <2>2. CASE k # m
    <3>1. k \in DOMAIN order /\ n \in DOMAIN order
      BY <2>2, <1>1, <1>2, <1>5
    <3> QED BY <3>1, <1>3, <1>5 DEF GenerationsOK
  <2> QED BY <2>1, <2>2
<1> QED BY <1>5 DEF GenerationsOK, new

(* The ids are those of full fences, or of fences that stand for them.     *)
FullOK(order, ids, m, strong) ==
  /\ ids \subseteq kParityLane .. m - 1 /\ Closed(ids, order)
  /\ Covers(ids, m, FullFences(strong, m))

LEMMA FencesOfIds ==
  ASSUME NEW m \in Nat, m >= kParityLane, NEW strong, NEW old, FencesReal(strong, m, old)
  PROVE  FullFences(strong, m) \subseteq Fences
<1> USE Lanes
<1>1. strong \subseteq Fences
  <2> SUFFICES ASSUME NEW f \in strong PROVE f \in Fences
    OBVIOUS
  <2>1. PICK n \in kParityLane .. m - 1 : Slot(n) = f
    BY DEF FencesReal
  <2> QED BY <2>1, SlotOfId
<1>2. WeakFences(m) \subseteq Fences
  <2>1. \A o \in 0 .. kLane - 1 : m - kLane - o \in Nat
    OBVIOUS
  <2> QED BY <2>1, SlotOfId DEF WeakFences, Slots
<1> QED BY <1>1, <1>2 DEF FullFences

(* What the end of a pass makes of the order, the summary and the fences.  *)
LEMMA OrderAfterPass ==
  ASSUME NEW order, NEW sum, NEW m \in Nat, m >= kParityLane, OrderOK(order, sum, m),
         NEW strong, NEW old \in BOOLEAN, FencesReal(strong, m, old), NEW ids, FullOK(order, ids, m, strong),
         ~old => GenerationsOK(order)
  PROVE  /\ OrderOK(Extended(order, m, ids),
                    [sum EXCEPT ![Slot(m)] = FullFences(strong, m)], m + 1)
         /\ ~old => GenerationsOK(Extended(order, m, ids))
         /\ Covers(ids, m, strong)
<1>1. ids \in SUBSET (kParityLane .. m - 1) /\ Closed(ids, order)
  BY DEF FullOK
<1>2. Covers(ids, m, FullFences(strong, m))
  BY DEF FullOK
<1>3. FullFences(strong, m) \in SUBSET Fences
  BY FencesOfIds
<1>4. Covers(ids, m, strong)
  BY <1>2 DEF Covers, FullFences
<1>5. OrderOK(Extended(order, m, ids), [sum EXCEPT ![Slot(m)] = FullFences(strong, m)], m + 1)
  BY <1>1, <1>2, <1>3, OrderExtended
<1>6. ASSUME ~old PROVE GenerationsOK(Extended(order, m, ids))
  <2>1. FencesReal(strong, m, FALSE)
    BY <1>6 DEF FencesReal
  <2> QED BY <1>1, <1>2, <1>6, <2>1, GenerationsExtended
<1> QED BY <1>4, <1>5, <1>6

LEMMA CollectedPlain ==
  ASSUME NEW order, NEW sum, NEW m \in Nat, m >= kParityLane, OrderOK(order, sum, m),
         NEW strong, NEW old \in BOOLEAN, FencesReal(strong, m, old), ~old => GenerationsOK(order),
         NEW c, c = collectAndSimplifyWaits(strong, m, FALSE, sum),
         NEW ids, ids = After(c.minimal, order)
  PROVE  /\ OrderOK(Extended(order, m, ids), c.summary, m + 1)
         /\ ~old => GenerationsOK(Extended(order, m, ids))
         /\ Covers(ids, m, strong)
<1> DEFINE full == FullFences(strong, m)
<1>1. c.minimal = Walk(full, m, sum) /\ c.summary = [sum EXCEPT ![Slot(m)] = full]
  <2>1. strong \cup {} = strong /\ Walk(full, m, sum) \ {} = Walk(full, m, sum)
    OBVIOUS
  <2> HIDE DEF full
  <2> QED BY <2>1 DEF collectAndSimplifyWaits, full
<1> HIDE DEF full
<1>2. ids \subseteq kParityLane .. m - 1 /\ Closed(ids, order)
  BY AfterClosed
<1>3. Covers(ids, m, full)
  BY <1>1, WalkCovers
<1>4. FullOK(order, ids, m, strong)
  BY <1>2, <1>3 DEF FullOK, full
<1>5. /\ OrderOK(Extended(order, m, ids), [sum EXCEPT ![Slot(m)] = full], m + 1)
      /\ ~old => GenerationsOK(Extended(order, m, ids))
      /\ Covers(ids, m, strong)
  BY <1>4, OrderAfterPass DEF full
<1> QED BY <1>1, <1>5

(* The fragments come after the stages before rasterisation, and need not  *)
(* wait for what those have waited for.                                    *)
LEMMA CollectedPixel ==
  ASSUME NEW order, NEW sum, NEW m \in Nat, m > kParityLane, OrderOK(order, sum, m),
         NEW strong, NEW old \in BOOLEAN, FencesReal(strong, m, old), ~old => GenerationsOK(order),
         NEW c, c = collectAndSimplifyWaits(strong, m, TRUE, sum),
         NEW earlier, NEW w, order[m - 1] = After(w, earlier),
         DOMAIN earlier = kParityLane .. m - 2,
         NEW ids, ids = {m - 1} \cup order[m - 1] \cup After(c.minimal \ w, order)
  PROVE  /\ OrderOK(Extended(order, m, ids), c.summary, m + 1)
         /\ ~old => GenerationsOK(Extended(order, m, ids))
         /\ Covers(ids, m, strong)
<1> USE Lanes
<1> DEFINE v == m - 1
           more == strong \cup {Slot(v)}
           full == FullFences(more, m)
           walked == Walk(full, m, sum)
           rest == After(c.minimal \ w, order)
<1>1. c.minimal = walked \ {Slot(v)} /\ c.summary = [sum EXCEPT ![Slot(m)] = full]
  BY DEF collectAndSimplifyWaits
<1> HIDE DEF full, walked
<1>2. DOMAIN order = kParityLane .. v /\ v \in DOMAIN order /\ v \in Nat
  BY DEF OrderOK
<1>3. rest \subseteq kParityLane .. v /\ Closed(rest, order)
  BY AfterClosed
<1>4. order[v] \subseteq kParityLane .. v - 1 /\ \A k \in order[v] : order[k] \subseteq order[v]
  BY <1>2 DEF OrderOK
<1> HIDE DEF rest
<1>5. ids \subseteq kParityLane .. m - 1
  <2>1. v \in kParityLane .. m - 1 /\ m - 1 = v
    BY <1>2
  <2>2. kParityLane .. v - 1 \subseteq kParityLane .. m - 1
    BY <1>2
  <2> HIDE DEF v
  <2> QED BY <1>3, <1>4, <2>1, <2>2 DEF rest
<1>6. Closed(ids, order)
  <2> SUFFICES ASSUME NEW k \in ids PROVE order[k] \subseteq ids
    BY DEF Closed
  <2>1. CASE k = v
    BY <2>1
  <2>2. CASE k \in order[v]
    BY <2>2, <1>4
  <2>3. CASE k \in rest
    BY <2>3, <1>3 DEF Closed, rest
  <2> QED BY <2>1, <2>2, <2>3 DEF rest
<1>7. ASSUME NEW s \in walked, NEW k \in Latest(s, DOMAIN order) PROVE k \in ids
  <2>1. CASE s = Slot(v)
    <3>1. Latest(Slot(v), kParityLane .. m - 1) = {v}
      BY <1>2, LatestOf
    <3> QED BY <3>1, <1>2, <1>7, <2>1
  <2>2. CASE s \in w
    <3>1. CASE k = v
      BY <3>1
    <3>2. CASE k # v
      <4>1. DOMAIN earlier \subseteq DOMAIN order /\ k \in DOMAIN earlier
        BY <3>2, <1>2, <1>7 DEF Latest
      <4>2. k \in Latest(s, DOMAIN earlier)
        BY <4>1, <1>7 DEF Latest
      <4>3. k \in After(w, earlier)
        BY <4>2, <2>2 DEF After
      <4> QED BY <4>3
    <3> QED BY <3>1, <3>2
  <2>3. CASE s # Slot(v) /\ s \notin w
    <3>1. s \in c.minimal \ w
      BY <2>3, <1>1
    <3>2. k \in After(c.minimal \ w, order)
      BY <3>1, <1>7 DEF After
    <3> QED BY <3>2
  <2> QED BY <2>1, <2>2, <2>3
<1>8. After(walked, order) \subseteq ids
  <2> DEFINE L == UNION {Latest(s, DOMAIN order) : s \in walked}
  <2>1. L \subseteq ids
    BY <1>7
  <2>2. After(walked, order) = L \cup UNION {order[n] : n \in L}
    BY DEF After
  <2>3. \A n \in L : order[n] \subseteq ids
    BY <2>1, <1>6 DEF Closed
  <2> HIDE DEF L
  <2> QED BY ONLY <2>1, <2>2, <2>3
<1>9. Covers(ids, m, full)
  <2>1. Covers(After(walked, order), m, full)
    BY WalkCovers DEF walked
  <2> QED BY <2>1, <1>8 DEF Covers
<1>10. FullOK(order, ids, m, more)
  BY <1>5, <1>6, <1>9 DEF FullOK, full
<1>11. FencesReal(more, m, old)
  <2>1. v \in kParityLane .. m - 1 /\ m - v < 2 * kLane
    OBVIOUS
  <2> QED BY <2>1 DEF FencesReal
<1> HIDE DEF more
<1>12. /\ OrderOK(Extended(order, m, ids), [sum EXCEPT ![Slot(m)] = full], m + 1)
       /\ ~old => GenerationsOK(Extended(order, m, ids))
       /\ Covers(ids, m, more)
  <2>1. m >= kParityLane
    OBVIOUS
  <2> QED BY <2>1, <1>10, <1>11, OrderAfterPass DEF full
<1>13. Covers(ids, m, strong)
  BY <1>12 DEF Covers, more
<1> QED BY <1>1, <1>12, <1>13

-----------------------------------------------------------------------------
(* The ring remembers a reader until kLane newer ids have been added.      *)

(* The new ring has the id added in front.                                 *)
Added(t, u, id) ==
  u.cursor = (t.cursor + 1) % kLane /\ u.storage = [t.storage EXCEPT ![u.cursor] = id]
RingSame(t, u) == u.storage = t.storage /\ u.cursor = t.cursor

LEMMA EntryNewest ==
  ASSUME NEW t \in Trackers
  PROVE  Entry(t, 0) = t.storage[t.cursor] /\ Entry(t, 0) \in Nat
<1>1. t.cursor \in 0 .. kLane - 1 /\ t.storage \in [Ring -> Nat]
  BY DEF Trackers, Ring
<1>2. PICK c \in 0 .. kLane - 1 : c = t.cursor
  BY <1>1
<1>3. (c + kLane - 0) % kLane = c
  BY <1>2, Lanes
<1> QED BY <1>1, <1>2, <1>3 DEF Entry, Ring

LEMMA EntriesShift ==
  ASSUME NEW t \in Trackers, NEW u \in Trackers, NEW id \in Nat, Added(t, u, id)
  PROVE  Entry(u, 0) = id /\ \A i \in 0 .. kLane - 2 : Entry(u, i + 1) = Entry(t, i)
<1> USE Lanes
<1>1. PICK c \in 0 .. kLane - 1 : c = t.cursor
  BY DEF Trackers, Ring
<1>2. PICK d \in 0 .. kLane - 1 : d = u.cursor
  BY DEF Trackers, Ring
<1>3. d = IF c = kLane - 1 THEN 0 ELSE c + 1
  <2>1. d = (c + 1) % kLane
    BY <1>1, <1>2 DEF Added
  <2>2. CASE c = kLane - 1
    BY <2>1, <2>2
  <2>3. CASE c < kLane - 1
    BY <2>1, <2>3
  <2> QED BY <2>2, <2>3
<1>4. t.storage \in [Ring -> Nat] /\ u.storage = [t.storage EXCEPT ![d] = id]
  BY <1>2 DEF Added, Trackers
<1>5. Entry(u, 0) = id
  <2>1. Entry(u, 0) = u.storage[d]
    BY <1>2, EntryNewest
  <2> QED BY <2>1, <1>4 DEF Ring
<1>6. ASSUME NEW i \in 0 .. kLane - 2 PROVE Entry(u, i + 1) = Entry(t, i)
  <2> DEFINE k == (c + kLane - i) % kLane
  <2>1. k = IF c >= i THEN c - i ELSE c + kLane - i
    <3>1. CASE c >= i
      <4>1. PICK a \in 0 .. kLane - 1 : a = c - i
        BY <3>1
      <4>2. (a + kLane) % kLane = a
        BY <4>1
      <4>3. c + kLane - i = a + kLane
        BY <4>1
      <4> QED BY <4>1, <4>2, <4>3, <3>1
    <3>2. CASE c < i
      <4>1. PICK a \in 0 .. kLane - 1 : a = c + kLane - i
        BY <3>2
      <4>2. a % kLane = a
        BY <4>1
      <4> QED BY <4>1, <4>2, <3>2
    <3> QED BY <3>1, <3>2
  <2>2. (d + kLane - (i + 1)) % kLane = k
    <3>1. CASE c = kLane - 1
      <4>1. c >= i /\ d = 0
        BY <3>1, <1>3
      <4>2. PICK a \in 0 .. kLane - 1 : a = kLane - 1 - i
        OBVIOUS
      <4>3. a % kLane = a
        BY <4>2
      <4>4. d + kLane - (i + 1) = a /\ k = a
        BY <4>1, <4>2, <2>1, <3>1
      <4> QED BY <4>3, <4>4
    <3>2. CASE c < kLane - 1
      <4>1. d + kLane - (i + 1) = c + kLane - i
        BY <3>2, <1>3
      <4> QED BY <4>1
    <3> QED BY <3>1, <3>2
  <2>3. k # d /\ k \in Ring
    BY <2>1, <1>3 DEF Ring
  <2> HIDE DEF k
  <2>4. u.storage[k] = t.storage[k]
    BY <2>3, <1>4
  <2>5. Entry(u, i + 1) = u.storage[k]
    BY <2>2, <1>2 DEF Entry
  <2>6. Entry(t, i) = t.storage[k]
    BY <1>1 DEF Entry, k
  <2> QED BY <2>4, <2>5, <2>6
<1> QED BY <1>5, <1>6

LEMMA Remembers ==
  ASSUME NEW t \in Trackers, NEW u \in Trackers, NEW id \in Nat, NEW r \in Nat,
         \/ RingSame(t, u)
         \/ Added(t, u, id) /\ Entry(t, 0) < id,
         Remembered(t, r)
  PROVE  Remembered(u, r)
<1> USE Lanes
<1>1. CASE RingSame(t, u)
  BY <1>1 DEF RingSame, Remembered, Entry
<1>2. CASE Added(t, u, id) /\ Entry(t, 0) < id
  <2>1. Entry(u, 0) = id /\ \A i \in 0 .. kLane - 2 : Entry(u, i + 1) = Entry(t, i)
    BY <1>2, EntriesShift
  <2>2. Entry(t, 0) \in Nat
    BY EntryNewest
  <2>3. CASE Entry(t, 0) - r >= kLane
    BY <1>2, <2>1, <2>2, <2>3 DEF Remembered
  <2>4. ASSUME NEW i \in Ring, Entry(t, i) = r, \A j \in 0 .. i : Entry(t, j) >= r + (i - j)
        PROVE  Remembered(u, r)
    <3>1. Entry(t, 0) >= r + i
      <4>1. 0 \in 0 .. i
        BY DEF Ring
      <4> QED BY <2>4, <4>1 DEF Ring
    <3>2. id >= r + i + 1
      BY <3>1, <1>2, <2>2 DEF Ring
    <3>3. CASE i = kLane - 1
      <4>1. id - r >= kLane
        BY <3>2, <3>3
      <4> QED BY <4>1, <2>1 DEF Remembered
    <3>4. CASE i < kLane - 1
      <4> DEFINE q == i + 1
      <4>1. q \in Ring /\ i \in 0 .. kLane - 2
        BY <3>4 DEF Ring
      <4>2. Entry(u, q) = r
        BY <4>1, <2>1, <2>4
      <4>3. ASSUME NEW j \in 0 .. q PROVE Entry(u, j) >= r + (q - j)
        <5>1. CASE j = 0
          BY <5>1, <2>1, <3>2 DEF Ring
        <5>2. CASE j # 0
          <6> DEFINE h == j - 1
          <6>1. h \in 0 .. i /\ h \in 0 .. kLane - 2 /\ j = h + 1
            BY <5>2, <4>1
          <6>2. Entry(t, h) >= r + (i - h)
            BY <2>4, <6>1
          <6>3. Entry(u, j) = Entry(t, h)
            BY <2>1, <6>1
          <6>4. q - j = i - h
            BY <6>1, <4>1
          <6> QED BY <6>2, <6>3, <6>4
        <5> QED BY <5>1, <5>2
      <4> HIDE DEF q
      <4> QED BY <4>1, <4>2, <4>3 DEF Remembered
    <3> QED BY <3>3, <3>4 DEF Ring
  <2> QED BY <2>3, <2>4 DEF Remembered
<1> QED BY <1>1, <1>2

(* The newest entry is remembered.                                         *)
LEMMA NewestRemembered ==
  ASSUME NEW t \in Trackers, NEW r \in Nat, Entry(t, 0) = r
  PROVE  Remembered(t, r)
<1>1. 0 \in Ring /\ 0 .. 0 = {0}
  BY Lanes DEF Ring
<1>2. \A j \in 0 .. 0 : Entry(t, j) >= r + (0 - j)
  BY <1>1
<1> QED BY <1>1, <1>2 DEF Remembered

(* A later writer finds whoever is remembered, as long as no newer entry   *)
(* than its own id is in the ring.                                         *)
LEMMA Enumerated ==
  ASSUME NEW t \in Trackers, NEW id \in Nat, NEW r \in Nat, Remembered(t, r),
         r < id, id - r < kLane, Entry(t, 0) <= id
  PROVE  r \in enumerate(t, id)
<1> USE Lanes
<1>1. ~(Entry(t, 0) - r >= kLane)
  BY EntryNewest
<1>2. PICK i \in Ring : Entry(t, i) = r /\ \A j \in 0 .. i : Entry(t, j) >= r + (i - j)
  BY <1>1 DEF Remembered
<1>3. \A j \in 0 .. i : Entry(t, j) > id - kLane
  <2> TAKE j \in 0 .. i
  <2>1. (t.cursor + kLane - j) % kLane \in Ring
    BY <1>2 DEF Trackers, Ring
  <2>2. Entry(t, j) \in Nat
    BY <2>1 DEF Entry, Trackers
  <2>3. Entry(t, j) >= r + (i - j) /\ i - j \in Nat
    BY <1>2 DEF Ring
  <2> QED BY <2>2, <2>3
<1> DEFINE entry(k) == t.storage[(t.cursor + kLane - k) % kLane]
<1>4. entry(i) = r /\ \A j \in 0 .. i : entry(j) > id - kLane
  BY <1>2, <1>3 DEF Entry
<1>5. i \in 0 .. kLane - 1
  BY DEF Ring
<1>6. r \in Visited(t, id)
  BY <1>4, <1>5 DEF Visited
<1> QED BY <1>6 DEF enumerate

(* Whom a write waits for are earlier ids.                                 *)
LEMMA EnumeratedReal ==
  ASSUME NEW t \in Trackers, IdsReal(t), NEW id \in Nat, id >= kLane
  PROVE  enumerate(t, id) \subseteq kParityLane .. id - 1
<1> USE Lanes
<1> SUFFICES ASSUME NEW n \in enumerate(t, id) PROVE n \in kParityLane .. id - 1
  OBVIOUS
<1> DEFINE entry(k) == t.storage[(t.cursor + kLane - k) % kLane]
<1>1. PICK i \in 0 .. kLane - 1 : n = entry(i) /\ \A j \in 0 .. i : entry(j) > id - kLane
  BY DEF enumerate, Visited
<1>2. (t.cursor + kLane - i) % kLane \in Ring
  BY DEF Trackers, Ring
<1>3. n \in Nat /\ (n = 0 \/ n >= kParityLane)
  BY <1>1, <1>2 DEF IdsReal, Trackers
<1>4. n > id - kLane
  <2>1. i \in 0 .. i
    OBVIOUS
  <2> QED BY <1>1, <2>1
<1>5. n < id
  BY DEF enumerate
<1> QED BY <1>3, <1>4, <1>5

-----------------------------------------------------------------------------
(* What each access function does for the order.                           *)

LEMMA Newest ==
  ASSUME NEW t \in Trackers, NEW id
  PROVE  isLastAccess(t, id) <=> Entry(t, 0) = id
BY EntryNewest DEF isLastAccess

LEMMA ResultHas ==
  ASSUME NEW t, NEW ids, NEW bits
  PROVE  Result(t, ids, bits).tracker = t /\ Result(t, ids, bits).waits = ids
         /\ Result(t, ids, bits).barrier = bits
BY DEF Result

LEMMA AddAdds ==
  ASSUME NEW t \in Trackers, NEW id \in Nat, ~isLastAccess(t, id)
  PROVE  Added(t, add(t, id), id) /\ Entry(add(t, id), 0) = id
<1>1. (t.cursor + 1) % kLane \in Ring
  BY Lanes DEF Ring, Trackers
<1>2. Added(t, add(t, id), id)
  BY <1>1 DEF add, Added, Trackers
<1>3. add(t, id) \in Trackers
  BY AddResult
<1> QED BY <1>2, <1>3, EntriesShift

(* Where one of the passes is after an access.                             *)
EncAfter(e, f, stage, q) ==
  /\ f.type = e.type /\ f.id = e.id
  /\ WaitsOf(f, stage) = WaitsOf(e, stage) \cup Slots(q.waits)
  /\ \A s \in StagesOf(e) : WaitsOf(e, s) \subseteq WaitsOf(f, s)

ReadDone(e, t, stage, q) ==
  LET id == IdOf(e, stage) IN
  /\ q.tracker.exclusive = t.exclusive /\ q.waits \subseteq Recent(t, id)
  /\ t.exclusive \in IdsOf(e) => RingSame(t, q.tracker) /\ q.waits = {}
  /\ t.exclusive \notin IdsOf(e) =>
       \/ Added(t, q.tracker, id) /\ Entry(t, 0) < id
       \/ RingSame(t, q.tracker)
          /\ (Entry(t, 0) = id \/ (stage = "vertex" /\ Entry(t, 0) = id + 1))

(* After an access outside of a pass that has written, the stage waits for *)
(* the last writer, and whoever is taken for a reader still does.          *)
ReadAwaits(e, f, t, stage, q) ==
  t.exclusive \notin IdsOf(e) => Awaited(f, q.tracker, stage) /\ ReadersWait(f, q.tracker)

LEMMA AwaitedKept ==
  ASSUME NEW e, NEW f, NEW t, NEW u, u.exclusive = t.exclusive, NEW stage,
         f.type = e.type, f.id = e.id, WaitsOf(e, stage) \subseteq WaitsOf(f, stage),
         Awaited(e, t, stage)
  PROVE  Awaited(f, u, stage)
BY DEF Awaited, Recent, IdOf

LEMMA AwaitedNow ==
  ASSUME NEW e, NEW f, NEW t, NEW stage, NEW q, EncAfter(e, f, stage, q),
         q.tracker.exclusive = t.exclusive, q.waits = Recent(t, IdOf(e, stage))
  PROVE  Awaited(f, q.tracker, stage)
<1>1. Recent(q.tracker, IdOf(f, stage)) = q.waits
  BY DEF EncAfter, Recent, IdOf
<1> QED BY <1>1 DEF Awaited, EncAfter

LEMMA PassIds ==
  ASSUME NEW e \in Encoders
  PROVE  /\ e.type = "plain" => StagesOf(e) = {"compute"} /\ IdsOf(e) = {e.id}
         /\ e.type = "render" => StagesOf(e) = {"vertex", "pixel"} /\ IdsOf(e) = {e.id - 1, e.id}
         /\ e.type = "none" => StagesOf(e) = {} /\ IdsOf(e) = {}
         /\ IdOf(e, "compute") = e.id /\ IdOf(e, "pixel") = e.id /\ IdOf(e, "vertex") = e.id - 1
<1>1. IdOf(e, "compute") = e.id /\ IdOf(e, "pixel") = e.id /\ IdOf(e, "vertex") = e.id - 1
  BY DEF IdOf
<1>2. CASE e.type = "plain"
  BY <1>1, <1>2 DEF StagesOf, IdsOf
<1>3. CASE e.type = "render"
  <2>1. StagesOf(e) = {"vertex", "pixel"}
    BY <1>3 DEF StagesOf
  <2>2. IdsOf(e) = {IdOf(e, "vertex"), IdOf(e, "pixel")}
    BY <2>1 DEF IdsOf
  <2> QED BY <1>1, <1>3, <2>1, <2>2
<1>4. CASE e.type = "none"
  BY <1>1, <1>4 DEF StagesOf, IdsOf
<1> QED BY <1>1, <1>2, <1>3, <1>4 DEF Encoders

LEMMA PlainRead ==
  ASSUME NEW e \in Encoders, e.type = "plain", NEW t \in Trackers, Entry(t, 0) <= e.id,
         ReadersWait(e, t), NEW q, q = accessShared(t, e.id),
         NEW f, EncAfter(e, f, "compute", q), IdsOf(f) = IdsOf(e)
  PROVE  ReadDone(e, t, "compute", q) /\ ReadAwaits(e, f, t, "compute", q)
<1> DEFINE i == e.id
<1>1. i \in Nat /\ IdsOf(e) = {i} /\ IdOf(e, "compute") = i /\ StagesOf(e) = {"compute"}
  BY PassIds DEF Encoders
<1>2. f.type = "plain" /\ f.id = i
  BY DEF EncAfter
<1>3. CASE t.exclusive = i
  <2>1. q.tracker = [t EXCEPT !.isShared = TRUE] /\ q.waits = {}
    BY <1>3 DEF accessShared, Result
  <2> QED BY <1>1, <1>3, <2>1 DEF ReadDone, ReadAwaits, RingSame, Trackers
<1>4. CASE t.exclusive # i /\ isLastAccess(t, i)
  <2>1. q.tracker = t /\ q.waits = {}
    BY <1>4 DEF accessShared, Nothing, Result
  <2>2. Entry(t, 0) = i
    BY <1>4, Newest
  <2>3. Awaited(e, t, "compute")
    BY <1>1, <1>4 DEF ReadersWait
  <2>4. Awaited(f, q.tracker, "compute")
    BY <1>1, <2>1, <2>3, AwaitedKept DEF EncAfter
  <2>5. ReadersWait(f, q.tracker)
    BY <1>2, <2>4 DEF ReadersWait
  <2> QED BY <1>1, <2>1, <2>2, <2>4, <2>5 DEF ReadDone, ReadAwaits, RingSame
<1>5. CASE t.exclusive # i /\ ~isLastAccess(t, i)
  <2>1. q.tracker = add(t, i) /\ q.waits = Recent(t, i)
    BY <1>5 DEF accessShared, Result
  <2>2. Added(t, q.tracker, i) /\ q.tracker.exclusive = t.exclusive
    BY <1>1, <1>5, <2>1, AddAdds, AddResult
  <2>3. Entry(t, 0) < i
    BY <1>1, <1>5, EntryNewest, Newest
  <2>4. Awaited(f, q.tracker, "compute")
    BY <1>1, <2>1, <2>2, AwaitedNow
  <2>5. ReadersWait(f, q.tracker)
    BY <1>2, <2>4 DEF ReadersWait
  <2> QED BY <1>1, <1>5, <2>1, <2>2, <2>3, <2>4, <2>5 DEF ReadDone, ReadAwaits
<1> QED BY <1>3, <1>4, <1>5

LEMMA VertexRead ==
  ASSUME NEW e \in Encoders, e.type = "render", e.id > 0, NEW t \in Trackers, Entry(t, 0) <= e.id,
         ReadersWait(e, t), NEW q, q = accessSharedPreRaster(t, e.id - 1),
         NEW f, EncAfter(e, f, "vertex", q), IdsOf(f) = IdsOf(e)
  PROVE  ReadDone(e, t, "vertex", q) /\ ReadAwaits(e, f, t, "vertex", q)
<1> DEFINE v == e.id - 1
           read == [t EXCEPT !.isSharedPreRaster = TRUE]
<1>1. /\ e.id \in Nat /\ v \in Nat /\ e.id = v + 1 /\ IdsOf(e) = {v, v + 1} /\ IdOf(e, "vertex") = v
      /\ IdOf(e, "pixel") = v + 1 /\ StagesOf(e) = {"vertex", "pixel"}
  BY PassIds DEF Encoders
<1>2. f.type = "render" /\ f.id = e.id
  BY DEF EncAfter
<1>3. q = accessSharedPreRaster(t, v)
  OBVIOUS
<1> HIDE DEF v
<1>4. /\ read.storage = t.storage /\ read.cursor = t.cursor /\ read.exclusive = t.exclusive
      /\ read.isShared = t.isShared /\ read.isSharedPreRaster = TRUE /\ read \in Trackers
  BY DEF Trackers
<1>5. CASE t.exclusive \in {v, v + 1}
  <2>1. q.tracker = read /\ q.waits = {}
    BY <1>1, <1>3, <1>5 DEF accessSharedPreRaster, Result
  <2> HIDE DEF read
  <2> QED BY <1>1, <1>4, <1>5, <2>1 DEF ReadDone, ReadAwaits, RingSame
<1>6. CASE t.exclusive \notin {v, v + 1} /\ isLastAccess(t, v + 1)
  <2>1. Entry(t, 0) = v + 1 /\ ~isLastAccess(t, v)
    BY <1>1, <1>6, Newest
  <2>2. t.isShared /\ Awaited(e, t, "pixel") /\ (t.isSharedPreRaster => Awaited(e, t, "vertex"))
    BY <1>1, <1>6 DEF ReadersWait
  <2>9. t.isSharedPreRaster => q = Nothing(t)
    BY <1>1, <1>3, <1>6 DEF accessSharedPreRaster
  <2>10. ~t.isSharedPreRaster => q.tracker = read /\ q.waits = Recent(t, v)
    <3> SUFFICES ASSUME ~t.isSharedPreRaster PROVE q.tracker = read /\ q.waits = Recent(t, v)
      OBVIOUS
    <3>1. t.exclusive # v /\ t.exclusive # v + 1 /\ isLastAccess(t, v + 1) /\ ~isLastAccess(t, v)
      BY <1>6, <2>1
    <3> QED BY <1>1, <1>3, <3>1 DEF accessSharedPreRaster, Result
  <2>3. q.tracker \in {t, read} /\ q.waits \subseteq Recent(t, v)
    <3> HIDE DEF read
    <3> QED BY <2>9, <2>10, ResultHas DEF Nothing
  <2>4. ~t.isSharedPreRaster => q.waits = Recent(t, v)
    BY <2>10
  <2> HIDE DEF read
  <2>5. RingSame(t, q.tracker) /\ q.tracker.exclusive = t.exclusive /\ q.tracker.isShared
    BY <1>4, <2>2, <2>3 DEF RingSame
  <2>6. Awaited(f, q.tracker, "vertex")
    <3>1. CASE t.isSharedPreRaster
      BY <1>1, <2>2, <2>5, <3>1, AwaitedKept DEF EncAfter
    <3>2. CASE ~t.isSharedPreRaster
      BY <1>1, <2>4, <2>5, <3>2, AwaitedNow
    <3> QED BY <3>1, <3>2
  <2>7. Awaited(f, q.tracker, "pixel")
    BY <1>1, <2>2, <2>5, AwaitedKept DEF EncAfter
  <2>8. ReadersWait(f, q.tracker)
    BY <1>2, <2>5, <2>6, <2>7 DEF ReadersWait
  <2> QED BY <1>1, <1>6, <2>1, <2>3, <2>5, <2>6, <2>8 DEF ReadDone, ReadAwaits
<1>7. CASE t.exclusive \notin {v, v + 1} /\ ~isLastAccess(t, v + 1) /\ isLastAccess(t, v)
  <2>1. q.tracker = t /\ q.waits = {}
    BY <1>1, <1>3, <1>7 DEF accessSharedPreRaster, Nothing, Result
  <2>2. Entry(t, 0) = v
    BY <1>7, Newest
  <2>3. Awaited(e, t, "vertex")
    <3>1. isLastAccess(t, e.id - 1)
      BY <1>7 DEF v
    <3> QED BY <1>1, <1>7, <3>1 DEF ReadersWait
  <2>4. Awaited(f, q.tracker, "vertex")
    BY <1>1, <2>1, <2>3, AwaitedKept DEF EncAfter
  <2>5. ReadersWait(f, q.tracker)
    BY <1>1, <1>2, <1>7, <2>1, <2>4 DEF ReadersWait
  <2> QED BY <1>1, <2>1, <2>2, <2>4, <2>5 DEF ReadDone, ReadAwaits, RingSame
<1>8. CASE t.exclusive \notin {v, v + 1} /\ ~isLastAccess(t, v + 1) /\ ~isLastAccess(t, v)
  <2> DEFINE u == [add(read, v) EXCEPT !.isShared = FALSE]
  <2>0. q = Result(u, Recent(t, v), {})
    BY <1>1, <1>3, <1>8 DEF accessSharedPreRaster
  <2>1. q.tracker = u /\ q.waits = Recent(t, v)
    <3> HIDE DEF u
    <3> QED BY <2>0, ResultHas
  <2>2. ~isLastAccess(read, v)
    BY <1>4, <1>8 DEF isLastAccess
  <2> HIDE DEF read
  <2>3. Added(read, add(read, v), v) /\ Entry(add(read, v), 0) = v /\ add(read, v) \in Trackers
    BY <1>1, <1>4, <2>2, AddAdds, AddResult
  <2>4. /\ u.storage = add(read, v).storage /\ u.cursor = add(read, v).cursor
        /\ u.exclusive = t.exclusive /\ u \in Trackers
    BY <1>1, <1>4, <2>3, AddResult DEF Trackers
  <2> HIDE DEF u
  <2>5. Added(t, q.tracker, v) /\ q.tracker.exclusive = t.exclusive
    BY <1>4, <2>1, <2>3, <2>4 DEF Added
  <2>6. Entry(q.tracker, 0) = v
    BY <2>1, <2>3, <2>4 DEF Entry
  <2>7. Entry(t, 0) < v
    BY <1>1, <1>8, EntryNewest, Newest
  <2>8. Awaited(f, q.tracker, "vertex")
    BY <1>1, <2>1, <2>5, AwaitedNow
  <2>9. ReadersWait(f, q.tracker)
    <3>1. ~isLastAccess(q.tracker, v + 1)
      BY <1>1, <2>1, <2>4, <2>6, Newest
    <3> QED BY <1>1, <1>2, <2>8, <3>1 DEF ReadersWait
  <2> QED BY <1>1, <1>8, <2>1, <2>5, <2>7, <2>8, <2>9 DEF ReadDone, ReadAwaits
<1> QED BY <1>5, <1>6, <1>7, <1>8

LEMMA PixelRead ==
  ASSUME NEW e \in Encoders, e.type = "render", e.id > 0, NEW t \in Trackers, Entry(t, 0) <= e.id,
         ReadersWait(e, t), NEW q, q = accessSharedFragment(t, e.id),
         NEW f, EncAfter(e, f, "pixel", q), IdsOf(f) = IdsOf(e)
  PROVE  ReadDone(e, t, "pixel", q) /\ ReadAwaits(e, f, t, "pixel", q)
<1> DEFINE p == e.id
           read == [t EXCEPT !.isShared = TRUE]
<1>1. /\ p \in Nat /\ p - 1 \in Nat /\ IdsOf(e) = {p - 1, p} /\ IdOf(e, "pixel") = p
      /\ StagesOf(e) = {"vertex", "pixel"}
  BY PassIds DEF Encoders
<1>2. f.type = "render" /\ f.id = p
  BY DEF EncAfter
<1>4. /\ read.storage = t.storage /\ read.cursor = t.cursor /\ read.exclusive = t.exclusive
      /\ read.isShared = TRUE /\ read.isSharedPreRaster = t.isSharedPreRaster /\ read \in Trackers
  BY DEF Trackers
<1>5. CASE t.exclusive \in {p - 1, p}
  <2>1. q.tracker = read /\ q.waits = {}
    BY <1>1, <1>5 DEF accessSharedFragment, Result
  <2> HIDE DEF read
  <2> QED BY <1>1, <1>4, <1>5, <2>1 DEF ReadDone, ReadAwaits, RingSame
<1>6. CASE t.exclusive \notin {p - 1, p} /\ isLastAccess(t, p)
  <2>1. q.tracker = t /\ q.waits = {}
    BY <1>6 DEF accessSharedFragment, Nothing, Result
  <2>2. Entry(t, 0) = p /\ ~isLastAccess(t, p - 1)
    BY <1>1, <1>6, Newest
  <2>3. t.isShared /\ Awaited(e, t, "pixel") /\ (t.isSharedPreRaster => Awaited(e, t, "vertex"))
    BY <1>1, <1>6 DEF ReadersWait
  <2>4. Awaited(f, q.tracker, "pixel")
    BY <1>1, <2>1, <2>3, AwaitedKept DEF EncAfter
  <2>5. t.isSharedPreRaster => Awaited(f, q.tracker, "vertex")
    BY <1>1, <2>1, <2>3, AwaitedKept DEF EncAfter
  <2>6. ReadersWait(f, q.tracker)
    BY <1>2, <2>1, <2>2, <2>3, <2>4, <2>5 DEF ReadersWait
  <2> QED BY <1>1, <2>1, <2>2, <2>4, <2>6 DEF ReadDone, ReadAwaits, RingSame
<1>7. CASE t.exclusive \notin {p - 1, p} /\ ~isLastAccess(t, p)
  <2> DEFINE a == add(read, p)
             before_ == isLastAccess(t, p - 1)
             u == [a EXCEPT !.isSharedPreRaster = @ /\ before_]
  <2>1. q.tracker = u /\ q.waits = Recent(t, p)
    BY <1>7 DEF accessSharedFragment, Result
  <2>2. ~isLastAccess(read, p)
    BY <1>4, <1>7 DEF isLastAccess
  <2> HIDE DEF read
  <2>3. Added(read, a, p) /\ Entry(a, 0) = p /\ a \in Trackers
    BY <1>1, <1>4, <2>2, AddAdds, AddResult
  <2>4. a.isShared = TRUE /\ a.isSharedPreRaster = t.isSharedPreRaster /\ a.exclusive = t.exclusive
    BY <1>1, <1>4, AddResult
  <2> HIDE DEF a, before_
  <2>5. /\ u.storage = a.storage /\ u.cursor = a.cursor /\ u.isShared = TRUE
        /\ u.exclusive = t.exclusive /\ u.isSharedPreRaster = (t.isSharedPreRaster /\ before_)
        /\ u \in Trackers
    BY <2>3, <2>4 DEF Trackers
  <2> HIDE DEF u
  <2>6. Added(t, q.tracker, p) /\ q.tracker.exclusive = t.exclusive
    BY <1>4, <2>1, <2>3, <2>5 DEF Added
  <2>7. Entry(q.tracker, 0) = p
    BY <2>1, <2>3, <2>5 DEF Entry
  <2>8. Entry(t, 0) < p
    BY <1>1, <1>7, EntryNewest, Newest
  <2>9. Awaited(f, q.tracker, "pixel")
    BY <1>1, <2>1, <2>6, AwaitedNow
  <2>10. q.tracker.isSharedPreRaster => Awaited(f, q.tracker, "vertex")
    <3> SUFFICES ASSUME isLastAccess(t, p - 1) PROVE Awaited(f, q.tracker, "vertex")
      BY <2>1, <2>5 DEF before_
    <3>1. Awaited(e, t, "vertex")
      BY <1>1, <1>7 DEF ReadersWait
    <3> QED BY <1>1, <2>6, <3>1, AwaitedKept DEF EncAfter
  <2>11. ReadersWait(f, q.tracker)
    <3>1. ~isLastAccess(q.tracker, p - 1)
      BY <1>1, <2>1, <2>5, <2>7, Newest
    <3> QED BY <1>1, <1>2, <2>1, <2>5, <2>9, <2>10, <3>1 DEF ReadersWait
  <2> QED BY <1>1, <1>7, <2>1, <2>6, <2>8, <2>9, <2>11 DEF ReadDone, ReadAwaits
<1> QED BY <1>5, <1>6, <1>7

(* A write is the new writer, and knows of all readers outside of its pass *)
(* that the ring has, and of the last writer.                              *)
WriteDone(e, t, stage, q) ==
  LET id == IdOf(e, stage) IN
  /\ q.tracker.exclusive = id
  /\ t.exclusive \in IdsOf(e) => q.waits = {}
  /\ t.exclusive \notin IdsOf(e) =>
       /\ enumerate(t, id) \cup Recent(t, id) \subseteq q.waits
       /\ q.waits \subseteq enumerate(t, id) \cup Ever(t)
       /\ stage = "vertex" /\ Entry(t, 0) = id + 1 /\ t.isShared =>
            <<"PreRasterAfterFragmentSet", "RW">> \in q.barrier

LEMMA RecentEver ==
  ASSUME NEW t \in Trackers, NEW id \in Nat, id >= kLane
  PROVE  Recent(t, id) \subseteq Ever(t)
BY Lanes DEF Recent, Ever, Trackers

LEMMA IdsKept ==
  ASSUME NEW t \in Trackers, NEW u \in Trackers, IdsReal(t), NEW id \in Nat, id >= kParityLane,
         RingMoved(t, u, id), u.exclusive \in {t.exclusive, id}
  PROVE  IdsReal(u)
<1>1. t.storage \in [Ring -> Nat] /\ u.cursor \in Ring /\ t.cursor \in Ring
  BY DEF Trackers
<1>2. \A i \in Ring : u.storage[i] \in {t.storage[i], id, 0}
  BY <1>1 DEF RingMoved
<1> QED BY <1>2 DEF IdsReal

LEMMA PlainWrite ==
  ASSUME NEW e \in Encoders, e.type = "plain", e.id >= kLane, NEW t \in Trackers, NEW uav \in BOOLEAN,
         NEW q, q = accessExclusive(t, e.id, uav)
  PROVE  WriteDone(e, t, "compute", q)
<1> DEFINE i == e.id
           s == [t EXCEPT !.isShared = FALSE]
<1>1. i \in Nat /\ IdsOf(e) = {i} /\ IdOf(e, "compute") = i
  BY PassIds DEF Encoders
<1>2. s \in Trackers /\ s.exclusive = t.exclusive
  BY DEF Trackers
<1>3. CASE t.exclusive = i
  <2>1. q.tracker = s /\ q.waits = {}
    BY <1>3 DEF accessExclusive, Result
  <2> HIDE DEF s
  <2> QED BY <1>1, <1>2, <1>3, <2>1 DEF WriteDone
<1>4. CASE t.exclusive # i
  <2>1. q.tracker = [clear(s) EXCEPT !.exclusive = i] /\ q.waits = enumerate(t, i) \cup Recent(t, i)
    BY <1>4 DEF accessExclusive, Result
  <2> HIDE DEF s
  <2>2. q.tracker.exclusive = i
    BY <1>1, <1>2, <2>1, ClearResult DEF Trackers
  <2>3. Recent(t, i) \subseteq Ever(t)
    BY <1>1, RecentEver
  <2> QED BY <1>1, <1>4, <2>1, <2>2, <2>3 DEF WriteDone
<1> QED BY <1>3, <1>4

LEMMA VertexWrite ==
  ASSUME NEW e \in Encoders, e.type = "render", e.id > kLane, NEW t \in Trackers, NEW uav \in BOOLEAN,
         NEW q, q = accessExclusivePreRaster(t, e.id - 1, uav)
  PROVE  WriteDone(e, t, "vertex", q)
<1> USE Lanes
<1> DEFINE v == e.id - 1
           s == [Unread(t) EXCEPT !.exclusive = v]
           w == [s EXCEPT !.lastWriteFromPreRaster = TRUE]
           reads == AfterReads(t, "PreRasterSet", "PreRasterAfterFragmentSet")
<1>1. v \in Nat /\ v >= kLane /\ e.id = v + 1 /\ IdsOf(e) = {v, v + 1} /\ IdOf(e, "vertex") = v
  BY PassIds DEF Encoders
<1>2. q = accessExclusivePreRaster(t, v, uav)
  OBVIOUS
<1> HIDE DEF v
<1>3. s \in Trackers /\ s.exclusive = v /\ w.exclusive = v
  BY <1>1, UnreadResult DEF Trackers
<1>4. CASE t.exclusive \in {v, v + 1}
  <2>1. q.waits = {} /\ q.tracker \in {s, w}
    BY <1>1, <1>2, <1>4 DEF accessExclusivePreRaster, Result
  <2> HIDE DEF s, w
  <2> QED BY <1>1, <1>3, <1>4, <2>1 DEF WriteDone
<1>5. CASE t.exclusive \notin {v, v + 1}
  <2>1. /\ q.tracker = clear(s) /\ q.waits = enumerate(t, v) \cup Ever(t)
        /\ q.barrier = IF isLastAccess(t, v + 1) \/ isLastAccess(t, v) THEN reads ELSE {}
    BY <1>1, <1>2, <1>5 DEF accessExclusivePreRaster, Result
  <2>2. Recent(t, v) \subseteq Ever(t)
    BY <1>1, RecentEver
  <2>3. ASSUME Entry(t, 0) = v + 1, t.isShared
        PROVE  <<"PreRasterAfterFragmentSet", "RW">> \in q.barrier
    <3>1. isLastAccess(t, v + 1)
      BY <1>1, <2>3, Newest
    <3>2. <<"PreRasterAfterFragmentSet", "RW">> \in reads
      BY <2>3 DEF AfterReads, Bits
    <3> QED BY <2>1, <3>1, <3>2
  <2> HIDE DEF s
  <2>4. q.tracker.exclusive = v
    BY <1>1, <1>3, <2>1, ClearResult
  <2> QED BY <1>1, <1>5, <2>1, <2>2, <2>3, <2>4 DEF WriteDone
<1> QED BY <1>4, <1>5

LEMMA PixelWrite ==
  ASSUME NEW e \in Encoders, e.type = "render", e.id > kLane, NEW t \in Trackers, NEW uav \in BOOLEAN,
         NEW q, q = accessExclusiveFragment(t, e.id, uav)
  PROVE  WriteDone(e, t, "pixel", q)
<1> USE Lanes
<1> DEFINE p == e.id
           s == [Unread(t) EXCEPT !.exclusive = p, !.lastWriteFromPreRaster = FALSE]
<1>1. p \in Nat /\ p >= kLane /\ IdsOf(e) = {p - 1, p} /\ IdOf(e, "pixel") = p
  BY PassIds DEF Encoders
<1>3. s \in Trackers /\ s.exclusive = p
  BY <1>1, UnreadResult DEF Trackers
<1>4. CASE t.exclusive \in {p - 1, p}
  <2>1. q.waits = {} /\ q.tracker = s
    BY <1>1, <1>4 DEF accessExclusiveFragment, Result
  <2> HIDE DEF s
  <2> QED BY <1>1, <1>3, <1>4, <2>1 DEF WriteDone
<1>5. CASE t.exclusive \notin {p - 1, p}
  <2>1. q.tracker = clear(s) /\ q.waits = enumerate(t, p) \cup Ever(t)
    BY <1>1, <1>5 DEF accessExclusiveFragment, Result
  <2>2. Recent(t, p) \subseteq Ever(t)
    BY <1>1, RecentEver
  <2> HIDE DEF s
  <2>4. q.tracker.exclusive = p
    BY <1>1, <1>3, <2>1, ClearResult
  <2> QED BY <1>1, <1>5, <2>1, <2>2, <2>4 DEF WriteDone
<1> QED BY <1>4, <1>5

-----------------------------------------------------------------------------
(* An access keeps what a pass is to be ordered by.                        *)
EncTyped == enc.type \in {"plain", "render"}

LEMMA PassBounds ==
  ASSUME TrackerInv, OrderOK(before, summary, Begun), NEW stage \in StagesOf(enc)
  PROVE  LET id == IdOf(enc, stage) IN
         /\ EncTyped /\ enc \in Encoders /\ tracker \in Trackers
         /\ id \in Nat /\ id >= kParityLane /\ id < encoder_id /\ id \in IdsOf(enc)
         /\ Known = kParityLane .. Begun - 1 /\ Begun \in Nat /\ Begun <= id
         /\ \A n \in kParityLane .. encoder_id - 1 : n \notin IdsOf(enc) => n \in Known /\ n < id
         /\ IdsOf(enc) \subseteq kParityLane .. encoder_id - 1 /\ encoder_id \in Nat
<1> USE Lanes
<1>1. /\ enc \in Encoders /\ tracker \in Trackers /\ tracker.exclusive < encoder_id /\ encoder_id \in Nat
      /\ enc.type = "plain" => enc.id = encoder_id - 1 /\ enc.id >= kParityLane
      /\ enc.type = "render" => enc.id = encoder_id - 1 /\ enc.id > kParityLane
  BY DEF TrackerInv, PassOK, RingOK
<1>2. Known = kParityLane .. Begun - 1
  BY DEF OrderOK, Known
<1>3. EncTyped
  BY <1>1 DEF StagesOf, EncTyped, Encoders
<1>4. CASE enc.type = "plain"
  <2>1. IdsOf(enc) = {enc.id} /\ IdOf(enc, stage) = enc.id /\ enc.id \in Nat
    BY <1>1, <1>4, PassIds DEF Encoders
  <2>2. Begun = encoder_id - 1
    BY <1>4 DEF Begun
  <2> QED BY <1>1, <1>2, <1>3, <1>4, <2>1, <2>2
<1>5. CASE enc.type = "render"
  <2>1. /\ IdsOf(enc) = {enc.id - 1, enc.id} /\ enc.id \in Nat
        /\ IdOf(enc, stage) \in {enc.id - 1, enc.id}
    BY <1>1, <1>5, PassIds DEF Encoders
  <2>2. Begun = encoder_id - 2
    BY <1>5 DEF Begun
  <2>3. /\ \A n \in kParityLane .. encoder_id - 1 : n \notin IdsOf(enc) =>
             n \in Known /\ n < IdOf(enc, stage)
    BY <1>1, <1>2, <1>5, <2>1, <2>2
  <2> QED BY <1>1, <1>2, <1>3, <1>5, <2>1, <2>2, <2>3
<1> QED BY <1>3, <1>4, <1>5 DEF EncTyped

(* The newest entry of the ring is no later than the current pass.         *)
LEMMA NewestBelow ==
  ASSUME TrackerInv
  PROVE  Entry(tracker, 0) < encoder_id
<1>1. tracker \in Trackers /\ WrittenBelow(tracker, encoder_id) /\ tracker.cursor \in Ring
  BY DEF TrackerInv, RingOK, Trackers
<1>2. tracker.storage[tracker.cursor] < encoder_id
  <2>1. tracker.cursor \in 0 .. tracker.cursor
    BY <1>1 DEF Ring
  <2> QED BY <1>1, <2>1 DEF WrittenBelow
<1> QED BY <1>1, <1>2, EntryNewest

(* The readers that the tracker knows of after a read.                     *)
LEMMA ReadersKnown ==
  ASSUME NEW e \in Encoders, NEW f, IdsOf(f) = IdsOf(e), NEW t \in Trackers, NEW stage \in StagesOf(e),
         IdOf(e, stage) \in Nat, NEW q, ReadDone(e, t, stage, q), q.tracker \in Trackers,
         NEW un, NEW un2, un \subseteq un2,
         stage = "pixel" /\ t.exclusive = e.id - 1 => e.id \in un2,
         NEW r \in Nat, r = IdOf(e, stage) \/ ReaderKnown(e, t, un, r)
  PROVE  ReaderKnown(f, q.tracker, un2, r)
<1> DEFINE u == q.tracker
           id == IdOf(e, stage)
<1>1. /\ u.exclusive = t.exclusive
      /\ RingSame(t, u) \/ (Added(t, u, id) /\ Entry(t, 0) < id)
  BY DEF ReadDone
<1>2. \A n \in Nat : Remembered(t, n) => Remembered(u, n)
  BY <1>1, Remembers
<1>3. \A n : Paired(e, n) => Paired(f, n)
  BY DEF Paired
<1>4. CASE ReaderKnown(e, t, un, r)
  BY <1>1, <1>2, <1>3, <1>4 DEF ReaderKnown
<1>5. CASE r = id /\ t.exclusive \notin IdsOf(e)
  <2>1. CASE Added(t, u, id)
    <3>1. Remembered(u, id)
      BY <2>1, EntriesShift, NewestRemembered
    <3> QED BY <3>1, <1>5 DEF ReaderKnown
  <2>2. CASE RingSame(t, u) /\ Entry(t, 0) = id
    <3>1. Remembered(u, id)
      BY <2>2, <1>2, NewestRemembered
    <3> QED BY <3>1, <1>5 DEF ReaderKnown
  <2>3. CASE RingSame(t, u) /\ stage = "vertex" /\ Entry(t, 0) = id + 1
    <3>1. Remembered(u, id + 1)
      <4>1. id + 1 \in Nat
        OBVIOUS
      <4> QED BY <4>1, <2>3, <1>2, NewestRemembered
    <3>2. id \in IdsOf(e) /\ id + 1 \in IdsOf(e)
      <4>1. e.type = "render"
        BY <2>3 DEF StagesOf, Encoders
      <4> QED BY <4>1, <2>3, PassIds DEF Encoders
    <3> QED BY <3>1, <3>2, <1>5 DEF ReaderKnown, Paired
  <2> QED BY <1>5, <2>1, <2>2, <2>3 DEF ReadDone
<1>6. CASE r = id /\ t.exclusive \in IdsOf(e)
  <2>1. CASE t.exclusive = id
    BY <1>1, <1>6, <2>1 DEF ReaderKnown
  <2>2. CASE t.exclusive # id
    <3>1. e.type = "render" /\ IdsOf(e) = {e.id - 1, e.id}
      BY <1>6, <2>2, PassIds DEF Encoders
    <3>2. CASE stage = "vertex"
      <4>1. id = e.id - 1 /\ t.exclusive = e.id /\ id + 1 = e.id
        BY <1>6, <2>2, <3>1, <3>2, PassIds DEF Encoders
      <4>2. Paired(f, id)
        BY <3>1, <4>1 DEF Paired
      <4> QED BY <1>1, <1>6, <4>1, <4>2 DEF ReaderKnown
    <3>3. CASE stage = "pixel"
      <4>1. id = e.id /\ t.exclusive = e.id - 1
        BY <1>6, <2>2, <3>1, <3>3, PassIds
      <4> QED BY <1>6, <3>3, <4>1 DEF ReaderKnown
    <3> QED BY <3>1, <3>2, <3>3, PassIds
  <2> QED BY <2>1, <2>2
<1> QED BY <1>4, <1>5, <1>6

(* Whom the tracker knows of as a reader, or as the writer, is waited for  *)
(* by a write of another pass.                                             *)
LEMMA WriteMeets ==
  ASSUME TrackerInv, OrderOK(before, summary, Begun), NEW stage \in StagesOf(enc),
         ReadersWait(enc, tracker), tracker.exclusive \notin IdsOf(enc),
         NEW q, WriteDone(enc, tracker, stage, q),
         NEW f, f.type = enc.type, enc.barrier \cup q.barrier \subseteq f.barrier,
         NEW waits, Slots(q.waits) \subseteq waits,
         NEW un, NEW n \in Known, ReaderKnown(enc, tracker, un, n)
  PROVE  Excused(f) \/ NeedMet(n, IdOf(enc, stage), waits, un)
<1> DEFINE id == IdOf(enc, stage)
           t == tracker
<1>1. /\ t \in Trackers /\ id \in Nat /\ id >= kParityLane /\ id < encoder_id /\ encoder_id \in Nat
      /\ Known = kParityLane .. Begun - 1 /\ Begun <= id /\ Begun \in Nat /\ enc \in Encoders
  BY PassBounds
<1>2. enumerate(t, id) \cup Recent(t, id) \subseteq q.waits
  BY DEF WriteDone
<1> SUFFICES ASSUME ~Excused(f), id - n < kLane PROVE NeedMet(n, id, waits, un)
  BY Lanes, <1>1 DEF NeedMet
<1>3. Entry(t, 0) <= id
  <2>1. Entry(t, 0) < encoder_id /\ Entry(t, 0) \in Nat
    BY <1>1, NewestBelow, EntryNewest
  <2>2. id = encoder_id - 1 \/ (stage = "vertex" /\ enc.type = "render" /\ id + 1 = encoder_id - 1 /\ id + 1 = enc.id)
    <3>1. enc.type \in {"plain", "render"} /\ enc.id = encoder_id - 1 /\ enc.id \in Nat
      BY <1>1, PassBounds DEF EncTyped, TrackerInv, PassOK, Encoders
    <3> QED BY <1>1, <3>1, PassIds
  <2>3. ASSUME stage = "vertex", enc.type = "render", id + 1 = enc.id, Entry(t, 0) = id + 1
        PROVE  FALSE
    <3>1. t.isShared
      <4>1. isLastAccess(t, enc.id)
        BY <1>1, <2>3, Newest
      <4> QED BY <2>3, <4>1 DEF ReadersWait
    <3>2. <<"PreRasterAfterFragmentSet", "RW">> \in q.barrier
      BY <2>3, <3>1 DEF WriteDone
    <3>3. Excused(f)
      BY <2>3, <3>2 DEF Excused
    <3> QED BY <3>3
  <2> QED BY <1>1, <2>1, <2>2, <2>3
<1>4. \A k \in Nat : k < id /\ id - k < kLane /\ (k = t.exclusive \/ Remembered(t, k)) => Slot(k) \in waits
  <2> SUFFICES ASSUME NEW k \in Nat, k < id, id - k < kLane, k = t.exclusive \/ Remembered(t, k)
               PROVE  Slot(k) \in waits
    OBVIOUS
  <2>1. k \in q.waits
    <3>1. CASE k = t.exclusive
      BY <1>2, <3>1 DEF Recent
    <3>2. CASE Remembered(t, k)
      BY <1>1, <1>2, <1>3, <3>2, Enumerated
    <3> QED BY <3>1, <3>2
  <2> QED BY <2>1 DEF Slots
<1>5. n \in Nat /\ n < id /\ n \notin IdsOf(enc)
  <2>1. \A k \in IdsOf(enc) : k >= Begun
    <3>1. CASE enc.type = "plain"
      BY <1>1, <3>1, PassIds DEF Begun, TrackerInv, PassOK
    <3>2. CASE enc.type = "render"
      BY <1>1, <3>2, PassIds DEF Begun, TrackerInv, PassOK
    <3> QED BY <3>1, <3>2, PassBounds DEF EncTyped
  <2> QED BY <1>1, <2>1, Lanes
<1>6. CASE n = t.exclusive \/ Remembered(t, n)
  BY <1>4, <1>5, <1>6 DEF NeedMet
<1>7. CASE n \in un
  BY <1>7 DEF NeedMet
<1>8. CASE Paired(enc, n) /\ (n + 1 = t.exclusive \/ Remembered(t, n + 1))
  <2>1. n + 1 \in Known /\ n \in before[n + 1]
    BY <1>5, <1>8 DEF Paired
  <2>2. n + 1 \in Nat /\ n + 1 < id /\ id - (n + 1) < kLane
    BY <1>1, <1>5, <2>1, Lanes
  <2>3. Slot(n + 1) \in waits
    BY <1>4, <1>8, <2>2
  <2> QED BY <2>1, <2>3 DEF NeedMet
<1> QED BY <1>6, <1>7, <1>8 DEF ReaderKnown

LEMMA TrackParts ==
  ASSUME TrackerInv, NEW stage \in StagesOf(enc), NEW write \in BOOLEAN, NEW uav \in BOOLEAN,
         NEW r, r = TrackOf(stage, write, uav),
         NEW q, q = track(tracker, stage, IdOf(enc, stage), write, uav)
  PROVE  /\ r.tracker = q.tracker /\ r.enc.barrier = enc.barrier \cup q.barrier
         /\ EncAfter(enc, r.enc, stage, q)
         /\ \A s \in StagesOf(enc) : s # stage => WaitsOf(r.enc, s) = WaitsOf(enc, s)
         /\ IdsOf(r.enc) = IdsOf(enc) /\ StagesOf(r.enc) = StagesOf(enc)
         /\ \A s : IdOf(r.enc, s) = IdOf(enc, s)
<1> DEFINE e == IF stage = "vertex"
                THEN [enc EXCEPT !.fence_wait_vertex = @ \cup Slots(q.waits)]
                ELSE [enc EXCEPT !.fence_wait = @ \cup Slots(q.waits)]
<1>1. enc \in Encoders
  BY DEF TrackerInv, PassOK
<1>2. r.tracker = q.tracker /\ r.enc = [e EXCEPT !.barrier = @ \cup q.barrier]
  BY DEF TrackOf, Track
<1>3. /\ e.type = enc.type /\ e.id = enc.id /\ e.barrier = enc.barrier
      /\ DOMAIN e = {"type", "id", "fence_wait", "fence_wait_vertex", "barrier"}
      /\ e.fence_wait_vertex = IF stage = "vertex" THEN enc.fence_wait_vertex \cup Slots(q.waits)
                               ELSE enc.fence_wait_vertex
      /\ e.fence_wait = IF stage = "vertex" THEN enc.fence_wait
                        ELSE enc.fence_wait \cup Slots(q.waits)
  BY <1>1 DEF Encoders
<1> HIDE DEF e
<1>4. /\ r.enc.type = enc.type /\ r.enc.id = enc.id /\ r.enc.barrier = enc.barrier \cup q.barrier
      /\ r.enc.fence_wait_vertex = e.fence_wait_vertex /\ r.enc.fence_wait = e.fence_wait
  BY <1>2, <1>3
<1>5. \A s : IdOf(r.enc, s) = IdOf(enc, s)
  BY <1>4 DEF IdOf
<1>6. StagesOf(r.enc) = StagesOf(enc)
  BY <1>4 DEF StagesOf
<1>7. IdsOf(r.enc) = IdsOf(enc)
  BY <1>5, <1>6 DEF IdsOf
<1>8. \A s \in {"compute", "vertex", "pixel"} :
        WaitsOf(r.enc, s) = IF s = stage \/ (s # "vertex" /\ stage # "vertex")
                            THEN WaitsOf(enc, s) \cup Slots(q.waits) ELSE WaitsOf(enc, s)
  BY <1>3, <1>4 DEF WaitsOf
<1>9. /\ StagesOf(enc) \subseteq {"compute", "vertex", "pixel"}
      /\ \A s \in StagesOf(enc) : s # stage => s = "vertex" \/ stage = "vertex"
  BY <1>1 DEF StagesOf, Encoders
<1>10. EncAfter(enc, r.enc, stage, q)
  BY <1>4, <1>8, <1>9 DEF EncAfter
<1>11. \A s \in StagesOf(enc) : s # stage => WaitsOf(r.enc, s) = WaitsOf(enc, s)
  BY <1>8, <1>9
<1> QED BY <1>2, <1>4, <1>5, <1>6, <1>7, <1>10, <1>11

LEMMA TrackReads ==
  ASSUME TrackerInv, NEW stage \in StagesOf(enc), NEW write \in BOOLEAN, ~write, NEW uav \in BOOLEAN,
         ReadersWait(enc, tracker), NEW q, q = track(tracker, stage, IdOf(enc, stage), write, uav),
         NEW f, EncAfter(enc, f, stage, q), IdsOf(f) = IdsOf(enc)
  PROVE  ReadDone(enc, tracker, stage, q) /\ ReadAwaits(enc, f, tracker, stage, q)
<1> USE Lanes
<1>1. enc.id = encoder_id - 1 \/ enc.type = "none"
  BY DEF TrackerInv, PassOK, RingOK, Encoders
<1>2. enc \in Encoders /\ tracker \in Trackers /\ enc.id \in Nat /\ encoder_id \in Nat
  BY DEF TrackerInv, PassOK, RingOK, Encoders
<1>3. Entry(tracker, 0) < encoder_id /\ Entry(tracker, 0) \in Nat
  BY <1>2, NewestBelow, EntryNewest
<1>4. CASE enc.type = "plain"
  <2>1. stage = "compute" /\ IdOf(enc, stage) = enc.id
    BY <1>2, <1>4, PassIds
  <2>2. q = accessShared(tracker, enc.id)
    BY <2>1 DEF track
  <2>3. Entry(tracker, 0) <= enc.id
    BY <1>1, <1>2, <1>3, <1>4
  <2> QED BY <1>2, <1>4, <2>1, <2>2, <2>3, PlainRead
<1>5. CASE enc.type = "render"
  <2>1. Entry(tracker, 0) <= enc.id /\ enc.id > 0
    BY <1>1, <1>2, <1>3, <1>5 DEF TrackerInv, PassOK
  <2>2. CASE stage = "vertex"
    <3>1. q = accessSharedPreRaster(tracker, enc.id - 1)
      BY <1>2, <2>2, PassIds DEF track
    <3> QED BY <1>2, <1>5, <2>1, <2>2, <3>1, VertexRead
  <2>3. CASE stage = "pixel"
    <3>1. q = accessSharedFragment(tracker, enc.id)
      BY <1>2, <2>3, PassIds DEF track
    <3> QED BY <1>2, <1>5, <2>1, <2>3, <3>1, PixelRead
  <2> QED BY <1>2, <1>5, <2>2, <2>3, PassIds
<1> QED BY <1>2, <1>4, <1>5, PassIds DEF Encoders

LEMMA TrackWrites ==
  ASSUME TrackerInv, NEW stage \in StagesOf(enc), NEW write \in BOOLEAN, write, NEW uav \in BOOLEAN,
         NEW q, q = track(tracker, stage, IdOf(enc, stage), write, uav)
  PROVE  WriteDone(enc, tracker, stage, q)
<1> USE Lanes
<1>2. enc \in Encoders /\ tracker \in Trackers /\ enc.id \in Nat
  BY DEF TrackerInv, PassOK, RingOK, Encoders
<1>4. CASE enc.type = "plain"
  <2>1. stage = "compute" /\ IdOf(enc, stage) = enc.id
    BY <1>2, <1>4, PassIds
  <2>2. q = accessExclusive(tracker, enc.id, uav)
    BY <2>1 DEF track
  <2>3. enc.id >= kLane
    BY <1>2, <1>4 DEF TrackerInv, PassOK
  <2> QED BY <1>2, <1>4, <2>1, <2>2, <2>3, PlainWrite
<1>5. CASE enc.type = "render"
  <2>1. enc.id > kLane
    BY <1>2, <1>5 DEF TrackerInv, PassOK
  <2>2. CASE stage = "vertex"
    <3>1. q = accessExclusivePreRaster(tracker, enc.id - 1, uav)
      BY <1>2, <2>2, PassIds DEF track
    <3> QED BY <1>2, <1>5, <2>1, <2>2, <3>1, VertexWrite
  <2>3. CASE stage = "pixel"
    <3>1. q = accessExclusiveFragment(tracker, enc.id, uav)
      BY <1>2, <2>3, PassIds DEF track
    <3> QED BY <1>2, <1>5, <2>1, <2>3, <3>1, PixelWrite
  <2> QED BY <1>2, <1>5, <2>2, <2>3, PassIds
<1> QED BY <1>2, <1>4, <1>5, PassIds DEF Encoders

(* The ids to wait for are those of passes that have ended.                *)
LEMMA WaitsReal ==
  ASSUME TrackerInv, OrderOK(before, summary, Begun), IdsReal(tracker), NEW stage \in StagesOf(enc),
         NEW q, ReadDone(enc, tracker, stage, q) \/ WriteDone(enc, tracker, stage, q)
  PROVE  q.waits \subseteq kParityLane .. IdOf(enc, stage) - 1
<1> USE Lanes
<1> DEFINE id == IdOf(enc, stage)
<1>1. /\ tracker \in Trackers /\ id \in Nat /\ id >= kParityLane /\ id < encoder_id /\ encoder_id \in Nat
      /\ \A n \in kParityLane .. encoder_id - 1 : n \notin IdsOf(enc) => n \in Known /\ n < id
  BY PassBounds
<1>2. tracker.exclusive \in Nat /\ tracker.exclusive < encoder_id
  BY <1>1 DEF TrackerInv, RingOK, Trackers
<1>3. CASE tracker.exclusive \in IdsOf(enc)
  BY <1>3 DEF ReadDone, WriteDone
<1>4. CASE tracker.exclusive \notin IdsOf(enc)
  <2>1. Ever(tracker) \subseteq kParityLane .. id - 1
    BY <1>1, <1>2, <1>4 DEF Ever, IdsReal
  <2>2. Recent(tracker, id) \subseteq Ever(tracker)
    BY <1>1, RecentEver
  <2>3. enumerate(tracker, id) \subseteq kParityLane .. id - 1
    BY <1>1, EnumeratedReal
  <2> QED BY <1>4, <2>1, <2>2, <2>3 DEF ReadDone, WriteDone
<1> QED BY <1>3, <1>4

(* What a stage needs and what it waits for only grow.                     *)
LEMMA NeedGrows ==
  ASSUME NEW n, NEW m, NEW waits, NEW waits2, waits \subseteq waits2, NEW un, NEW un2, un \subseteq un2,
         NEW e, NEW f, f.type = e.type, e.barrier \subseteq f.barrier,
         Excused(e) \/ NeedMet(n, m, waits, un)
  PROVE  Excused(f) \/ NeedMet(n, m, waits2, un2)
BY DEF Excused, NeedMet

(* The last writer is waited for.                                          *)
LEMMA WriterMet ==
  ASSUME TrackerInv, OrderOK(before, summary, Begun), IdsReal(tracker), NEW stage \in StagesOf(enc),
         NEW waits, Slots(Recent(tracker, IdOf(enc, stage))) \subseteq waits,
         NEW n \in Ever(tracker), n \notin IdsOf(enc), NEW un
  PROVE  n \in Known /\ NeedMet(n, IdOf(enc, stage), waits, un)
<1> USE Lanes
<1> DEFINE id == IdOf(enc, stage)
<1>1. /\ tracker \in Trackers /\ id \in Nat /\ encoder_id \in Nat
      /\ \A k \in kParityLane .. encoder_id - 1 : k \notin IdsOf(enc) => k \in Known /\ k < id
  BY PassBounds
<1>2. n = tracker.exclusive /\ n \in Nat /\ n < encoder_id /\ n >= kParityLane
  BY <1>1 DEF Ever, IdsReal, TrackerInv, RingOK, Trackers
<1>3. n \in Known
  BY <1>1, <1>2
<1>4. CASE id - n < kLane
  <2>1. n \in Recent(tracker, id)
    BY <1>2, <1>4 DEF Recent
  <2> QED BY <1>3, <2>1 DEF NeedMet, Slots
<1>5. CASE id - n >= kLane
  BY <1>3, <1>5 DEF NeedMet
<1> QED BY <1>1, <1>2, <1>4, <1>5

LEMMA ReadOrdered ==
  ASSUME TrackerInv, OrderOK(before, summary, Begun), NEW old,
         PassOrdered(enc, tracker, users, need, unrecorded, old),
         NEW stage \in StagesOf(enc), NEW write \in BOOLEAN, ~write, NEW uav \in BOOLEAN,
         NEW r, r = TrackOf(stage, write, uav),
         NEW un, unrecorded \subseteq un,
         stage = "pixel" /\ tracker.exclusive = enc.id - 1 => enc.id \in un
  PROVE  /\ UsersOK(r.enc, r.tracker, r.users, un) /\ ReadersWait(r.enc, r.tracker)
         /\ NeedsMet(r.enc, r.need, un)
<1> USE Lanes
<1> DEFINE id == IdOf(enc, stage)
           q == track(tracker, stage, IdOf(enc, stage), write, uav)
<1>1. /\ r.tracker = q.tracker /\ r.enc.barrier = enc.barrier \cup q.barrier
      /\ EncAfter(enc, r.enc, stage, q)
      /\ IdsOf(r.enc) = IdsOf(enc) /\ StagesOf(r.enc) = StagesOf(enc)
      /\ \A s : IdOf(r.enc, s) = IdOf(enc, s)
  BY TrackParts
<1>2. /\ r.users = [users EXCEPT !.readers = @ \cup {id}]
      /\ r.need = [need EXCEPT ![id] = @ \cup ((users.writer \cup {}) \ IdsOf(enc))]
  BY DEF TrackOf, Track
<1>3. r.tracker \in Trackers
  BY TrackKeeps
<1>4. UsersOK(enc, tracker, users, unrecorded) /\ ReadersWait(enc, tracker) /\ IdsReal(tracker)
  BY DEF PassOrdered
<1>5. ReadDone(enc, tracker, stage, q) /\ ReadAwaits(enc, r.enc, tracker, stage, q)
  BY <1>1, <1>4, TrackReads
<1>6. /\ EncTyped /\ enc \in Encoders /\ tracker \in Trackers
      /\ id \in Nat /\ id >= kParityLane /\ id < encoder_id /\ id \in IdsOf(enc) /\ encoder_id \in Nat
  BY PassBounds
<1> HIDE DEF q
<1>7. r.users.writer = users.writer /\ r.users.readers = users.readers \cup {id}
      /\ r.users \in [writer : SUBSET Nat, readers : SUBSET Nat]
  <2>1. users \in [writer : SUBSET Nat, readers : SUBSET Nat]
    BY <1>4 DEF UsersOK
  <2> HIDE DEF id
  <2>2. users.readers \cup {id} \in SUBSET Nat
    BY <1>6, <2>1
  <2> QED BY <1>2, <2>1, <2>2
<1>8. r.tracker.exclusive = tracker.exclusive
  BY <1>1, <1>5 DEF ReadDone
<1>9. UsersOK(r.enc, r.tracker, r.users, un)
  <2>1. r.users.writer = Ever(r.tracker)
    BY <1>4, <1>7, <1>8 DEF UsersOK, Ever
  <2>2. r.users.readers \subseteq kParityLane .. encoder_id - 1
    <3>1. users.readers \subseteq kParityLane .. encoder_id - 1
      BY <1>4 DEF UsersOK
    <3> HIDE DEF id
    <3>2. id \in kParityLane .. encoder_id - 1
      BY <1>6
    <3> QED BY <1>7, <3>1, <3>2
  <2>3. r.tracker.exclusive \in IdsOf(r.enc) => r.users.readers \subseteq IdsOf(r.enc)
    BY <1>1, <1>4, <1>6, <1>7, <1>8 DEF UsersOK
  <2>4. ASSUME NEW k \in r.users.readers PROVE ReaderKnown(r.enc, r.tracker, un, k)
    <3>1. k \in Nat
      BY <1>7
    <3>2. k = id \/ ReaderKnown(enc, tracker, unrecorded, k)
      BY <1>4, <1>7 DEF UsersOK
    <3> QED BY <1>1, <1>3, <1>5, <1>6, <3>1, <3>2, ReadersKnown
  <2> QED BY <1>7, <2>1, <2>2, <2>3, <2>4 DEF UsersOK
<1>10. ReadersWait(r.enc, r.tracker)
  <2>1. CASE tracker.exclusive \in IdsOf(enc)
    BY <1>1, <1>8, <2>1 DEF ReadersWait
  <2>2. CASE tracker.exclusive \notin IdsOf(enc)
    BY <1>1, <1>5, <2>2 DEF ReadAwaits
  <2> QED BY <2>1, <2>2
<1>11. NeedsMet(r.enc, r.need, un)
  <2>1. NeedsMet(enc, need, unrecorded)
    BY <1>6 DEF PassOrdered, EncTyped
  <2>2. DOMAIN r.need = IdsOf(r.enc)
    BY <1>1, <1>2, <2>1 DEF NeedsMet
  <2>3. ASSUME NEW s \in StagesOf(enc), NEW n \in r.need[IdOf(enc, s)]
        PROVE  n \in Known /\ (Excused(r.enc) \/ NeedMet(n, IdOf(enc, s), WaitsOf(r.enc, s), un))
    <3>1. IdOf(enc, s) \in IdsOf(enc) /\ DOMAIN need = IdsOf(enc)
      BY <2>1 DEF IdsOf, NeedsMet
    <3>2. CASE n \in need[IdOf(enc, s)]
      <4>1. n \in Known /\ (Excused(enc) \/ NeedMet(n, IdOf(enc, s), WaitsOf(enc, s), unrecorded))
        BY <2>1, <3>2 DEF NeedsMet
      <4>2. WaitsOf(enc, s) \subseteq WaitsOf(r.enc, s) /\ r.enc.type = enc.type
        BY <1>1 DEF EncAfter
      <4> QED BY <1>1, <4>1, <4>2, NeedGrows
    <3>3. CASE n \notin need[IdOf(enc, s)]
      <4>1. IdOf(enc, s) = id /\ n \in users.writer \ IdsOf(enc)
        BY <1>2, <2>3, <3>1, <3>3
      <4>2. s = stage
        BY <1>6, <4>1, PassIds DEF EncTyped, Encoders
      <4>3. n \in Ever(tracker) /\ n \notin IdsOf(enc)
        BY <1>4, <4>1 DEF UsersOK
      <4>4. n = tracker.exclusive
        BY <4>3 DEF Ever
      <4>5. Awaited(r.enc, r.tracker, stage)
        BY <1>1, <1>5, <4>3, <4>4 DEF ReadAwaits
      <4>6. Slots(Recent(tracker, id)) \subseteq WaitsOf(r.enc, stage)
        BY <1>1, <1>8, <4>5 DEF Awaited, Recent
      <4>7. n \in Known /\ NeedMet(n, id, WaitsOf(r.enc, stage), un)
        BY <1>4, <4>3, <4>6, WriterMet
      <4> QED BY <4>2, <4>7
    <3> QED BY <3>2, <3>3
  <2> QED BY <1>1, <2>2, <2>3 DEF NeedsMet
<1> QED BY <1>9, <1>10, <1>11

LEMMA WriteOrdered ==
  ASSUME TrackerInv, OrderOK(before, summary, Begun), NEW old,
         PassOrdered(enc, tracker, users, need, unrecorded, old),
         NEW stage \in StagesOf(enc), NEW write \in BOOLEAN, write, NEW uav \in BOOLEAN,
         NEW r, r = TrackOf(stage, write, uav)
  PROVE  /\ UsersOK(r.enc, r.tracker, r.users, unrecorded) /\ ReadersWait(r.enc, r.tracker)
         /\ NeedsMet(r.enc, r.need, unrecorded)
<1> USE Lanes
<1> DEFINE id == IdOf(enc, stage)
           q == track(tracker, stage, IdOf(enc, stage), write, uav)
<1>1. /\ r.tracker = q.tracker /\ r.enc.barrier = enc.barrier \cup q.barrier
      /\ EncAfter(enc, r.enc, stage, q)
      /\ IdsOf(r.enc) = IdsOf(enc) /\ StagesOf(r.enc) = StagesOf(enc)
      /\ \A s : IdOf(r.enc, s) = IdOf(enc, s)
  BY ONLY TrackerInv, stage \in StagesOf(enc), write \in BOOLEAN, uav \in BOOLEAN,
          r = TrackOf(stage, write, uav), TrackParts
<1>2. /\ r.users = [writer |-> {id}, readers |-> {}]
      /\ r.need = [need EXCEPT ![id] = @ \cup ((users.writer \cup users.readers) \ IdsOf(enc))]
  BY DEF TrackOf, Track
<1>4. UsersOK(enc, tracker, users, unrecorded) /\ ReadersWait(enc, tracker) /\ IdsReal(tracker)
  BY DEF PassOrdered
<1>5. WriteDone(enc, tracker, stage, q)
  BY TrackWrites
<1>6. /\ EncTyped /\ enc \in Encoders /\ tracker \in Trackers
      /\ id \in Nat /\ id >= kParityLane /\ id < encoder_id /\ id \in IdsOf(enc) /\ encoder_id \in Nat
      /\ \A n \in kParityLane .. encoder_id - 1 : n \notin IdsOf(enc) => n \in Known /\ n < id
  BY PassBounds
<1> HIDE DEF q
<1>8. r.tracker.exclusive = id
  BY <1>1, <1>5 DEF WriteDone
<1>9. UsersOK(r.enc, r.tracker, r.users, unrecorded)
  <2> HIDE DEF id
  <2>0. {id} \in SUBSET Nat
    BY <1>6
  <2>1. /\ r.users.writer = {id} /\ r.users.readers = {}
        /\ r.users \in [writer : SUBSET Nat, readers : SUBSET Nat]
    <3>1. r.users = [writer |-> {id}, readers |-> {}] /\ {} \in SUBSET Nat
      BY <1>2
    <3> QED BY ONLY <2>0, <3>1
  <2>2. id # 0
    BY <1>6
  <2>3. r.users.writer = Ever(r.tracker)
    BY <1>8, <2>1, <2>2 DEF Ever
  <2> QED BY <2>1, <2>3 DEF UsersOK
<1>10. ReadersWait(r.enc, r.tracker)
  BY <1>1, <1>6, <1>8 DEF ReadersWait
<1>11. NeedsMet(r.enc, r.need, unrecorded)
  <2>1. NeedsMet(enc, need, unrecorded)
    BY <1>6 DEF PassOrdered, EncTyped
  <2>2. DOMAIN r.need = IdsOf(r.enc)
    BY <1>1, <1>2, <2>1 DEF NeedsMet
  <2>3. ASSUME NEW s \in StagesOf(enc), NEW n \in r.need[IdOf(enc, s)]
        PROVE  /\ n \in Known
               /\ Excused(r.enc) \/ NeedMet(n, IdOf(enc, s), WaitsOf(r.enc, s), unrecorded)
    <3>1. IdOf(enc, s) \in IdsOf(enc) /\ DOMAIN need = IdsOf(enc)
      BY <2>1 DEF IdsOf, NeedsMet
    <3>2. CASE n \in need[IdOf(enc, s)]
      <4>1. n \in Known /\ (Excused(enc) \/ NeedMet(n, IdOf(enc, s), WaitsOf(enc, s), unrecorded))
        BY <2>1, <3>2 DEF NeedsMet
      <4>2. WaitsOf(enc, s) \subseteq WaitsOf(r.enc, s) /\ r.enc.type = enc.type
        BY <1>1 DEF EncAfter
      <4> QED BY <1>1, <4>1, <4>2, NeedGrows
    <3>3. CASE n \notin need[IdOf(enc, s)]
      <4>1. IdOf(enc, s) = id /\ n \in (users.writer \cup users.readers) \ IdsOf(enc)
        BY <1>2, <2>3, <3>1, <3>3
      <4>2. s = stage
        BY <1>6, <4>1, PassIds DEF EncTyped, Encoders
      <4>3. Slots(q.waits) \subseteq WaitsOf(r.enc, stage)
        BY <1>1 DEF EncAfter
      <4>4. tracker.exclusive \notin IdsOf(enc)
        BY <1>4, <4>1 DEF UsersOK, Ever
      <4>5. CASE n \in users.writer
        <5>1. n \in Ever(tracker)
          BY <1>4, <4>5 DEF UsersOK
        <5>2. Slots(Recent(tracker, id)) \subseteq WaitsOf(r.enc, stage)
          BY <1>5, <4>3, <4>4 DEF WriteDone, Slots
        <5>3. n \in Known /\ NeedMet(n, id, WaitsOf(r.enc, stage), unrecorded)
          BY <1>4, <4>1, <5>1, <5>2, WriterMet
        <5> QED BY <4>2, <5>3
      <4>6. CASE n \in users.readers
        <5>1. n \in Known
          BY <1>4, <1>6, <4>1, <4>6 DEF UsersOK
        <5>2. ReaderKnown(enc, tracker, unrecorded, n)
          BY <1>4, <4>6 DEF UsersOK
        <5>3. r.enc.type = enc.type
          BY <1>1 DEF EncAfter
        <5>4. Excused(r.enc) \/ NeedMet(n, id, WaitsOf(r.enc, stage), unrecorded)
          BY <1>1, <1>4, <1>5, <4>3, <4>4, <5>1, <5>2, <5>3, WriteMeets
        <5> QED BY <4>2, <5>1, <5>4
      <4> QED BY <4>1, <4>5, <4>6
    <3> QED BY <3>2, <3>3
  <2> QED BY <1>1, <2>2, <2>3 DEF NeedsMet
<1> QED BY <1>9, <1>10, <1>11

LEMMA TrackOrdered ==
  ASSUME TrackerInv, OrderOK(before, summary, Begun),
         PassOrdered(enc, tracker, users, need, unrecorded, stale),
         NEW stage \in StagesOf(enc), NEW write \in BOOLEAN, NEW uav \in BOOLEAN,
         NEW r, r = TrackOf(stage, write, uav),
         NEW un, unrecorded \subseteq un, write => un = unrecorded,
         ~write /\ stage = "pixel" /\ tracker.exclusive = enc.id - 1 => enc.id \in un
  PROVE  PassOrdered(r.enc, r.tracker, r.users, r.need, un, stale \/ r.stale)
<1> USE Lanes
<1> DEFINE id == IdOf(enc, stage)
           q == track(tracker, stage, IdOf(enc, stage), write, uav)
<1>1. /\ r.tracker = q.tracker /\ EncAfter(enc, r.enc, stage, q)
      /\ \A s \in StagesOf(enc) : s # stage => WaitsOf(r.enc, s) = WaitsOf(enc, s)
      /\ IdsOf(r.enc) = IdsOf(enc) /\ StagesOf(r.enc) = StagesOf(enc)
      /\ \A s : IdOf(r.enc, s) = IdOf(enc, s)
  BY TrackParts
<1>2. r.stale = \E n \in q.waits : id - n >= 2 * kLane
  BY DEF TrackOf, Track
<1>3. ReadersWait(enc, tracker) /\ IdsReal(tracker) /\ FencesOK(enc, stale)
  BY DEF PassOrdered
<1>4. ReadDone(enc, tracker, stage, q) \/ WriteDone(enc, tracker, stage, q)
  BY <1>1, <1>3, TrackReads, TrackWrites
<1>5. /\ UsersOK(r.enc, r.tracker, r.users, un) /\ ReadersWait(r.enc, r.tracker)
      /\ NeedsMet(r.enc, r.need, un)
  BY ReadOrdered, WriteOrdered
<1>6. tracker \in Trackers /\ enc \in Encoders /\ id \in Nat /\ id >= kParityLane
  BY PassBounds
<1>7. IdsReal(r.tracker)
  <2>1. stage \in {"compute", "vertex", "pixel"}
    BY <1>6 DEF StagesOf, Encoders
  <2>2. ResultOK(tracker, q, id)
    BY <1>6, <2>1, TrackOK
  <2> HIDE DEF q, id
  <2> QED BY <1>1, <1>3, <1>6, <2>2, IdsKept DEF ResultOK
<1>8. q.waits \subseteq kParityLane .. id - 1
  BY <1>3, <1>4, WaitsReal
<1> HIDE DEF q
<1>9. FencesOK(r.enc, stale \/ r.stale)
  <2> SUFFICES ASSUME NEW s \in StagesOf(enc), NEW f \in WaitsOf(r.enc, s)
               PROVE  \E n \in kParityLane .. IdOf(enc, s) - 1 :
                        Slot(n) = f /\ (stale \/ r.stale \/ IdOf(enc, s) - n < 2 * kLane)
    BY <1>1 DEF FencesOK, FencesReal
  <2>1. CASE f \in WaitsOf(enc, s)
    BY <1>3, <2>1 DEF FencesOK, FencesReal
  <2>2. CASE f \notin WaitsOf(enc, s)
    <3>1. s = stage /\ f \in Slots(q.waits)
      BY <1>1, <2>2 DEF EncAfter
    <3>2. PICK n \in q.waits : Slot(n) = f
      BY <3>1 DEF Slots
    <3>3. n \in kParityLane .. id - 1
      BY <1>8
    <3>4. id - n >= 2 * kLane => r.stale
      BY <1>2
    <3> QED BY <1>6, <3>1, <3>2, <3>3, <3>4
  <2> QED BY <2>1, <2>2
<1> QED BY <1>5, <1>7, <1>9 DEF PassOrdered

-----------------------------------------------------------------------------
(* Every action keeps OrderInv.                                            *)

(* What an id needs is behind its fences once its pass has ended.          *)
LEMMA NeedCovered ==
  ASSUME NEW order, NEW sum, NEW k \in Nat, OrderOK(order, sum, k), NEW m \in DOMAIN order,
         NEW waits, Covers(order[m], m, waits), NEW n \in kParityLane .. m - 1, m - n < kLane,
         \/ Slot(n) \in waits
         \/ n + 1 \in kParityLane .. m - 1 /\ n \in order[n + 1] /\ Slot(n + 1) \in waits
  PROVE  n \in order[m]
<1> USE Lanes
<1>1. m \in Nat
  BY DEF OrderOK
<1>2. CASE Slot(n) \in waits
  <2>1. m - n < kParityLane
    BY <1>1
  <2> QED BY <1>2, <2>1 DEF Covers
<1>3. CASE n + 1 \in kParityLane .. m - 1 /\ n \in order[n + 1] /\ Slot(n + 1) \in waits
  <2>1. m - (n + 1) < kParityLane
    BY <1>1
  <2>2. n + 1 \in order[m]
    BY <1>3, <2>1 DEF Covers
  <2>3. order[n + 1] \subseteq order[m]
    BY <2>2 DEF OrderOK
  <2> QED BY <1>3, <2>3
<1> QED BY <1>2, <1>3

LEMMA MetOrdered ==
  ASSUME OrderOK(before, summary, Begun), NEW order, NEW sum, NEW k \in Nat, OrderOK(order, sum, k),
         Begun \in Nat, \A j \in Known : j \in DOMAIN order /\ order[j] = before[j],
         NEW m \in DOMAIN order, m >= Begun, NEW waits, Covers(order[m], m, waits),
         NEW un, NEW n \in Known, NeedMet(n, m, waits, un), NEW old, ~old => GenerationsOK(order)
  PROVE  n \in order[m] \/ n \in un \/ (old /\ m - n >= kLane)
<1> USE Lanes
<1>1. Known = kParityLane .. Begun - 1 /\ DOMAIN order = kParityLane .. k - 1
  BY DEF OrderOK, Known
<1>2. m \in Nat /\ n \in kParityLane .. m - 1 /\ n \in DOMAIN order
  BY <1>1
<1>3. CASE m - n >= kLane
  <2>1. ~old => n \in order[m]
    BY <1>2, <1>3 DEF GenerationsOK
  <2> QED BY <1>3, <2>1
<1>4. CASE n \in un
  BY <1>4
<1>5. CASE m - n < kLane /\ Slot(n) \in waits
  BY <1>2, <1>5, NeedCovered
<1>6. CASE m - n < kLane /\ n + 1 \in Known /\ n \in before[n + 1] /\ Slot(n + 1) \in waits
  <2>1. n + 1 \in kParityLane .. m - 1 /\ n \in order[n + 1]
    BY <1>1, <1>2, <1>6
  <2> QED BY <1>2, <1>6, <2>1, NeedCovered
<1> QED BY <1>1, <1>2, <1>3, <1>4, <1>5, <1>6 DEF NeedMet

(* Whatever becomes of the pass, the readers are known after it.           *)
LEMMA PassEnds ==
  ASSUME NEW e \in Encoders, NEW nd, NEW old, PassOrdered(e, tracker', users', nd, unrecorded', old),
         enc' = NoEncoder, encoder_id' = encoder_id,
         \A j \in Known : j \in Known' /\ before'[j] = before[j],
         e.type = "render" => e.id \in Known' /\ e.id - 1 \in before'[e.id]
  PROVE  PassOrdered(enc, tracker, users, need, unrecorded, stale)'
<1>1. NoEncoder.type = "none"
  BY DEF NoEncoder
<1>2. StagesOf(NoEncoder) = {} /\ IdsOf(NoEncoder) = {}
  BY <1>1 DEF StagesOf, IdsOf
<1>3. UsersOK(e, tracker', users', unrecorded') /\ IdsReal(tracker')
  BY DEF PassOrdered
<1>4. ASSUME NEW r, Paired(e, r) PROVE Paired(NoEncoder, r)'
  <2>1. CASE r \in IdsOf(e) /\ r + 1 \in IdsOf(e)
    <3>1. e.type = "render" /\ e.id \in Nat
      BY <2>1, PassIds DEF Encoders
    <3>2. r = e.id - 1 /\ r + 1 = e.id
      BY <2>1, <3>1, PassIds
    <3>3. r + 1 \in DOMAIN before' /\ r \in before'[r + 1]
      BY <3>1, <3>2 DEF Known
    <3> QED BY <3>3 DEF Paired, Known
  <2>2. CASE r + 1 \in Known /\ r \in before[r + 1]
    <3>1. r + 1 \in DOMAIN before' /\ r \in before'[r + 1]
      BY <2>2 DEF Known
    <3> QED BY <3>1 DEF Paired, Known
  <2> QED BY <1>4, <2>1, <2>2 DEF Paired
<1>5. \A r : ReaderKnown(e, tracker', unrecorded', r) =>
        \/ r = tracker'.exclusive \/ r \in unrecorded' \/ Remembered(tracker', r)
        \/ Paired(NoEncoder, r)' /\ (r + 1 = tracker'.exclusive \/ Remembered(tracker', r + 1))
  BY <1>4 DEF ReaderKnown
<1>6. UsersOK(enc, tracker, users, unrecorded)'
  <2>1. Paired(enc, 0)' <=> Paired(NoEncoder, 0)'
    OBVIOUS
  <2>2. \A r \in users'.readers : ReaderKnown(enc, tracker, unrecorded, r)'
    BY <1>3, <1>5 DEF UsersOK, ReaderKnown, Paired
  <2> QED BY <1>2, <1>3, <2>2 DEF UsersOK
<1>7. FencesOK(enc, stale)'
  BY <1>2 DEF FencesOK
<1>8. ReadersWait(enc, tracker)'
  BY <1>1 DEF ReadersWait
<1> QED BY <1>1, <1>3, <1>6, <1>7, <1>8 DEF PassOrdered

LEMMA EndPlainOrdered == TrackerInv /\ OrderInv /\ EndPlainPass => OrderInv'
<1> SUFFICES ASSUME TrackerInv, OrderInv, EndPlainPass PROVE OrderInv'
  OBVIOUS
<1> USE Lanes
<1> DEFINE c == collectAndSimplifyWaits(enc.fence_wait, enc.id, FALSE, summary)
           m == enc.id
           ids == After(c.minimal, before)
<1>1. /\ enc.type = "plain" /\ summary' = c.summary /\ before' = Extended(before, m, ids)
      /\ enc' = NoEncoder
      /\ UNCHANGED <<encoder_id, tracker, users, need, omitted, stale, unrecorded>>
  BY DEF EndPlainPass
<1>2. /\ m \in Nat /\ m >= kParityLane /\ m = encoder_id - 1 /\ encoder_id \in Nat /\ enc \in Encoders
      /\ Begun = m /\ StagesOf(enc) = {"compute"} /\ IdsOf(enc) = {m} /\ IdOf(enc, "compute") = m
      /\ WaitsOf(enc, "compute") = enc.fence_wait
  BY <1>1, PassIds DEF TrackerInv, PassOK, Encoders, Begun, WaitsOf
<1>3. /\ OrderOK(before, summary, m) /\ (~stale => GenerationsOK(before)) /\ stale \in BOOLEAN
      /\ PassOrdered(enc, tracker, users, need, unrecorded, stale)
  BY <1>2 DEF OrderInv
<1>4. FencesReal(enc.fence_wait, m, stale)
  BY <1>2, <1>3 DEF PassOrdered, FencesOK
<1> HIDE DEF m
<1>5. /\ OrderOK(before', summary', m + 1)
      /\ ~stale => GenerationsOK(before')
      /\ Covers(ids, m, enc.fence_wait)
  BY <1>1, <1>2, <1>3, <1>4, CollectedPlain DEF m
<1> HIDE DEF c, ids
<1>6. /\ Known = kParityLane .. m - 1 /\ Known' = kParityLane .. m /\ before'[m] = ids
      /\ \A j \in Known : j \in Known' /\ before'[j] = before[j]
  <2>1. Known = kParityLane .. m - 1
    BY <1>3 DEF OrderOK, Known
  <2>2. DOMAIN before' = Known \cup {m}
    BY <1>1 DEF Extended, Known
  <2>3. m \in DOMAIN before' /\ m \notin Known
    BY <1>2, <2>1, <2>2
  <2> QED BY <1>1, <1>2, <2>1, <2>2, <2>3 DEF Extended, Known
<1>7. PassOrdered(enc, tracker, users, need, unrecorded, stale)'
  <2>1. PassOrdered(enc, tracker', users', need, unrecorded', stale)
    BY <1>1, <1>3
  <2> QED BY <1>1, <1>2, <1>6, <2>1, PassEnds
<1>8. Begun' = m + 1
  BY <1>1, <1>2 DEF Begun, NoEncoder
<1>9. need' = need /\ DOMAIN need = {m}
  BY <1>1, <1>2, <1>3 DEF PassOrdered, NeedsMet
<1>10. ConflictsOrdered'
  <2> SUFFICES ASSUME ~omitted, NEW n \in need[m]
               PROVE  n \in ids \/ n \in unrecorded \/ (stale /\ m - n >= kLane)
    BY <1>1, <1>6, <1>9 DEF ConflictsOrdered
  <2>1. NeedsMet(enc, need, unrecorded)
    BY <1>1, <1>3 DEF PassOrdered
  <2>2. ~Excused(enc)
    BY <1>1 DEF Excused
  <2>3. n \in Known /\ NeedMet(n, m, enc.fence_wait, unrecorded)
    BY <1>2, <2>1, <2>2 DEF NeedsMet
  <2>4. /\ OrderOK(before, summary, Begun) /\ m + 1 \in Nat /\ Begun \in Nat /\ m >= Begun
        /\ m \in DOMAIN before' /\ \A j \in Known : j \in DOMAIN before' /\ before'[j] = before[j]
    BY <1>2, <1>3, <1>6 DEF Known
  <2>5. n \in before'[m] \/ n \in unrecorded \/ (stale /\ m - n >= kLane)
    BY <1>5, <1>6, <2>3, <2>4, MetOrdered
  <2> QED BY <1>6, <2>5
<1>11. DOMAIN need' \subseteq Known'
  BY <1>2, <1>6, <1>9
<1>12. OrderOK(before, summary, Begun)'
  BY <1>5, <1>8
<1>13. (stale \in BOOLEAN /\ (~stale => GenerationsOK(before)))'
  BY <1>1, <1>3, <1>5
<1> QED BY <1>7, <1>10, <1>11, <1>12, <1>13 DEF OrderInv

(* What is left to a render pass when it ends: the depth attachment.       *)
LastAccess(depth) ==
  IF depth THEN TrackOf("pixel", TRUE, FALSE)
  ELSE [enc |-> enc, tracker |-> tracker, users |-> users, need |-> need, stale |-> FALSE]

LEMMA LastOrdered ==
  ASSUME TrackerInv, OrderInv, enc.type = "render", NEW depth \in BOOLEAN, NEW r, r = LastAccess(depth)
  PROVE  /\ PassOrdered(r.enc, r.tracker, r.users, r.need, unrecorded, stale \/ r.stale)
         /\ r.enc \in Encoders /\ r.enc.type = "render" /\ r.enc.id = enc.id
         /\ (stale \/ r.stale) \in BOOLEAN
<1>1. enc \in Encoders
  BY DEF TrackerInv, PassOK
<1>2. /\ OrderOK(before, summary, Begun) /\ stale \in BOOLEAN
      /\ PassOrdered(enc, tracker, users, need, unrecorded, stale)
  BY DEF OrderInv
<1>3. CASE depth
  <2> DEFINE write == TRUE
             uav == FALSE
  <2>1. "pixel" \in StagesOf(enc) /\ write \in BOOLEAN /\ uav \in BOOLEAN
    BY DEF StagesOf
  <2>2. r = TrackOf("pixel", write, uav)
    BY <1>3 DEF LastAccess
  <2>3. write
    OBVIOUS
  <2> HIDE DEF write, uav
  <2>4. r.enc \in Encoders /\ r.enc.type = "render" /\ r.enc.id = enc.id
    BY ONLY TrackerInv, enc.type = "render", <2>1, <2>2, TrackKeeps
  <2>5. PassOrdered(r.enc, r.tracker, r.users, r.need, unrecorded, stale \/ r.stale)
    BY <1>2, <2>1, <2>2, <2>3, TrackOrdered
  <2>6. (stale \/ r.stale) \in BOOLEAN
    OBVIOUS
  <2> QED BY <2>4, <2>5, <2>6
<1>4. CASE ~depth
  <2>1. /\ r.enc = enc /\ r.tracker = tracker /\ r.users = users /\ r.need = need /\ r.stale = FALSE
    BY <1>4 DEF LastAccess
  <2> QED BY <1>1, <1>2, <2>1
<1> QED BY <1>3, <1>4

LEMMA EndRenderOrdered ==
  ASSUME TrackerInv, OrderInv, NEW depth \in BOOLEAN, EndRenderPass(depth)
  PROVE  OrderInv'
<1> USE Lanes
<1> DEFINE r == LastAccess(depth)
           m == enc.id
           p == enc.id - 1
           v == collectAndSimplifyWaits(r.enc.fence_wait_vertex, p, FALSE, summary)
           f == collectAndSimplifyWaits(r.enc.fence_wait, m, TRUE, v.summary)
           ids == After(v.minimal, before)
           vertex == Extended(before, p, ids)
           all == {p} \cup vertex[p] \cup After(f.minimal \ v.minimal, vertex)
           old == stale \/ r.stale
<1>1. /\ enc.type = "render" /\ summary' = f.summary /\ before' = Extended(vertex, m, all)
      /\ enc' = NoEncoder /\ tracker' = r.tracker /\ users' = r.users /\ need' = r.need
      /\ stale' = old /\ encoder_id' = encoder_id /\ unrecorded' = unrecorded
      /\ omitted' = (omitted \/ \E b \in r.enc.barrier : b[1] = "PreRasterAfterFragmentSet")
  BY DEF EndRenderPass, LastAccess, TrackOf
<1>2. /\ m \in Nat /\ p \in Nat /\ p = m - 1 /\ p >= kParityLane /\ m = encoder_id - 1 /\ encoder_id \in Nat
      /\ Begun = p /\ enc \in Encoders
  BY <1>1 DEF TrackerInv, PassOK, Encoders, Begun
<1>3. OrderOK(before, summary, p) /\ (~stale => GenerationsOK(before))
  BY <1>2 DEF OrderInv
<1>4. /\ PassOrdered(r.enc, r.tracker, r.users, r.need, unrecorded, old) /\ old \in BOOLEAN
      /\ r.enc \in Encoders /\ r.enc.type = "render" /\ r.enc.id = m
  BY <1>1, LastOrdered
<1> HIDE DEF r
<1>5. /\ StagesOf(r.enc) = {"vertex", "pixel"} /\ IdsOf(r.enc) = {p, m}
      /\ IdOf(r.enc, "vertex") = p /\ IdOf(r.enc, "pixel") = m
      /\ WaitsOf(r.enc, "vertex") = r.enc.fence_wait_vertex /\ WaitsOf(r.enc, "pixel") = r.enc.fence_wait
  BY <1>4, PassIds DEF WaitsOf
<1>6. FencesReal(r.enc.fence_wait_vertex, p, old) /\ FencesReal(r.enc.fence_wait, m, old)
  BY <1>4, <1>5 DEF PassOrdered, FencesOK
<1>7. ~old => GenerationsOK(before)
  BY <1>3
<1> HIDE DEF old, m, p
<1>8. /\ OrderOK(vertex, v.summary, p + 1) /\ (~old => GenerationsOK(vertex))
      /\ Covers(ids, p, r.enc.fence_wait_vertex)
  BY <1>2, <1>3, <1>4, <1>6, <1>7, CollectedPlain
<1>9. vertex[p] = ids /\ DOMAIN before = kParityLane .. p - 1 /\ DOMAIN vertex = kParityLane .. p
      /\ \A j \in Known : vertex[j] = before[j]
  <2>1. DOMAIN before = kParityLane .. p - 1
    BY <1>3 DEF OrderOK
  <2>2. DOMAIN vertex = DOMAIN before \cup {p} /\ vertex[p] = ids
    BY DEF Extended
  <2>3. p \notin DOMAIN before
    BY <1>2, <2>1
  <2>4. \A j \in DOMAIN before : vertex[j] = before[j]
    BY <2>3 DEF Extended
  <2> HIDE DEF vertex, ids
  <2>5. DOMAIN vertex = kParityLane .. p
    <3>1. (kParityLane .. p - 1) \cup {p} = kParityLane .. p
      BY <1>2
    <3> QED BY <2>1, <2>2, <3>1
  <2> QED BY <2>1, <2>2, <2>4, <2>5 DEF Known
<1> HIDE DEF vertex, ids
<1>10. /\ OrderOK(before', summary', m + 1) /\ (~old => GenerationsOK(before'))
       /\ Covers(all, m, r.enc.fence_wait)
  <2>1. m - 1 = p /\ m > kParityLane /\ m - 2 = p - 1 /\ p + 1 = m
    BY <1>2
  <2>2. vertex[m - 1] = After(v.minimal, before) /\ DOMAIN before = kParityLane .. m - 2
    BY <1>9, <2>1 DEF ids
  <2>3. all = {m - 1} \cup vertex[m - 1] \cup After(f.minimal \ v.minimal, vertex)
    BY <2>1
  <2>4. OrderOK(vertex, v.summary, m)
    BY <1>8, <2>1
  <2>5. f = collectAndSimplifyWaits(r.enc.fence_wait, m, TRUE, v.summary)
    OBVIOUS
  <2>6. ~old => GenerationsOK(vertex)
    BY <1>8
  <2> HIDE DEF all, v, f
  <2>7. /\ OrderOK(Extended(vertex, m, all), f.summary, m + 1)
        /\ ~old => GenerationsOK(Extended(vertex, m, all))
        /\ Covers(all, m, r.enc.fence_wait)
    <3>1. m \in Nat /\ old \in BOOLEAN /\ m > kParityLane /\ FencesReal(r.enc.fence_wait, m, old)
      BY <1>2, <1>4, <1>6, <2>1
    <3> QED BY ONLY <2>2, <2>3, <2>4, <2>5, <2>6, <3>1, CollectedPixel
  <2> QED BY <1>1, <2>7
<1>11. /\ Known' = kParityLane .. m /\ before'[m] = all /\ before'[p] = ids /\ p \in all
       /\ \A j \in Known : j \in Known' /\ before'[j] = before[j]
  <2>0. ~(m \in kParityLane .. p)
    BY <1>2
  <2>1. DOMAIN before' = DOMAIN vertex \cup {m} /\ before'[m] = all
    BY <1>1 DEF Extended
  <2>2. \A j \in DOMAIN vertex : before'[j] = vertex[j]
    <3>1. m \notin DOMAIN vertex
      BY <1>2, <1>9, <2>0
    <3> QED BY <1>1, <3>1 DEF Extended
  <2>3. p \in DOMAIN vertex /\ \A j \in Known : j \in DOMAIN vertex
    BY <1>2, <1>9 DEF Known
  <2>4. DOMAIN before' = kParityLane .. m
    BY <1>2, <1>9, <2>1
  <2> HIDE DEF vertex, ids
  <2> QED BY <1>9, <2>1, <2>2, <2>3, <2>4 DEF Known
<1> HIDE DEF all, ids, vertex, v, f
<1>12. PassOrdered(enc, tracker, users, need, unrecorded, stale)'
  <2>1. PassOrdered(r.enc, tracker', users', r.need, unrecorded', old)
    BY <1>1, <1>4
  <2>2. m \in Known' /\ m - 1 \in before'[m]
    BY <1>2, <1>11
  <2> QED BY <1>1, <1>4, <1>11, <2>1, <2>2, PassEnds
<1>13. Begun' = m + 1
  BY <1>1, <1>2 DEF Begun, NoEncoder
<1>14. NeedsMet(r.enc, r.need, unrecorded)
  BY <1>4 DEF PassOrdered
<1>15. DOMAIN need' = {p, m}
  BY <1>1, <1>5, <1>14 DEF NeedsMet
<1>16. ConflictsOrdered'
  <2> SUFFICES ASSUME ~omitted', NEW k \in {p, m}, NEW n \in r.need[k]
               PROVE  n \in before'[k] \/ n \in unrecorded \/ (old /\ k - n >= kLane)
    BY <1>1, <1>15 DEF ConflictsOrdered
  <2>1. ~Excused(r.enc)
    BY <1>1 DEF Excused
  <2>2. /\ OrderOK(before, summary, Begun) /\ m + 1 \in Nat /\ Begun \in Nat /\ k >= Begun
        /\ k \in DOMAIN before' /\ \A j \in Known : j \in DOMAIN before' /\ before'[j] = before[j]
    BY <1>2, <1>3, <1>11 DEF Known
  <2> DEFINE waits == IF k = p THEN r.enc.fence_wait_vertex ELSE r.enc.fence_wait
  <2>3. n \in Known /\ NeedMet(n, k, waits, unrecorded)
    BY <1>2, <1>5, <1>14, <2>1 DEF NeedsMet
  <2>4. Covers(before'[k], k, waits)
    BY <1>2, <1>8, <1>10, <1>11
  <2> HIDE DEF waits
  <2> QED BY <1>4, <1>10, <2>2, <2>3, <2>4, MetOrdered
<1>17. DOMAIN need' \subseteq Known'
  BY <1>2, <1>11, <1>15
<1>18. OrderOK(before, summary, Begun)'
  BY <1>10, <1>13
<1>19. (stale \in BOOLEAN /\ (~stale => GenerationsOK(before)))'
  BY <1>1, <1>4, <1>10
<1> QED BY <1>12, <1>16, <1>17, <1>18, <1>19 DEF OrderInv

LEMMA NewPassOrdered ==
  ASSUME TrackerInv, OrderInv, NEW type, NEW n, NewPass(type, n),
         (type = "plain" /\ n = 1) \/ (type = "render" /\ n = 2)
  PROVE  OrderInv'
<1> USE Lanes
<1> DEFINE e == [NoEncoder EXCEPT !.type = type, !.id = encoder_id + n - 1]
<1>1. /\ enc.type = "none" /\ ~omitted /\ enc' = e /\ encoder_id' = encoder_id + n
      /\ need' = [k \in encoder_id .. encoder_id + n - 1 |-> {}]
      /\ UNCHANGED <<tracker, summary, before, users, omitted, stale, unrecorded>>
  BY DEF NewPass
<1>2. /\ e.type = type /\ e.id = encoder_id + n - 1 /\ e.fence_wait = {} /\ e.fence_wait_vertex = {}
      /\ e.barrier = {}
  BY DEF NoEncoder
<1> HIDE DEF e
<1>3. /\ encoder_id \in Nat /\ encoder_id >= kParityLane /\ tracker \in Trackers
      /\ tracker.exclusive < encoder_id /\ n \in Nat /\ tracker.exclusive \in Nat
  BY DEF TrackerInv, PassOK, RingOK, Trackers
<1>4. /\ IdsOf(e) = encoder_id .. encoder_id + n - 1 /\ \A s \in StagesOf(e) : WaitsOf(e, s) = {}
      /\ \A s \in StagesOf(e) : IdOf(e, s) \in IdsOf(e)
  <2>1. \A s \in StagesOf(e) : IdOf(e, s) \in IdsOf(e) /\ WaitsOf(e, s) = {}
    BY <1>2 DEF IdsOf, WaitsOf
  <2>2. CASE type = "plain"
    <3>1. IdsOf(e) = {encoder_id}
      BY <1>2, <1>3, <2>2 DEF IdsOf, StagesOf, IdOf
    <3> QED BY <1>3, <2>1, <2>2, <3>1
  <2>3. CASE type = "render"
    <3>1. StagesOf(e) = {"vertex", "pixel"}
      BY <1>2, <2>3 DEF StagesOf
    <3>2. IdsOf(e) = {IdOf(e, "vertex"), IdOf(e, "pixel")}
      BY <3>1 DEF IdsOf
    <3>3. IdsOf(e) = {encoder_id, encoder_id + 1}
      BY <1>2, <1>3, <2>3, <3>2 DEF IdOf
    <3> QED BY <1>3, <2>1, <2>3, <3>3
  <2> QED BY <2>2, <2>3
<1>5. Begun' = Begun
  BY <1>1, <1>2, <1>3 DEF Begun
<1>6. /\ OrderOK(before, summary, Begun) /\ stale \in BOOLEAN /\ (~stale => GenerationsOK(before))
      /\ PassOrdered(enc, tracker, users, need, unrecorded, stale)
  BY DEF OrderInv
<1>7. FencesOK(enc, stale)'
  BY <1>1, <1>4 DEF FencesOK, FencesReal
<1>8. UsersOK(enc, tracker, users, unrecorded)'
  <2>1. UsersOK(enc, tracker, users, unrecorded)
    BY <1>6 DEF PassOrdered
  <2>2. tracker.exclusive \notin IdsOf(e)
    BY <1>3, <1>4
  <2>3. \A r : Paired(enc, r) => r + 1 \in Known /\ r \in before[r + 1]
    BY <1>1 DEF Paired, IdsOf, StagesOf
  <2>4. \A r \in users.readers : ReaderKnown(enc, tracker, unrecorded, r)'
    BY <1>1, <2>1, <2>3 DEF UsersOK, ReaderKnown, Paired, Known
  <2>5. users.readers \subseteq kParityLane .. encoder_id' - 1
    <3>1. users.readers \subseteq kParityLane .. encoder_id - 1
      BY <2>1 DEF UsersOK
    <3> QED BY <1>1, <1>3, <3>1
  <2> QED BY <1>1, <2>1, <2>2, <2>4, <2>5 DEF UsersOK
<1>9. ReadersWait(enc, tracker)'
  <2>1. Entry(tracker, 0) < encoder_id /\ Entry(tracker, 0) \in Nat
    BY <1>3, NewestBelow, EntryNewest
  <2>2. ~isLastAccess(tracker, e.id) /\ (type = "render" => ~isLastAccess(tracker, e.id - 1))
    BY <1>2, <1>3, <2>1, Newest
  <2> QED BY <1>1, <1>2, <2>2 DEF ReadersWait
<1>10. NeedsMet(enc, need, unrecorded)'
  <2>1. DOMAIN need' = IdsOf(e) /\ \A k \in IdsOf(e) : need'[k] = {}
    BY <1>1, <1>4
  <2> QED BY <1>1, <1>4, <2>1 DEF NeedsMet
<1>11. PassOrdered(enc, tracker, users, need, unrecorded, stale)'
  <2>1. IdsReal(tracker)'
    BY <1>1, <1>6 DEF PassOrdered
  <2> QED BY <1>7, <1>8, <1>9, <1>10, <2>1 DEF PassOrdered
<1>12. enc'.type # "none"
  BY <1>1, <1>2
<1> QED BY <1>1, <1>5, <1>6, <1>11, <1>12 DEF OrderInv, ConflictsOrdered

(* With no pass begun or ended, what is known of the ids stays.            *)
LEMMA PassGoesOn ==
  ASSUME OrderInv, NEW e, enc' = e, NEW t, tracker' = t, NEW us, users' = us,
         NEW un, unrecorded' = un, NEW old, stale' = old, old \in BOOLEAN, stale => old,
         FencesOK(e, old), IdsReal(t), UsersOK(e, t, us, un), ReadersWait(e, t),
         NeedsMet(enc, need, unrecorded)', e.type = enc.type, enc.type # "none",
         UNCHANGED <<encoder_id, before, summary>>
  PROVE  OrderInv'
<1>1. Begun' = Begun
  BY DEF Begun
<1>2. OrderOK(before, summary, Begun) /\ stale \in BOOLEAN /\ (~stale => GenerationsOK(before))
  BY DEF OrderInv
<1>3. UsersOK(enc, tracker, users, unrecorded)'
  BY DEF UsersOK, ReaderKnown, Paired, Known
<1>5. (FencesOK(enc, stale) /\ IdsReal(tracker) /\ ReadersWait(enc, tracker))'
  OBVIOUS
<1>6. PassOrdered(enc, tracker, users, need, unrecorded, stale)'
  BY <1>3, <1>5 DEF PassOrdered
<1> QED BY <1>1, <1>2, <1>6 DEF OrderInv, ConflictsOrdered

LEMMA AccessOrdered ==
  ASSUME TrackerInv, OrderInv, NEW stage, NEW write \in BOOLEAN, NEW uav \in BOOLEAN,
         Access(stage, write, uav)
  PROVE  OrderInv'
<1> DEFINE r == TrackOf(stage, write, uav)
           un == IF stage = "pixel" /\ ~write /\ tracker.exclusive = enc.id - 1
                 THEN unrecorded \cup {enc.id} ELSE unrecorded
<1>1. /\ stage \in StagesOf(enc) /\ enc' = r.enc /\ tracker' = r.tracker /\ users' = r.users
      /\ need' = r.need /\ stale' = (stale \/ r.stale) /\ unrecorded' = un
      /\ UNCHANGED <<encoder_id, before, summary, omitted>>
  BY DEF Access, TrackOf
<1>2. /\ OrderOK(before, summary, Begun) /\ stale \in BOOLEAN
      /\ PassOrdered(enc, tracker, users, need, unrecorded, stale)
  BY DEF OrderInv
<1>3. /\ unrecorded \subseteq un /\ (write => un = unrecorded)
      /\ ~write /\ stage = "pixel" /\ tracker.exclusive = enc.id - 1 => enc.id \in un
  OBVIOUS
<1>4. r.enc.type = enc.type /\ enc.type # "none"
  BY <1>1, TrackKeeps DEF StagesOf
<1>5. (stale \/ r.stale) \in BOOLEAN
  OBVIOUS
<1> HIDE DEF r, un
<1>6. PassOrdered(r.enc, r.tracker, r.users, r.need, un, stale \/ r.stale)
  BY <1>1, <1>2, <1>3, TrackOrdered DEF r
<1>7. NeedsMet(enc, need, unrecorded)'
  <2>1. NeedsMet(r.enc, r.need, un)
    BY <1>4, <1>6 DEF PassOrdered
  <2>2. Excused(r.enc) => Excused(enc)'
    BY <1>1 DEF Excused
  <2> QED BY <1>1, <2>1, <2>2 DEF NeedsMet, NeedMet, Known
<1>8. /\ FencesOK(r.enc, stale \/ r.stale) /\ IdsReal(r.tracker)
      /\ UsersOK(r.enc, r.tracker, r.users, un) /\ ReadersWait(r.enc, r.tracker)
  BY <1>6 DEF PassOrdered
<1> QED BY <1>1, <1>4, <1>5, <1>7, <1>8, PassGoesOn

(* A command takes the barriers it emits; no fence depends on them but for *)
(* the one that is omitted.                                                *)
LEMMA CommandOrdered ==
  ASSUME TrackerInv, OrderInv, Dispatch \/ Draw
  PROVE  OrderInv'
<1>1. PICK bars \in SUBSET enc.barrier :
        /\ enc' = [enc EXCEPT !.barrier = bars]
        /\ Excused(enc) => omitted' \/ Excused([enc EXCEPT !.barrier = bars])
  <2>1. CASE Dispatch
    <3> DEFINE bars == {b \in enc.barrier : b[1] \notin Emitted \cap {"Set"}}
    <3>1. enc' = [enc EXCEPT !.barrier = bars] /\ enc.type = "plain" /\ omitted' = omitted
      BY <2>1 DEF Dispatch, Command
    <3> QED BY <3>1 DEF Excused
  <2>2. CASE Draw /\ "PreRasterAfterFragmentSet" \in Emitted
    BY <2>2 DEF Draw
  <2>3. CASE Draw /\ "PreRasterAfterFragmentSet" \notin Emitted
    <3> DEFINE bars == {b \in enc.barrier : b[1] \notin Emitted}
               e == [enc EXCEPT !.barrier = bars]
    <3>1. enc' = e /\ omitted' = omitted
      BY <2>3 DEF Draw, Command
    <3>2. e.type = enc.type /\ e.barrier = bars
      BY DEF TrackerInv, PassOK, Encoders
    <3>3. Excused(enc) => Excused(e)
      BY <2>3, <3>2 DEF Excused
    <3> QED BY <3>1, <3>3
  <2> QED BY <2>1, <2>2, <2>3
<1> DEFINE e == [enc EXCEPT !.barrier = bars]
<1>2. /\ e.type = enc.type /\ e.id = enc.id /\ e.fence_wait = enc.fence_wait
      /\ e.fence_wait_vertex = enc.fence_wait_vertex
  BY DEF TrackerInv, PassOK, Encoders
<1>3. /\ enc.type # "none" /\ (omitted => omitted')
      /\ UNCHANGED <<encoder_id, before, summary, tracker, users, need, unrecorded, stale>>
  BY DEF Dispatch, Draw, Command
<1> HIDE DEF e
<1>4. /\ \A s : IdOf(e, s) = IdOf(enc, s) /\ WaitsOf(e, s) = WaitsOf(enc, s)
      /\ StagesOf(e) = StagesOf(enc) /\ IdsOf(e) = IdsOf(enc)
  BY <1>2 DEF IdOf, WaitsOf, StagesOf, IdsOf
<1>5. /\ FencesOK(enc, stale) /\ IdsReal(tracker) /\ UsersOK(enc, tracker, users, unrecorded)
      /\ ReadersWait(enc, tracker) /\ NeedsMet(enc, need, unrecorded) /\ stale \in BOOLEAN
  BY <1>3 DEF OrderInv, PassOrdered
<1>6. FencesOK(e, stale)
  BY <1>4, <1>5 DEF FencesOK
<1>7. UsersOK(e, tracker, users, unrecorded)
  BY <1>4, <1>5 DEF UsersOK, ReaderKnown, Paired
<1>8. ReadersWait(e, tracker)
  BY <1>2, <1>4, <1>5 DEF ReadersWait, Awaited
<1>9. NeedsMet(enc, need, unrecorded)'
  <2>2. enc' = e /\ (Excused(enc) => omitted' \/ Excused(e))
    BY <1>1 DEF e
  <2>1. Excused(enc) => Excused(enc)'
    BY <1>3, <2>2 DEF Excused
  <2> QED BY <1>3, <1>4, <1>5, <2>1, <2>2 DEF NeedsMet, NeedMet, Known
<1>10. enc' = e
  BY <1>1 DEF e
<1> QED BY <1>2, <1>3, <1>5, <1>6, <1>7, <1>8, <1>9, <1>10, PassGoesOn

LEMMA OrderInit == Init => OrderInv
<1> SUFFICES ASSUME Init PROVE OrderInv
  OBVIOUS
<1> USE Lanes
<1>1. /\ encoder_id = kParityLane /\ enc = NoEncoder /\ before = <<>> /\ need = <<>>
      /\ users = [writer |-> {}, readers |-> {}] /\ stale = FALSE /\ unrecorded = {}
      /\ summary = [s \in 0 .. kParityLane - 1 |-> {}]
  BY DEF Init
<1>2. enc.type = "none" /\ StagesOf(enc) = {} /\ IdsOf(enc) = {} /\ Begun = kParityLane
  BY <1>1 DEF NoEncoder, StagesOf, IdsOf, Begun
<1>3. DOMAIN before = {} /\ DOMAIN need = {} /\ kParityLane .. kParityLane - 1 = {}
  BY <1>1
<1>4. OrderOK(before, summary, Begun)
  <2>1. summary \in [Fences -> SUBSET Fences] /\ \A s \in Fences : summary[s] = {}
    BY <1>1 DEF Fences
  <2> QED BY <1>2, <1>3, <2>1 DEF OrderOK
<1>5. tracker.exclusive = 0 /\ \A i \in Ring : tracker.storage[i] = 0 \/ tracker.storage[i] >= kParityLane
  <2>1. /\ tracker.exclusive = 0
        /\ tracker.storage = [i \in 0 .. kLane - 1 |-> IF i = 0 THEN 0 ELSE Unwritten]
    BY DEF Init
  <2>2. Unwritten >= kParityLane
    BY DepTrackAssumption DEF Unwritten
  <2> QED BY <2>1, <2>2 DEF Ring
<1>6. UsersOK(enc, tracker, users, unrecorded) /\ IdsReal(tracker)
  <2>1. users.writer = {} /\ users.readers = {} /\ users \in [writer : SUBSET Nat, readers : SUBSET Nat]
    <3>1. {} \in SUBSET Nat
      OBVIOUS
    <3> QED BY ONLY <1>1, <3>1
  <2> QED BY <1>2, <1>5, <2>1 DEF UsersOK, IdsReal, Ever
<1>7. FencesOK(enc, stale) /\ ReadersWait(enc, tracker)
  BY <1>2 DEF FencesOK, ReadersWait
<1>8. GenerationsOK(before) /\ ConflictsOrdered
  BY <1>3 DEF GenerationsOK, ConflictsOrdered
<1> QED BY <1>1, <1>2, <1>3, <1>4, <1>6, <1>7, <1>8 DEF OrderInv, PassOrdered

LEMMA OrderNext == TrackerInv /\ OrderInv /\ [Next]_vars => OrderInv'
<1> SUFFICES ASSUME TrackerInv, OrderInv, [Next]_vars PROVE OrderInv'
  OBVIOUS
<1>1. CASE startComputePass
  BY <1>1, NewPassOrdered DEF startComputePass
<1>2. CASE startRenderPass
  BY <1>2, NewPassOrdered DEF startRenderPass
<1>3. ASSUME NEW stage \in {"compute", "vertex", "pixel"}, NEW write \in BOOLEAN, NEW uav \in Uavs,
             Access(stage, write, uav)
      PROVE  OrderInv'
  <2>1. uav \in BOOLEAN
    BY DEF Uavs
  <2> QED BY <1>3, <2>1, AccessOrdered
<1>4. CASE Dispatch \/ Draw
  BY <1>4, CommandOrdered
<1>5. CASE EndPlainPass
  BY <1>5, EndPlainOrdered
<1>6. ASSUME NEW depth \in BOOLEAN, EndRenderPass(depth) PROVE OrderInv'
  BY <1>6, EndRenderOrdered
<1>7. CASE UNCHANGED vars
  <2>1. UNCHANGED <<encoder_id, enc, tracker, summary, before, users, need, omitted, stale, unrecorded>>
    BY <1>7 DEF vars, tracking, history
  <2> QED BY <2>1 DEF OrderInv, PassOrdered, Begun, UsersOK, ReaderKnown, Paired, NeedsMet, NeedMet,
                      Excused, Known, ConflictsOrdered
<1> QED BY <1>1, <1>2, <1>3, <1>4, <1>5, <1>6, <1>7 DEF Next

(* collectAndSimplifyWaits leaves out only waits that the others imply,    *)
(* the tracker of a resource finds every access that its ring has to       *)
(* remember, and the weak fences cover the rest.                           *)
THEOREM OrderInvariance == Spec => []OrderInv
<1>1. Init => OrderInv
  BY OrderInit
<1>2. TrackerInv /\ OrderInv /\ [Next]_vars => OrderInv'
  BY OrderNext
<1> QED BY <1>1, <1>2, TrackerInvariance, PTL DEF Spec

(* Conflicting accesses of different passes happen in the order of the     *)
(* commands, whichever waits the end of the passes has left out.           *)
THEOREM ConflictSafety == Spec => []ConflictsOrdered
<1>1. OrderInv => ConflictsOrdered
  BY DEF OrderInv
<1> QED BY <1>1, OrderInvariance, PTL

(* Every encoder waits, in the end, for all those of earlier generations.  *)
THEOREM GenerationSafety == Spec => []GenerationsOrdered
<1>1. OrderInv => GenerationsOrdered
  BY DEF OrderInv, GenerationsOK, GenerationsOrdered, Known
<1> QED BY <1>1, OrderInvariance, PTL

=============================================================================
