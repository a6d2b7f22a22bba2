--------------------------- MODULE Renaming_proofs ---------------------------
(***************************************************************************)
(* Proofs about the renaming of staging and of dynamic resources, for any  *)
(* number of buffers, allocations, command lists, chunks and writes.       *)
(***************************************************************************)
EXTENDS MCRenaming, SequenceTheorems, TLAPS

-----------------------------------------------------------------------------
(* Staging resources                                                       *)

LEMMA CopyFacts ==
  ASSUME NEW c \in Copy
  PROVE  /\ c.op \in {"source", "destination"}
         /\ c.buffer \in Buffers /\ c.seq \in 1 .. MaxSeq
         /\ c.op = "destination" => c.adds \in StagingWrites
         /\ c.op = "source" => c.want \in SUBSET StagingWrites
BY DEF Copy

LEMMA CopiesTyped ==
  ASSUME StagingTypeOK
  PROVE  /\ Len(copies) \in Nat /\ DOMAIN copies = 1 .. Len(copies)
         /\ \A i \in 1 .. Len(copies) : copies[i] \in Copy
BY DEF StagingTypeOK

(* Facts on the numbers, for the leaves that need arithmetic.              *)
LEMMA StagingNumbers ==
  ASSUME StagingTypeOK
  PROVE  /\ ready_for_encode \in Nat /\ cpu_coherent \in Nat /\ finishing \in Nat
         /\ ready_for_encode \in 1 .. MaxSeq /\ MaxSeq \in Nat
         /\ cpu_coherent < ready_for_encode /\ finishing < ready_for_encode
         /\ finishing \in {0, cpu_coherent + 1}
         /\ cpu_coherent_after_finished_seq_id \in Nat
         /\ gpu_occupied_until_finished_seq_id \in Nat
         /\ cpu_coherent_after_finished_seq_id <= gpu_occupied_until_finished_seq_id
         /\ gpu_occupied_until_finished_seq_id <= ready_for_encode
         /\ pool \in Nat /\ pool >= 1 /\ pool <= MaxPool /\ MaxPool \in Nat
         /\ immediate_name_ \in Nat /\ immediate_name_ < pool /\ immediate_name_ \in Buffers
         /\ written \in Nat /\ MaxStagingWrites \in Nat /\ written <= MaxStagingWrites
BY TimelineAssumption, StagingAssumption DEF StagingTypeOK, TimelineTypeOK, Buffers

(* A step that neither copies, maps nor completes anything.                *)
LEMMA QuietStep ==
  ASSUME StagingInv,
         UNCHANGED <<pool, free, immediate_name_, bound, stored, held, written, copies>>,
         UNCHANGED <<cpu_coherent_after_finished_seq_id, gpu_occupied_until_finished_seq_id>>,
         UNCHANGED <<cpu_coherent, finishing>>,
         ready_for_encode' \in ready_for_encode .. MaxSeq,
         {dirty', promote_flush'} \subseteq BOOLEAN,
         call' \in MapCall, call'.state # "none" => call'.read \/ call'.write,
         MappedQuiet'
  PROVE  StagingInv'
<1>1. /\ StagingTypeOK /\ NameHolds /\ CopiesPending /\ FreeUnused /\ NameTracked
      /\ CopiesReadTheirValue
  BY DEF StagingInv
<1>2. StagingTypeOK'
  BY <1>1, StagingNumbers DEF StagingTypeOK, TimelineTypeOK
<1>3. NameHolds' /\ FreeUnused' /\ NameTracked' /\ CopiesReadTheirValue'
  BY <1>1 DEF NameHolds, FreeUnused, NameTracked, CopiesReadTheirValue, StoredAfter, CopiesTo
<1>4. CopiesPending'
  <2> SUFFICES ASSUME NEW i \in DOMAIN copies
               PROVE  copies[i].seq \in cpu_coherent + 1 .. ready_for_encode'
    BY <1>1 DEF CopiesPending
  <2>1. copies[i].seq \in cpu_coherent + 1 .. ready_for_encode
    BY <1>1 DEF CopiesPending
  <2> QED BY <1>1, <2>1, StagingNumbers
<1> QED BY <1>2, <1>3, <1>4 DEF StagingInv

LEMMA EndEventStep == ASSUME StagingInv, EndEvent PROVE StagingInv'
<1>1. StagingTypeOK /\ MappedQuiet
  BY DEF StagingInv
<1>2. MappedQuiet'
  BY <1>1 DEF EndEvent, MappedQuiet
<1>3. ready_for_encode' \in ready_for_encode .. MaxSeq
  BY <1>1, StagingNumbers DEF EndEvent, timeVars
<1>4. /\ {dirty', promote_flush'} \subseteq BOOLEAN
      /\ call' \in MapCall /\ (call'.state # "none" => call'.read \/ call'.write)
  BY <1>1 DEF EndEvent, StagingTypeOK
<1> QED BY <1>2, <1>3, <1>4, QuietStep DEF EndEvent, timeVars

LEMMA StagingCommitStep == ASSUME StagingInv, StagingCommit PROVE StagingInv'
<1>1. StagingTypeOK /\ MappedQuiet
  BY DEF StagingInv
<1>2. MappedQuiet'
  BY <1>1 DEF StagingCommit, MappedQuiet
<1>3. ready_for_encode' \in ready_for_encode .. MaxSeq
  BY <1>1, StagingNumbers DEF StagingCommit, Commit, CommitCurrentChunk
<1>4. /\ {dirty', promote_flush'} \subseteq BOOLEAN
      /\ call' \in MapCall /\ (call'.state # "none" => call'.read \/ call'.write)
  BY <1>1 DEF StagingCommit, Commit, StagingTypeOK
<1> QED BY <1>2, <1>3, <1>4, QuietStep DEF StagingCommit, Commit, CommitCurrentChunk

LEMMA BeginMapStep ==
  ASSUME StagingInv, NEW r \in BOOLEAN, NEW w \in BOOLEAN, BeginMap(r, w)
  PROVE  StagingInv'
<1>1. StagingTypeOK
  BY DEF StagingInv
<1>2. call' = [state |-> "try", read |-> r, write |-> w, target |-> 0]
  BY DEF BeginMap
<1>3. MappedQuiet'
  BY <1>2 DEF MappedQuiet
<1>4. ready_for_encode' \in ready_for_encode .. MaxSeq
  BY <1>1, StagingNumbers DEF BeginMap, timeVars
<1>5. /\ {dirty', promote_flush'} \subseteq BOOLEAN
      /\ call' \in MapCall /\ (call'.state # "none" => call'.read \/ call'.write)
  BY <1>1, <1>2, StagingNumbers DEF BeginMap, StagingTypeOK, MapCall
<1> QED BY <1>3, <1>4, <1>5, QuietStep DEF BeginMap, timeVars

(* What a Map call that waits, retries, gives up or waits again leaves.    *)
LEMMA CallState ==
  ASSUME StagingTypeOK, NEW s \in {"try", "wait", "mapped"}, NEW t \in 0 .. MaxSeq,
         call.state # "none", call' = [call EXCEPT !.state = s, !.target = t]
  PROVE  /\ call' \in MapCall /\ (call'.state # "none" => call'.read \/ call'.write)
         /\ call'.state = s /\ call'.write = call.write /\ call'.read = call.read
BY DEF StagingTypeOK, MapCall

LEMMA TryMapTarget ==
  ASSUME StagingTypeOK, NEW n \in Nat
  PROVE  tryMap(n).target \in 0 .. MaxSeq
BY StagingNumbers DEF tryMap

(* A Map call that tryMap lets through finds no copy that writes the name, *)
(* and none at all if it writes itself.                                    *)
LEMMA MapReadyStep == ASSUME StagingInv, MapReady PROVE StagingInv'
<1>1. StagingTypeOK /\ NameTracked /\ CopiesPending
  BY DEF StagingInv
<1>2. call' = [call EXCEPT !.state = "mapped", !.target = call.target] /\ call.target \in 0 .. MaxSeq
      /\ call.state = "try" /\ UNCHANGED <<copies, immediate_name_>>
  BY <1>1 DEF MapReady, StagingTypeOK, MapCall
<1>3. /\ call' \in MapCall /\ (call'.state # "none" => call'.read \/ call'.write)
      /\ call'.write = call.write /\ call'.read = call.read
  BY <1>1, <1>2, CallState
<1>4. MappedQuiet'
  <2> SUFFICES ASSUME NEW i \in DOMAIN copies, copies[i].buffer = immediate_name_
               PROVE  ~call.write /\ copies[i].op = "source"
    BY <1>2, <1>3 DEF MappedQuiet
  <2>1. /\ call.read => cpu_coherent >= cpu_coherent_after_finished_seq_id
        /\ call.write => cpu_coherent >= gpu_occupied_until_finished_seq_id
        /\ call.read \/ call.write
    BY <1>1, <1>2, StagingNumbers DEF MapReady, tryMap, CoherentSeqId, StagingTypeOK
  <2>2. copies[i] \in Copy /\ copies[i].seq \in Nat /\ copies[i].seq > cpu_coherent
    BY <1>1, CopiesTyped, StagingNumbers DEF CopiesPending
  <2>3. /\ copies[i].seq <= gpu_occupied_until_finished_seq_id
        /\ copies[i].op = "destination" =>
             copies[i].seq <= cpu_coherent_after_finished_seq_id
    BY <1>1 DEF NameTracked
  <2>4. ~call.write
    BY <1>1, <2>1, <2>2, <2>3, StagingNumbers
  <2>5. copies[i].op # "destination"
    BY <1>1, <2>1, <2>2, <2>3, <2>4, StagingNumbers
  <2>6. copies[i].op \in {"source", "destination"}
    BY <2>2, CopyFacts
  <2> QED BY <2>4, <2>5, <2>6
<1>5. ready_for_encode' \in ready_for_encode .. MaxSeq
  BY <1>1, StagingNumbers DEF MapReady, timeVars
<1>6. {dirty', promote_flush'} \subseteq BOOLEAN
  BY <1>1 DEF MapReady, StagingTypeOK
<1> QED BY <1>3, <1>4, <1>5, <1>6, QuietStep DEF MapReady, timeVars

LEMMA MapStillDrawingStep == ASSUME StagingInv, MapStillDrawing PROVE StagingInv'
<1>1. StagingTypeOK
  BY DEF StagingInv
<1>2. MappedQuiet' /\ call' \in MapCall /\ call'.state = "none"
  BY StagingNumbers, <1>1 DEF MapStillDrawing, MappedQuiet, NoCall, MapCall
<1>3. ready_for_encode' \in ready_for_encode .. MaxSeq
  BY <1>1, StagingNumbers DEF MapStillDrawing, timeVars
<1>4. {dirty', promote_flush'} \subseteq BOOLEAN
  BY <1>1 DEF MapStillDrawing, StagingTypeOK
<1> QED BY <1>2, <1>3, <1>4, QuietStep DEF MapStillDrawing, timeVars

LEMMA FlushAndWaitStep == ASSUME StagingInv, FlushAndWait PROVE StagingInv'
<1>1. StagingTypeOK
  BY DEF StagingInv
<1>2. call' = [call EXCEPT !.state = "wait", !.target = tryMap(CoherentSeqId).target]
      /\ call.state = "try" /\ tryMap(CoherentSeqId).target \in 0 .. MaxSeq
  BY <1>1, TryMapTarget, StagingNumbers DEF FlushAndWait, CoherentSeqId
<1>3. /\ call' \in MapCall /\ (call'.state # "none" => call'.read \/ call'.write)
      /\ call'.state = "wait"
  BY <1>1, <1>2, CallState
<1>4. MappedQuiet'
  BY <1>3 DEF MappedQuiet
<1>5. /\ ready_for_encode' \in ready_for_encode .. MaxSeq
      /\ UNCHANGED <<cpu_coherent, finishing>>
  BY <1>1, StagingNumbers DEF FlushAndWait, Commit, CommitCurrentChunk, timeVars
<1>6. {dirty', promote_flush'} \subseteq BOOLEAN
  BY <1>1 DEF FlushAndWait, Commit, StagingTypeOK
<1> QED BY <1>3, <1>4, <1>5, <1>6, QuietStep DEF FlushAndWait

LEMMA WokenStep == ASSUME StagingInv, Woken PROVE StagingInv'
<1>1. StagingTypeOK
  BY DEF StagingInv
<1>2. call' = [call EXCEPT !.state = "try", !.target = 0]
      /\ call.state = "wait" /\ 0 \in 0 .. MaxSeq
  BY <1>1, StagingNumbers DEF Woken
<1>3. /\ call' \in MapCall /\ (call'.state # "none" => call'.read \/ call'.write)
      /\ call'.state = "try"
  BY <1>1, <1>2, CallState
<1>4. MappedQuiet'
  BY <1>3 DEF MappedQuiet
<1>5. ready_for_encode' \in ready_for_encode .. MaxSeq
  BY <1>1, StagingNumbers DEF Woken, timeVars
<1>6. {dirty', promote_flush'} \subseteq BOOLEAN
  BY <1>1 DEF Woken, StagingTypeOK
<1> QED BY <1>3, <1>4, <1>5, <1>6, QuietStep DEF Woken, timeVars

LEMMA StagingSignalStep == ASSUME StagingInv, StagingSignal PROVE StagingInv'
<1>1. /\ StagingTypeOK /\ NameHolds /\ CopiesPending /\ FreeUnused /\ NameTracked
      /\ CopiesReadTheirValue /\ MappedQuiet
  BY DEF StagingInv
<1>2. UNCHANGED stagingVars /\ cpu_coherent' = finishing /\ finishing' = 0 /\ finishing # 0
      /\ UNCHANGED ready_for_encode
  BY DEF StagingSignal, SignalCoherent
<1>3. StagingTypeOK'
  <2>1. TimelineTypeOK'
    BY <1>1, <1>2, StagingNumbers DEF TimelineTypeOK
  <2> QED BY <1>1, <1>2, <2>1 DEF StagingTypeOK, stagingVars
<1>4. NameHolds' /\ FreeUnused' /\ NameTracked' /\ CopiesReadTheirValue' /\ MappedQuiet'
  BY <1>1, <1>2
     DEF NameHolds, FreeUnused, NameTracked, CopiesReadTheirValue, StoredAfter, CopiesTo,
         MappedQuiet, stagingVars
<1>5. CopiesPending'
  <2> SUFFICES ASSUME NEW i \in DOMAIN copies
               PROVE  /\ copies[i].seq \in cpu_coherent' + 1 .. ready_for_encode'
                      /\ copies[i].seq # finishing'
    BY <1>1, <1>2 DEF CopiesPending, stagingVars
  <2>1. /\ copies[i].seq \in cpu_coherent + 1 .. ready_for_encode
        /\ copies[i].seq # finishing
    BY <1>1 DEF CopiesPending
  <2> QED BY <1>1, <1>2, <2>1, StagingNumbers
<1> QED BY <1>3, <1>4, <1>5 DEF StagingInv

(* The application's write goes to memory that no copy in flight uses.     *)
LEMMA UnmapStep == ASSUME StagingInv, Unmap PROVE StagingInv'
<1>1. /\ StagingTypeOK /\ NameHolds /\ CopiesPending /\ FreeUnused /\ NameTracked
      /\ CopiesReadTheirValue /\ MappedQuiet
  BY DEF StagingInv
<1>2. call' = NoCall /\ call.state = "mapped"
      /\ UNCHANGED <<pool, free, immediate_name_, bound, copies, dirty, promote_flush>>
      /\ UNCHANGED <<cpu_coherent_after_finished_seq_id, gpu_occupied_until_finished_seq_id>>
      /\ UNCHANGED <<ready_for_encode, cpu_coherent, finishing>>
  BY DEF Unmap, timeVars
<1>3. CASE ~call.write
  <2>1. UNCHANGED <<written, held, stored>>
    BY <1>3 DEF Unmap
  <2>2. MappedQuiet' /\ call' \in MapCall /\ call'.state = "none"
    BY StagingNumbers, <1>1, <1>2 DEF MappedQuiet, NoCall, MapCall
  <2>3. ready_for_encode' \in ready_for_encode .. MaxSeq
    BY <1>1, <1>2, StagingNumbers
  <2>4. {dirty', promote_flush'} \subseteq BOOLEAN
    BY <1>1, <1>2 DEF StagingTypeOK
  <2> QED BY <1>2, <2>1, <2>2, <2>3, <2>4, QuietStep
<1>4. CASE call.write
  <2>1. /\ written < MaxStagingWrites /\ written' = written + 1 /\ held' = held \cup {written + 1}
        /\ stored' = [stored EXCEPT ![immediate_name_] = @ \cup {written + 1}]
    BY <1>4 DEF Unmap
  <2>2. \A i \in DOMAIN copies : copies[i].buffer # immediate_name_
    BY <1>1, <1>2, <1>4 DEF MappedQuiet
  <2>3. written + 1 \in StagingWrites /\ immediate_name_ \in Buffers
    BY <1>1, <2>1, StagingNumbers DEF StagingWrites
  <2>4. stored \in [Buffers -> SUBSET StagingWrites]
    BY <1>1 DEF StagingTypeOK
  <2>5. /\ stored' \in [Buffers -> SUBSET StagingWrites]
        /\ stored'[immediate_name_] = stored[immediate_name_] \cup {written + 1}
        /\ \A b \in Buffers : b # immediate_name_ => stored'[b] = stored[b]
    BY <2>1, <2>3, <2>4
  <2>6. StagingTypeOK'
    <3>1. call' \in MapCall /\ call'.state = "none"
      BY StagingNumbers, <1>1, <1>2 DEF NoCall, MapCall
    <3>2. held' \in SUBSET StagingWrites
      BY <1>1, <2>1, <2>3 DEF StagingTypeOK
    <3>3. written' \in 0 .. MaxStagingWrites
      BY <1>1, <2>1, StagingNumbers
    <3>4. TimelineTypeOK'
      BY <1>1, <1>2 DEF StagingTypeOK, TimelineTypeOK
    <3> QED BY <1>1, <1>2, <2>5, <3>1, <3>2, <3>3, <3>4 DEF StagingTypeOK
  <2>7. Len(copies) \in Nat /\ DOMAIN copies = 1 .. Len(copies)
    BY <1>1, CopiesTyped
  <2>8. NameHolds'
    <3>1. CopiesTo(Len(copies), immediate_name_) = {}
      BY <2>2, <2>7 DEF CopiesTo
    <3>2. CopiesTo(Len(copies), immediate_name_)' = {}
      BY <1>2, <3>1 DEF CopiesTo
    <3>3. stored[immediate_name_] = held /\ bound = immediate_name_
      BY <1>1, <3>1 DEF NameHolds, StoredAfter
    <3>4. stored'[immediate_name_] = held'
      BY <2>1, <2>5, <3>3
    <3> QED BY <1>2, <3>2, <3>3, <3>4 DEF NameHolds, StoredAfter
  <2>9. CopiesReadTheirValue'
    <3> SUFFICES ASSUME NEW i \in DOMAIN copies, copies[i].op = "source",
                        NEW b, b = copies[i].buffer
                 PROVE  StoredAfter(i - 1, b)' = copies[i].want
      BY <1>2 DEF CopiesReadTheirValue, StoredAfter, CopiesTo
    <3>1. StoredAfter(i - 1, b) = copies[i].want
      BY <1>1 DEF CopiesReadTheirValue
    <3>2. b \in Buffers /\ b # immediate_name_
      BY <1>1, <2>2, <2>7, CopiesTyped, CopyFacts
    <3> QED BY <1>2, <2>5, <3>1, <3>2 DEF StoredAfter, CopiesTo
  <2>10. CopiesPending' /\ FreeUnused' /\ NameTracked' /\ MappedQuiet'
    BY <1>1, <1>2 DEF CopiesPending, FreeUnused, NameTracked, MappedQuiet, NoCall
  <2> QED BY <2>6, <2>8, <2>9, <2>10 DEF StagingInv
<1> QED BY <1>3, <1>4

LEMMA TailTyped ==
  ASSUME NEW S, NEW s \in Seq(S), s # <<>>
  PROVE  /\ Len(s) \in Nat /\ 1 \in DOMAIN s /\ Head(s) = s[1] /\ s[1] \in S
         /\ Tail(s) \in Seq(S) /\ Len(Tail(s)) = Len(s) - 1
         /\ DOMAIN Tail(s) = 1 .. Len(s) - 1
         /\ \A n \in DOMAIN Tail(s) : n + 1 \in DOMAIN s /\ Tail(s)[n] = s[n + 1]
OBVIOUS

(* The buffer that Rename takes: no copy in flight uses it, it is neither  *)
(* the name nor twice in the fifo.                                         *)
LEMMA NextName ==
  ASSUME StagingInv, FrontFree \/ pool < MaxPool
  PROVE  /\ next_name \in Buffers /\ next_name # immediate_name_ /\ next_name < PoolSize
         /\ PoolSize \in 1 .. MaxPool /\ pool <= PoolSize
         /\ \A i \in DOMAIN copies : copies[i].buffer # next_name
         /\ FreeLeft \in Seq(FreeEntry)
         /\ \A n \in DOMAIN FreeLeft :
              /\ FreeLeft[n].id # next_name
              /\ \E m \in DOMAIN free : FreeLeft[n] = free[m]
         /\ \A n, m \in DOMAIN FreeLeft : m # n => FreeLeft[m].id # FreeLeft[n].id
<1> DEFINE next == next_name
           rest == FreeLeft
           size == PoolSize
<1> HIDE DEF next, rest, size
<1> SUFFICES /\ next \in Buffers /\ next # immediate_name_ /\ next < size
             /\ size \in 1 .. MaxPool /\ pool <= size
             /\ \A i \in DOMAIN copies : copies[i].buffer # next
             /\ rest \in Seq(FreeEntry)
             /\ \A n \in DOMAIN rest :
                  /\ rest[n].id # next
                  /\ \E m \in DOMAIN free : rest[n] = free[m]
             /\ \A n, m \in DOMAIN rest : m # n => rest[m].id # rest[n].id
  BY DEF next, rest, size
<1>1. StagingTypeOK /\ CopiesPending /\ FreeUnused
  BY DEF StagingInv
<1>2. /\ free \in Seq(FreeEntry)
      /\ Len(free) \in Nat /\ DOMAIN free = 1 .. Len(free)
      /\ \A n \in DOMAIN free : free[n] \in FreeEntry
  BY <1>1 DEF StagingTypeOK
<1>2a. \A n \in DOMAIN free : free[n].id \in Buffers /\ free[n].will_free_at \in 1 .. MaxSeq
  BY <1>2 DEF FreeEntry
<1>3. \A i \in DOMAIN copies :
        copies[i].seq \in cpu_coherent + 1 .. ready_for_encode /\ copies[i].buffer < pool
        /\ copies[i].buffer \in Buffers
  BY <1>1, CopiesTyped, CopyFacts DEF CopiesPending
<1>4. CASE FrontFree
  <2>1. /\ free # <<>> /\ next = free[1].id /\ rest = Tail(free) /\ size = pool
        /\ free[1].will_free_at <= cpu_coherent
    BY <1>2, <1>4 DEF FrontFree, CoherentSeqId, next, rest, size, next_name, FreeLeft, PoolSize
  <2>2. /\ 1 \in DOMAIN free /\ Len(rest) = Len(free) - 1
        /\ rest \in Seq(FreeEntry)
        /\ DOMAIN rest = 1 .. Len(free) - 1
        /\ \A n \in DOMAIN rest : n + 1 \in DOMAIN free /\ rest[n] = free[n + 1]
    BY <1>2, <2>1, TailTyped
  <2>3. free[1] \in FreeEntry /\ free[1].id \in Buffers /\ free[1].will_free_at \in 1 .. MaxSeq
    BY <1>2, <1>2a, <2>2
  <2>4. next \in Buffers /\ next # immediate_name_ /\ next < size /\ free[1].will_free_at \in Nat
    BY <1>1, <2>1, <2>2, <2>3 DEF FreeUnused
  <2>5. ASSUME NEW i \in DOMAIN copies PROVE copies[i].buffer # next
    <3> SUFFICES ASSUME copies[i].buffer = next PROVE FALSE
      OBVIOUS
    <3>1. copies[i].seq <= free[1].will_free_at
      BY <1>1, <2>1, <2>2 DEF FreeUnused
    <3>2. copies[i].seq \in Nat /\ copies[i].seq > cpu_coherent /\ cpu_coherent \in Nat
      BY <1>1, <1>3, StagingNumbers
    <3> QED BY <2>1, <2>4, <3>1, <3>2
  <2>6. ASSUME NEW n \in DOMAIN rest
        PROVE  rest[n].id # next /\ \E m \in DOMAIN free : rest[n] = free[m]
    <3>1. n + 1 \in DOMAIN free /\ rest[n] = free[n + 1] /\ n + 1 # 1
      BY <2>2
    <3> QED BY <1>1, <2>1, <2>2, <3>1 DEF FreeUnused
  <2>7. ASSUME NEW n \in DOMAIN rest, NEW m \in DOMAIN rest, m # n
        PROVE  rest[m].id # rest[n].id
    <3>1. /\ n + 1 \in DOMAIN free /\ rest[n] = free[n + 1]
          /\ m + 1 \in DOMAIN free /\ rest[m] = free[m + 1] /\ n + 1 # m + 1
      BY <2>2, <2>7
    <3> QED BY <1>1, <3>1 DEF FreeUnused
  <2>8. size \in 1 .. MaxPool /\ pool <= size
    BY <1>1, <2>1, StagingNumbers
  <2> QED BY <2>2, <2>4, <2>5, <2>6, <2>7, <2>8
<1>5. CASE ~FrontFree
  <2>1. next = pool /\ rest = free /\ size = pool + 1 /\ pool < MaxPool
    BY <1>5 DEF next, rest, size, next_name, FreeLeft, PoolSize
  <2>2. next \in Buffers /\ next # immediate_name_ /\ next < size
        /\ size \in 1 .. MaxPool /\ pool <= size
    BY <1>1, <2>1, StagingNumbers DEF Buffers
  <2>3. \A i \in DOMAIN copies : copies[i].buffer # next
    BY <1>1, <1>3, <2>1, StagingNumbers DEF Buffers
  <2>4. \A n \in DOMAIN free : free[n].id \in Buffers /\ free[n].id < pool
    BY <1>1, <1>2a DEF FreeUnused
  <2>5. \A n \in DOMAIN rest :
              /\ rest[n].id # next
              /\ \E m \in DOMAIN free : rest[n] = free[m]
    BY <1>1, <2>1, <2>4, StagingNumbers DEF Buffers
  <2>6. \A n, m \in DOMAIN rest : m # n => rest[m].id # rest[n].id
    BY <1>1, <2>1 DEF FreeUnused
  <2> QED BY <1>2, <2>1, <2>2, <2>3, <2>5, <2>6
<1> QED BY <1>4, <1>5

LEMMA AppendTyped ==
  ASSUME NEW S, NEW s \in Seq(S), NEW e \in S
  PROVE  /\ Append(s, e) \in Seq(S) /\ Len(Append(s, e)) = Len(s) + 1
         /\ Len(s) \in Nat /\ DOMAIN s = 1 .. Len(s)
         /\ DOMAIN Append(s, e) = 1 .. Len(s) + 1
         /\ \A i \in 1 .. Len(s) : Append(s, e)[i] = s[i]
         /\ Append(s, e)[Len(s) + 1] = e
OBVIOUS

(* Renaming: the new name holds the bytes of the old one, which no copy in *)
(* flight writes, and the old one waits in the fifo for those that read it.*)
LEMMA RenameStep == ASSUME StagingInv, Rename PROVE StagingInv'
<1> DEFINE next == next_name
           rest == FreeLeft
           size == PoolSize
           old == [id |-> immediate_name_, will_free_at |-> ready_for_encode]
<1>1. /\ StagingTypeOK /\ NameHolds /\ CopiesPending /\ FreeUnused /\ NameTracked
      /\ CopiesReadTheirValue /\ MappedQuiet
  BY DEF StagingInv
<1>2. /\ call.state = "try" /\ tryMap(CoherentSeqId).result = "renamable"
      /\ FrontFree \/ pool < MaxPool
      /\ pool' = size /\ free' = Append(rest, old)
      /\ stored' = [stored EXCEPT ![next] = stored[immediate_name_]]
      /\ immediate_name_' = next /\ bound' = next
      /\ cpu_coherent_after_finished_seq_id' = 0 /\ gpu_occupied_until_finished_seq_id' = 0
  BY DEF Rename, memcpy, CurrentSeqId
<1>3. /\ call' = [call EXCEPT !.state = "mapped"]
      /\ UNCHANGED <<held, written, copies, dirty, promote_flush>>
      /\ UNCHANGED <<ready_for_encode, cpu_coherent, finishing>>
  BY DEF Rename, timeVars
<1>4. /\ next \in Buffers /\ next # immediate_name_ /\ next < size
      /\ size \in 1 .. MaxPool /\ pool <= size
      /\ \A i \in DOMAIN copies : copies[i].buffer # next
      /\ rest \in Seq(FreeEntry)
      /\ \A n \in DOMAIN rest :
           /\ rest[n].id # next
           /\ \E m \in DOMAIN free : rest[n] = free[m]
      /\ \A n, m \in DOMAIN rest : m # n => rest[m].id # rest[n].id
  BY <1>2, NextName
<1> HIDE DEF next, rest, size
<1>5. old \in FreeEntry
  BY <1>1, StagingNumbers DEF FreeEntry
<1>6. /\ free' \in Seq(FreeEntry) /\ Len(rest) \in Nat
      /\ DOMAIN rest = 1 .. Len(rest) /\ DOMAIN free' = 1 .. Len(rest) + 1
      /\ \A n \in 1 .. Len(rest) : free'[n] = rest[n]
      /\ free'[Len(rest) + 1] = old
  BY <1>2, <1>4, <1>5, AppendTyped
<1>7. cpu_coherent >= cpu_coherent_after_finished_seq_id
  BY <1>1, <1>2, StagingNumbers DEF tryMap, CoherentSeqId
<1>8. /\ stored' \in [Buffers -> SUBSET StagingWrites] /\ stored'[next] = stored[immediate_name_]
      /\ \A b \in Buffers : b # next => stored'[b] = stored[b]
  <2>1. stored \in [Buffers -> SUBSET StagingWrites] /\ immediate_name_ \in Buffers
    BY <1>1, StagingNumbers DEF StagingTypeOK
  <2> QED BY <1>2, <1>4, <2>1
<1>9. Len(copies) \in Nat /\ DOMAIN copies = 1 .. Len(copies)
      /\ \A i \in 1 .. Len(copies) : copies[i] \in Copy
  BY <1>1, CopiesTyped
<1>10. StagingTypeOK'
  <2>1. TimelineTypeOK'
    BY <1>1, <1>3 DEF StagingTypeOK, TimelineTypeOK
  <2>2. next \in 0 .. size - 1
    BY <1>4 DEF Buffers
  <2>3. call' \in MapCall /\ (call'.state # "none" => call'.read \/ call'.write)
    BY <1>1, <1>2, <1>3 DEF StagingTypeOK, MapCall
  <2>4. 0 \in 0 .. 0 /\ 0 \in 0 .. ready_for_encode'
    BY <1>1, <1>3, StagingNumbers
  <2> QED BY <1>1, <1>2, <1>3, <1>4, <1>6, <1>8, <2>1, <2>2, <2>3, <2>4 DEF StagingTypeOK
<1>11. NameHolds'
  <2>1. CopiesTo(Len(copies), immediate_name_) = {}
    <3> SUFFICES ASSUME NEW i \in 1 .. Len(copies), copies[i].op = "destination",
                        copies[i].buffer = immediate_name_
                 PROVE  FALSE
      BY DEF CopiesTo
    <3>1. copies[i].seq <= cpu_coherent_after_finished_seq_id
      BY <1>1, <1>9 DEF NameTracked
    <3>2. copies[i].seq \in Nat /\ copies[i].seq > cpu_coherent
      <4>1. i \in DOMAIN copies
        BY <1>9
      <4>2. copies[i].seq \in cpu_coherent + 1 .. ready_for_encode
        BY <1>1, <4>1 DEF CopiesPending
      <4>3. StagingTypeOK
        BY <1>1
      <4> QED BY ONLY <4>2, <4>3, StagingNumbers
    <3> QED BY <1>1, <1>7, <3>1, <3>2, StagingNumbers
  <2>2. stored[immediate_name_] = held
    BY <1>1, <2>1 DEF NameHolds, StoredAfter
  <2>3. CopiesTo(Len(copies), immediate_name_)' = {}
    BY <1>2, <1>3, <1>4, <1>9 DEF CopiesTo
  <2> QED BY <1>2, <1>3, <1>8, <2>2, <2>3 DEF NameHolds, StoredAfter
<1>12. CopiesPending'
  <2> SUFFICES ASSUME NEW i \in DOMAIN copies PROVE copies[i].buffer < size
    BY <1>1, <1>2, <1>3 DEF CopiesPending
  <2>1. copies[i].buffer < pool /\ copies[i].buffer \in Nat
    BY <1>1, <1>9, CopyFacts, StagingNumbers DEF CopiesPending, Buffers
  <2> QED BY <1>1, <1>4, <2>1, StagingNumbers
<1>13. FreeUnused'
  <2>1. ASSUME NEW n \in DOMAIN free'
        PROVE  /\ free'[n].id < size /\ free'[n].id # next
               /\ \A i \in DOMAIN copies :
                    copies[i].buffer = free'[n].id => copies[i].seq <= free'[n].will_free_at
    <3>1. CASE n \in 1 .. Len(rest)
      <4>1. PICK m \in DOMAIN free : free'[n] = free[m]
        BY <1>4, <1>6, <3>1
      <4>2. free[m].id < pool /\ free'[n].id # next
        BY <1>1, <1>4, <1>6, <3>1 DEF FreeUnused
      <4>3. free[m].id \in Nat
        <5>1. free[m] \in FreeEntry
          BY <1>1, <4>1 DEF StagingTypeOK
        <5> QED BY <5>1, StagingNumbers, <1>1 DEF FreeEntry, Buffers
      <4>4. free[m].id < size
        BY <1>1, <1>4, <4>2, <4>3, StagingNumbers
      <4> QED BY <1>1, <4>1, <4>2, <4>4 DEF FreeUnused
    <3>2. CASE n = Len(rest) + 1
      <4>1. free'[n] = old
        BY <1>6, <3>2
      <4>2. ASSUME NEW i \in DOMAIN copies PROVE copies[i].seq <= ready_for_encode
        BY <1>1, StagingNumbers DEF CopiesPending
      <4>3. immediate_name_ < size /\ immediate_name_ # next
        BY <1>1, <1>4, StagingNumbers
      <4> QED BY <4>1, <4>2, <4>3
    <3> QED BY <1>6, <2>1, <3>1, <3>2
  <2>2. ASSUME NEW n \in DOMAIN free', NEW m \in DOMAIN free', m # n
        PROVE  free'[m].id # free'[n].id
    <3>1. \A k \in 1 .. Len(rest) : rest[k].id # immediate_name_
      BY <1>1, <1>4, <1>6 DEF FreeUnused
    <3>2. CASE n \in 1 .. Len(rest) /\ m \in 1 .. Len(rest)
      BY <1>4, <1>6, <2>2, <3>2
    <3>3. CASE n = Len(rest) + 1 /\ m \in 1 .. Len(rest)
      BY <1>6, <3>1, <3>3
    <3>4. CASE m = Len(rest) + 1 /\ n \in 1 .. Len(rest)
      BY <1>6, <3>1, <3>4
    <3> QED BY <1>6, <2>2, <3>2, <3>3, <3>4
  <2> QED BY <1>2, <1>3, <2>1, <2>2 DEF FreeUnused
<1>14. NameTracked' /\ MappedQuiet'
  BY <1>2, <1>3, <1>4 DEF NameTracked, MappedQuiet
<1>15. CopiesReadTheirValue'
  <2> SUFFICES ASSUME NEW i \in DOMAIN copies, copies[i].op = "source",
                      NEW b, b = copies[i].buffer
               PROVE  StoredAfter(i - 1, b)' = copies[i].want
    BY <1>3 DEF CopiesReadTheirValue, StoredAfter, CopiesTo
  <2>1. StoredAfter(i - 1, b) = copies[i].want
    BY <1>1 DEF CopiesReadTheirValue
  <2>2. b \in Buffers /\ b # next
    BY <1>4, <1>9, CopyFacts
  <2> QED BY <1>3, <1>8, <2>1, <2>2 DEF StoredAfter, CopiesTo
<1> QED BY <1>10, <1>11, <1>12, <1>13, <1>14, <1>15 DEF StagingInv

LEMMA EmittedTyped ==
  ASSUME StagingInv
  PROVE  /\ Source \in Copy /\ Source.op = "source" /\ Source.buffer = immediate_name_
         /\ Source.seq = ready_for_encode /\ Source.want = held
         /\ written < MaxStagingWrites => Destination \in Copy
         /\ Destination.op = "destination" /\ Destination.buffer = immediate_name_
         /\ Destination.seq = ready_for_encode /\ Destination.adds = written + 1
<1>1. /\ StagingTypeOK /\ bound = immediate_name_
  BY DEF StagingInv, NameHolds
<1>2. bound \in Buffers /\ ready_for_encode \in 1 .. MaxSeq /\ held \in SUBSET StagingWrites
      /\ (written < MaxStagingWrites => written + 1 \in StagingWrites)
  BY <1>1, StagingNumbers DEF StagingTypeOK, StagingWrites
<1> QED BY <1>1, <1>2 DEF Source, Destination, Copy, CurrentSeqId

(* The copies emitted follow those in flight: they use the name, in the    *)
(* current chunk, and the source comes first.                              *)
LEMMA EmittedCopies ==
  ASSUME StagingInv, NEW ops, ops \in SUBSET {"source", "destination"},
         EmitCopies(ops)
  PROVE  /\ copies' \in Seq(Copy) /\ Len(copies') \in Nat /\ Len(copies) <= Len(copies')
         /\ DOMAIN copies' = 1 .. Len(copies')
         /\ \A i \in 1 .. Len(copies) : copies'[i] = copies[i]
         /\ \A i \in Len(copies) + 1 .. Len(copies') :
              /\ copies'[i].buffer = immediate_name_ /\ copies'[i].seq = ready_for_encode
              /\ copies'[i].op \in {"source", "destination"}
              /\ copies'[i].op = "source" => i = Len(copies) + 1 /\ copies'[i].want = held
              /\ copies'[i].op = "destination" =>
                   copies'[i].adds = written + 1 /\ "destination" \in ops
         /\ "destination" \in ops =>
              \E i \in Len(copies) + 1 .. Len(copies') : copies'[i].op = "destination"
<1> DEFINE N == Len(copies)
           S == Sourced(ops)
           src == Source
           dst == Destination
<1>1. copies \in Seq(Copy) /\ N \in Nat
  BY DEF StagingInv, StagingTypeOK
<1>2. /\ src \in Copy /\ src.op = "source" /\ src.buffer = immediate_name_
      /\ src.seq = ready_for_encode /\ src.want = held
      /\ "destination" \in ops => dst \in Copy
      /\ dst.op = "destination" /\ dst.buffer = immediate_name_
      /\ dst.seq = ready_for_encode /\ dst.adds = written + 1
  BY EmittedTyped DEF EmitCopies
<1>3. /\ S = IF "source" \in ops THEN Append(copies, src) ELSE copies
      /\ copies' = IF "destination" \in ops THEN Append(S, dst) ELSE S
  BY DEF EmitCopies, Sourced
<1> HIDE DEF src, dst, S
<1>4. CASE "source" \in ops
  <2>1. /\ S \in Seq(Copy) /\ Len(S) = N + 1 /\ DOMAIN S = 1 .. N + 1
        /\ \A i \in 1 .. N : S[i] = copies[i]
        /\ S[N + 1] = src
    BY <1>1, <1>2, <1>3, <1>4, AppendTyped
  <2>2. CASE "destination" \in ops
    <3>1. /\ copies' \in Seq(Copy) /\ Len(copies') = Len(S) + 1 /\ DOMAIN copies' = 1 .. Len(S) + 1
          /\ \A i \in 1 .. Len(S) : copies'[i] = S[i]
          /\ copies'[Len(S) + 1] = dst
      BY <1>2, <1>3, <2>1, <2>2, AppendTyped
    <3>2. /\ Len(copies') = N + 2 /\ DOMAIN copies' = 1 .. N + 2 /\ N + 2 \in N + 1 .. N + 2
          /\ \A i \in 1 .. N : copies'[i] = copies[i]
          /\ copies'[N + 1] = src /\ copies'[N + 2] = dst
          /\ \A i \in N + 1 .. N + 2 : i = N + 1 \/ i = N + 2
      BY <1>1, <2>1, <3>1
    <3> QED BY <1>1, <1>2, <2>2, <3>1, <3>2
  <2>3. CASE "destination" \notin ops
    <3>1. copies' = S /\ Len(copies') = N + 1 /\ \A i \in N + 1 .. N + 1 : i = N + 1
      BY <1>1, <1>3, <2>1, <2>3
    <3> QED BY <1>1, <1>2, <2>1, <2>3, <3>1
  <2> QED BY <2>2, <2>3
<1>5. CASE "source" \notin ops
  <2>1. S = copies
    BY <1>3, <1>5
  <2>2. CASE "destination" \in ops
    <3>1. /\ copies' \in Seq(Copy) /\ Len(copies') = N + 1 /\ DOMAIN copies' = 1 .. N + 1
          /\ \A i \in 1 .. N : copies'[i] = copies[i]
          /\ copies'[N + 1] = dst
      BY <1>1, <1>2, <1>3, <2>1, <2>2, AppendTyped
    <3>2. N + 1 \in N + 1 .. N + 1 /\ \A i \in N + 1 .. N + 1 : i = N + 1
      BY <1>1
    <3> QED BY <1>1, <1>2, <2>2, <3>1, <3>2
  <2>3. CASE "destination" \notin ops
    <3>1. copies' = copies /\ N + 1 .. N = {} /\ DOMAIN copies = 1 .. N
      BY <1>1, <1>3, <2>1, <2>3
    <3> QED BY <1>1, <2>3, <3>1
  <2> QED BY <2>2, <2>3
<1> QED BY <1>4, <1>5

(* A copy reads and writes the name's buffer as the program left it.       *)
LEMMA EmitCopiesStep ==
  ASSUME StagingInv, NEW ops, ops \in SUBSET {"source", "destination"},
         Outside, EmitCopies(ops), promote_flush' \in BOOLEAN
  PROVE  StagingInv'
<1> SUFFICES ASSUME NEW N, N = Len(copies) PROVE StagingInv'
  OBVIOUS
<1>1. /\ StagingTypeOK /\ NameHolds /\ CopiesPending /\ FreeUnused /\ NameTracked
      /\ CopiesReadTheirValue /\ MappedQuiet
  BY DEF StagingInv
<1>2. /\ UNCHANGED <<pool, free, immediate_name_, bound, stored, call>>
      /\ UNCHANGED <<ready_for_encode, cpu_coherent, finishing>>
      /\ dirty' = TRUE /\ call.state = "none"
      /\ written' = IF "destination" \in ops THEN written + 1 ELSE written
      /\ held' = IF "destination" \in ops THEN held \cup {written + 1} ELSE held
      /\ "destination" \in ops => written < MaxStagingWrites
  BY DEF EmitCopies, timeVars, Outside
<1>3. /\ gpu_occupied_until_finished_seq_id' = ready_for_encode
      /\ cpu_coherent_after_finished_seq_id' = IF "destination" \in ops THEN ready_for_encode
                                                 ELSE cpu_coherent_after_finished_seq_id
  BY <1>1, StagingNumbers DEF EmitCopies, useCopies, AtLeast, CurrentSeqId
<1>4. /\ copies' \in Seq(Copy) /\ Len(copies') \in Nat /\ N <= Len(copies')
      /\ DOMAIN copies' = 1 .. Len(copies')
      /\ \A i \in 1 .. N : copies'[i] = copies[i]
      /\ \A i \in N + 1 .. Len(copies') :
           /\ copies'[i].buffer = immediate_name_ /\ copies'[i].seq = ready_for_encode
           /\ copies'[i].op \in {"source", "destination"}
           /\ copies'[i].op = "source" => i = N + 1 /\ copies'[i].want = held
           /\ copies'[i].op = "destination" =>
                copies'[i].adds = written + 1 /\ "destination" \in ops
      /\ "destination" \in ops =>
           \E i \in N + 1 .. Len(copies') : copies'[i].op = "destination"
  BY EmittedCopies
<1>5. N \in Nat /\ DOMAIN copies = 1 .. N
  BY <1>1, CopiesTyped
<1>n. /\ ready_for_encode \in Nat /\ cpu_coherent \in Nat /\ cpu_coherent < ready_for_encode
      /\ finishing \in Nat /\ finishing < ready_for_encode
      /\ pool \in Nat /\ immediate_name_ < pool
      /\ cpu_coherent_after_finished_seq_id \in Nat
      /\ cpu_coherent_after_finished_seq_id <= ready_for_encode
  <2>1. StagingTypeOK
    BY <1>1
  <2> QED BY <2>1, StagingNumbers
<1>6. StagingTypeOK'
  <2>1. TimelineTypeOK'
    BY <1>1, <1>2 DEF StagingTypeOK, TimelineTypeOK
  <2>2. /\ cpu_coherent_after_finished_seq_id' \in 0 .. gpu_occupied_until_finished_seq_id'
        /\ gpu_occupied_until_finished_seq_id' \in 0 .. ready_for_encode'
    BY <1>1, <1>2, <1>3, StagingNumbers
  <2>3. written' \in 0 .. MaxStagingWrites /\ held' \in SUBSET StagingWrites
    BY <1>1, <1>2, StagingNumbers DEF StagingTypeOK, StagingWrites
  <2> QED BY <1>1, <1>2, <1>4, <2>1, <2>2, <2>3 DEF StagingTypeOK
<1>7. ASSUME NEW n \in 0 .. N, NEW b PROVE StoredAfter(n, b)' = StoredAfter(n, b)
  <2>1. \A i \in 1 .. n : copies'[i] = copies[i]
    BY <1>4, <1>5
  <2>2. CopiesTo(n, b)' = CopiesTo(n, b)
    BY <2>1 DEF CopiesTo
  <2>3. \A i \in CopiesTo(n, b) : copies'[i] = copies[i]
    BY <2>1 DEF CopiesTo
  <2> QED BY <1>2, <2>2, <2>3 DEF StoredAfter
<1>8. NameHolds'
  <2> SUFFICES ASSUME NEW b, b = immediate_name_, NEW L, L = Len(copies')
               PROVE  NameHolds'
    OBVIOUS
  <2>1. StoredAfter(N, b) = held
    BY <1>1 DEF NameHolds
  <2>2. stored[b] \cup {copies'[i].adds : i \in CopiesTo(N, b)'} = held
    BY <1>2, <1>5, <1>7, <2>1 DEF StoredAfter
  <2>3. ASSUME "destination" \in ops PROVE StoredAfter(L, b)' = held'
    <3>1. PICK k \in N + 1 .. L : copies'[k].op = "destination"
      BY <1>4, <2>3
    <3>2. k \in CopiesTo(L, b)' /\ copies'[k].adds = written + 1
      BY <1>4, <1>5, <3>1 DEF CopiesTo
    <3>3. \A i \in CopiesTo(L, b)' : i \in CopiesTo(N, b)' \/ copies'[i].adds = written + 1
      <4> SUFFICES ASSUME NEW i \in 1 .. L, copies'[i].op = "destination",
                          copies'[i].buffer = b, ~(i \in 1 .. N)
                   PROVE  copies'[i].adds = written + 1
        BY DEF CopiesTo
      <4>1. i \in N + 1 .. L
        BY <1>4, <1>5
      <4> QED BY <1>4, <4>1
    <3>4. CopiesTo(N, b)' \subseteq CopiesTo(L, b)'
      BY <1>4, <1>5 DEF CopiesTo
    <3>5. held' = held \cup {written + 1}
      BY <1>2, <2>3
    <3>6. stored'[b] \cup {copies'[i].adds : i \in CopiesTo(L, b)'}
            = stored[b] \cup {copies'[i].adds : i \in CopiesTo(N, b)'} \cup {written + 1}
      BY <1>2, <3>2, <3>3, <3>4
    <3> QED BY <2>2, <3>5, <3>6 DEF StoredAfter
  <2>4. ASSUME "destination" \notin ops PROVE StoredAfter(L, b)' = held'
    <3>1. CopiesTo(L, b)' = CopiesTo(N, b)'
      <4>1. \A i \in N + 1 .. L : copies'[i].op # "destination"
        BY <1>4, <2>4
      <4> QED BY <1>4, <1>5, <4>1 DEF CopiesTo
    <3>2. held' = held
      BY <1>2, <2>4
    <3> QED BY <1>2, <2>2, <3>1, <3>2 DEF StoredAfter
  <2>5. bound' = immediate_name_' /\ immediate_name_' = b
    BY <1>1, <1>2 DEF NameHolds
  <2>6. StoredAfter(Len(copies), immediate_name_)' = StoredAfter(L, b)'
    BY <2>5 DEF StoredAfter, CopiesTo
  <2> QED BY <2>3, <2>4, <2>5, <2>6 DEF NameHolds
<1>9. CopiesPending'
  <2>1. ASSUME NEW i \in 1 .. Len(copies')
        PROVE  /\ copies'[i].seq \in cpu_coherent + 1 .. ready_for_encode
               /\ copies'[i].seq # finishing /\ copies'[i].buffer < pool
               /\ i \in 1 .. N \/ copies'[i].seq = ready_for_encode
    <3>1. CASE i \in 1 .. N
      BY <1>1, <1>4, <1>5, <3>1 DEF CopiesPending
    <3>2. CASE i \in N + 1 .. Len(copies')
      BY <1>4, <1>n, <3>2
    <3> QED BY <1>4, <1>5, <3>1, <3>2
  <2>2. ASSUME NEW i \in 1 .. Len(copies'), NEW j \in 1 .. Len(copies'), i <= j
        PROVE  copies'[i].seq <= copies'[j].seq
    <3>1. CASE j \in 1 .. N
      <4>1. i \in 1 .. N
        BY <1>5, <2>2, <3>1
      <4> QED BY <1>1, <1>4, <1>5, <2>2, <3>1, <4>1 DEF CopiesPending
    <3>2. CASE j \notin 1 .. N
      BY <1>n, <2>1, <3>2
    <3> QED BY <3>1, <3>2
  <2> QED BY <1>2, <1>4, <2>1, <2>2 DEF CopiesPending
<1>10. FreeUnused'
  <2> SUFFICES ASSUME NEW n \in DOMAIN free, NEW i \in 1 .. Len(copies'),
                      copies'[i].buffer = free[n].id
               PROVE  copies'[i].seq <= free[n].will_free_at
    BY <1>1, <1>2, <1>4 DEF FreeUnused
  <2>1. i \in 1 .. N
    BY <1>1, <1>4, <1>5 DEF FreeUnused
  <2> QED BY <1>1, <1>4, <1>5, <2>1 DEF FreeUnused
<1>11. NameTracked'
  <2> SUFFICES ASSUME NEW i \in 1 .. Len(copies'), copies'[i].buffer = immediate_name_
               PROVE  /\ copies'[i].seq <= gpu_occupied_until_finished_seq_id'
                      /\ copies'[i].op = "destination" =>
                           copies'[i].seq <= cpu_coherent_after_finished_seq_id'
    BY <1>2, <1>4 DEF NameTracked
  <2>1. CASE i \in 1 .. N
    <3>1. /\ copies[i].seq <= gpu_occupied_until_finished_seq_id
          /\ copies[i].op = "destination" =>
               copies[i].seq <= cpu_coherent_after_finished_seq_id
          /\ copies'[i] = copies[i] /\ copies[i].seq \in cpu_coherent + 1 .. ready_for_encode
      BY <1>1, <1>4, <1>5, <2>1 DEF NameTracked, CopiesPending
    <3> QED BY <1>3, <1>n, <3>1
  <2>2. CASE i \in N + 1 .. Len(copies')
    BY <1>3, <1>4, <1>n, <2>2
  <2> QED BY <1>4, <1>5, <2>1, <2>2
<1>12. MappedQuiet'
  BY <1>2 DEF MappedQuiet
<1>13. CopiesReadTheirValue'
  <2> SUFFICES ASSUME NEW i \in 1 .. Len(copies'), copies'[i].op = "source",
                      NEW b, b = copies'[i].buffer
               PROVE  StoredAfter(i - 1, b)' = copies'[i].want
    BY <1>4 DEF CopiesReadTheirValue, StoredAfter, CopiesTo
  <2>1. CASE i \in 1 .. N
    <3>1. StoredAfter(i - 1, b) = copies[i].want
      BY <1>1, <1>4, <1>5, <2>1 DEF CopiesReadTheirValue
    <3>2. i - 1 \in 0 .. N
      BY <1>5, <2>1
    <3> QED BY <1>4, <1>7, <2>1, <3>1, <3>2
  <2>2. CASE i \in N + 1 .. Len(copies')
    <3>1. i - 1 = N /\ b = immediate_name_ /\ copies'[i].want = held /\ N \in 0 .. N
      BY <1>4, <1>5, <2>2
    <3>2. StoredAfter(N, b) = held
      BY <1>1, <3>1 DEF NameHolds
    <3>3. StoredAfter(N, b)' = held
      BY <1>7, <3>1, <3>2
    <3> QED BY <3>1, <3>3 DEF StoredAfter, CopiesTo
  <2> QED BY <1>4, <1>5, <2>1, <2>2
<1> QED BY <1>6, <1>8, <1>9, <1>10, <1>11, <1>12, <1>13 DEF StagingInv

LEMMA SuffixTyped ==
  ASSUME NEW S, NEW s \in Seq(S), NEW n \in 0 .. Len(s)
  PROVE  LET t == SubSeq(s, n + 1, Len(s)) IN
         /\ t \in Seq(S) /\ Len(t) = Len(s) - n /\ DOMAIN t = 1 .. Len(s) - n
         /\ \A i \in 1 .. Len(s) - n : t[i] = s[n + i]
<1>1. Len(s) \in Nat /\ n + 1 \in 1 .. Len(s) + 1 /\ Len(s) \in n .. Len(s)
  OBVIOUS
<1> DEFINE t == SubSeq(s, n + 1, Len(s))
<1>2. /\ t \in Seq(S) /\ Len(t) = (IF n + 1 <= Len(s) THEN Len(s) - (n + 1) + 1 ELSE 0)
      /\ \A i \in 1 .. Len(s) - (n + 1) + 1 : t[i] = s[(n + 1) + i - 1]
  BY <1>1, SubSeqProperties
<1> HIDE DEF t
<1>3. Len(t) = Len(s) - n /\ \A i \in 1 .. Len(s) - n : t[i] = s[n + i]
  BY <1>1, <1>2
<1>4. DOMAIN t = 1 .. Len(t)
  BY <1>2
<1> QED BY <1>2, <1>3, <1>4 DEF t

(* The copies of the completed chunk are the oldest; what is left reads as *)
(* before.                                                                 *)
LEMMA StagingBeginFinishStep == ASSUME StagingInv, StagingBeginFinish PROVE StagingInv'
<1> SUFFICES ASSUME NEW N, N = Len(copies) PROVE StagingInv'
  OBVIOUS
<1>1. /\ StagingTypeOK /\ NameHolds /\ CopiesPending /\ FreeUnused /\ NameTracked
      /\ CopiesReadTheirValue /\ MappedQuiet
  BY DEF StagingInv
<1>2. PICK n \in 0 .. N :
        /\ \A i \in DOMAIN copies : copies[i].seq <= finishing' <=> i <= n
        /\ stored' = [b \in Buffers |-> StoredAfter(n, b)]
        /\ copies' = SubSeq(copies, n + 1, N)
  BY DEF StagingBeginFinish
<1>3. /\ finishing = 0 /\ cpu_coherent + 1 < ready_for_encode /\ finishing' = cpu_coherent + 1
      /\ UNCHANGED <<ready_for_encode, cpu_coherent>>
      /\ UNCHANGED <<pool, free, immediate_name_, bound, held, written, dirty, promote_flush, call>>
      /\ UNCHANGED <<cpu_coherent_after_finished_seq_id, gpu_occupied_until_finished_seq_id>>
  BY DEF StagingBeginFinish, BeginFinish
<1>4. /\ copies \in Seq(Copy) /\ N \in Nat /\ DOMAIN copies = 1 .. N
      /\ \A i \in 1 .. N : copies[i] \in Copy
  BY <1>1, CopiesTyped DEF StagingTypeOK
<1>5. /\ copies' \in Seq(Copy) /\ Len(copies') = N - n /\ DOMAIN copies' = 1 .. N - n
      /\ \A i \in 1 .. N - n : copies'[i] = copies[n + i]
  BY <1>2, <1>4, SuffixTyped
<1>6. N - n \in Nat /\ n \in Nat /\ \A i \in 1 .. N - n : n + i \in 1 .. N /\ ~(n + i <= n)
  BY <1>2, <1>4
<1>7. ASSUME NEW m \in 0 .. N - n, NEW b \in Buffers
      PROVE  StoredAfter(m, b)' = StoredAfter(n + m, b)
  <2>1. StoredAfter(m, b)' = StoredAfter(n, b) \cup {copies'[i].adds : i \in CopiesTo(m, b)'}
    BY <1>2 DEF StoredAfter
  <2>2. ASSUME NEW i \in CopiesTo(m, b)'
        PROVE  n + i \in CopiesTo(n + m, b) /\ copies'[i].adds = copies[n + i].adds
    <3>1. i \in 1 .. m /\ copies'[i].op = "destination" /\ copies'[i].buffer = b
      BY <2>2 DEF CopiesTo
    <3>2. i \in 1 .. N - n /\ n + i \in 1 .. n + m
      BY <1>6, <3>1
    <3> QED BY <1>5, <3>1, <3>2 DEF CopiesTo
  <2>3. ASSUME NEW j \in CopiesTo(n + m, b)
        PROVE  j \in CopiesTo(n, b) \/ \E i \in CopiesTo(m, b)' : copies'[i].adds = copies[j].adds
    <3>1. j \in 1 .. n + m /\ copies[j].op = "destination" /\ copies[j].buffer = b
      BY <2>3 DEF CopiesTo
    <3>2. CASE j <= n
      BY <1>6, <3>1, <3>2 DEF CopiesTo
    <3>3. CASE ~(j <= n)
      <4> SUFFICES ASSUME NEW i, i = j - n
                   PROVE  i \in CopiesTo(m, b)' /\ copies'[i].adds = copies[j].adds
        OBVIOUS
      <4>1. i \in 1 .. m /\ i \in 1 .. N - n /\ n + i = j
        BY <1>6, <3>1, <3>3
      <4>2. copies'[i] = copies[j]
        BY <1>5, <4>1
      <4> QED BY <3>1, <4>1, <4>2 DEF CopiesTo
    <3> QED BY <3>2, <3>3
  <2>4. CopiesTo(n, b) \subseteq CopiesTo(n + m, b)
    BY <1>6 DEF CopiesTo
  <2>5. {copies[i].adds : i \in CopiesTo(n, b)} \cup {copies'[i].adds : i \in CopiesTo(m, b)'}
          = {copies[i].adds : i \in CopiesTo(n + m, b)}
    <3>1. ASSUME NEW w, w \in {copies'[i].adds : i \in CopiesTo(m, b)'}
          PROVE  w \in {copies[i].adds : i \in CopiesTo(n + m, b)}
      BY <2>2, <3>1
    <3>2. ASSUME NEW w, w \in {copies[i].adds : i \in CopiesTo(n + m, b)}
          PROVE  \/ w \in {copies[i].adds : i \in CopiesTo(n, b)}
                 \/ w \in {copies'[i].adds : i \in CopiesTo(m, b)'}
      BY <2>3, <3>2
    <3> QED BY <2>4, <3>1, <3>2
  <2> QED BY <2>1, <2>5 DEF StoredAfter
<1>8. StagingTypeOK'
  <2>1. TimelineTypeOK'
    BY <1>1, <1>3, StagingNumbers DEF StagingTypeOK, TimelineTypeOK
  <2>2. stored' \in [Buffers -> SUBSET StagingWrites]
    <3> SUFFICES ASSUME NEW b \in Buffers PROVE StoredAfter(n, b) \in SUBSET StagingWrites
      BY <1>2
    <3>1. stored[b] \in SUBSET StagingWrites
      BY <1>1 DEF StagingTypeOK
    <3>2. \A i \in CopiesTo(n, b) : copies[i].adds \in StagingWrites
      BY <1>4, <1>6, CopyFacts DEF CopiesTo
    <3> QED BY <3>1, <3>2 DEF StoredAfter
  <2> QED BY <1>1, <1>3, <1>5, <2>1, <2>2 DEF StagingTypeOK
<1>9. NameHolds'
  <2> SUFFICES ASSUME NEW b, b = immediate_name_, NEW m, m = N - n PROVE NameHolds'
    OBVIOUS
  <2>1. m \in 0 .. N - n /\ n + m = N /\ b \in Buffers
    BY <1>1, <1>6, StagingNumbers
  <2>2. StoredAfter(m, b)' = held
    BY <1>1, <1>7, <2>1 DEF NameHolds
  <2>3. bound' = immediate_name_' /\ immediate_name_' = b
    BY <1>1, <1>3 DEF NameHolds
  <2>4. StoredAfter(Len(copies), immediate_name_)' = StoredAfter(m, b)'
    BY <1>5, <2>3 DEF StoredAfter, CopiesTo
  <2> QED BY <1>3, <2>2, <2>3, <2>4 DEF NameHolds
<1>10. CopiesPending'
  <2>1. ASSUME NEW i \in 1 .. N - n
        PROVE  /\ copies'[i].seq \in cpu_coherent + 1 .. ready_for_encode
               /\ copies'[i].seq # finishing' /\ copies'[i].buffer < pool
    <3>1. n + i \in 1 .. N /\ copies'[i] = copies[n + i] /\ ~(n + i <= n)
      BY <1>5, <1>6
    <3>2. /\ copies[n + i].seq \in cpu_coherent + 1 .. ready_for_encode
          /\ copies[n + i].buffer < pool
      BY <1>1, <1>4, <3>1 DEF CopiesPending
    <3>3. ~(copies[n + i].seq <= finishing')
      BY <1>2, <1>4, <3>1
    <3>4. finishing' \in Nat
      <4>1. StagingTypeOK
        BY <1>1
      <4> QED BY <1>3, <4>1, StagingNumbers
    <3>5. copies[n + i].seq # finishing'
      BY <3>2, <3>3, <3>4
    <3> QED BY <3>1, <3>2, <3>5
  <2>2. ASSUME NEW i \in 1 .. N - n, NEW j \in 1 .. N - n, i <= j
        PROVE  copies'[i].seq <= copies'[j].seq
    <3>1. n + i \in 1 .. N /\ n + j \in 1 .. N /\ n + i <= n + j
      BY <1>6, <2>2
    <3> QED BY <1>1, <1>4, <1>5, <3>1 DEF CopiesPending
  <2> QED BY <1>3, <1>5, <2>1, <2>2 DEF CopiesPending
<1>11. FreeUnused' /\ NameTracked' /\ MappedQuiet'
  <2>1. \A i \in 1 .. N - n : n + i \in DOMAIN copies /\ copies'[i] = copies[n + i]
    BY <1>4, <1>5, <1>6
  <2>2. FreeUnused'
    <3> SUFFICES ASSUME NEW k \in DOMAIN free, NEW i \in 1 .. N - n,
                        copies'[i].buffer = free[k].id
                 PROVE  copies'[i].seq <= free[k].will_free_at
      BY <1>1, <1>3, <1>5 DEF FreeUnused
    <3> QED BY <1>1, <2>1 DEF FreeUnused
  <2>3. NameTracked'
    BY <1>1, <1>3, <1>5, <2>1 DEF NameTracked
  <2>4. MappedQuiet'
    <3>1. MappedQuiet
      BY <1>1
    <3> QED BY <1>3, <1>5, <2>1, <3>1 DEF MappedQuiet
  <2> QED BY <2>2, <2>3, <2>4
<1>12. CopiesReadTheirValue'
  <2>1. ASSUME NEW i \in 1 .. N - n, copies'[i].op = "source", NEW b, b = copies'[i].buffer
        PROVE  StoredAfter(i - 1, b)' = copies'[i].want
    <3>1. n + i \in 1 .. N /\ copies'[i] = copies[n + i] /\ i - 1 \in 0 .. N - n
          /\ (n + i) - 1 = n + (i - 1)
      BY <1>5, <1>6
    <3>2. StoredAfter((n + i) - 1, b) = copies[n + i].want
      BY <1>1, <1>4, <2>1, <3>1 DEF CopiesReadTheirValue
    <3>3. b \in Buffers
      BY <1>4, <2>1, <3>1, CopyFacts
    <3> QED BY <1>7, <3>1, <3>2, <3>3
  <2>2. DOMAIN copies' = 1 .. N - n
    BY <1>5
  <2> QED BY ONLY <2>1, <2>2 DEF CopiesReadTheirValue, StoredAfter, CopiesTo
<1> QED BY <1>8, <1>9, <1>10, <1>11, <1>12 DEF StagingInv

(* A staging resource at rest, at any time of the queue.                   *)
LEMMA StagingAtRest == ASSUME StagingInit, TimelineTypeOK PROVE StagingInv
<1>1. /\ pool = 1 /\ free = <<>> /\ immediate_name_ = 0 /\ bound = 0
      /\ cpu_coherent_after_finished_seq_id = 0 /\ gpu_occupied_until_finished_seq_id = 0
      /\ stored = [b \in Buffers |-> {}] /\ held = {} /\ written = 0 /\ copies = <<>>
      /\ dirty = FALSE /\ promote_flush = FALSE /\ call = NoCall
  BY DEF StagingInit
<1>2. DOMAIN copies = {} /\ DOMAIN free = {} /\ Len(copies) = 0
  BY <1>1
<1>3. StagingTypeOK
  <2>1. copies \in Seq(Copy) /\ free \in Seq(FreeEntry)
    BY <1>1
  <2>2. call \in MapCall /\ call.state = "none"
    BY <1>1, TimelineAssumption DEF NoCall, MapCall
  <2>3. 0 \in Buffers /\ 1 \in 1 .. MaxPool /\ ready_for_encode \in Nat /\ 0 \in 0 .. MaxStagingWrites
    BY StagingAssumption, TimelineAssumption DEF Buffers, TimelineTypeOK
  <2>4. stored \in [Buffers -> SUBSET StagingWrites] /\ held \in SUBSET StagingWrites
    BY <1>1
  <2>5. /\ pool \in 1 .. MaxPool /\ immediate_name_ \in 0 .. pool - 1 /\ bound \in 0 .. pool - 1
        /\ cpu_coherent_after_finished_seq_id \in 0 .. gpu_occupied_until_finished_seq_id
        /\ gpu_occupied_until_finished_seq_id \in 0 .. ready_for_encode
        /\ written \in 0 .. MaxStagingWrites
    BY <1>1, <2>3
  <2> QED BY <1>1, <2>1, <2>2, <2>4, <2>5 DEF StagingTypeOK
<1>4. NameHolds
  <2>1. CopiesTo(Len(copies), immediate_name_) = {}
    BY <1>2 DEF CopiesTo
  <2>2. 0 \in Buffers
    BY StagingAssumption DEF Buffers
  <2> QED BY <1>1, <2>1, <2>2 DEF NameHolds, StoredAfter
<1>5. CopiesPending /\ FreeUnused /\ NameTracked /\ MappedQuiet /\ CopiesReadTheirValue
  BY <1>2 DEF CopiesPending, FreeUnused, NameTracked, MappedQuiet, CopiesReadTheirValue
<1> QED BY <1>3, <1>4, <1>5 DEF StagingInv

LEMMA TimelineStart == TimelineInit => TimelineTypeOK
BY TimelineAssumption DEF TimelineInit, TimelineTypeOK

LEMMA StagingStep == StagingInv /\ StagingNext => StagingInv'
<1> SUFFICES ASSUME StagingInv, StagingNext PROVE StagingInv'
  OBVIOUS
<1>1. ASSUME NEW op \in {"source", "destination"}, CopyNow(op) PROVE StagingInv'
  <2>1. {op} \in SUBSET {"source", "destination"} /\ Outside /\ EmitCopies({op})
    BY <1>1 DEF CopyNow
  <2>2. promote_flush' \in BOOLEAN
    BY <1>1 DEF CopyNow, StagingInv, StagingTypeOK
  <2> QED BY <2>1, <2>2, EmitCopiesStep
<1>2. ASSUME NEW ops \in SUBSET {"source", "destination"} \ {{}}, NEW promote \in BOOLEAN,
             ExecuteCopies(ops, promote)
      PROVE  StagingInv'
  BY <1>2, EmitCopiesStep DEF ExecuteCopies
<1>3. CASE EndEvent BY <1>3, EndEventStep
<1>4. CASE StagingCommit BY <1>4, StagingCommitStep
<1>5. ASSUME NEW r \in BOOLEAN, NEW w \in BOOLEAN, BeginMap(r, w) PROVE StagingInv'
  BY <1>5, BeginMapStep
<1>6. CASE MapReady BY <1>6, MapReadyStep
<1>7. CASE Rename BY <1>7, RenameStep
<1>8. CASE MapStillDrawing BY <1>8, MapStillDrawingStep
<1>9. CASE FlushAndWait BY <1>9, FlushAndWaitStep
<1>10. CASE Woken BY <1>10, WokenStep
<1>11. CASE Unmap BY <1>11, UnmapStep
<1>12. CASE StagingBeginFinish BY <1>12, StagingBeginFinishStep
<1>13. CASE StagingSignal BY <1>13, StagingSignalStep
<1> QED BY <1>1, <1>2, <1>3, <1>4, <1>5, <1>6, <1>7, <1>8, <1>9, <1>10, <1>11, <1>12, <1>13
        DEF StagingNext

LEMMA StagingStutter ==
  StagingInv /\ UNCHANGED <<timeVars, stagingVars>> => StagingInv'
<1> SUFFICES ASSUME StagingInv, UNCHANGED <<timeVars, stagingVars>> PROVE StagingInv'
  OBVIOUS
<1>1. StagingTypeOK' /\ MappedQuiet'
  BY DEF StagingInv, StagingTypeOK, TimelineTypeOK, MappedQuiet, timeVars, stagingVars
<1>2. NameHolds' /\ CopiesReadTheirValue'
  BY DEF StagingInv, NameHolds, CopiesReadTheirValue, StoredAfter, CopiesTo, stagingVars
<1>3. CopiesPending' /\ FreeUnused' /\ NameTracked'
  BY DEF StagingInv, CopiesPending, FreeUnused, NameTracked, timeVars, stagingVars
<1> QED BY <1>1, <1>2, <1>3 DEF StagingInv

(* The invariant of a staging resource, for every number of buffers,       *)
(* copies and chunks, and whatever mixture of waiting and renaming Map     *)
(* chooses (tryMap, allocate, updateImmediateName).                        *)
THEOREM StagingInvariance == StagingSpec => []StagingInv
<1>1. StagingInit /\ TimelineInit => StagingInv
  BY TimelineStart, StagingAtRest
<1>2. StagingInv /\ [StagingNext]_<<timeVars, stagingVars>> => StagingInv'
  BY StagingStep, StagingStutter
<1> QED BY <1>1, <1>2, PTL DEF StagingSpec

(* Copies and maps of a staging resource take effect in program order.     *)
THEOREM StagingProgramOrder == StagingSpec => []StagingInOrder
<1>1. StagingInv => StagingInOrder
  <2> SUFFICES ASSUME StagingInv PROVE StagingInOrder
    OBVIOUS
  <2>1. CopiesReadTheirValue /\ StagingTypeOK /\ MappedQuiet
        /\ StoredAfter(Len(copies), immediate_name_) = held
    BY DEF StagingInv, NameHolds
  <2>2. ASSUME call.state = "mapped" PROVE stored[immediate_name_] = held
    <3>1. CopiesTo(Len(copies), immediate_name_) = {}
      BY <2>1, <2>2, CopiesTyped DEF CopiesTo, MappedQuiet
    <3> QED BY <2>1, <3>1 DEF StoredAfter
  <2> QED BY <2>1, <2>2 DEF StagingInOrder, MapSeesValue
<1> QED BY <1>1, StagingInvariance, PTL

-----------------------------------------------------------------------------
(* Dynamic resources                                                       *)

LEMMA DynamicNumbers ==
  ASSUME DynamicTypeOK
  PROVE  /\ ready_for_encode \in Nat /\ cpu_coherent \in Nat /\ finishing \in Nat
         /\ ready_for_encode \in 1 .. MaxSeq /\ MaxSeq \in Nat
         /\ cpu_coherent < ready_for_encode /\ finishing < ready_for_encode
         /\ finishing \in {0, cpu_coherent + 1}
         /\ suballocation_count_ \in Nat /\ suballocation_count_ >= 1
         /\ suballocation_count_ <= Suballocations /\ Suballocations \in Nat
         /\ allocated \in Nat /\ allocated >= 1 /\ allocated <= MaxAllocations
         /\ MaxAllocations \in Nat /\ MaxWrites \in Nat /\ writes \in Nat /\ writes <= MaxWrites
         /\ name_ \in 1 .. allocated /\ name_ \in Allocations
         /\ current \in 1 .. allocated /\ current \in Allocations
         /\ name_suballocation_ \in Nat /\ name_suballocation_ < suballocation_count_
         /\ name_suballocation_ \in Subs
BY TimelineAssumption, DynamicAssumption DEF DynamicTypeOK, TimelineTypeOK, Allocations, Subs

LEMMA ListTyped ==
  ASSUME NEW c \in CommandList
  PROVE  /\ c.state \in {"pool", "recording", "finished", "resetting"}
         /\ c.used \in Seq(UsedDynamic) /\ Len(c.used) \in Nat /\ DOMAIN c.used = 1 .. Len(c.used)
         /\ \A i \in 1 .. Len(c.used) : c.used[i] \in UsedDynamic
         /\ c.value \in SUBSET WriteIds /\ c.draws \in SUBSET Draw /\ c.inherits \in BOOLEAN
         /\ c.held \in BOOLEAN /\ c.chunks \in SUBSET (1 .. MaxSeq) /\ c.by \in {"app", "finish"}
         /\ c.current_seq_id \in 0 .. MaxSeq
<1>1. /\ c.state \in {"pool", "recording", "finished", "resetting"}
      /\ c.used \in Seq(UsedDynamic)
      /\ c.value \in SUBSET WriteIds /\ c.draws \in SUBSET Draw /\ c.inherits \in BOOLEAN
      /\ c.held \in BOOLEAN /\ c.chunks \in SUBSET (1 .. MaxSeq) /\ c.by \in {"app", "finish"}
      /\ c.current_seq_id \in 0 .. MaxSeq
  BY DEF CommandList
<1> QED BY <1>1

LEMMA UsedTyped ==
  ASSUME NEW e \in UsedDynamic
  PROVE  /\ e.allocation \in Allocations /\ e.suballocation \in Subs /\ e.latest \in BOOLEAN
         /\ e.allocation \in Nat /\ e.allocation >= 1 /\ e.suballocation \in Nat
BY DynamicAssumption DEF UsedDynamic, Allocations, Subs

LEMMA FifoTyped ==
  ASSUME DynamicTypeOK
  PROVE  /\ fifo \in Seq(QueueEntry) /\ Len(fifo) \in Nat /\ DOMAIN fifo = 1 .. Len(fifo)
         /\ \A i \in 1 .. Len(fifo) :
              /\ fifo[i].allocation \in Allocations /\ fifo[i].allocation \in Nat
              /\ fifo[i].allocation >= 1
              /\ fifo[i].will_free_at \in 1 .. MaxSeq /\ fifo[i].will_free_at \in Nat
<1>1. fifo \in Seq(QueueEntry) /\ Len(fifo) \in Nat /\ DOMAIN fifo = 1 .. Len(fifo)
      /\ \A i \in 1 .. Len(fifo) : fifo[i] \in QueueEntry
  BY DEF DynamicTypeOK
<1>2. \A e \in QueueEntry :
        /\ e.allocation \in Allocations /\ e.allocation \in Nat /\ e.allocation >= 1
        /\ e.will_free_at \in 1 .. MaxSeq /\ e.will_free_at \in Nat
  BY TimelineAssumption, DynamicAssumption DEF QueueEntry, Allocations
<1> QED BY <1>1, <1>2

(* The reads in flight.                                                    *)
LEMMA UseTyped ==
  ASSUME DynamicTypeOK, NEW u \in uses
  PROVE  /\ u.slot \in Slots /\ u.slot[1] \in Allocations /\ u.slot[2] \in Subs
         /\ u.slot[1] \in Nat /\ u.slot[2] \in Nat
         /\ u.slot = <<u.slot[1], u.slot[2]>> /\ u.want \in SUBSET WriteIds
         /\ u.seq \in Nat /\ u.seq >= cpu_coherent + 1 /\ u.seq <= ready_for_encode
         /\ u.seq # finishing
<1>1. u \in [slot: Slots, want: SUBSET WriteIds, seq: 1 .. MaxSeq]
      /\ u.seq \in cpu_coherent + 1 .. ready_for_encode /\ u.seq # finishing
  BY DEF DynamicTypeOK
<1>2. u.slot \in Slots /\ u.want \in SUBSET WriteIds
  BY <1>1
<1>3. u.slot[1] \in Allocations /\ u.slot[2] \in Subs /\ u.slot = <<u.slot[1], u.slot[2]>>
  BY <1>2 DEF Slots
<1> QED BY <1>1, <1>2, <1>3, DynamicNumbers, DynamicAssumption DEF Allocations, Subs

(* What a step that only moves a list between its states does to it.       *)
Moved(old, new) ==
  /\ new.used = old.used
  /\ new.draws \subseteq old.draws
  /\ new.value = old.value \/ old.used = <<>>
  /\ new.state = "pool" => old.used = <<>> /\ new.draws = {}
  /\ new.state = "resetting" => new.current_seq_id >= 1
  /\ new.state = "recording" => old.state = "recording" \/ old.used = <<>>
  /\ new.state = "finished" => old.state \in {"recording", "finished"}
  /\ new.state \in {"recording", "finished"} =>
       \/ old.state \in {"recording", "finished"}
       \/ new.draws = {} /\ old.used = <<>>

LEMMA AdministrativeStep ==
  ASSUME DynamicInv, DynamicTypeOK', uses' \subseteq uses,
         UNCHANGED <<suballocation_count_, fifo, name_, name_suballocation_>>,
         UNCHANGED <<owned_by_command_list_, allocated, current, current_suballocation_>>,
         UNCHANGED <<content, value, limits>>,
         \A l \in Lists : Moved(cmdlist[l], cmdlist'[l])
  PROVE  DynamicInv'
<1>1. /\ AllocationInOnePlace /\ AllocationsMade /\ ListsOK
      /\ EncoderAgreesWithName /\ MemoryKept /\ DrawsSeeTheirWrites
  BY DEF DynamicInv
<1>2. \A l \in Lists : cmdlist'[l].used = cmdlist[l].used
  BY DEF Moved, Executable
<1>3. \A l \in Lists : \A a : UsedBy(l, a)' <=> UsedBy(l, a)
  BY <1>2 DEF UsedBy
<1>4. \A a : (InFifo(a)' <=> InFifo(a)) /\ (IsName(a)' <=> IsName(a))
  BY DEF InFifo, IsName
<1>5. AllocationInOnePlace'
  <2>1. /\ \A a \in 1 .. allocated' : InFifo(a)' \/ IsName(a)' \/ \E l \in Lists : UsedBy(l, a)'
        /\ \A l, m \in Lists, a \in 1 .. allocated' : UsedBy(l, a)' /\ UsedBy(m, a)' => l = m
        /\ \A l \in Lists, a \in 1 .. allocated' : UsedBy(l, a)' => ~InFifo(a)' /\ ~IsName(a)'
    BY <1>1, <1>3, <1>4 DEF AllocationInOnePlace
  <2>2. /\ \A i, j \in DOMAIN fifo' : fifo'[i].allocation = fifo'[j].allocation => i = j
        /\ \A l \in Lists : \A i, j \in DOMAIN cmdlist'[l].used :
             cmdlist'[l].used[i].allocation = cmdlist'[l].used[j].allocation => i = j
    BY <1>1, <1>2 DEF AllocationInOnePlace
  <2>3. ~InFifo(name_)' /\ (owned_by_command_list_' => \E l \in Lists : UsedBy(l, name_)')
    BY <1>1, <1>2 DEF AllocationInOnePlace, InFifo, UsedBy
  <2> QED BY <2>1, <2>2, <2>3 DEF AllocationInOnePlace
<1>6. AllocationsMade'
  BY <1>1, <1>2 DEF AllocationsMade
<1>7. ListsOK'
  <2> SUFFICES ASSUME NEW l \in Lists PROVE ListOK(l)'
    BY DEF ListsOK
  <2>1. ListOK(l) /\ Moved(cmdlist[l], cmdlist'[l])
    BY <1>1 DEF ListsOK
  <2> QED BY <2>1 DEF ListOK, Moved, Executable, UsedBy
<1>8. EncoderAgreesWithName'
  BY <1>1 DEF EncoderAgreesWithName, CurrentSlot
<1>9. MemoryKept'
  <2> SUFFICES ASSUME limits = {} PROVE LatestStored' /\ \A u \in uses' : Unread(u)'
    BY DEF MemoryKept
  <2>1. LatestStored /\ \A u \in uses : Unread(u)
    BY <1>1 DEF MemoryKept
  <2>2. LatestStored'
    <3> SUFFICES ASSUME NEW l \in Lists, Executable(l)', cmdlist'[l].used # <<>>
                 PROVE  cmdlist'[l].value \subseteq content[RecordedSlot(l)']
      BY <2>1 DEF LatestStored
    <3>1. Executable(l) /\ cmdlist[l].used # <<>> /\ cmdlist'[l].value = cmdlist[l].value
      BY DEF Moved, Executable
    <3>2. RecordedSlot(l)' = RecordedSlot(l)
      BY <1>2 DEF RecordedSlot, Recorded
    <3> QED BY <2>1, <3>1, <3>2 DEF LatestStored
  <2>3. ASSUME NEW u \in uses' PROVE Unread(u)'
    <3>1. Unread(u)
      BY <2>1
    <3>2. ASSUME NEW l \in Lists, cmdlist'[l].state = "recording" PROVE ~UsedBy(l, u.slot[1])'
      <4>1. CASE cmdlist[l].state = "recording"
        BY <1>3, <3>1, <4>1 DEF Unread
      <4>2. CASE cmdlist[l].used = <<>>
        BY <1>2, <4>2 DEF UsedBy
      <4> QED BY <3>2, <4>1, <4>2 DEF Moved, Executable
    <3> QED BY <3>1, <3>2 DEF Unread
  <2> QED BY <2>2, <2>3
<1>10. DrawsSeeTheirWrites'
  BY <1>1 DEF DrawsSeeTheirWrites, Moved, Executable
<1> QED BY <1>5, <1>6, <1>7, <1>8, <1>9, <1>10 DEF DynamicInv

(* A step that changes one list and nothing else.                          *)
LEMMA OneListStep ==
  ASSUME DynamicInv, NEW l \in Lists, NEW c \in CommandList,
         cmdlist' = [cmdlist EXCEPT ![l] = c], Moved(cmdlist[l], c),
         UNCHANGED <<resource, fifo, name_, name_suballocation_, owned_by_command_list_>>,
         UNCHANGED <<allocated, current, current_suballocation_, content, value, writes>>,
         UNCHANGED <<uses, limits, timeVars>>
  PROVE  DynamicInv'
<1>1. DynamicTypeOK /\ ListsOK
  BY DEF DynamicInv
<1>2. cmdlist \in [Lists -> CommandList]
  BY <1>1 DEF DynamicTypeOK
<1>3. /\ cmdlist' \in [Lists -> CommandList] /\ cmdlist'[l] = c
      /\ \A m \in Lists : m # l => cmdlist'[m] = cmdlist[m]
  BY <1>2
<1>4. DynamicTypeOK'
  BY <1>1, <1>3 DEF DynamicTypeOK, TimelineTypeOK, timeVars, resource
<1>5. \A m \in Lists : Moved(cmdlist[m], cmdlist'[m])
  <2> SUFFICES ASSUME NEW m \in Lists PROVE Moved(cmdlist[m], cmdlist'[m])
    OBVIOUS
  <2>1. CASE m = l
    BY <1>3, <2>1
  <2>2. CASE m # l
    <3>1. ListOK(m) /\ cmdlist'[m] = cmdlist[m]
      BY <1>1, <1>3, <2>2 DEF ListsOK
    <3> QED BY <3>1 DEF Moved, ListOK
  <2> QED BY <2>1, <2>2
<1> QED BY <1>4, <1>5, AdministrativeStep DEF resource

LEMMA CreateCommandListStep ==
  ASSUME DynamicInv, NEW l \in Lists, CreateCommandList(l) PROVE DynamicInv'
<1> DEFINE c == [cmdlist[l] EXCEPT !.state = "recording", !.held = TRUE]
<1>1. cmdlist \in [Lists -> CommandList] /\ ListOK(l) /\ cmdlist[l].state = "pool"
  BY DEF DynamicInv, DynamicTypeOK, ListsOK, CreateCommandList
<1>2. cmdlist[l] \in CommandList /\ cmdlist[l].used = <<>> /\ cmdlist[l].draws = {}
  BY <1>1 DEF ListOK
<1>3. /\ c \in CommandList /\ c.state = "recording" /\ c.used = cmdlist[l].used
      /\ c.draws = cmdlist[l].draws /\ c.value = cmdlist[l].value
  BY <1>2 DEF CommandList
<1>4. cmdlist' = [cmdlist EXCEPT ![l] = c]
  BY <1>1 DEF CreateCommandList, CommandList
<1> HIDE DEF c
<1>m. Moved(cmdlist[l], c)
  BY <1>2, <1>3, <1>4 DEF Moved
<1>u. /\ UNCHANGED <<resource, fifo, name_, name_suballocation_, owned_by_command_list_>>
      /\ UNCHANGED <<allocated, current, current_suballocation_, content, value, writes>>
      /\ UNCHANGED <<uses, limits, timeVars>>
  BY DEF CreateCommandList, resource, timeVars
<1> QED BY <1>2, <1>3, <1>4, <1>m, <1>u, OneListStep

LEMMA FinishCommandListStep ==
  ASSUME DynamicInv, NEW l \in Lists, FinishCommandList(l) PROVE DynamicInv'
<1> DEFINE c == [cmdlist[l] EXCEPT !.state = "finished"]
<1>1. cmdlist \in [Lists -> CommandList] /\ cmdlist[l].state = "recording"
  BY DEF DynamicInv, DynamicTypeOK, FinishCommandList
<1>2. /\ c \in CommandList /\ c.state = "finished" /\ c.used = cmdlist[l].used
      /\ c.draws = cmdlist[l].draws /\ c.value = cmdlist[l].value
  BY <1>1 DEF CommandList
<1>3. cmdlist' = [cmdlist EXCEPT ![l] = c]
  BY <1>1 DEF FinishCommandList, CommandList
<1> HIDE DEF c
<1>m. Moved(cmdlist[l], c)
  BY <1>1, <1>2, <1>3 DEF Moved
<1>u. /\ UNCHANGED <<resource, fifo, name_, name_suballocation_, owned_by_command_list_>>
      /\ UNCHANGED <<allocated, current, current_suballocation_, content, value, writes>>
      /\ UNCHANGED <<uses, limits, timeVars>>
  BY DEF FinishCommandList, resource, timeVars
<1> QED BY <1>1, <1>2, <1>3, <1>m, <1>u, OneListStep

(* Dropping a reference, the last one or not.                              *)
LEMMA DroppedTyped ==
  ASSUME DynamicTypeOK, NEW c \in CommandList, NEW t \in {"app", "finish"}
  PROVE  LET d == Dropped(c, t) IN
         /\ d \in CommandList /\ d.used = c.used /\ d.draws = c.draws /\ d.value = c.value
         /\ d = c \/ (d.state = "resetting" /\ d.current_seq_id >= 1)
<1>1. ready_for_encode \in 0 .. MaxSeq /\ ready_for_encode >= 1
  BY DynamicNumbers
<1> QED BY <1>1 DEF Dropped, CommandList, CurrentSeqId

LEMMA ReleaseStep ==
  ASSUME DynamicInv, NEW l \in Lists, Release(l) PROVE DynamicInv'
<1> DEFINE r == Released(cmdlist[l])
           c == Dropped(r, "app")
<1>1. DynamicTypeOK /\ cmdlist \in [Lists -> CommandList] /\ cmdlist[l].state = "finished"
  BY DEF DynamicInv, DynamicTypeOK, Release
<1>2. /\ r \in CommandList /\ r.state = "finished" /\ r.used = cmdlist[l].used
      /\ r.draws = cmdlist[l].draws /\ r.value = cmdlist[l].value
  BY <1>1 DEF CommandList, Released
<1>3. cmdlist' = [cmdlist EXCEPT ![l] = c]
  BY <1>1 DEF Release
<1> HIDE DEF r
<1>4. /\ c \in CommandList /\ c.used = r.used /\ c.draws = r.draws /\ c.value = r.value
      /\ c = r \/ (c.state = "resetting" /\ c.current_seq_id >= 1)
  BY <1>1, <1>2, DroppedTyped
<1> HIDE DEF c
<1>m. Moved(cmdlist[l], c)
  BY <1>1, <1>2, <1>3, <1>4 DEF Moved
<1>u. /\ UNCHANGED <<resource, fifo, name_, name_suballocation_, owned_by_command_list_>>
      /\ UNCHANGED <<allocated, current, current_suballocation_, content, value, writes>>
      /\ UNCHANGED <<uses, limits, timeVars>>
  BY DEF Release, resource, timeVars
<1> QED BY <1>1, <1>2, <1>3, <1>4, <1>m, <1>u, OneListStep

LEMMA DestroyCommandStep ==
  ASSUME DynamicInv, NEW l \in Lists, DestroyCommand(l) PROVE DynamicInv'
<1> DEFINE r == CommandDestroyed(cmdlist[l])
           c == Dropped(r, "finish")
<1>1. DynamicTypeOK /\ cmdlist \in [Lists -> CommandList] /\ ListOK(l)
  BY DEF DynamicInv, DynamicTypeOK, ListsOK
<1>2. /\ r \in CommandList /\ r.state = cmdlist[l].state /\ r.used = cmdlist[l].used
      /\ r.draws = cmdlist[l].draws /\ r.value = cmdlist[l].value
      /\ r.current_seq_id = cmdlist[l].current_seq_id
  BY <1>1 DEF CommandList, CommandDestroyed
<1>3. cmdlist' = [cmdlist EXCEPT ![l] = c]
  BY <1>1 DEF DestroyCommand
<1> HIDE DEF r
<1>4. /\ c \in CommandList /\ c.used = r.used /\ c.draws = r.draws /\ c.value = r.value
      /\ c = r \/ (c.state = "resetting" /\ c.current_seq_id >= 1)
  BY <1>1, <1>2, DroppedTyped
<1> HIDE DEF c
<1>5. /\ cmdlist[l].state = "pool" => cmdlist[l].used = <<>> /\ cmdlist[l].draws = {}
      /\ cmdlist[l].state = "resetting" => cmdlist[l].current_seq_id >= 1
  BY <1>1 DEF ListOK
<1>m. Moved(cmdlist[l], c)
  BY <1>1, <1>2, <1>3, <1>4, <1>5 DEF Moved
<1>u. /\ UNCHANGED <<resource, fifo, name_, name_suballocation_, owned_by_command_list_>>
      /\ UNCHANGED <<allocated, current, current_suballocation_, content, value, writes>>
      /\ UNCHANGED <<uses, limits, timeVars>>
  BY DEF DestroyCommand, resource, timeVars
<1> QED BY <1>1, <1>2, <1>3, <1>4, <1>5, <1>m, <1>u, OneListStep

LEMMA ResetDoneStep ==
  ASSUME DynamicInv, NEW l \in Lists, ResetDone(l) PROVE DynamicInv'
<1>1. FreshList \in CommandList
  BY TimelineAssumption DEF FreshList, CommandList
<1>2. /\ FreshList.used = <<>> /\ FreshList.draws = {} /\ FreshList.state = "pool"
  BY DEF FreshList
<1>3. cmdlist[l].used = <<>> /\ cmdlist' = [cmdlist EXCEPT ![l] = FreshList]
  BY DEF ResetDone
<1>m. Moved(cmdlist[l], FreshList)
  BY <1>1, <1>2, <1>3 DEF Moved
<1>u. /\ UNCHANGED <<resource, fifo, name_, name_suballocation_, owned_by_command_list_>>
      /\ UNCHANGED <<allocated, current, current_suballocation_, content, value, writes>>
      /\ UNCHANGED <<uses, limits, timeVars>>
  BY DEF ResetDone, resource, timeVars
<1> QED BY <1>1, <1>2, <1>3, <1>m, <1>u, OneListStep

(* Steps of the queue.                                                     *)
LEMMA TimeStep ==
  ASSUME DynamicInv, TimelineTypeOK', uses' \subseteq uses,
         \A u \in uses' : u.seq \in cpu_coherent' + 1 .. ready_for_encode' /\ u.seq # finishing',
         UNCHANGED <<resource, fifo, name_, name_suballocation_, owned_by_command_list_>>,
         UNCHANGED <<allocated, current, current_suballocation_, content, value, writes>>,
         UNCHANGED <<cmdlist, limits>>
  PROVE  DynamicInv'
<1>1. DynamicTypeOK /\ ListsOK
  BY DEF DynamicInv
<1>2. DynamicTypeOK'
  BY <1>1 DEF DynamicTypeOK, resource
<1>3. \A m \in Lists : Moved(cmdlist[m], cmdlist'[m])
  BY <1>1 DEF ListsOK, ListOK, Moved
<1> QED BY <1>2, <1>3, AdministrativeStep DEF resource

LEMMA DynamicCommitStep == ASSUME DynamicInv, DynamicCommit PROVE DynamicInv'
<1>1. DynamicTypeOK
  BY DEF DynamicInv
<1>2. TimelineTypeOK'
  BY <1>1, DynamicNumbers DEF DynamicCommit, CommitCurrentChunk, TimelineTypeOK, DynamicTypeOK
<1>3. ASSUME NEW u \in uses
      PROVE  u.seq \in cpu_coherent' + 1 .. ready_for_encode' /\ u.seq # finishing'
  BY <1>1, UseTyped, DynamicNumbers DEF DynamicCommit, CommitCurrentChunk
<1> QED BY <1>2, <1>3, TimeStep DEF DynamicCommit, dynamicVars

LEMMA DynamicBeginFinishStep == ASSUME DynamicInv, DynamicBeginFinish PROVE DynamicInv'
<1>1. DynamicTypeOK
  BY DEF DynamicInv
<1>2. TimelineTypeOK'
  BY <1>1, DynamicNumbers DEF DynamicBeginFinish, BeginFinish, TimelineTypeOK, DynamicTypeOK
<1>3. ASSUME NEW u \in uses'
      PROVE  u.seq \in cpu_coherent' + 1 .. ready_for_encode' /\ u.seq # finishing'
  BY <1>1, UseTyped, DynamicNumbers DEF DynamicBeginFinish, BeginFinish
<1>4. uses' \subseteq uses
  BY DEF DynamicBeginFinish
<1> QED BY <1>2, <1>3, <1>4, TimeStep DEF DynamicBeginFinish

LEMMA DynamicSignalStep == ASSUME DynamicInv, DynamicSignal PROVE DynamicInv'
<1>1. DynamicTypeOK
  BY DEF DynamicInv
<1>2. TimelineTypeOK'
  BY <1>1, DynamicNumbers DEF DynamicSignal, SignalCoherent, TimelineTypeOK, DynamicTypeOK
<1>3. ASSUME NEW u \in uses
      PROVE  u.seq \in cpu_coherent' + 1 .. ready_for_encode' /\ u.seq # finishing'
  BY <1>1, UseTyped, DynamicNumbers DEF DynamicSignal, SignalCoherent
<1> QED BY <1>2, <1>3, TimeStep DEF DynamicSignal, dynamicVars

(* The application's writes.                                               *)
LEMMA AppendedContent ==
  ASSUME DynamicTypeOK, writes < MaxWrites, NEW slot \in Slots, Appended(slot)
  PROVE  /\ content' \in [Slots -> SUBSET WriteIds]
         /\ NextWrite \in WriteIds /\ NextWrite \in content'[slot]
         /\ \A s \in Slots : content[s] \subseteq content'[s]
<1>1. content \in [Slots -> SUBSET WriteIds] /\ NextWrite \in WriteIds
  BY DynamicNumbers DEF DynamicTypeOK, WriteIds, NextWrite
<1> HIDE DEF NextWrite
<1> QED BY <1>1 DEF Appended

LEMMA DiscardedContent ==
  ASSUME DynamicTypeOK, writes < MaxWrites, NEW slot \in Slots, Discarded(slot)
  PROVE  /\ content' \in [Slots -> SUBSET WriteIds]
         /\ NextWrite \in WriteIds /\ content'[slot] = {NextWrite}
         /\ \A s \in Slots : s # slot => content'[s] = content[s]
<1>1. content \in [Slots -> SUBSET WriteIds] /\ NextWrite \in WriteIds
  BY DynamicNumbers DEF DynamicTypeOK, WriteIds, NextWrite
<1> HIDE DEF NextWrite
<1> QED BY <1>1 DEF Discarded

(* The list l of the model, and the slot it recorded last.                 *)
LEMMA ListFacts ==
  ASSUME DynamicTypeOK, NEW l \in Lists
  PROVE  /\ cmdlist[l] \in CommandList
         /\ cmdlist[l].used \in Seq(UsedDynamic) /\ Len(cmdlist[l].used) \in Nat
         /\ DOMAIN cmdlist[l].used = 1 .. Len(cmdlist[l].used)
         /\ \A i \in 1 .. Len(cmdlist[l].used) : cmdlist[l].used[i] \in UsedDynamic
         /\ cmdlist[l].draws \subseteq Draw /\ cmdlist[l].value \subseteq WriteIds
<1>1. cmdlist[l] \in CommandList
  BY DEF DynamicTypeOK
<1> QED BY <1>1, ListTyped

LEMMA RecordedFacts ==
  ASSUME DynamicTypeOK, NEW l \in Lists, cmdlist[l].used # <<>>
  PROVE  /\ Len(cmdlist[l].used) \in DOMAIN cmdlist[l].used
         /\ Recorded(l) = cmdlist[l].used[Len(cmdlist[l].used)]
         /\ Recorded(l) \in UsedDynamic /\ UsedBy(l, Recorded(l).allocation)
         /\ Recorded(l).allocation \in Allocations /\ Recorded(l).suballocation \in Subs
         /\ Recorded(l).suballocation \in Nat
         /\ RecordedSlot(l) \in Slots
         /\ RecordedSlot(l) = <<Recorded(l).allocation, Recorded(l).suballocation>>
<1>1. Recorded(l) = cmdlist[l].used[Len(cmdlist[l].used)]
  BY DEF Recorded, Last
<1>2. Len(cmdlist[l].used) \in 1 .. Len(cmdlist[l].used)
  BY ListFacts
<1>3. Recorded(l) \in UsedDynamic
  BY <1>1, <1>2, ListFacts
<1>4. Recorded(l).allocation \in Allocations /\ Recorded(l).suballocation \in Subs
      /\ Recorded(l).suballocation \in Nat
  BY <1>3, UsedTyped
<1>5. RecordedSlot(l) = <<Recorded(l).allocation, Recorded(l).suballocation>>
      /\ RecordedSlot(l) \in Slots
  BY <1>4 DEF RecordedSlot, Slots
<1>6. UsedBy(l, Recorded(l).allocation) /\ Len(cmdlist[l].used) \in DOMAIN cmdlist[l].used
  BY <1>1, <1>2, ListFacts DEF UsedBy
<1> QED BY <1>1, <1>3, <1>4, <1>5, <1>6

(* A step that leaves the places of the allocations alone.                 *)
LEMMA SamePlaces ==
  ASSUME AllocationInOnePlace, UNCHANGED <<fifo, name_, owned_by_command_list_, allocated>>,
         \A l \in Lists :
           /\ DOMAIN cmdlist'[l].used = DOMAIN cmdlist[l].used
           /\ \A i \in DOMAIN cmdlist[l].used :
                cmdlist'[l].used[i].allocation = cmdlist[l].used[i].allocation
  PROVE  AllocationInOnePlace' /\ \A l \in Lists : \A a : UsedBy(l, a)' <=> UsedBy(l, a)
<1>1. \A l \in Lists : \A a : UsedBy(l, a)' <=> UsedBy(l, a)
  BY DEF UsedBy
<1>2. \A a : (InFifo(a)' <=> InFifo(a)) /\ (IsName(a)' <=> IsName(a))
  BY DEF InFifo, IsName
<1>3. /\ \A a \in 1 .. allocated' : InFifo(a)' \/ IsName(a)' \/ \E l \in Lists : UsedBy(l, a)'
      /\ \A l, m \in Lists, a \in 1 .. allocated' : UsedBy(l, a)' /\ UsedBy(m, a)' => l = m
      /\ \A l \in Lists, a \in 1 .. allocated' : UsedBy(l, a)' => ~InFifo(a)' /\ ~IsName(a)'
  BY <1>1, <1>2 DEF AllocationInOnePlace
<1>4. /\ \A i, j \in DOMAIN fifo' : fifo'[i].allocation = fifo'[j].allocation => i = j
      /\ \A l \in Lists : \A i, j \in DOMAIN cmdlist'[l].used :
           cmdlist'[l].used[i].allocation = cmdlist'[l].used[j].allocation => i = j
  BY DEF AllocationInOnePlace
<1>5. ~InFifo(name_)' /\ (owned_by_command_list_' => \E l \in Lists : UsedBy(l, name_)')
  <2>1. ~InFifo(name_)'
    BY DEF AllocationInOnePlace, InFifo
  <2>2. ASSUME owned_by_command_list_ PROVE \E l \in Lists : UsedBy(l, name_)'
    <3>1. PICK l \in Lists : UsedBy(l, name_)
      BY <2>2 DEF AllocationInOnePlace
    <3> QED BY <3>1 DEF UsedBy
  <2> QED BY <2>1, <2>2
<1> QED BY <1>1, <1>3, <1>4, <1>5 DEF AllocationInOnePlace

LEMMA MapNoOverwriteStep == ASSUME DynamicInv, MapNoOverwrite PROVE DynamicInv'
<1> SUFFICES ASSUME NEW slot, slot = <<name_, name_suballocation_>> PROVE DynamicInv'
  OBVIOUS
<1>1. /\ DynamicTypeOK /\ AllocationInOnePlace /\ AllocationsMade /\ ListsOK
      /\ EncoderAgreesWithName /\ MemoryKept /\ DrawsSeeTheirWrites
  BY DEF DynamicInv
<1>2. /\ writes < MaxWrites /\ writes' = NextWrite /\ value' = value \cup {NextWrite}
      /\ Appended(slot)
      /\ UNCHANGED <<kind, suballocation_count_, fifo, name_, name_suballocation_>>
      /\ UNCHANGED <<owned_by_command_list_, allocated, current, current_suballocation_>>
      /\ UNCHANGED <<uses, cmdlist, limits, ready_for_encode, cpu_coherent, finishing>>
  BY DEF MapNoOverwrite, resource, timeVars
<1>3. slot \in Slots
  BY <1>1, DynamicNumbers DEF Slots
<1>4. /\ content' \in [Slots -> SUBSET WriteIds]
      /\ NextWrite \in WriteIds /\ NextWrite \in content'[slot]
      /\ \A s \in Slots : content[s] \subseteq content'[s]
  BY <1>1, <1>2, <1>3, AppendedContent
<1>5. DynamicTypeOK'
  <2>1. writes' \in 0 .. MaxWrites
    BY <1>1, <1>2, DynamicNumbers DEF NextWrite
  <2>2. value' \in SUBSET WriteIds
    BY <1>1, <1>2, <1>4 DEF DynamicTypeOK
  <2>3. TimelineTypeOK'
    BY <1>1, <1>2 DEF DynamicTypeOK, TimelineTypeOK
  <2> QED BY <1>1, <1>2, <1>4, <2>1, <2>2, <2>3 DEF DynamicTypeOK
<1>6. AllocationInOnePlace'
  BY <1>1, <1>2, SamePlaces
<1>7. AllocationsMade' /\ EncoderAgreesWithName'
  BY <1>1, <1>2 DEF AllocationsMade, EncoderAgreesWithName, CurrentSlot
<1>8. ListsOK'
  BY <1>1, <1>2 DEF ListsOK, ListOK, Executable, UsedBy
<1>9. MemoryKept'
  <2> SUFFICES ASSUME limits = {} PROVE LatestStored' /\ \A u \in uses : Unread(u)'
    BY <1>2 DEF MemoryKept
  <2>1. LatestStored /\ \A u \in uses : Unread(u)
    BY <1>1 DEF MemoryKept
  <2>2. value' \subseteq content'[<<name_', name_suballocation_'>>]
    BY <1>2, <1>3, <1>4, <2>1 DEF LatestStored
  <2>3. ASSUME NEW l \in Lists, Executable(l)', cmdlist'[l].used # <<>>
        PROVE  cmdlist'[l].value \subseteq content'[RecordedSlot(l)']
    <3>1. RecordedSlot(l)' = RecordedSlot(l) /\ RecordedSlot(l) \in Slots
      BY <1>1, <1>2, <2>3, RecordedFacts DEF RecordedSlot, Recorded
    <3> QED BY <1>2, <1>4, <2>1, <2>3, <3>1 DEF LatestStored, Executable
  <2>4. ASSUME NEW u \in uses PROVE Unread(u)'
    BY <1>2, <2>1 DEF Unread, UsedBy
  <2> QED BY <2>2, <2>3, <2>4 DEF LatestStored
<1>10. DrawsSeeTheirWrites'
  <2>1. \A u \in uses : u.slot \in Slots
    BY <1>1, UseTyped
  <2>2. \A l \in Lists : \A d \in cmdlist[l].draws : d.slot \in Slots
    BY <1>1, ListFacts DEF Draw
  <2> QED BY <1>1, <1>2, <1>4, <2>1, <2>2 DEF DrawsSeeTheirWrites
<1> QED BY <1>5, <1>6, <1>7, <1>8, <1>9, <1>10 DEF DynamicInv

(* The slots that a discard of the name must not touch lie elsewhere or    *)
(* below the name's suballocation.                                         *)
LEMMA BelowName ==
  ASSUME DynamicInv, NEW l \in Lists, Executable(l)
  PROVE  /\ \A i \in DOMAIN cmdlist[l].used :
              cmdlist[l].used[i].allocation = name_ =>
                 cmdlist[l].used[i].suballocation <= name_suballocation_
         /\ \A d \in cmdlist[l].draws :
              /\ d.slot \in Slots /\ d.slot = <<d.slot[1], d.slot[2]>> /\ d.slot[2] \in Nat
              /\ UsedBy(l, d.slot[1])
              /\ d.slot[1] = name_ => d.slot[2] <= name_suballocation_
<1>1. DynamicTypeOK /\ ListOK(l)
  BY DEF DynamicInv, ListsOK
<1>2. ASSUME NEW i \in DOMAIN cmdlist[l].used, cmdlist[l].used[i].allocation = name_
      PROVE  cmdlist[l].used[i].suballocation <= name_suballocation_
  BY <1>1, <1>2 DEF ListOK, Executable, UsedBy
<1>3. ASSUME NEW d \in cmdlist[l].draws
      PROVE  /\ d.slot \in Slots /\ d.slot = <<d.slot[1], d.slot[2]>> /\ d.slot[2] \in Nat
             /\ UsedBy(l, d.slot[1])
             /\ d.slot[1] = name_ => d.slot[2] <= name_suballocation_
  <2>1. d.slot \in Slots
    BY <1>1, <1>3, ListFacts DEF Draw
  <2>2. d.slot = <<d.slot[1], d.slot[2]>> /\ d.slot[2] \in Nat
    BY <2>1, DynamicAssumption DEF Slots, Subs
  <2>3. PICK i \in DOMAIN cmdlist[l].used :
         /\ d.slot[1] = cmdlist[l].used[i].allocation
         /\ d.slot[2] <= cmdlist[l].used[i].suballocation
    BY <1>1, <1>3 DEF ListOK
  <2>4. cmdlist[l].used[i].suballocation \in Nat
    BY <1>1, <2>3, ListFacts, UsedTyped
  <2>5. d.slot[1] = name_ => d.slot[2] <= name_suballocation_
    <3> SUFFICES ASSUME d.slot[1] = name_ PROVE d.slot[2] <= name_suballocation_
      OBVIOUS
    <3>1. cmdlist[l].used[i].suballocation <= name_suballocation_
      BY <1>2, <2>3
    <3>2. name_suballocation_ \in Nat
      BY <1>1, DynamicNumbers
    <3> QED BY <2>2, <2>3, <2>4, <3>1, <3>2
  <2> QED BY <2>1, <2>2, <2>3, <2>5 DEF UsedBy
<1> QED BY <1>2, <1>3

(* A discard that moves the name to the allocation's next suballocation.   *)
LEMMA NextSuballocationStep ==
  ASSUME DynamicInv, MapDiscard, nextSuballocation # 0
  PROVE  DynamicInv'
<1> SUFFICES ASSUME NEW next, next = nextSuballocation, NEW slot, slot = <<name_, next>>
             PROVE  DynamicInv'
  OBVIOUS
<1>1. /\ DynamicTypeOK /\ AllocationInOnePlace /\ AllocationsMade /\ ListsOK
      /\ EncoderAgreesWithName /\ MemoryKept /\ DrawsSeeTheirWrites
  BY DEF DynamicInv
<1>2. /\ writes < MaxWrites /\ writes' = NextWrite /\ value' = {NextWrite}
      /\ Discarded(slot) /\ name_suballocation_' = next
      /\ current_suballocation_' = [current_suballocation_ EXCEPT ![name_] = next]
      /\ UNCHANGED <<kind, suballocation_count_, fifo, name_>>
      /\ UNCHANGED <<owned_by_command_list_, allocated, current>>
      /\ UNCHANGED <<uses, cmdlist, limits, ready_for_encode, cpu_coherent, finishing>>
  BY DEF MapDiscard, resource, timeVars
<1>3. next = name_suballocation_ + 1 /\ next \in Nat /\ next < suballocation_count_
      /\ next \in Subs
  BY <1>1, DynamicNumbers DEF nextSuballocation, hasSuballocation, Subs
<1>4. slot \in Slots
  BY <1>1, <1>3, DynamicNumbers DEF Slots
<1>5. /\ content' \in [Slots -> SUBSET WriteIds]
      /\ NextWrite \in WriteIds /\ content'[slot] = {NextWrite}
      /\ \A s \in Slots : s # slot => content'[s] = content[s]
  BY <1>1, <1>2, <1>4, DiscardedContent
<1>6. current_suballocation_' \in [Allocations -> Subs] /\ current_suballocation_'[name_] = next
  BY <1>1, <1>2, <1>3, DynamicNumbers DEF DynamicTypeOK
<1>7. DynamicTypeOK'
  <2>1. writes' \in 0 .. MaxWrites
    BY <1>1, <1>2, DynamicNumbers DEF NextWrite
  <2>2. value' \in SUBSET WriteIds
    BY <1>2, <1>5
  <2>3. TimelineTypeOK'
    BY <1>1, <1>2 DEF DynamicTypeOK, TimelineTypeOK
  <2>4. name_suballocation_' \in 0 .. suballocation_count_' - 1
    BY <1>1, <1>2, <1>3, DynamicNumbers
  <2> QED BY <1>1, <1>2, <1>5, <1>6, <2>1, <2>2, <2>3, <2>4 DEF DynamicTypeOK
<1>8. AllocationInOnePlace'
  BY <1>1, <1>2, SamePlaces
<1>9. AllocationsMade'
  BY <1>1, <1>2 DEF AllocationsMade
<1>10. EncoderAgreesWithName'
  <2> SUFFICES ASSUME "forgotten" \notin limits
               PROVE  CurrentSlot' = <<name_', name_suballocation_'>>
    BY <1>2 DEF EncoderAgreesWithName
  <2>1. current = name_
    BY <1>1 DEF EncoderAgreesWithName, CurrentSlot
  <2> QED BY <1>2, <1>6, <2>1 DEF CurrentSlot
<1>11. ListsOK'
  <2> SUFFICES ASSUME NEW l \in Lists PROVE ListOK(l)'
    BY DEF ListsOK
  <2>1. ListOK(l)
    BY <1>1 DEF ListsOK
  <2>2. ASSUME cmdlist[l].state = "finished", NEW i \in DOMAIN cmdlist[l].used,
               cmdlist[l].used[i].allocation = name_
        PROVE  cmdlist[l].used[i].suballocation <= next
    <3>1. cmdlist[l].used[i].suballocation <= name_suballocation_
      BY <2>1, <2>2 DEF ListOK
    <3>2. cmdlist[l].used[i].suballocation \in Nat
      BY <1>1, <2>2, ListFacts, UsedTyped
    <3> QED BY <1>1, <1>3, <3>1, <3>2, DynamicNumbers
  <2> QED BY <1>2, <2>1, <2>2 DEF ListOK, Executable, UsedBy
<1>12. ASSUME limits = {}, NEW u \in uses PROVE Unread(u)' /\ u.slot # slot
  <2>1. Unread(u)
    BY <1>1, <1>12 DEF MemoryKept
  <2>2. u.slot[1] = name_ => u.slot[2] <= next /\ u.slot[2] # next
    BY <1>1, <1>3, <2>1, UseTyped, DynamicNumbers DEF Unread
  <2> QED BY <1>2, <2>1, <2>2 DEF Unread, UsedBy
<1>13. MemoryKept'
  <2> SUFFICES ASSUME limits = {} PROVE LatestStored' /\ \A u \in uses : Unread(u)'
    BY <1>2 DEF MemoryKept
  <2>1. LatestStored
    BY <1>1 DEF MemoryKept
  <2>2. value' \subseteq content'[<<name_', name_suballocation_'>>]
    BY <1>2, <1>5
  <2>3. ASSUME NEW l \in Lists, Executable(l)', cmdlist'[l].used # <<>>
        PROVE  cmdlist'[l].value \subseteq content'[RecordedSlot(l)']
    <3>1. Executable(l) /\ cmdlist[l].used # <<>>
      BY <1>2, <2>3 DEF Executable
    <3>2. RecordedSlot(l)' = RecordedSlot(l)
      BY <1>2 DEF RecordedSlot, Recorded
    <3>3. RecordedSlot(l) \in Slots /\ RecordedSlot(l) # slot
      <4>1. /\ Len(cmdlist[l].used) \in DOMAIN cmdlist[l].used
            /\ Recorded(l) = cmdlist[l].used[Len(cmdlist[l].used)]
            /\ RecordedSlot(l) \in Slots /\ Recorded(l).suballocation \in Nat
            /\ RecordedSlot(l) = <<Recorded(l).allocation, Recorded(l).suballocation>>
        BY <1>1, <3>1, RecordedFacts
      <4>2. Recorded(l).allocation = name_ => Recorded(l).suballocation <= name_suballocation_
        BY <3>1, <4>1, BelowName
      <4>3. Recorded(l).allocation = name_ => Recorded(l).suballocation # next
        <5>1. name_suballocation_ \in Nat
          BY <1>1, DynamicNumbers
        <5> QED BY <1>3, <4>1, <4>2, <5>1
      <4> QED BY <4>1, <4>3
    <3> QED BY <1>2, <1>5, <2>1, <3>1, <3>2, <3>3 DEF LatestStored
  <2> QED BY <1>12, <2>2, <2>3 DEF LatestStored
<1>14. DrawsSeeTheirWrites'
  <2> SUFFICES ASSUME limits = {}
               PROVE  /\ \A u \in uses : u.want \subseteq content'[u.slot]
                      /\ \A l \in Lists : cmdlist[l].state \in {"recording", "finished"} =>
                           \A d \in cmdlist[l].draws : d.want \subseteq content'[d.slot]
    BY <1>2 DEF DrawsSeeTheirWrites
  <2>1. \A u \in uses : u.slot \in Slots /\ u.slot # slot
    BY <1>1, <1>12, UseTyped
  <2>2. ASSUME NEW l \in Lists, cmdlist[l].state \in {"recording", "finished"},
               NEW d \in cmdlist[l].draws
        PROVE  d.slot \in Slots /\ d.slot # slot
    BY <1>1, <1>3, <2>2, BelowName, DynamicNumbers DEF Executable
  <2> QED BY <1>1, <1>5, <2>1, <2>2 DEF DrawsSeeTheirWrites
<1> QED BY <1>7, <1>8, <1>9, <1>10, <1>11, <1>13, <1>14 DEF DynamicInv

(* A read on the immediate context.                                        *)
LEMMA UseFacts ==
  ASSUME DynamicTypeOK, NEW d \in Draw
  PROVE  LET u == Use(d) IN
         /\ u \in [slot: Slots, want: SUBSET WriteIds, seq: 1 .. MaxSeq]
         /\ u.slot = d.slot /\ u.want = d.want /\ u.seq = ready_for_encode
         /\ u.seq \in cpu_coherent + 1 .. ready_for_encode /\ u.seq # finishing
<1>1. d.slot \in Slots /\ d.want \in SUBSET WriteIds
  BY DEF Draw
<1>2. ready_for_encode \in 1 .. MaxSeq /\ ready_for_encode # finishing
      /\ ready_for_encode \in cpu_coherent + 1 .. ready_for_encode
  BY DynamicNumbers
<1> QED BY <1>1, <1>2 DEF Use, CurrentSeqId

(* What the encoder reads is the name's slot, unless a rename was forgotten.*)
LEMMA InheritedFacts ==
  ASSUME DynamicInv, NEW d, d = [slot |-> CurrentSlot, want |-> value]
  PROVE  /\ d \in Draw /\ d.slot[1] <= allocated
         /\ limits = {} => /\ d.slot = <<name_, name_suballocation_>>
                           /\ d.want \subseteq content[d.slot]
<1>1. DynamicTypeOK /\ EncoderAgreesWithName /\ MemoryKept
  BY DEF DynamicInv
<1>2. CurrentSlot \in Slots /\ CurrentSlot[1] = current
  BY <1>1, DynamicNumbers DEF CurrentSlot, Slots, DynamicTypeOK
<1>3. value \in SUBSET WriteIds /\ current <= allocated
  BY <1>1, DynamicNumbers DEF DynamicTypeOK
<1>4. d \in Draw /\ d.slot[1] <= allocated
  BY <1>2, <1>3 DEF Draw
<1>5. ASSUME limits = {}
      PROVE  CurrentSlot = <<name_, name_suballocation_>> /\ value \subseteq content[CurrentSlot]
  <2>1. CurrentSlot = <<name_, name_suballocation_>>
    BY <1>1, <1>5 DEF EncoderAgreesWithName
  <2> QED BY <1>1, <1>5, <2>1 DEF MemoryKept, LatestStored
<1> QED BY <1>4, <1>5

(* Commands that read the resource where the encoder has it.               *)
LEMMA ReadStep ==
  ASSUME DynamicInv,
         NEW D, D \subseteq {[slot |-> CurrentSlot, want |-> value]},
         uses' = uses \cup {Use(d) : d \in D},
         UNCHANGED <<resource, fifo, name_, name_suballocation_, owned_by_command_list_>>,
         UNCHANGED <<allocated, current, current_suballocation_, content, value, writes>>,
         UNCHANGED <<limits, timeVars>>,
         cmdlist' \in [Lists -> CommandList],
         \A l \in Lists :
           /\ cmdlist'[l].state = cmdlist[l].state /\ cmdlist'[l].used = cmdlist[l].used
           /\ cmdlist'[l].draws = cmdlist[l].draws /\ cmdlist'[l].value = cmdlist[l].value
           /\ cmdlist'[l].current_seq_id = cmdlist[l].current_seq_id
  PROVE  DynamicInv'
<1>1. /\ DynamicTypeOK /\ AllocationInOnePlace /\ AllocationsMade /\ ListsOK
      /\ EncoderAgreesWithName /\ MemoryKept /\ DrawsSeeTheirWrites
  BY DEF DynamicInv
<1>2. ASSUME NEW d \in D
      PROVE  /\ d \in Draw /\ d.slot[1] <= allocated
             /\ limits = {} => /\ d.slot = <<name_, name_suballocation_>>
                               /\ d.want \subseteq content[d.slot]
  BY <1>2, InheritedFacts
<1>3. ASSUME NEW u \in uses', u \notin uses
      PROVE  /\ u \in [slot: Slots, want: SUBSET WriteIds, seq: 1 .. MaxSeq]
             /\ u.seq \in cpu_coherent + 1 .. ready_for_encode /\ u.seq # finishing
             /\ u.slot[1] <= allocated
             /\ limits = {} => /\ u.slot = <<name_, name_suballocation_>>
                               /\ u.want \subseteq content[u.slot]
  <2>1. PICK d \in D : u = Use(d)
    BY <1>3
  <2> QED BY <1>1, <1>2, <2>1, UseFacts
<1>4. DynamicTypeOK'
  <2>1. uses \subseteq [slot: Slots, want: SUBSET WriteIds, seq: 1 .. MaxSeq]
        /\ \A u \in uses : u.seq \in cpu_coherent + 1 .. ready_for_encode /\ u.seq # finishing
    BY <1>1 DEF DynamicTypeOK
  <2>2. uses' \subseteq [slot: Slots, want: SUBSET WriteIds, seq: 1 .. MaxSeq]
        /\ \A u \in uses' : u.seq \in cpu_coherent' + 1 .. ready_for_encode' /\ u.seq # finishing'
    BY <1>3, <2>1 DEF timeVars
  <2>3. TimelineTypeOK'
    BY <1>1 DEF DynamicTypeOK, TimelineTypeOK, timeVars
  <2> QED BY <1>1, <2>2, <2>3 DEF DynamicTypeOK, resource
<1>5. AllocationInOnePlace'
  BY <1>1, SamePlaces
<1>6. AllocationsMade' /\ EncoderAgreesWithName'
  BY <1>1, <1>3 DEF AllocationsMade, EncoderAgreesWithName, CurrentSlot
<1>7. ListsOK'
  BY <1>1 DEF ListsOK, ListOK, Executable, UsedBy, resource
<1>8. MemoryKept'
  <2> SUFFICES ASSUME limits = {} PROVE LatestStored' /\ \A u \in uses' : Unread(u)'
    BY DEF MemoryKept
  <2>1. LatestStored /\ \A u \in uses : Unread(u)
    BY <1>1 DEF MemoryKept
  <2>2. LatestStored'
    BY <2>1 DEF LatestStored, Executable, RecordedSlot, Recorded
  <2>3. ASSUME NEW u \in uses' PROVE Unread(u)
    <3>1. CASE u \notin uses
      <4>1. u.slot[1] = name_ /\ u.slot[2] = name_suballocation_
        BY <1>3, <3>1
      <4>2. ~InFifo(name_) /\ \A l \in Lists : cmdlist[l].state = "recording" => ~UsedBy(l, name_)
        BY <1>1 DEF AllocationInOnePlace, ListsOK, ListOK
      <4>3. name_suballocation_ <= name_suballocation_
        BY <1>1, DynamicNumbers
      <4> QED BY <4>1, <4>2, <4>3 DEF Unread, InFifo
    <3> QED BY <2>1, <3>1
  <2>4. ASSUME NEW u \in uses' PROVE Unread(u)'
    BY <2>3 DEF Unread, UsedBy
  <2> QED BY <2>2, <2>4
<1>9. DrawsSeeTheirWrites'
  BY <1>1, <1>3 DEF DrawsSeeTheirWrites
<1> QED BY <1>4, <1>5, <1>6, <1>7, <1>8, <1>9 DEF DynamicInv

LEMMA DrawNowStep == ASSUME DynamicInv, DrawNow PROVE DynamicInv'
<1> DEFINE D == {[slot |-> CurrentSlot, want |-> value]}
<1>1. uses' = uses \cup {Use(d) : d \in D}
  BY DEF DrawNow
<1>2. cmdlist' \in [Lists -> CommandList] /\ UNCHANGED cmdlist
  BY DEF DynamicInv, DynamicTypeOK, DrawNow
<1>3. /\ UNCHANGED <<resource, fifo, name_, name_suballocation_, owned_by_command_list_>>
      /\ UNCHANGED <<allocated, current, current_suballocation_, content, value, writes>>
      /\ UNCHANGED <<limits, timeVars>>
  BY DEF DrawNow, resource, timeVars
<1> QED BY <1>1, <1>2, <1>3, ReadStep

(* A read recorded in a list: before its first write it inherits, after it *)
(* it reads the slot mapped last.                                          *)
LEMMA DeferredDrawStep ==
  ASSUME DynamicInv, NEW l \in Lists, DeferredDraw(l) PROVE DynamicInv'
<1>1. /\ DynamicTypeOK /\ AllocationInOnePlace /\ AllocationsMade /\ ListsOK
      /\ EncoderAgreesWithName /\ MemoryKept /\ DrawsSeeTheirWrites
  BY DEF DynamicInv
<1>2. cmdlist \in [Lists -> CommandList] /\ cmdlist[l].state = "recording"
  BY <1>1 DEF DynamicTypeOK, DeferredDraw
<1>3. CASE cmdlist[l].used = <<>>
  <2> DEFINE c == [cmdlist[l] EXCEPT !.inherits = TRUE]
  <2>1. /\ c \in CommandList /\ c.state = "recording" /\ c.used = cmdlist[l].used
        /\ c.draws = cmdlist[l].draws /\ c.value = cmdlist[l].value
    BY <1>2 DEF CommandList
  <2>2. cmdlist' = [cmdlist EXCEPT ![l] = c]
    BY <1>2, <1>3 DEF DeferredDraw, CommandList
  <2> HIDE DEF c
  <2>3. Moved(cmdlist[l], c)
    BY <1>2, <2>1 DEF Moved
  <2>4. /\ UNCHANGED <<resource, fifo, name_, name_suballocation_, owned_by_command_list_>>
        /\ UNCHANGED <<allocated, current, current_suballocation_, content, value, writes>>
        /\ UNCHANGED <<uses, limits, timeVars>>
    BY DEF DeferredDraw, resource, timeVars
  <2> QED BY <2>1, <2>2, <2>3, <2>4, OneListStep
<1>4. CASE cmdlist[l].used # <<>>
  <2> SUFFICES ASSUME NEW d, d = [slot |-> RecordedSlot(l), want |-> cmdlist[l].value]
               PROVE  DynamicInv'
    OBVIOUS
  <2> DEFINE c == [cmdlist[l] EXCEPT !.draws = cmdlist[l].draws \cup {d}]
  <2>1. /\ Len(cmdlist[l].used) \in DOMAIN cmdlist[l].used
        /\ Recorded(l) = cmdlist[l].used[Len(cmdlist[l].used)]
        /\ Recorded(l).suballocation \in Nat /\ RecordedSlot(l) \in Slots
        /\ RecordedSlot(l) = <<Recorded(l).allocation, Recorded(l).suballocation>>
    BY <1>1, <1>4, RecordedFacts
  <2>2. d \in Draw
    BY <1>1, <2>1, ListFacts DEF Draw
  <2>3. /\ c \in CommandList /\ c.state = "recording" /\ c.used = cmdlist[l].used
        /\ c.draws = cmdlist[l].draws \cup {d} /\ c.value = cmdlist[l].value
    BY <1>2, <2>2 DEF CommandList
  <2>4. cmdlist' = [cmdlist EXCEPT ![l] = c]
    BY <1>2, <1>4 DEF DeferredDraw, CommandList
  <2> HIDE DEF c
  <2>5. /\ cmdlist' \in [Lists -> CommandList] /\ cmdlist'[l] = c
        /\ \A m \in Lists : m # l => cmdlist'[m] = cmdlist[m]
    BY <1>2, <2>3, <2>4
  <2>6. /\ UNCHANGED <<kind, suballocation_count_, fifo, name_, name_suballocation_>>
        /\ UNCHANGED <<owned_by_command_list_, allocated, current, current_suballocation_>>
        /\ UNCHANGED <<content, value, writes, uses, limits, ready_for_encode, cpu_coherent>>
        /\ UNCHANGED finishing
    BY DEF DeferredDraw, resource, timeVars
  <2>7. \A m \in Lists :
          /\ cmdlist'[m].state = cmdlist[m].state /\ cmdlist'[m].used = cmdlist[m].used
          /\ cmdlist'[m].value = cmdlist[m].value
    BY <1>2, <2>3, <2>5
  <2>8. DynamicTypeOK'
    <3>1. TimelineTypeOK'
      BY <1>1, <2>6 DEF DynamicTypeOK, TimelineTypeOK
    <3> QED BY <1>1, <2>5, <2>6, <3>1 DEF DynamicTypeOK
  <2>9. AllocationInOnePlace'
    BY <1>1, <2>6, <2>7, SamePlaces
  <2>10. AllocationsMade' /\ EncoderAgreesWithName'
    BY <1>1, <2>6, <2>7 DEF AllocationsMade, EncoderAgreesWithName, CurrentSlot
  <2>11. ListsOK'
    <3> SUFFICES ASSUME NEW m \in Lists PROVE ListOK(m)'
      BY DEF ListsOK
    <3>1. ListOK(m)
      BY <1>1 DEF ListsOK
    <3>2. CASE m # l
      BY <2>5, <2>6, <3>1, <3>2 DEF ListOK, Executable, UsedBy
    <3>3. CASE m = l
      <4>1. ASSUME NEW e \in cmdlist'[l].draws
            PROVE  \E i \in DOMAIN cmdlist[l].used :
                     /\ e.slot[1] = cmdlist[l].used[i].allocation
                     /\ e.slot[2] <= cmdlist[l].used[i].suballocation
        <5>1. CASE e \in cmdlist[l].draws
          BY <1>2, <3>1, <3>3, <5>1 DEF ListOK, Executable
        <5>2. CASE e = d
          <6>1. e.slot[1] = Recorded(l).allocation /\ e.slot[2] = Recorded(l).suballocation
            BY <2>1, <5>2
          <6>2. Recorded(l).suballocation <= Recorded(l).suballocation
            BY <2>1
          <6> QED BY <2>1, <6>1, <6>2
        <5> QED BY <2>3, <2>5, <4>1, <5>1, <5>2
      <4>2. cmdlist'[l].state = "recording" /\ cmdlist'[l].used = cmdlist[l].used
        BY <2>3, <2>5
      <4>3. ~UsedBy(l, name_)'
        BY <1>2, <2>6, <3>1, <3>3, <4>2 DEF ListOK, UsedBy
      <4> QED BY <2>6, <3>1, <3>3, <4>1, <4>2, <4>3 DEF ListOK, Executable
    <3> QED BY <3>2, <3>3
  <2>12. MemoryKept'
    <3> SUFFICES ASSUME limits = {} PROVE LatestStored' /\ \A u \in uses : Unread(u)'
      BY <2>6 DEF MemoryKept
    <3>1. LatestStored /\ \A u \in uses : Unread(u)
      BY <1>1 DEF MemoryKept
    <3>2. LatestStored'
      BY <2>6, <2>7, <3>1 DEF LatestStored, Executable, RecordedSlot, Recorded
    <3>3. ASSUME NEW u \in uses PROVE Unread(u)'
      BY <2>6, <2>7, <3>1 DEF Unread, UsedBy
    <3> QED BY <3>2, <3>3
  <2>13. DrawsSeeTheirWrites'
    <3> SUFFICES ASSUME limits = {}
                 PROVE  \A m \in Lists : cmdlist'[m].state \in {"recording", "finished"} =>
                          \A e \in cmdlist'[m].draws : e.want \subseteq content[e.slot]
      BY <1>1, <2>6 DEF DrawsSeeTheirWrites
    <3>1. d.want \subseteq content[d.slot]
      BY <1>1, <1>2, <1>4 DEF MemoryKept, LatestStored, Executable
    <3>2. \A m \in Lists : cmdlist[m].state \in {"recording", "finished"} =>
            \A e \in cmdlist[m].draws : e.want \subseteq content[e.slot]
      BY <1>1 DEF DrawsSeeTheirWrites
    <3> QED BY <1>2, <2>3, <2>5, <3>1, <3>2
  <2> QED BY <2>8, <2>9, <2>10, <2>11, <2>12, <2>13 DEF DynamicInv
<1> QED BY <1>3, <1>4

(* The three ways in which a list's entries change.                        *)
LEMMA ReplaceLast ==
  ASSUME NEW S, NEW s \in Seq(S), s # <<>>, NEW e \in S
  PROVE  LET t == [s EXCEPT ![Len(s)] = e] IN
         /\ t \in Seq(S) /\ Len(t) = Len(s) /\ DOMAIN t = DOMAIN s
         /\ Len(s) \in DOMAIN s /\ t[Len(s)] = e
         /\ \A i \in DOMAIN s : i # Len(s) => t[i] = s[i]
OBVIOUS

LEMMA AdvancedFacts ==
  ASSUME NEW used \in Seq(UsedDynamic), used # <<>>,
         used[Len(used)].suballocation + 1 \in Subs
  PROVE  /\ Advanced(used) \in Seq(UsedDynamic) /\ Len(Advanced(used)) = Len(used)
         /\ DOMAIN Advanced(used) = DOMAIN used /\ Advanced(used) # <<>>
         /\ \A i \in DOMAIN used : Advanced(used)[i].allocation = used[i].allocation
         /\ \A i \in DOMAIN used : i # Len(used) => Advanced(used)[i] = used[i]
         /\ Advanced(used)[Len(used)].suballocation = used[Len(used)].suballocation + 1
<1> DEFINE last == used[Len(used)]
           e == [last EXCEPT !.suballocation = last.suballocation + 1]
<1>1. last \in UsedDynamic
  OBVIOUS
<1>2. e \in UsedDynamic /\ e.allocation = last.allocation
      /\ e.suballocation = last.suballocation + 1
  BY <1>1 DEF UsedDynamic
<1>3. Advanced(used) = [used EXCEPT ![Len(used)] = e]
  BY DEF Advanced
<1> HIDE DEF e
<1>4. /\ Advanced(used) \in Seq(UsedDynamic) /\ Len(Advanced(used)) = Len(used)
      /\ DOMAIN Advanced(used) = DOMAIN used
      /\ Len(used) \in DOMAIN used /\ Advanced(used)[Len(used)] = e
      /\ \A i \in DOMAIN used : i # Len(used) => Advanced(used)[i] = used[i]
  BY <1>2, <1>3, ReplaceLast
<1>5. \A i \in DOMAIN used : Advanced(used)[i].allocation = used[i].allocation
  BY <1>2, <1>4
<1>6. Advanced(used) # <<>>
  BY <1>4
<1> QED BY <1>2, <1>4, <1>5, <1>6

LEMMA SupersededFacts ==
  ASSUME NEW used \in Seq(UsedDynamic)
  PROVE  /\ Superseded(used) \in Seq(UsedDynamic) /\ Len(Superseded(used)) = Len(used)
         /\ Len(used) \in Nat /\ DOMAIN used = 1 .. Len(used)
         /\ \A i \in 1 .. Len(used) :
              /\ Superseded(used)[i].allocation = used[i].allocation
              /\ Superseded(used)[i].suballocation = used[i].suballocation
<1>1. CASE used = <<>>
  BY <1>1 DEF Superseded
<1>2. CASE used # <<>>
  <2> DEFINE last == used[Len(used)]
             e == [last EXCEPT !.latest = FALSE]
  <2>1. last \in UsedDynamic
    BY <1>2
  <2>2. e \in UsedDynamic /\ e.allocation = last.allocation
        /\ e.suballocation = last.suballocation
    BY <2>1 DEF UsedDynamic
  <2>3. Superseded(used) = [used EXCEPT ![Len(used)] = e]
    BY <1>2 DEF Superseded
  <2> HIDE DEF e
  <2>4. /\ Superseded(used) \in Seq(UsedDynamic) /\ Len(Superseded(used)) = Len(used)
        /\ DOMAIN Superseded(used) = DOMAIN used
        /\ Len(used) \in DOMAIN used /\ Superseded(used)[Len(used)] = e
        /\ \A i \in DOMAIN used : i # Len(used) => Superseded(used)[i] = used[i]
    BY <1>2, <2>2, <2>3, ReplaceLast
  <2>5. DOMAIN used = 1 .. Len(used) /\ Len(used) \in Nat
    OBVIOUS
  <2> QED BY <2>2, <2>4, <2>5
<1> QED BY <1>1, <1>2

LEMMA FrontFacts ==
  ASSUME NEW S, NEW s \in Seq(S), s # <<>>
  PROVE  /\ Front(s) \in Seq(S) /\ Len(s) \in Nat /\ Len(s) >= 1 /\ DOMAIN s = 1 .. Len(s)
         /\ Len(Front(s)) = Len(s) - 1 /\ DOMAIN Front(s) = 1 .. Len(s) - 1
         /\ \A i \in 1 .. Len(s) - 1 : Front(s)[i] = s[i]
<1>1. Len(s) \in Nat /\ Len(s) >= 1 /\ DOMAIN s = 1 .. Len(s)
  OBVIOUS
<1> QED BY <1>1 DEF Front

LEMMA DeferredMapNoOverwriteStep ==
  ASSUME DynamicInv, NEW l \in Lists, DeferredMapNoOverwrite(l) PROVE DynamicInv'
<1>1. /\ DynamicTypeOK /\ AllocationInOnePlace /\ AllocationsMade /\ ListsOK
      /\ EncoderAgreesWithName /\ MemoryKept /\ DrawsSeeTheirWrites
  BY DEF DynamicInv
<1>2. /\ cmdlist[l].state = "recording" /\ cmdlist[l].used # <<>>
      /\ writes < MaxWrites /\ writes' = NextWrite
      /\ UNCHANGED <<kind, suballocation_count_, fifo, name_, name_suballocation_>>
      /\ UNCHANGED <<owned_by_command_list_, allocated, current, current_suballocation_>>
      /\ UNCHANGED <<value, uses, limits, ready_for_encode, cpu_coherent, finishing>>
  BY DEF DeferredMapNoOverwrite, resource, timeVars
<1> SUFFICES ASSUME NEW slot, slot = RecordedSlot(l) PROVE DynamicInv'
  OBVIOUS
<1>3. slot \in Slots /\ Appended(slot)
  BY <1>1, <1>2, RecordedFacts DEF DeferredMapNoOverwrite
<1>4. /\ content' \in [Slots -> SUBSET WriteIds]
      /\ NextWrite \in WriteIds /\ NextWrite \in content'[slot]
      /\ \A s \in Slots : content[s] \subseteq content'[s]
  BY <1>1, <1>2, <1>3, AppendedContent
<1> DEFINE c == [cmdlist[l] EXCEPT !.value = cmdlist[l].value \cup {NextWrite}]
<1>5. cmdlist \in [Lists -> CommandList] /\ cmdlist[l] \in CommandList
  BY <1>1 DEF DynamicTypeOK
<1>6. cmdlist' = [cmdlist EXCEPT ![l] = c]
  BY <1>5 DEF DeferredMapNoOverwrite, CommandList
<1>7. /\ c \in CommandList /\ c.state = "recording" /\ c.used = cmdlist[l].used
      /\ c.draws = cmdlist[l].draws /\ c.value = cmdlist[l].value \cup {NextWrite}
  BY <1>2, <1>4, <1>5 DEF CommandList
<1> HIDE DEF c
<1>8. /\ cmdlist' \in [Lists -> CommandList] /\ cmdlist'[l] = c
      /\ \A m \in Lists : m # l => cmdlist'[m] = cmdlist[m]
  BY <1>5, <1>6, <1>7
<1>9. \A m \in Lists :
        /\ cmdlist'[m].state = cmdlist[m].state /\ cmdlist'[m].used = cmdlist[m].used
        /\ cmdlist'[m].draws = cmdlist[m].draws
        /\ m # l => cmdlist'[m].value = cmdlist[m].value
        /\ cmdlist[m].state = "resetting" =>
             cmdlist'[m].current_seq_id = cmdlist[m].current_seq_id
  BY <1>2, <1>7, <1>8
<1>10. DynamicTypeOK'
  <2>1. writes' \in 0 .. MaxWrites
    BY <1>1, <1>2, DynamicNumbers DEF NextWrite
  <2>2. TimelineTypeOK'
    BY <1>1, <1>2 DEF DynamicTypeOK, TimelineTypeOK
  <2> QED BY <1>1, <1>2, <1>4, <1>8, <2>1, <2>2 DEF DynamicTypeOK
<1>11. AllocationInOnePlace'
  BY <1>1, <1>2, <1>9, SamePlaces
<1>12. AllocationsMade' /\ EncoderAgreesWithName'
  BY <1>1, <1>2, <1>9 DEF AllocationsMade, EncoderAgreesWithName, CurrentSlot
<1>13. ListsOK'
  <2> SUFFICES ASSUME NEW m \in Lists PROVE ListOK(m)'
    BY DEF ListsOK
  <2>1. ListOK(m)
    BY <1>1 DEF ListsOK
  <2> QED BY <1>2, <1>9, <2>1 DEF ListOK, Executable, UsedBy
<1>14. MemoryKept'
  <2> SUFFICES ASSUME limits = {} PROVE LatestStored' /\ \A u \in uses : Unread(u)'
    BY <1>2 DEF MemoryKept
  <2>1. LatestStored /\ \A u \in uses : Unread(u)
    BY <1>1 DEF MemoryKept
  <2>2. value' \subseteq content'[<<name_', name_suballocation_'>>]
    <3>1. <<name_, name_suballocation_>> \in Slots
      BY <1>1, DynamicNumbers DEF Slots
    <3>2. value \subseteq content[<<name_, name_suballocation_>>]
      BY <2>1 DEF LatestStored
    <3> QED BY <1>2, <1>4, <3>1, <3>2
  <2>3. ASSUME NEW m \in Lists, Executable(m)', cmdlist'[m].used # <<>>
        PROVE  cmdlist'[m].value \subseteq content'[RecordedSlot(m)']
    <3>1. Executable(m) /\ cmdlist[m].used # <<>>
      BY <1>9, <2>3 DEF Executable
    <3>2. RecordedSlot(m)' = RecordedSlot(m) /\ RecordedSlot(m) \in Slots
      BY <1>1, <1>9, <3>1, RecordedFacts DEF RecordedSlot, Recorded
    <3>3. cmdlist[m].value \subseteq content'[RecordedSlot(m)]
      BY <1>4, <2>1, <3>1, <3>2 DEF LatestStored
    <3> QED BY <1>4, <1>7, <1>8, <1>9, <3>2, <3>3
  <2>4. ASSUME NEW u \in uses PROVE Unread(u)'
    BY <1>2, <1>9, <2>1 DEF Unread, UsedBy
  <2> QED BY <2>2, <2>3, <2>4 DEF LatestStored
<1>15. DrawsSeeTheirWrites'
  <2>1. \A u \in uses : u.slot \in Slots
    BY <1>1, UseTyped
  <2>2. \A m \in Lists : \A d \in cmdlist[m].draws : d.slot \in Slots
    BY <1>1, ListFacts DEF Draw
  <2>3. ASSUME limits = {}, NEW m \in Lists, cmdlist'[m].state \in {"recording", "finished"},
               NEW d \in cmdlist'[m].draws
        PROVE  d.want \subseteq content'[d.slot]
    <3>1. d \in cmdlist[m].draws /\ d.want \subseteq content[d.slot]
      BY <1>1, <1>9, <2>3 DEF DrawsSeeTheirWrites
    <3> QED BY <1>4, <2>2, <3>1
  <2>4. ASSUME limits = {}, NEW u \in uses PROVE u.want \subseteq content'[u.slot]
    BY <1>1, <1>4, <2>1, <2>4 DEF DrawsSeeTheirWrites
  <2> QED BY <1>2, <2>3, <2>4 DEF DrawsSeeTheirWrites
<1> QED BY <1>10, <1>11, <1>12, <1>13, <1>14, <1>15 DEF DynamicInv

(* allocate(): what it returns is in no other place, and no read that has  *)
(* not completed is of it.                                                 *)
FifoHas(f, a) == \E i \in DOMAIN f : f[i].allocation = a

LEMMA AllocateFacts ==
  ASSUME DynamicInv, CanAllocate
  PROVE  /\ allocate.ret \in 1 .. allocate.allocated /\ allocate.ret \in Allocations
         /\ allocate.allocated \in Allocations /\ allocated <= allocate.allocated
         /\ allocate.fifo \in Seq(QueueEntry)
         /\ allocate.ret # name_ /\ \A l \in Lists : ~UsedBy(l, allocate.ret)
         /\ ~FifoHas(allocate.fifo, allocate.ret)
         /\ \A i \in DOMAIN allocate.fifo : \E j \in DOMAIN fifo : allocate.fifo[i] = fifo[j]
         /\ \A i, j \in DOMAIN allocate.fifo :
              allocate.fifo[i].allocation = allocate.fifo[j].allocation => i = j
         /\ \A a \in 1 .. allocate.allocated :
              a # allocate.ret =>
                a \in 1 .. allocated /\ (InFifo(a) => FifoHas(allocate.fifo, a))
         /\ \A a : FifoHas(allocate.fifo, a) => InFifo(a)
         /\ limits = {} => \A u \in uses : u.slot[1] # allocate.ret
<1>1. DynamicTypeOK /\ AllocationInOnePlace /\ AllocationsMade /\ MemoryKept
  BY DEF DynamicInv
<1>2. /\ fifo \in Seq(QueueEntry) /\ Len(fifo) \in Nat /\ DOMAIN fifo = 1 .. Len(fifo)
      /\ \A i \in 1 .. Len(fifo) :
           /\ fifo[i].allocation \in Allocations /\ fifo[i].allocation \in Nat
           /\ fifo[i].allocation >= 1
           /\ fifo[i].will_free_at \in 1 .. MaxSeq /\ fifo[i].will_free_at \in Nat
  BY <1>1, FifoTyped
<1>3. CASE FrontIsFree
  <2>1. /\ allocate.ret = Head(fifo).allocation /\ allocate.fifo = Tail(fifo)
        /\ allocate.allocated = allocated
    BY <1>3 DEF allocate
  <2>2. fifo # <<>> /\ Head(fifo) = fifo[1] /\ 1 \in DOMAIN fifo
        /\ fifo[1].will_free_at <= cpu_coherent
    BY <1>2, <1>3 DEF FrontIsFree, CoherentSeqId
  <2>3. /\ Tail(fifo) \in Seq(QueueEntry) /\ DOMAIN Tail(fifo) = 1 .. Len(fifo) - 1
        /\ \A i \in 1 .. Len(fifo) - 1 : Tail(fifo)[i] = fifo[i + 1] /\ i + 1 \in DOMAIN fifo
    BY <1>2, <2>2
  <2>4. \A i, j \in DOMAIN fifo : fifo[i].allocation = fifo[j].allocation => i = j
    BY <1>1 DEF AllocationInOnePlace
  <2>5. allocate.ret \in 1 .. allocate.allocated /\ allocate.ret \in Allocations
        /\ allocate.allocated \in Allocations /\ allocated <= allocate.allocated
    <3>1. allocated \in Nat /\ allocated >= 1 /\ allocated <= MaxAllocations
          /\ MaxAllocations \in Nat
      BY <1>1, DynamicNumbers
    <3>2. fifo[1].allocation \in Nat /\ fifo[1].allocation >= 1
      BY <1>2, <2>2
    <3>3. fifo[1].allocation <= allocated
      BY <1>1, <2>2, <3>1 DEF AllocationsMade
    <3> QED BY <2>1, <2>2, <3>1, <3>2, <3>3 DEF Allocations
  <2>6. InFifo(allocate.ret)
    BY <2>1, <2>2 DEF InFifo
  <2>7. allocate.ret # name_ /\ \A l \in Lists : ~UsedBy(l, allocate.ret)
    BY <1>1, <2>1, <2>5, <2>6 DEF AllocationInOnePlace
  <2>8. ~FifoHas(allocate.fifo, allocate.ret)
    <3> SUFFICES ASSUME NEW i \in 1 .. Len(fifo) - 1, fifo[i + 1].allocation = fifo[1].allocation
                 PROVE  FALSE
      BY <2>1, <2>2, <2>3 DEF FifoHas
    <3>1. i + 1 = 1
      BY <2>2, <2>3, <2>4
    <3> QED BY <1>2, <3>1
  <2>9. \A i, j \in DOMAIN allocate.fifo :
          allocate.fifo[i].allocation = allocate.fifo[j].allocation => i = j
    <3> SUFFICES ASSUME NEW i \in DOMAIN allocate.fifo, NEW j \in DOMAIN allocate.fifo,
                        allocate.fifo[i].allocation = allocate.fifo[j].allocation
                 PROVE  i = j
      OBVIOUS
    <3>1. i \in 1 .. Len(fifo) - 1 /\ j \in 1 .. Len(fifo) - 1
      BY <2>1, <2>3
    <3>2. fifo[i + 1].allocation = fifo[j + 1].allocation
      BY <2>1, <2>3, <3>1
    <3>3. i + 1 = j + 1
      BY <2>3, <2>4, <3>1, <3>2
    <3> QED BY <1>2, <3>1, <3>3
  <2>10. \A i \in DOMAIN allocate.fifo : \E j \in DOMAIN fifo : allocate.fifo[i] = fifo[j]
    BY <2>1, <2>3
  <2>11. \A a : FifoHas(allocate.fifo, a) => InFifo(a)
    BY <2>10 DEF FifoHas, InFifo
  <2>12. ASSUME NEW a, a # allocate.ret, InFifo(a) PROVE FifoHas(allocate.fifo, a)
    <3>1. PICK j \in DOMAIN fifo : fifo[j].allocation = a
      BY <2>12 DEF InFifo
    <3>2. j \in 1 .. Len(fifo) /\ j # 1
      BY <1>2, <2>1, <2>2, <2>12, <3>1
    <3>3. j - 1 \in 1 .. Len(fifo) - 1 /\ (j - 1) + 1 = j
      BY <1>2, <3>2
    <3>4. Tail(fifo)[j - 1] = fifo[j]
      BY <2>3, <3>3
    <3> QED BY <2>1, <2>3, <3>1, <3>3, <3>4 DEF FifoHas
  <2>13. ASSUME limits = {}, NEW u \in uses PROVE u.slot[1] # allocate.ret
    <3>1. Unread(u)
      BY <1>1, <2>13 DEF MemoryKept
    <3>2. u.slot[1] = fifo[1].allocation => u.seq <= fifo[1].will_free_at
      BY <2>2, <3>1 DEF Unread
    <3>3. u.seq \in Nat /\ u.seq >= cpu_coherent + 1 /\ cpu_coherent \in Nat
          /\ fifo[1].will_free_at \in Nat
      BY <1>1, <1>2, <2>2, UseTyped, DynamicNumbers
    <3> QED BY <2>1, <2>2, <3>2, <3>3
  <2>14. \A a \in 1 .. allocate.allocated : a \in 1 .. allocated
    BY <2>1
  <2>15. allocate.fifo \in Seq(QueueEntry)
    BY <2>1, <2>3
  <2> QED BY <2>5, <2>7, <2>8, <2>9, <2>10, <2>11, <2>12, <2>13, <2>14, <2>15
<1>4. CASE ~FrontIsFree
  <2>1. /\ allocate.ret = allocated + 1 /\ allocate.fifo = fifo
        /\ allocate.allocated = allocated + 1 /\ allocated < MaxAllocations
    BY <1>4 DEF allocate, CanAllocate
  <2>2. allocate.ret \in 1 .. allocate.allocated /\ allocate.ret \in Allocations
        /\ allocate.allocated \in Allocations /\ allocated <= allocate.allocated
        /\ allocate.ret # name_
    BY <1>1, <2>1, DynamicNumbers DEF Allocations
  <2>3. \A a \in Nat : a <= allocated => a # allocate.ret
    BY <1>1, <2>1, DynamicNumbers
  <2>4. ~FifoHas(allocate.fifo, allocate.ret)
    BY <1>1, <1>2, <2>1, <2>3 DEF FifoHas, AllocationsMade
  <2>5. ASSUME NEW l \in Lists PROVE ~UsedBy(l, allocate.ret)
    <3> SUFFICES ASSUME NEW i \in DOMAIN cmdlist[l].used
                 PROVE  cmdlist[l].used[i].allocation # allocate.ret
      BY DEF UsedBy
    <3>1. cmdlist[l].used[i].allocation \in Nat
      BY <1>1, ListFacts, UsedTyped
    <3> QED BY <1>1, <2>3, <3>1 DEF AllocationsMade
  <2>6. \A u \in uses : u.slot[1] # allocate.ret
    BY <1>1, <2>3, UseTyped DEF AllocationsMade
  <2>7. \A a \in 1 .. allocate.allocated : a # allocate.ret => a \in 1 .. allocated
    BY <1>1, <2>1, DynamicNumbers
  <2>8. \A a : FifoHas(allocate.fifo, a) <=> InFifo(a)
    BY <2>1 DEF FifoHas, InFifo
  <2>9. \A i, j \in DOMAIN allocate.fifo :
          allocate.fifo[i].allocation = allocate.fifo[j].allocation => i = j
    BY <1>1, <2>1 DEF AllocationInOnePlace
  <2>10. allocate.fifo \in Seq(QueueEntry)
         /\ \A i \in DOMAIN allocate.fifo : \E j \in DOMAIN fifo : allocate.fifo[i] = fifo[j]
    BY <1>2, <2>1
  <2> QED BY <2>2, <2>4, <2>5, <2>6, <2>7, <2>8, <2>9, <2>10
<1> QED BY <1>3, <1>4

(* An entry appended to the fifo.                                          *)
Distinct(f) == \A i, j \in DOMAIN f : f[i].allocation = f[j].allocation => i = j

LEMMA AppendEntry ==
  ASSUME NEW f \in Seq(QueueEntry), Distinct(f), NEW a \in Allocations, NEW q \in 1 .. MaxSeq,
         ~FifoHas(f, a)
  PROVE  /\ Append(f, Entry(a, q)) \in Seq(QueueEntry) /\ Distinct(Append(f, Entry(a, q)))
         /\ \A b : FifoHas(Append(f, Entry(a, q)), b) <=> FifoHas(f, b) \/ b = a
         /\ \A i \in DOMAIN Append(f, Entry(a, q)) :
              \/ i \in DOMAIN f /\ Append(f, Entry(a, q))[i] = f[i]
              \/ /\ Append(f, Entry(a, q))[i].allocation = a
                 /\ Append(f, Entry(a, q))[i].will_free_at = q
<1> SUFFICES ASSUME NEW e, e = Entry(a, q), NEW g, g = Append(f, e)
             PROVE  /\ g \in Seq(QueueEntry) /\ Distinct(g)
                    /\ \A b : FifoHas(g, b) <=> FifoHas(f, b) \/ b = a
                    /\ \A i \in DOMAIN g :
                         \/ i \in DOMAIN f /\ g[i] = f[i]
                         \/ g[i].allocation = a /\ g[i].will_free_at = q
  OBVIOUS
<1>1. e \in QueueEntry /\ e.allocation = a /\ e.will_free_at = q
  BY DEF Entry, QueueEntry
<1>2. /\ g \in Seq(QueueEntry) /\ Len(f) \in Nat /\ DOMAIN f = 1 .. Len(f)
      /\ DOMAIN g = 1 .. Len(f) + 1 /\ g[Len(f) + 1] = e
      /\ \A i \in DOMAIN f : g[i] = f[i]
  BY <1>1
<1>3. \A i \in DOMAIN g : i \in DOMAIN f \/ i = Len(f) + 1
  BY <1>2
<1>4. \A i \in DOMAIN f : i \in DOMAIN g
  BY <1>2
<1>5. Len(f) + 1 \in DOMAIN g
  BY <1>2
<1>6. \A i \in DOMAIN f : f[i].allocation # a
  BY DEF FifoHas
<1>7. Distinct(g)
  <2> SUFFICES ASSUME NEW i \in DOMAIN g, NEW j \in DOMAIN g, g[i].allocation = g[j].allocation
               PROVE  i = j
    BY DEF Distinct
  <2>1. CASE i \in DOMAIN f /\ j \in DOMAIN f
    BY <1>2, <2>1 DEF Distinct
  <2>2. CASE i = Len(f) + 1 /\ j = Len(f) + 1
    BY <2>2
  <2> QED BY <1>1, <1>2, <1>3, <1>6, <2>1, <2>2
<1>8. \A b : FifoHas(g, b) <=> FifoHas(f, b) \/ b = a
  <2> SUFFICES ASSUME NEW b PROVE FifoHas(g, b) <=> FifoHas(f, b) \/ b = a
    OBVIOUS
  <2>1. FifoHas(g, b) => FifoHas(f, b) \/ b = a
    BY <1>1, <1>2, <1>3 DEF FifoHas
  <2>2. FifoHas(f, b) => FifoHas(g, b)
    BY <1>2, <1>4 DEF FifoHas
  <2>3. b = a => FifoHas(g, b)
    BY <1>1, <1>2, <1>5 DEF FifoHas
  <2> QED BY <2>1, <2>2, <2>3
<1> QED BY <1>1, <1>2, <1>3, <1>7, <1>8

(* updateImmediateName(): the old name goes to the fifo unless a list has  *)
(* it; it is freed after the chunk being recorded.                         *)
Pushed(f) == IF owned_by_command_list_ THEN f ELSE Append(f, Entry(name_, ready_for_encode))

LEMMA PushedFacts ==
  ASSUME DynamicTypeOK, NEW f \in Seq(QueueEntry), Distinct(f), ~FifoHas(f, name_)
  PROVE  /\ Pushed(f) \in Seq(QueueEntry) /\ Distinct(Pushed(f))
         /\ \A b : FifoHas(Pushed(f), b) <=> FifoHas(f, b) \/ IsName(b)
         /\ \A i \in DOMAIN Pushed(f) :
              \/ i \in DOMAIN f /\ Pushed(f)[i] = f[i]
              \/ /\ Pushed(f)[i].allocation = name_ /\ ~owned_by_command_list_
                 /\ Pushed(f)[i].will_free_at = ready_for_encode
<1>1. name_ \in Allocations /\ ready_for_encode \in 1 .. MaxSeq
  BY DynamicNumbers
<1>2. CASE owned_by_command_list_
  BY <1>2 DEF Pushed, IsName
<1>3. CASE ~owned_by_command_list_
  <2>1. Pushed(f) = Append(f, Entry(name_, ready_for_encode))
    BY <1>3 DEF Pushed
  <2>2. \A b : IsName(b) <=> b = name_
    BY <1>3 DEF IsName
  <2> QED BY <1>1, <1>3, <2>1, <2>2, AppendEntry
<1> QED BY <1>2, <1>3

(* A discard that gives the resource a new allocation.                     *)
LEMMA NewAllocationStep ==
  ASSUME DynamicInv, MapDiscard, nextSuballocation = 0
  PROVE  DynamicInv'
<1> SUFFICES ASSUME NEW ret, ret = allocate.ret, NEW slot, slot = <<ret, 0>>,
                    NEW f, f = allocate.fifo
             PROVE  DynamicInv'
  OBVIOUS
<1>1. /\ DynamicTypeOK /\ AllocationInOnePlace /\ AllocationsMade /\ ListsOK
      /\ EncoderAgreesWithName /\ MemoryKept /\ DrawsSeeTheirWrites
  BY DEF DynamicInv
<1>2. /\ writes < MaxWrites /\ writes' = NextWrite /\ value' = {NextWrite}
      /\ CanAllocate /\ Discarded(slot)
      /\ allocated' = allocate.allocated /\ fifo' = Pushed(f)
      /\ name_' = ret /\ name_suballocation_' = 0 /\ owned_by_command_list_' = FALSE
      /\ current' = ret
      /\ current_suballocation_' = [current_suballocation_ EXCEPT ![ret] = 0]
      /\ UNCHANGED <<kind, suballocation_count_>>
      /\ UNCHANGED <<uses, cmdlist, limits, ready_for_encode, cpu_coherent, finishing>>
  BY DEF MapDiscard, resource, timeVars, updateImmediateName, Pushed, CurrentSeqId
<1>3. /\ ret \in 1 .. allocated' /\ ret \in Allocations
      /\ allocated' \in Allocations /\ allocated <= allocated'
      /\ f \in Seq(QueueEntry) /\ Distinct(f)
      /\ ret # name_ /\ \A l \in Lists : ~UsedBy(l, ret)
      /\ ~FifoHas(f, ret)
      /\ \A i \in DOMAIN f : \E j \in DOMAIN fifo : f[i] = fifo[j]
      /\ \A a \in 1 .. allocated' :
           a # ret => a \in 1 .. allocated /\ (InFifo(a) => FifoHas(f, a))
      /\ \A a : FifoHas(f, a) => InFifo(a)
      /\ limits = {} => \A u \in uses : u.slot[1] # ret
  BY <1>2, AllocateFacts DEF Distinct
<1>4. ~FifoHas(f, name_)
  BY <1>1, <1>3 DEF AllocationInOnePlace
<1>5. /\ fifo' \in Seq(QueueEntry) /\ Distinct(fifo')
      /\ \A b : FifoHas(fifo', b) <=> FifoHas(f, b) \/ IsName(b)
      /\ \A i \in DOMAIN fifo' :
           \/ i \in DOMAIN f /\ fifo'[i] = f[i]
           \/ fifo'[i].allocation = name_ /\ fifo'[i].will_free_at = ready_for_encode
  BY <1>1, <1>2, <1>3, <1>4, PushedFacts
<1>6. slot \in Slots
  BY <1>3, DynamicAssumption DEF Slots, Subs
<1>7. /\ content' \in [Slots -> SUBSET WriteIds]
      /\ NextWrite \in WriteIds /\ content'[slot] = {NextWrite}
      /\ \A s \in Slots : s # slot => content'[s] = content[s]
  BY <1>1, <1>2, <1>6, DiscardedContent
<1>8. current_suballocation_' \in [Allocations -> Subs] /\ current_suballocation_'[ret] = 0
  <2>1. 0 \in Subs /\ current_suballocation_ \in [Allocations -> Subs]
    BY <1>1, DynamicAssumption DEF DynamicTypeOK, Subs
  <2> QED BY <1>2, <1>3, <2>1
<1>9. DynamicTypeOK'
  <2>1. writes' \in 0 .. MaxWrites
    BY <1>1, <1>2, DynamicNumbers DEF NextWrite
  <2>2. value' \in SUBSET WriteIds
    BY <1>2, <1>7
  <2>3. TimelineTypeOK'
    BY <1>1, <1>2 DEF DynamicTypeOK, TimelineTypeOK
  <2>4. name_suballocation_' \in 0 .. suballocation_count_' - 1
    BY <1>1, <1>2, DynamicNumbers
  <2> QED BY <1>1, <1>2, <1>3, <1>5, <1>7, <1>8, <2>1, <2>2, <2>3, <2>4 DEF DynamicTypeOK
<1>10. /\ \A a : InFifo(a)' <=> FifoHas(f, a) \/ IsName(a)
       /\ \A a : IsName(a)' <=> a = ret
       /\ \A l \in Lists : \A a : UsedBy(l, a)' <=> UsedBy(l, a)
  <2>1. \A a : InFifo(a)' <=> FifoHas(fifo', a)
    BY DEF InFifo, FifoHas
  <2> QED BY <1>2, <1>5, <2>1 DEF IsName, UsedBy
<1>11. AllocationInOnePlace'
  <2>1. \A a \in 1 .. allocated' : InFifo(a)' \/ IsName(a)' \/ \E l \in Lists : UsedBy(l, a)'
    BY <1>1, <1>3, <1>10 DEF AllocationInOnePlace
  <2>2. ASSUME NEW l \in Lists, NEW a \in 1 .. allocated', UsedBy(l, a)'
        PROVE  /\ ~InFifo(a)' /\ ~IsName(a)'
               /\ \A m \in Lists : UsedBy(m, a)' => l = m
    <3>1. UsedBy(l, a) /\ a # ret /\ a \in 1 .. allocated
      BY <1>3, <1>10, <2>2
    <3>2. ~InFifo(a) /\ ~IsName(a) /\ \A m \in Lists : UsedBy(m, a) => l = m
      BY <1>1, <3>1 DEF AllocationInOnePlace
    <3> QED BY <1>3, <1>10, <3>1, <3>2
  <2>3. /\ \A i, j \in DOMAIN fifo' : fifo'[i].allocation = fifo'[j].allocation => i = j
        /\ \A l \in Lists : \A i, j \in DOMAIN cmdlist'[l].used :
             cmdlist'[l].used[i].allocation = cmdlist'[l].used[j].allocation => i = j
    BY <1>1, <1>2, <1>5 DEF AllocationInOnePlace, Distinct
  <2>4. ~InFifo(name_)'
    <3>1. ~FifoHas(fifo', ret)
      BY <1>3, <1>5 DEF IsName
    <3> QED BY <1>2, <3>1 DEF InFifo, FifoHas
  <2>5. owned_by_command_list_' => \E l \in Lists : UsedBy(l, name_)'
    BY <1>2
  <2>6. \A l, m \in Lists, a \in 1 .. allocated' : UsedBy(l, a)' /\ UsedBy(m, a)' => l = m
    BY <2>2
  <2>7. \A l \in Lists, a \in 1 .. allocated' : UsedBy(l, a)' => ~InFifo(a)' /\ ~IsName(a)'
    BY <2>2
  <2> QED BY <2>1, <2>3, <2>4, <2>5, <2>6, <2>7 DEF AllocationInOnePlace
<1>12. AllocationsMade'
  <2>1. \A a \in Nat : a <= allocated => a <= allocated'
    BY <1>1, <1>3, DynamicNumbers DEF Allocations
  <2>2. ASSUME NEW i \in DOMAIN fifo' PROVE fifo'[i].allocation <= allocated'
    <3>1. CASE i \in DOMAIN f /\ fifo'[i] = f[i]
      <4>1. PICK j \in DOMAIN fifo : f[i] = fifo[j]
        BY <1>3, <3>1
      <4> QED BY <1>1, <2>1, <3>1, <4>1, FifoTyped DEF AllocationsMade
    <3>2. CASE fifo'[i].allocation = name_
      BY <1>1, <2>1, <3>2, DynamicNumbers
    <3> QED BY <1>5, <2>2, <3>1, <3>2
  <2>3. ASSUME NEW l \in Lists, NEW i \in DOMAIN cmdlist[l].used
        PROVE  cmdlist[l].used[i].allocation <= allocated'
    <3>1. cmdlist[l].used[i].allocation \in Nat
      BY <1>1, ListFacts, UsedTyped
    <3> QED BY <1>1, <2>1, <3>1 DEF AllocationsMade
  <2>4. \A u \in uses : u.slot[1] <= allocated'
    BY <1>1, <2>1, UseTyped DEF AllocationsMade
  <2> QED BY <1>2, <2>2, <2>3, <2>4 DEF AllocationsMade
<1>13. EncoderAgreesWithName'
  BY <1>2, <1>8 DEF EncoderAgreesWithName, CurrentSlot
<1>14. ListsOK'
  <2> SUFFICES ASSUME NEW l \in Lists PROVE ListOK(l)'
    BY DEF ListsOK
  <2>1. ListOK(l) /\ \A i \in DOMAIN cmdlist[l].used : cmdlist[l].used[i].allocation # ret
    BY <1>1, <1>3 DEF ListsOK, UsedBy
  <2> QED BY <1>2, <2>1 DEF ListOK, Executable, UsedBy
<1>15. ASSUME limits = {}, NEW u \in uses PROVE Unread(u)'
  <2>1. Unread(u) /\ u.slot[1] # ret
    BY <1>1, <1>3, <1>15 DEF MemoryKept
  <2>2. ASSUME NEW i \in DOMAIN fifo', u.slot[1] = fifo'[i].allocation
        PROVE  u.seq <= fifo'[i].will_free_at
    <3>1. CASE i \in DOMAIN f /\ fifo'[i] = f[i]
      <4>1. PICK j \in DOMAIN fifo : f[i] = fifo[j]
        BY <1>3, <3>1
      <4> QED BY <2>1, <2>2, <3>1, <4>1 DEF Unread
    <3>2. CASE fifo'[i].will_free_at = ready_for_encode
      BY <1>1, <3>2, UseTyped
    <3> QED BY <1>5, <2>2, <3>1, <3>2
  <2> QED BY <1>2, <2>1, <2>2 DEF Unread, UsedBy
<1>16. MemoryKept'
  <2> SUFFICES ASSUME limits = {} PROVE LatestStored' /\ \A u \in uses : Unread(u)'
    BY <1>2 DEF MemoryKept
  <2>1. LatestStored
    BY <1>1 DEF MemoryKept
  <2>2. value' \subseteq content'[<<name_', name_suballocation_'>>]
    BY <1>2, <1>7
  <2>3. ASSUME NEW l \in Lists, Executable(l)', cmdlist'[l].used # <<>>
        PROVE  cmdlist'[l].value \subseteq content'[RecordedSlot(l)']
    <3>1. Executable(l) /\ cmdlist[l].used # <<>>
      BY <1>2, <2>3 DEF Executable
    <3>2. RecordedSlot(l)' = RecordedSlot(l)
      BY <1>2 DEF RecordedSlot, Recorded
    <3>3. RecordedSlot(l) \in Slots /\ RecordedSlot(l) # slot
      BY <1>1, <1>3, <3>1, RecordedFacts
    <3> QED BY <1>2, <1>7, <2>1, <3>1, <3>2, <3>3 DEF LatestStored
  <2> QED BY <1>15, <2>2, <2>3 DEF LatestStored
<1>17. DrawsSeeTheirWrites'
  <2> SUFFICES ASSUME limits = {}
               PROVE  /\ \A u \in uses : u.want \subseteq content'[u.slot]
                      /\ \A l \in Lists : cmdlist[l].state \in {"recording", "finished"} =>
                           \A d \in cmdlist[l].draws : d.want \subseteq content'[d.slot]
    BY <1>2 DEF DrawsSeeTheirWrites
  <2>1. \A u \in uses : u.slot \in Slots /\ u.slot # slot
    BY <1>1, <1>3, UseTyped
  <2>2. ASSUME NEW l \in Lists, cmdlist[l].state \in {"recording", "finished"},
               NEW d \in cmdlist[l].draws
        PROVE  d.slot \in Slots /\ d.slot # slot
    BY <1>3, <2>2, BelowName DEF Executable
  <2> QED BY <1>1, <1>7, <2>1, <2>2 DEF DrawsSeeTheirWrites
<1> QED BY <1>9, <1>11, <1>12, <1>13, <1>14, <1>16, <1>17 DEF DynamicInv

LEMMA MapDiscardStep == ASSUME DynamicInv, MapDiscard PROVE DynamicInv'
BY NextSuballocationStep, NewAllocationStep

(* An entry of a list is in no other place.                                *)
LEMMA EntryFacts ==
  ASSUME DynamicInv, NEW l \in Lists, NEW a, UsedBy(l, a)
  PROVE  /\ a \in 1 .. allocated /\ ~InFifo(a) /\ ~IsName(a)
         /\ \A m \in Lists : UsedBy(m, a) => m = l
<1>1. DynamicTypeOK /\ AllocationInOnePlace /\ AllocationsMade
  BY DEF DynamicInv
<1>2. PICK i \in DOMAIN cmdlist[l].used : cmdlist[l].used[i].allocation = a
  BY DEF UsedBy
<1>3. a \in Nat /\ a >= 1 /\ a <= allocated
  BY <1>1, <1>2, ListFacts, UsedTyped DEF AllocationsMade
<1>4. a \in 1 .. allocated
  BY <1>1, <1>3, DynamicNumbers
<1> QED BY <1>1, <1>4 DEF AllocationInOnePlace

(* A step that gives the list l being recorded other entries and a value.  *)
LEMMA RecordedList ==
  ASSUME DynamicTypeOK, NEW l \in Lists, NEW U \in Seq(UsedDynamic), NEW w \in WriteIds,
         cmdlist' = [cmdlist EXCEPT ![l].used = U, ![l].value = {w}]
  PROVE  /\ cmdlist' \in [Lists -> CommandList]
         /\ cmdlist'[l].state = cmdlist[l].state /\ cmdlist'[l].used = U
         /\ cmdlist'[l].value = {w} /\ cmdlist'[l].draws = cmdlist[l].draws
         /\ cmdlist'[l].current_seq_id = cmdlist[l].current_seq_id
         /\ \A m \in Lists : m # l => cmdlist'[m] = cmdlist[m]
<1> DEFINE c == [cmdlist[l] EXCEPT !.used = U, !.value = {w}]
<1>1. cmdlist \in [Lists -> CommandList] /\ cmdlist[l] \in CommandList
  BY DEF DynamicTypeOK
<1>2. cmdlist' = [cmdlist EXCEPT ![l] = c]
  BY <1>1 DEF CommandList
<1>3. /\ c \in CommandList /\ c.state = cmdlist[l].state /\ c.used = U
      /\ c.draws = cmdlist[l].draws /\ c.value = {w}
      /\ c.current_seq_id = cmdlist[l].current_seq_id
  BY <1>1 DEF CommandList
<1> HIDE DEF c
<1> QED BY <1>1, <1>2, <1>3

(* A discard of a deferred context in the allocation it already has: the   *)
(* slot above those that its own reads are of.                             *)
LEMMA DeferredNextSuballocationStep ==
  ASSUME DynamicInv, NEW l \in Lists, DeferredMapDiscard(l), cmdlist[l].used # <<>>,
         hasSuballocation(Recorded(l).suballocation + 1)
  PROVE  DynamicInv'
<1> SUFFICES ASSUME NEW a, a = Recorded(l).allocation, NEW n, n = Recorded(l).suballocation,
                    NEW slot, slot = <<a, n + 1>>, NEW used, used = cmdlist[l].used
             PROVE  DynamicInv'
  OBVIOUS
<1>1. /\ DynamicTypeOK /\ AllocationInOnePlace /\ AllocationsMade /\ ListsOK
      /\ EncoderAgreesWithName /\ MemoryKept /\ DrawsSeeTheirWrites
  BY DEF DynamicInv
<1>2. /\ cmdlist[l].state = "recording"
      /\ writes < MaxWrites /\ writes' = NextWrite /\ Discarded(slot)
      /\ cmdlist' = [cmdlist EXCEPT ![l].used = Advanced(used), ![l].value = {NextWrite}]
      /\ UNCHANGED <<kind, suballocation_count_, fifo, name_, name_suballocation_>>
      /\ UNCHANGED <<owned_by_command_list_, allocated, current, current_suballocation_>>
      /\ UNCHANGED <<value, uses, limits, ready_for_encode, cpu_coherent, finishing>>
  BY DEF DeferredMapDiscard, resource, timeVars
<1>3. /\ Len(used) \in DOMAIN used /\ Recorded(l) = used[Len(used)]
      /\ UsedBy(l, a) /\ a \in Allocations /\ n \in Nat
      /\ used \in Seq(UsedDynamic) /\ used # <<>> /\ DOMAIN used = 1 .. Len(used)
  BY <1>1, RecordedFacts, ListFacts
<1>4. n + 1 \in Subs /\ n + 1 < suballocation_count_
  <2>1. n + 1 < suballocation_count_
    BY DEF hasSuballocation
  <2>2. suballocation_count_ \in Nat /\ suballocation_count_ <= Suballocations /\ Suballocations \in Nat
    BY <1>1, DynamicNumbers
  <2> QED BY <1>3, <2>1, <2>2 DEF Subs
<1>5. slot \in Slots
  BY <1>3, <1>4 DEF Slots
<1>6. /\ content' \in [Slots -> SUBSET WriteIds]
      /\ NextWrite \in WriteIds /\ content'[slot] = {NextWrite}
      /\ \A s \in Slots : s # slot => content'[s] = content[s]
  BY <1>1, <1>2, <1>5, DiscardedContent
<1>7. /\ Advanced(used) \in Seq(UsedDynamic) /\ Len(Advanced(used)) = Len(used)
      /\ DOMAIN Advanced(used) = DOMAIN used /\ Advanced(used) # <<>>
      /\ \A i \in DOMAIN used : Advanced(used)[i].allocation = used[i].allocation
      /\ \A i \in DOMAIN used : i # Len(used) => Advanced(used)[i] = used[i]
      /\ Advanced(used)[Len(used)].suballocation = n + 1
  BY <1>3, <1>4, AdvancedFacts
<1>8. /\ cmdlist' \in [Lists -> CommandList]
      /\ cmdlist'[l].state = "recording" /\ cmdlist'[l].used = Advanced(used)
      /\ cmdlist'[l].value = {NextWrite} /\ cmdlist'[l].draws = cmdlist[l].draws
      /\ \A m \in Lists : m # l => cmdlist'[m] = cmdlist[m]
  <2> HIDE DEF NextWrite
  <2>1. /\ Advanced(used) \in Seq(UsedDynamic) /\ NextWrite \in WriteIds
        /\ cmdlist[l].state = "recording"
    BY <1>2, <1>6, <1>7
  <2>2. cmdlist' = [cmdlist EXCEPT ![l].used = Advanced(used), ![l].value = {NextWrite}]
    BY <1>2
  <2>3. DynamicTypeOK
    BY <1>1
  <2> QED BY <2>1, <2>2, <2>3, RecordedList
<1>9. DynamicTypeOK'
  <2>1. writes' \in 0 .. MaxWrites
    BY <1>1, <1>2, DynamicNumbers DEF NextWrite
  <2>2. TimelineTypeOK'
    BY <1>1, <1>2 DEF DynamicTypeOK, TimelineTypeOK
  <2> QED BY <1>1, <1>2, <1>6, <1>8, <2>1, <2>2 DEF DynamicTypeOK
<1>10. \A m \in Lists :
         /\ DOMAIN cmdlist'[m].used = DOMAIN cmdlist[m].used
         /\ \A i \in DOMAIN cmdlist[m].used :
              cmdlist'[m].used[i].allocation = cmdlist[m].used[i].allocation
  BY <1>7, <1>8
<1>11. AllocationInOnePlace' /\ \A m \in Lists : \A b : UsedBy(m, b)' <=> UsedBy(m, b)
  BY <1>1, <1>2, <1>10, SamePlaces
<1>12. AllocationsMade' /\ EncoderAgreesWithName'
  BY <1>1, <1>2, <1>10, ZenonT(40) DEF AllocationsMade, EncoderAgreesWithName, CurrentSlot
<1>13. \A i \in DOMAIN used :
         /\ used[i].suballocation \in Nat /\ Advanced(used)[i].suballocation \in Nat
         /\ used[i].suballocation <= Advanced(used)[i].suballocation
         /\ used[i].suballocation < suballocation_count_
         /\ Advanced(used)[i].suballocation < suballocation_count_
  <2> SUFFICES ASSUME NEW i \in DOMAIN used
               PROVE  /\ used[i].suballocation \in Nat /\ Advanced(used)[i].suballocation \in Nat
                      /\ used[i].suballocation <= Advanced(used)[i].suballocation
                      /\ used[i].suballocation < suballocation_count_
                      /\ Advanced(used)[i].suballocation < suballocation_count_
    OBVIOUS
  <2>1. used[i].suballocation \in Nat
    BY <1>3, UsedTyped
  <2>2. used[i].suballocation < suballocation_count_
    BY <1>1 DEF ListsOK, ListOK
  <2>3. CASE i = Len(used)
    BY <1>3, <1>4, <1>7, <2>1, <2>2, <2>3, SMTT(20)
  <2>4. CASE i # Len(used)
    BY <1>7, <2>1, <2>2, <2>4
  <2> QED BY <2>3, <2>4
<1>14. ListsOK'
  <2> SUFFICES ASSUME NEW m \in Lists PROVE ListOK(m)'
    BY DEF ListsOK
  <2>1. ListOK(m)
    BY <1>1 DEF ListsOK
  <2>2. CASE m # l
    BY <1>2, <1>8, <2>1, <2>2 DEF ListOK, Executable, UsedBy
  <2>3. CASE m = l
    <3>1. ~UsedBy(l, name_)'
      <4>1. ~UsedBy(l, name_)
        BY <1>2, <2>1, <2>3 DEF ListOK
      <4> QED BY <1>2, <1>10, <4>1 DEF UsedBy
    <3>2. ASSUME NEW d \in cmdlist[l].draws
          PROVE  \E i \in DOMAIN Advanced(used) :
                   /\ d.slot[1] = Advanced(used)[i].allocation
                   /\ d.slot[2] <= Advanced(used)[i].suballocation
      <4>1. PICK i \in DOMAIN used :
              d.slot[1] = used[i].allocation /\ d.slot[2] <= used[i].suballocation
        BY <1>2, <2>1, <2>3, <3>2 DEF ListOK, Executable
      <4>2. d.slot[2] \in Nat
        BY <1>2, <3>2, BelowName DEF Executable
      <4>3. d.slot[2] <= Advanced(used)[i].suballocation
        BY <1>13, <4>1, <4>2
      <4> QED BY <1>7, <4>1, <4>3
    <3> QED BY <1>2, <1>7, <1>8, <1>13, <2>3, <3>1, <3>2, SMTT(20) DEF ListOK, Executable
  <2> QED BY <2>2, <2>3
<1>15. ASSUME limits = {}, NEW u \in uses PROVE Unread(u)' /\ u.slot # slot
  <2>1. Unread(u)
    BY <1>1, <1>15 DEF MemoryKept
  <2>2. u.slot[1] # a
    BY <1>2, <1>3, <2>1 DEF Unread
  <2>3. ASSUME NEW m \in Lists, cmdlist'[m].state = "recording" PROVE ~UsedBy(m, u.slot[1])'
    <3>1. cmdlist[m].state = "recording"
      BY <1>2, <1>8, <2>3
    <3> QED BY <1>11, <2>1, <3>1 DEF Unread
  <2>4. Unread(u)'
    BY <1>2, <2>1, <2>3 DEF Unread
  <2> QED BY <2>2, <2>4
<1>16. ASSUME NEW m \in Lists, Executable(m), NEW d \in cmdlist[m].draws
       PROVE  d.slot \in Slots /\ d.slot # slot
  <2>1. /\ d.slot \in Slots /\ d.slot = <<d.slot[1], d.slot[2]>> /\ d.slot[2] \in Nat
        /\ UsedBy(m, d.slot[1])
    BY <1>16, BelowName
  <2>2. CASE m # l
    BY <1>3, <2>1, <2>2, EntryFacts
  <2>3. CASE m = l
    <3>1. PICK i \in DOMAIN used :
            d.slot[1] = used[i].allocation /\ d.slot[2] <= used[i].suballocation
      BY <1>1, <1>16, <2>3 DEF ListsOK, ListOK
    <3>2. d.slot[1] = a => i = Len(used)
      BY <1>1, <1>3, <3>1 DEF AllocationInOnePlace
    <3>3. d.slot[1] = a => d.slot[2] # n + 1
      BY <1>3, <2>1, <3>1, <3>2
    <3> QED BY <2>1, <3>3
  <2> QED BY <2>2, <2>3
<1>17. MemoryKept'
  <2> SUFFICES ASSUME limits = {} PROVE LatestStored' /\ \A u \in uses : Unread(u)'
    BY <1>2 DEF MemoryKept
  <2>1. LatestStored
    BY <1>1 DEF MemoryKept
  <2>2. value' \subseteq content'[<<name_', name_suballocation_'>>]
    <3>1. name_ # a
      BY <1>1, <1>2, <1>3 DEF ListsOK, ListOK
    <3>2. <<name_, name_suballocation_>> \in Slots /\ <<name_, name_suballocation_>> # slot
      BY <1>1, <3>1, DynamicNumbers DEF Slots
    <3> QED BY <1>2, <1>6, <2>1, <3>2 DEF LatestStored
  <2>3. ASSUME NEW m \in Lists, Executable(m)', cmdlist'[m].used # <<>>
        PROVE  cmdlist'[m].value \subseteq content'[RecordedSlot(m)']
    <3>1. CASE m # l
      <4>1. Executable(m) /\ cmdlist[m].used # <<>> /\ RecordedSlot(m)' = RecordedSlot(m)
        BY <1>8, <2>3, <3>1 DEF Executable, RecordedSlot, Recorded
      <4>2. UsedBy(m, Recorded(m).allocation) /\ RecordedSlot(m) \in Slots
            /\ RecordedSlot(m) = <<Recorded(m).allocation, Recorded(m).suballocation>>
        BY <1>1, <4>1, RecordedFacts
      <4>3. RecordedSlot(m) # slot
        BY <1>3, <3>1, <4>2, EntryFacts
      <4> QED BY <1>6, <1>8, <2>1, <3>1, <4>1, <4>2, <4>3 DEF LatestStored
    <3>2. CASE m = l
      <4>1. Recorded(l)' = Advanced(used)[Len(used)]
        BY <1>7, <1>8 DEF Recorded, Last
      <4>2. RecordedSlot(l)' = slot
        BY <1>3, <1>7, <4>1 DEF RecordedSlot
      <4> QED BY <1>6, <1>8, <3>2, <4>2
    <3> QED BY <3>1, <3>2
  <2> QED BY <1>15, <2>2, <2>3 DEF LatestStored
<1>18. DrawsSeeTheirWrites'
  <2> SUFFICES ASSUME limits = {}
               PROVE  /\ \A u \in uses : u.want \subseteq content'[u.slot]
                      /\ \A m \in Lists : cmdlist'[m].state \in {"recording", "finished"} =>
                           \A d \in cmdlist'[m].draws : d.want \subseteq content'[d.slot]
    BY <1>2 DEF DrawsSeeTheirWrites
  <2>1. \A u \in uses : u.slot \in Slots /\ u.slot # slot
    BY <1>1, <1>15, UseTyped
  <2>2. ASSUME NEW m \in Lists, cmdlist'[m].state \in {"recording", "finished"},
               NEW d \in cmdlist'[m].draws
        PROVE  d.want \subseteq content'[d.slot]
    <3>1. Executable(m) /\ d \in cmdlist[m].draws
      BY <1>2, <1>8, <2>2 DEF Executable
    <3>2. d.want \subseteq content[d.slot]
      BY <1>1, <3>1 DEF DrawsSeeTheirWrites, Executable
    <3> QED BY <1>6, <1>16, <3>1, <3>2
  <2> QED BY <1>1, <1>6, <2>1, <2>2 DEF DrawsSeeTheirWrites
<1> QED BY <1>9, <1>11, <1>12, <1>14, <1>17, <1>18 DEF DynamicInv

(* The entries of a list with a new allocation's at the end.               *)
Extended(used, a) ==
  Append(Superseded(used), [allocation |-> a, suballocation |-> 0, latest |-> PushedLatest])

IsExtension(used, U, a) ==
  /\ U \in Seq(UsedDynamic) /\ Len(used) \in Nat
  /\ DOMAIN used = 1 .. Len(used) /\ Len(U) = Len(used) + 1
  /\ DOMAIN U = 1 .. Len(used) + 1
  /\ \A i \in DOMAIN used :
       /\ i \in DOMAIN U /\ i # Len(used) + 1
       /\ U[i].allocation = used[i].allocation
       /\ U[i].suballocation = used[i].suballocation
  /\ Len(used) + 1 \in DOMAIN U
  /\ U[Len(used) + 1].allocation = a
  /\ U[Len(used) + 1].suballocation = 0
  /\ \A i \in DOMAIN U : i \in DOMAIN used \/ i = Len(used) + 1

LEMMA ExtendedFacts ==
  ASSUME NEW used \in Seq(UsedDynamic), NEW a \in Allocations
  PROVE  IsExtension(used, Extended(used, a), a)
<1> SUFFICES ASSUME NEW e, e = [allocation |-> a, suballocation |-> 0, latest |-> PushedLatest],
                    NEW t, t = Superseded(used), NEW U, U = Extended(used, a)
             PROVE  IsExtension(used, U, a)
  OBVIOUS
<1>1. e \in UsedDynamic /\ e.allocation = a /\ e.suballocation = 0
  BY DynamicAssumption DEF UsedDynamic, Subs, PushedLatest
<1>2. /\ t \in Seq(UsedDynamic) /\ Len(t) = Len(used)
      /\ Len(used) \in Nat /\ DOMAIN used = 1 .. Len(used)
      /\ \A i \in 1 .. Len(used) :
           /\ t[i].allocation = used[i].allocation
           /\ t[i].suballocation = used[i].suballocation
  BY SupersededFacts
<1>3. U = Append(t, e)
  BY DEF Extended
<1>4. /\ U \in Seq(UsedDynamic) /\ Len(U) = Len(used) + 1 /\ DOMAIN U = 1 .. Len(used) + 1
      /\ \A i \in 1 .. Len(used) : U[i] = t[i]
      /\ U[Len(used) + 1] = e
  BY <1>1, <1>2, <1>3, AppendTyped
<1>5. /\ \A i \in 1 .. Len(used) : i \in 1 .. Len(used) + 1 /\ i # Len(used) + 1
      /\ Len(used) + 1 \in 1 .. Len(used) + 1
      /\ \A i \in 1 .. Len(used) + 1 : i \in 1 .. Len(used) \/ i = Len(used) + 1
  BY <1>2
<1> QED BY <1>1, <1>2, <1>4, <1>5 DEF IsExtension

(* A discard of a deferred context that takes a new allocation.            *)
LEMMA DeferredNewAllocationStep ==
  ASSUME DynamicInv, NEW l \in Lists, DeferredMapDiscard(l),
         ~(cmdlist[l].used # <<>> /\ hasSuballocation(Recorded(l).suballocation + 1))
  PROVE  DynamicInv'
<1> SUFFICES ASSUME NEW ret, ret = allocate.ret, NEW slot, slot = <<ret, 0>>,
                    NEW used, used = cmdlist[l].used, NEW U, U = Extended(used, ret),
                    NEW f, f = allocate.fifo
             PROVE  DynamicInv'
  OBVIOUS
<1>1. /\ DynamicTypeOK /\ AllocationInOnePlace /\ AllocationsMade /\ ListsOK
      /\ EncoderAgreesWithName /\ MemoryKept /\ DrawsSeeTheirWrites
  BY DEF DynamicInv
<1>2. /\ cmdlist[l].state = "recording" /\ CanAllocate
      /\ writes < MaxWrites /\ writes' = NextWrite /\ Discarded(slot)
      /\ fifo' = f /\ allocated' = allocate.allocated
      /\ cmdlist' = [cmdlist EXCEPT ![l].used = U, ![l].value = {NextWrite}]
      /\ UNCHANGED <<kind, suballocation_count_, name_, name_suballocation_>>
      /\ UNCHANGED <<owned_by_command_list_, current, current_suballocation_>>
      /\ UNCHANGED <<value, uses, limits, ready_for_encode, cpu_coherent, finishing>>
  BY DEF DeferredMapDiscard, resource, timeVars, Extended
<1>3. /\ ret \in 1 .. allocated' /\ ret \in Allocations
      /\ allocated' \in Allocations /\ allocated <= allocated'
      /\ f \in Seq(QueueEntry) /\ Distinct(f)
      /\ ret # name_ /\ \A m \in Lists : ~UsedBy(m, ret)
      /\ ~FifoHas(f, ret)
      /\ \A i \in DOMAIN f : \E j \in DOMAIN fifo : f[i] = fifo[j]
      /\ \A a \in 1 .. allocated' :
           a # ret => a \in 1 .. allocated /\ (InFifo(a) => FifoHas(f, a))
      /\ \A a : FifoHas(f, a) => InFifo(a)
      /\ limits = {} => \A u \in uses : u.slot[1] # ret
  BY <1>2, AllocateFacts DEF Distinct
<1>4. /\ U \in Seq(UsedDynamic) /\ Len(used) \in Nat
      /\ DOMAIN used = 1 .. Len(used) /\ Len(U) = Len(used) + 1
      /\ DOMAIN U = 1 .. Len(used) + 1
      /\ \A i \in DOMAIN used :
           /\ i \in DOMAIN U /\ i # Len(used) + 1
           /\ U[i].allocation = used[i].allocation
           /\ U[i].suballocation = used[i].suballocation
      /\ Len(used) + 1 \in DOMAIN U
      /\ U[Len(used) + 1].allocation = ret
      /\ U[Len(used) + 1].suballocation = 0
      /\ \A i \in DOMAIN U : i \in DOMAIN used \/ i = Len(used) + 1
  <2>1. used \in Seq(UsedDynamic)
    BY <1>1, ListFacts
  <2>2. ret \in Allocations
    BY <1>3
  <2>3. IsExtension(used, U, ret)
    BY <2>1, <2>2, ExtendedFacts
  <2> QED BY <2>3 DEF IsExtension
<1>5. slot \in Slots
  BY <1>3, DynamicAssumption DEF Slots, Subs
<1>6. /\ content' \in [Slots -> SUBSET WriteIds]
      /\ NextWrite \in WriteIds /\ content'[slot] = {NextWrite}
      /\ \A s \in Slots : s # slot => content'[s] = content[s]
  BY <1>1, <1>2, <1>5, DiscardedContent
<1>7. /\ cmdlist' \in [Lists -> CommandList]
      /\ cmdlist'[l].state = "recording" /\ cmdlist'[l].used = U
      /\ cmdlist'[l].value = {NextWrite} /\ cmdlist'[l].draws = cmdlist[l].draws
      /\ \A m \in Lists : m # l => cmdlist'[m] = cmdlist[m]
  <2> HIDE DEF NextWrite
  <2>1. U \in Seq(UsedDynamic) /\ NextWrite \in WriteIds /\ cmdlist[l].state = "recording"
    BY <1>2, <1>4, <1>6
  <2>2. cmdlist' = [cmdlist EXCEPT ![l].used = U, ![l].value = {NextWrite}]
    BY <1>2
  <2>3. DynamicTypeOK
    BY <1>1
  <2> QED BY <2>1, <2>2, <2>3, RecordedList
<1>8. DynamicTypeOK'
  <2>1. writes' \in 0 .. MaxWrites
    BY <1>1, <1>2, DynamicNumbers DEF NextWrite
  <2>2. TimelineTypeOK'
    BY <1>1, <1>2 DEF DynamicTypeOK, TimelineTypeOK
  <2>3. name_' \in 1 .. allocated' /\ current' \in 1 .. allocated'
    BY <1>1, <1>2, <1>3, DynamicNumbers, SMTT(20) DEF Allocations
  <2>4. (/\ kind \in {"buffer", "linear"}
         /\ suballocation_count_ \in 1 .. Suballocations
         /\ name_suballocation_ \in 0 .. suballocation_count_ - 1
         /\ owned_by_command_list_ \in BOOLEAN
         /\ current_suballocation_ \in [Allocations -> Subs]
         /\ value \in SUBSET WriteIds
         /\ limits \subseteq {"forgotten", "reused", "stale"})'
    BY <1>1, <1>2 DEF DynamicTypeOK
  <2>5. (/\ uses \subseteq [slot : Slots, want : SUBSET WriteIds, seq : 1 .. MaxSeq]
         /\ \A u \in uses : u.seq \in cpu_coherent + 1 .. ready_for_encode /\ u.seq # finishing)'
    BY <1>1, <1>2 DEF DynamicTypeOK
  <2>6. (/\ fifo \in Seq(QueueEntry) /\ allocated \in Allocations
         /\ content \in [Slots -> SUBSET WriteIds] /\ cmdlist \in [Lists -> CommandList])'
    BY <1>2, <1>3, <1>6, <1>7
  <2> QED BY ONLY <2>1, <2>2, <2>3, <2>4, <2>5, <2>6 DEF DynamicTypeOK
<1>9. /\ \A a : InFifo(a)' <=> FifoHas(f, a)
      /\ \A a : IsName(a)' <=> IsName(a)
      /\ \A m \in Lists : \A a : m # l => (UsedBy(m, a)' <=> UsedBy(m, a))
  BY <1>2, <1>7 DEF InFifo, FifoHas, IsName, UsedBy
<1>10. ASSUME NEW a PROVE UsedBy(l, a)' <=> UsedBy(l, a) \/ a = ret
  <2>1. UsedBy(l, a)' => UsedBy(l, a) \/ a = ret
    BY <1>4, <1>7 DEF UsedBy
  <2>2. UsedBy(l, a) => UsedBy(l, a)'
    BY <1>4, <1>7 DEF UsedBy
  <2>3. a = ret => UsedBy(l, a)'
    BY <1>4, <1>7 DEF UsedBy
  <2> QED BY <2>1, <2>2, <2>3
<1>11. AllocationInOnePlace'
  <2>1. ASSUME NEW a \in 1 .. allocated'
        PROVE  InFifo(a)' \/ IsName(a)' \/ \E m \in Lists : UsedBy(m, a)'
    <3>1. CASE a = ret
      BY <1>10, <3>1
    <3>2. CASE a # ret
      BY <1>1, <1>3, <1>9, <1>10, <3>2 DEF AllocationInOnePlace
    <3> QED BY <3>1, <3>2
  <2>2. ASSUME NEW m \in Lists, NEW a, UsedBy(m, a)'
        PROVE  /\ ~InFifo(a)' /\ ~IsName(a)'
               /\ \A k \in Lists : UsedBy(k, a)' => m = k
    <3>1. CASE a = ret
      <4>1. \A k \in Lists : UsedBy(k, a)' => k = l
        BY <1>3, <1>9, <3>1
      <4> QED BY <1>3, <1>9, <2>2, <3>1, <4>1 DEF IsName
    <3>2. CASE a # ret
      <4>1. \A k \in Lists : UsedBy(k, a)' => UsedBy(k, a)
        BY <1>9, <1>10, <3>2
      <4> QED BY <1>3, <1>9, <2>2, <4>1, EntryFacts
    <3> QED BY <3>1, <3>2
  <2>3. \A i, j \in DOMAIN fifo' : fifo'[i].allocation = fifo'[j].allocation => i = j
    BY <1>2, <1>3 DEF Distinct
  <2>4. ASSUME NEW m \in Lists, NEW i \in DOMAIN cmdlist'[m].used,
               NEW j \in DOMAIN cmdlist'[m].used,
               cmdlist'[m].used[i].allocation = cmdlist'[m].used[j].allocation
        PROVE  i = j
    <3>1. CASE m # l
      BY <1>1, <1>7, <2>4, <3>1 DEF AllocationInOnePlace
    <3>2. CASE m = l
      <4>1. \A k \in DOMAIN used : used[k].allocation # ret
        BY <1>3 DEF UsedBy
      <4>2. i \in DOMAIN U /\ j \in DOMAIN U /\ U[i].allocation = U[j].allocation
        BY <1>7, <2>4, <3>2
      <4>3. CASE i \in DOMAIN used /\ j \in DOMAIN used
        <5>1. \A k, h \in DOMAIN used : used[k].allocation = used[h].allocation => k = h
          BY <1>1, Zenon DEF AllocationInOnePlace
        <5>2. used[i].allocation = used[j].allocation
          BY <1>4, <4>2, <4>3
        <5> QED BY ONLY <4>3, <5>1, <5>2
      <4> QED BY <1>4, <4>1, <4>2, <4>3
    <3> QED BY <3>1, <3>2
  <2>5. ~InFifo(name_)'
    <3>1. ~FifoHas(f, name_)
      BY <1>1, <1>3 DEF AllocationInOnePlace
    <3> QED BY <1>2, <3>1 DEF InFifo, FifoHas
  <2>6. ASSUME owned_by_command_list_ PROVE \E m \in Lists : UsedBy(m, name_)'
    <3>1. PICK m \in Lists : UsedBy(m, name_)
      BY <1>1, <2>6 DEF AllocationInOnePlace
    <3>2. CASE m = l
      <4>1. PICK i \in DOMAIN used : used[i].allocation = name_
        BY <3>1, <3>2 DEF UsedBy
      <4>2. i \in DOMAIN cmdlist'[l].used /\ cmdlist'[l].used[i].allocation = name_'
        BY <1>2, <1>4, <1>7, <4>1
      <4> QED BY <4>2 DEF UsedBy
    <3>3. CASE m # l
      BY <1>2, <1>7, <3>1, <3>3 DEF UsedBy
    <3> QED BY <3>2, <3>3
  <2>7. \A m, k \in Lists, a \in 1 .. allocated' : UsedBy(m, a)' /\ UsedBy(k, a)' => m = k
    BY <2>2
  <2>8. \A m \in Lists, a \in 1 .. allocated' : UsedBy(m, a)' => ~InFifo(a)' /\ ~IsName(a)'
    BY <2>2
  <2>9. owned_by_command_list_' => \E m \in Lists : UsedBy(m, name_)'
    BY <1>2, <2>6
  <2> QED BY <2>1, <2>3, <2>4, <2>5, <2>7, <2>8, <2>9 DEF AllocationInOnePlace
<1>12. AllocationsMade'
  <2>1. \A a \in Nat : a <= allocated => a <= allocated'
    BY <1>1, <1>3, DynamicNumbers DEF Allocations
  <2>2. ASSUME NEW i \in DOMAIN fifo' PROVE fifo'[i].allocation <= allocated'
    <3>1. PICK j \in DOMAIN fifo : fifo'[i] = fifo[j]
      BY <1>2, <1>3
    <3> QED BY <1>1, <2>1, <3>1, FifoTyped DEF AllocationsMade
  <2>3. ASSUME NEW m \in Lists, NEW i \in DOMAIN cmdlist[m].used
        PROVE  cmdlist[m].used[i].allocation <= allocated'
    <3>1. cmdlist[m].used[i].allocation \in Nat
      BY <1>1, ListFacts, UsedTyped
    <3> QED BY <1>1, <2>1, <3>1 DEF AllocationsMade
  <2>4. ret <= allocated'
    BY <1>3
  <2>5. ASSUME NEW m \in Lists, NEW i \in DOMAIN cmdlist'[m].used
        PROVE  cmdlist'[m].used[i].allocation <= allocated'
    <3>1. CASE m # l
      BY <1>7, <2>3, <2>5, <3>1
    <3>2. CASE m = l
      <4>1. i \in DOMAIN U /\ cmdlist'[m].used[i] = U[i]
        BY <1>7, <2>5, <3>2
      <4>2. CASE i \in DOMAIN used
        BY <1>4, <2>3, <4>1, <4>2
      <4>3. CASE i = Len(used) + 1
        BY <1>4, <2>4, <4>1, <4>3
      <4> QED BY <1>4, <4>1, <4>2, <4>3
    <3> QED BY <3>1, <3>2
  <2>6. \A u \in uses : u.slot[1] <= allocated'
    BY <1>1, <2>1, UseTyped DEF AllocationsMade
  <2> QED BY <1>2, <2>2, <2>5, <2>6 DEF AllocationsMade
<1>13. EncoderAgreesWithName'
  BY <1>1, <1>2 DEF EncoderAgreesWithName, CurrentSlot
<1>14. ListsOK'
  <2> SUFFICES ASSUME NEW m \in Lists PROVE ListOK(m)'
    BY DEF ListsOK
  <2>1. ListOK(m)
    BY <1>1 DEF ListsOK
  <2>2. CASE m # l
    BY <1>2, <1>7, <2>1, <2>2 DEF ListOK, Executable, UsedBy
  <2>3. CASE m = l
    <3>1. ~UsedBy(l, name_)'
      <4>1. ~UsedBy(l, name_)
        BY <1>2, <2>1, <2>3 DEF ListOK
      <4>2. \A i \in DOMAIN U : U[i].allocation # name_
        BY <1>3, <1>4, <4>1 DEF UsedBy
      <4> QED BY <1>2, <1>7, <4>2 DEF UsedBy
    <3>2. \A i \in DOMAIN U : U[i].suballocation < suballocation_count_
      <4>1. \A i \in DOMAIN used : used[i].suballocation < suballocation_count_
        BY <2>1, <2>3 DEF ListOK
      <4>2. 0 < suballocation_count_
        BY <1>1, DynamicNumbers
      <4> QED BY <1>4, <4>1, <4>2
    <3>3. ASSUME NEW d \in cmdlist[l].draws
          PROVE  \E i \in DOMAIN U :
                   d.slot[1] = U[i].allocation /\ d.slot[2] <= U[i].suballocation
      <4>1. PICK i \in DOMAIN used :
              d.slot[1] = used[i].allocation /\ d.slot[2] <= used[i].suballocation
        BY <1>2, <2>1, <2>3, <3>3 DEF ListOK, Executable
      <4> QED BY <1>4, <4>1
    <3> QED BY <1>2, <1>7, <2>3, <3>1, <3>2, <3>3 DEF ListOK, Executable
  <2> QED BY <2>2, <2>3
<1>15. ASSUME limits = {}, NEW u \in uses PROVE Unread(u)'
  <2>1. Unread(u) /\ u.slot[1] # ret
    BY <1>1, <1>3, <1>15 DEF MemoryKept
  <2>2. ASSUME NEW m \in Lists, cmdlist'[m].state = "recording" PROVE ~UsedBy(m, u.slot[1])'
    <3>1. cmdlist[m].state = "recording"
      BY <1>2, <1>7, <2>2
    <3> QED BY <1>9, <1>10, <2>1, <3>1 DEF Unread
  <2>3. ASSUME NEW i \in DOMAIN fifo', u.slot[1] = fifo'[i].allocation
        PROVE  u.seq <= fifo'[i].will_free_at
    <3>1. PICK j \in DOMAIN fifo : fifo'[i] = fifo[j]
      BY <1>2, <1>3, <2>3
    <3> QED BY <2>1, <2>3, <3>1 DEF Unread
  <2> QED BY <1>2, <2>1, <2>2, <2>3 DEF Unread
<1>16. MemoryKept'
  <2> SUFFICES ASSUME limits = {} PROVE LatestStored' /\ \A u \in uses : Unread(u)'
    BY <1>2 DEF MemoryKept
  <2>1. LatestStored
    BY <1>1 DEF MemoryKept
  <2>2. value' \subseteq content'[<<name_', name_suballocation_'>>]
    <3>1. <<name_, name_suballocation_>> \in Slots /\ <<name_, name_suballocation_>> # slot
      BY <1>1, <1>3, DynamicNumbers DEF Slots
    <3> QED BY <1>2, <1>6, <2>1, <3>1 DEF LatestStored
  <2>3. ASSUME NEW m \in Lists, Executable(m)', cmdlist'[m].used # <<>>
        PROVE  cmdlist'[m].value \subseteq content'[RecordedSlot(m)']
    <3>1. CASE m # l
      <4>1. Executable(m) /\ cmdlist[m].used # <<>> /\ RecordedSlot(m)' = RecordedSlot(m)
        BY <1>7, <2>3, <3>1 DEF Executable, RecordedSlot, Recorded
      <4>2. RecordedSlot(m) \in Slots /\ RecordedSlot(m) # slot
        BY <1>1, <1>3, <4>1, RecordedFacts
      <4> QED BY <1>6, <1>7, <2>1, <3>1, <4>1, <4>2 DEF LatestStored
    <3>2. CASE m = l
      <4>1. Recorded(l)' = U[Len(used) + 1]
        BY <1>4, <1>7 DEF Recorded, Last
      <4>2. RecordedSlot(l)' = slot
        BY <1>4, <4>1 DEF RecordedSlot
      <4> QED BY <1>6, <1>7, <3>2, <4>2
    <3> QED BY <3>1, <3>2
  <2> QED BY <1>15, <2>2, <2>3 DEF LatestStored
<1>17. DrawsSeeTheirWrites'
  <2> SUFFICES ASSUME limits = {}
               PROVE  /\ \A u \in uses : u.want \subseteq content'[u.slot]
                      /\ \A m \in Lists : cmdlist'[m].state \in {"recording", "finished"} =>
                           \A d \in cmdlist'[m].draws : d.want \subseteq content'[d.slot]
    BY <1>2 DEF DrawsSeeTheirWrites
  <2>1. \A u \in uses : u.slot \in Slots /\ u.slot # slot
    BY <1>1, <1>3, UseTyped
  <2>2. ASSUME NEW m \in Lists, cmdlist'[m].state \in {"recording", "finished"},
               NEW d \in cmdlist'[m].draws
        PROVE  d.want \subseteq content'[d.slot]
    <3>1. Executable(m) /\ d \in cmdlist[m].draws
      BY <1>2, <1>7, <2>2 DEF Executable
    <3>2. d.want \subseteq content[d.slot]
      BY <1>1, <3>1 DEF DrawsSeeTheirWrites, Executable
    <3>3. d.slot \in Slots /\ d.slot # slot
      BY <1>3, <3>1, BelowName
    <3> QED BY <1>6, <3>2, <3>3
  <2> QED BY <1>1, <1>6, <2>1, <2>2 DEF DrawsSeeTheirWrites
<1> QED BY <1>8, <1>11, <1>12, <1>13, <1>14, <1>16, <1>17 DEF DynamicInv

LEMMA DeferredMapDiscardStep ==
  ASSUME DynamicInv, NEW l \in Lists, DeferredMapDiscard(l) PROVE DynamicInv'
BY DeferredNextSuballocationStep, DeferredNewAllocationStep

(* Executing a list: its commands are encoded with the current chunk.      *)
LEMMA ExecutedLists ==
  ASSUME DynamicTypeOK, NEW l \in Lists, ExecuteCommandList(l)
  PROVE  /\ cmdlist' \in [Lists -> CommandList]
         /\ \A m \in Lists :
              /\ cmdlist'[m].state = cmdlist[m].state /\ cmdlist'[m].used = cmdlist[m].used
              /\ cmdlist'[m].draws = cmdlist[m].draws /\ cmdlist'[m].value = cmdlist[m].value
              /\ cmdlist'[m].current_seq_id = cmdlist[m].current_seq_id
<1> DEFINE c == [cmdlist[l] EXCEPT !.chunks = cmdlist[l].chunks \cup {ready_for_encode}]
<1>1. cmdlist \in [Lists -> CommandList] /\ cmdlist[l] \in CommandList
      /\ cmdlist[l].chunks \in SUBSET (1 .. MaxSeq) /\ ready_for_encode \in 1 .. MaxSeq
  <2>1. cmdlist \in [Lists -> CommandList] /\ cmdlist[l] \in CommandList
    BY DEF DynamicTypeOK
  <2> QED BY <2>1, ListTyped, DynamicNumbers
<1>2. cmdlist' = [cmdlist EXCEPT ![l] = c]
  BY <1>1 DEF ExecuteCommandList, CommandList, CurrentSeqId
<1>3. /\ c \in CommandList /\ c.state = cmdlist[l].state /\ c.used = cmdlist[l].used
      /\ c.draws = cmdlist[l].draws /\ c.value = cmdlist[l].value
      /\ c.current_seq_id = cmdlist[l].current_seq_id
  BY <1>1 DEF CommandList
<1> HIDE DEF c
<1> QED BY <1>1, <1>2, <1>3

(* The reads it adds: of entries of the list, or of the encoder's slot.    *)
LEMMA ExecutedReads ==
  ASSUME DynamicInv, NEW l \in Lists, ExecuteCommandList(l), NEW u \in uses', u \notin uses
  PROVE  /\ u \in [slot: Slots, want: SUBSET WriteIds, seq: 1 .. MaxSeq]
         /\ u.seq \in cpu_coherent + 1 .. ready_for_encode /\ u.seq # finishing
         /\ u.slot[1] <= allocated
         /\ limits = {} => /\ u.want \subseteq content[u.slot]
                           /\ u.slot[1] = name_ \/ UsedBy(l, u.slot[1])
<1> DEFINE enc == [slot |-> CurrentSlot, want |-> value]
<1>1. /\ DynamicTypeOK /\ ListOK(l) /\ DrawsSeeTheirWrites
      /\ cmdlist[l].state = "finished" /\ Executable(l)
  BY DEF DynamicInv, ListsOK, ExecuteCommandList, Executable
<1>2. PICK d \in cmdlist[l].draws \cup {enc} : u = Use(d)
  BY DEF ExecuteCommandList
<1>3. CASE d \in cmdlist[l].draws
  <2>1. d \in Draw
    BY <1>1, <1>3, ListFacts
  <2>2. UsedBy(l, d.slot[1])
    BY <1>1, <1>3, BelowName
  <2>3. d.slot[1] <= allocated
    <3>1. d.slot[1] \in 1 .. allocated
      BY <2>2, EntryFacts
    <3> QED BY <3>1
  <2>4. limits = {} => d.want \subseteq content[d.slot]
    BY <1>1, <1>3 DEF DrawsSeeTheirWrites
  <2> QED BY <1>1, <1>2, <2>1, <2>2, <2>3, <2>4, UseFacts
<1>4. CASE d = enc
  <2>1. /\ d \in Draw /\ d.slot[1] <= allocated
        /\ limits = {} => /\ d.slot = <<name_, name_suballocation_>>
                          /\ d.want \subseteq content[d.slot]
    BY <1>4, InheritedFacts
  <2>2. limits = {} => d.slot[1] = name_
    BY <2>1
  <2> QED BY <1>1, <1>2, <2>1, <2>2, UseFacts
<1> QED BY <1>2, <1>3, <1>4

(* A list that never mapped the resource.                                  *)
LEMMA ExecuteUnmappedStep ==
  ASSUME DynamicInv, NEW l \in Lists, ExecuteCommandList(l), cmdlist[l].used = <<>>
  PROVE  DynamicInv'
<1> SUFFICES ASSUME NEW D, D = cmdlist[l].draws \cup
                               (IF cmdlist[l].inherits
                                  THEN {[slot |-> CurrentSlot, want |-> value]} ELSE {})
             PROVE  DynamicInv'
  OBVIOUS
<1>1. DynamicTypeOK /\ ListOK(l) /\ Executable(l)
  BY DEF DynamicInv, ListsOK, ExecuteCommandList, Executable
<1>2. cmdlist[l].draws = {}
  BY <1>1 DEF ListOK
<1>3. D \subseteq {[slot |-> CurrentSlot, want |-> value]}
  BY <1>2
<1>4. uses' = uses \cup {Use(d) : d \in D}
  BY DEF ExecuteCommandList
<1>5. /\ UNCHANGED <<resource, fifo, name_, name_suballocation_, owned_by_command_list_>>
      /\ UNCHANGED <<allocated, current, current_suballocation_, content, value, writes>>
      /\ UNCHANGED <<limits, timeVars>>
  BY DEF ExecuteCommandList, resource, timeVars
<1>6. /\ cmdlist' \in [Lists -> CommandList]
      /\ \A m \in Lists :
           /\ cmdlist'[m].state = cmdlist[m].state /\ cmdlist'[m].used = cmdlist[m].used
           /\ cmdlist'[m].draws = cmdlist[m].draws /\ cmdlist'[m].value = cmdlist[m].value
           /\ cmdlist'[m].current_seq_id = cmdlist[m].current_seq_id
  BY <1>1, ExecutedLists
<1> QED BY <1>3, <1>4, <1>5, <1>6, ReadStep

(* The encoder's suballocations after the list.                            *)
LEMMA EncodedFacts ==
  ASSUME DynamicInv, NEW l \in Lists, cmdlist[l].used # <<>>
  PROVE  /\ EncodedSubs(l) \in [Allocations -> Subs]
         /\ EncodedSubs(l)[Recorded(l).allocation] = Recorded(l).suballocation
<1>1. DynamicTypeOK /\ AllocationInOnePlace
  BY DEF DynamicInv
<1>2. current_suballocation_ \in [Allocations -> Subs]
  BY <1>1 DEF DynamicTypeOK
<1>3. /\ Len(cmdlist[l].used) \in DOMAIN cmdlist[l].used
      /\ Recorded(l) = cmdlist[l].used[Len(cmdlist[l].used)]
      /\ Recorded(l).allocation \in Allocations
  BY <1>1, RecordedFacts
<1>4. \A i \in DOMAIN cmdlist[l].used : cmdlist[l].used[i].suballocation \in Subs
  BY <1>1, ListFacts, UsedTyped
<1>5. \A i, j \in DOMAIN cmdlist[l].used :
        cmdlist[l].used[i].allocation = cmdlist[l].used[j].allocation => i = j
  BY <1>1 DEF AllocationInOnePlace
<1>6. EncodedSubs(l) \in [Allocations -> Subs]
  BY <1>2, <1>4 DEF EncodedSubs
<1>7. ASSUME NEW i, i = CHOOSE k \in DOMAIN cmdlist[l].used :
                          cmdlist[l].used[k].allocation = Recorded(l).allocation
      PROVE  i = Len(cmdlist[l].used)
  <2>1. i \in DOMAIN cmdlist[l].used /\ cmdlist[l].used[i].allocation = Recorded(l).allocation
    BY <1>3, <1>7
  <2> QED BY <1>3, <1>5, <2>1
<1> QED BY <1>3, <1>6, <1>7 DEF EncodedSubs

(* What both executions of a list that mapped the resource leave in order. *)
LEMMA ExecutedTyped ==
  ASSUME DynamicInv, NEW l \in Lists, ExecuteCommandList(l), cmdlist[l].used # <<>>
  PROVE  /\ uses' \subseteq [slot: Slots, want: SUBSET WriteIds, seq: 1 .. MaxSeq]
         /\ \A u \in uses' : /\ u.seq \in cpu_coherent' + 1 .. ready_for_encode'
                             /\ u.seq # finishing' /\ u.slot[1] <= allocated
         /\ current' \in 1 .. allocated' /\ current_suballocation_' \in [Allocations -> Subs]
         /\ value' \in SUBSET WriteIds /\ cmdlist' \in [Lists -> CommandList]
         /\ limits' \subseteq {"forgotten", "reused", "stale"}
         /\ TimelineTypeOK'
         /\ UNCHANGED <<kind, suballocation_count_, allocated, content, writes>>
<1>1. DynamicTypeOK /\ AllocationsMade
  BY DEF DynamicInv
<1>2. /\ current' = Recorded(l).allocation /\ current_suballocation_' = EncodedSubs(l)
      /\ value' = cmdlist[l].value
      /\ UNCHANGED <<kind, suballocation_count_, allocated, content, writes>>
      /\ UNCHANGED <<ready_for_encode, cpu_coherent, finishing>>
  BY DEF ExecuteCommandList, resource, timeVars
<1>3. current' \in 1 .. allocated'
  <2>1. UsedBy(l, Recorded(l).allocation)
    BY <1>1, RecordedFacts
  <2>2. Recorded(l).allocation \in 1 .. allocated
    BY <2>1, EntryFacts
  <2> QED BY <1>2, <2>2
<1>4. current_suballocation_' \in [Allocations -> Subs]
  BY <1>2, EncodedFacts
<1>5. value' \in SUBSET WriteIds
  BY <1>1, <1>2, ListFacts
<1>6. cmdlist' \in [Lists -> CommandList]
  BY <1>1, ExecutedLists
<1>7. limits' \subseteq {"forgotten", "reused", "stale"}
  <2>1. limits' = limits \cup (IF Recorded(l).latest THEN {} ELSE {"forgotten"})
                         \cup (IF StartsOver(l, uses') THEN {"reused"} ELSE {})
    BY DEF ExecuteCommandList
  <2>2. limits \subseteq {"forgotten", "reused", "stale"}
    BY <1>1 DEF DynamicTypeOK
  <2> QED BY <2>1, <2>2
<1>8. TimelineTypeOK'
  BY <1>1, <1>2 DEF DynamicTypeOK, TimelineTypeOK
<1>9. ASSUME NEW u \in uses'
      PROVE  /\ u \in [slot: Slots, want: SUBSET WriteIds, seq: 1 .. MaxSeq]
             /\ u.seq \in cpu_coherent + 1 .. ready_for_encode /\ u.seq # finishing
             /\ u.slot[1] <= allocated
  <2>1. CASE u \in uses
    BY <1>1, <2>1 DEF DynamicTypeOK, AllocationsMade
  <2>2. CASE u \notin uses
    BY <2>2, ExecutedReads
  <2> QED BY <2>1, <2>2
<1> QED BY <1>2, <1>3, <1>4, <1>5, <1>6, <1>7, <1>8, <1>9

(* A list whose last entry is not marked latest: the name does not follow. *)
LEMMA ExecuteForgottenStep ==
  ASSUME DynamicInv, NEW l \in Lists, ExecuteCommandList(l), cmdlist[l].used # <<>>,
         ~Recorded(l).latest
  PROVE  DynamicInv'
<1>1. DynamicTypeOK /\ AllocationInOnePlace /\ AllocationsMade /\ ListsOK
  BY DEF DynamicInv
<1>2. /\ uses' \subseteq [slot: Slots, want: SUBSET WriteIds, seq: 1 .. MaxSeq]
      /\ \A u \in uses' : /\ u.seq \in cpu_coherent' + 1 .. ready_for_encode'
                          /\ u.seq # finishing' /\ u.slot[1] <= allocated
      /\ current' \in 1 .. allocated' /\ current_suballocation_' \in [Allocations -> Subs]
      /\ value' \in SUBSET WriteIds /\ cmdlist' \in [Lists -> CommandList]
      /\ limits' \subseteq {"forgotten", "reused", "stale"}
      /\ TimelineTypeOK'
      /\ UNCHANGED <<kind, suballocation_count_, allocated, content, writes>>
  BY ExecutedTyped
<1>3. /\ UNCHANGED <<fifo, name_, name_suballocation_, owned_by_command_list_>>
      /\ "forgotten" \in limits'
  BY DEF ExecuteCommandList
<1>4. \A m \in Lists :
        /\ cmdlist'[m].state = cmdlist[m].state /\ cmdlist'[m].used = cmdlist[m].used
        /\ cmdlist'[m].draws = cmdlist[m].draws
        /\ cmdlist'[m].current_seq_id = cmdlist[m].current_seq_id
  BY <1>1, ExecutedLists
<1>5. DynamicTypeOK'
  BY <1>1, <1>2, <1>3 DEF DynamicTypeOK
<1>6. AllocationInOnePlace'
  BY <1>1, <1>2, <1>3, <1>4, SamePlaces
<1>7. AllocationsMade'
  BY <1>1, <1>2, <1>3, <1>4 DEF AllocationsMade
<1>8. ListsOK'
  BY <1>1, <1>2, <1>3, <1>4 DEF ListsOK, ListOK, Executable, UsedBy
<1>9. EncoderAgreesWithName' /\ MemoryKept' /\ DrawsSeeTheirWrites'
  BY <1>3 DEF EncoderAgreesWithName, MemoryKept, DrawsSeeTheirWrites
<1> QED BY <1>5, <1>6, <1>7, <1>8, <1>9 DEF DynamicInv

(* A list whose last entry becomes the immediate name.                     *)
LEMMA ExecuteLatestStep ==
  ASSUME DynamicInv, NEW l \in Lists, ExecuteCommandList(l), cmdlist[l].used # <<>>,
         Recorded(l).latest
  PROVE  DynamicInv'
<1> SUFFICES ASSUME NEW a, a = Recorded(l).allocation, NEW n, n = Recorded(l).suballocation,
                    NEW used, used = cmdlist[l].used
             PROVE  DynamicInv'
  OBVIOUS
<1>1. /\ DynamicTypeOK /\ AllocationInOnePlace /\ AllocationsMade /\ ListsOK
      /\ MemoryKept /\ DrawsSeeTheirWrites
  BY DEF DynamicInv
<1>2. /\ uses' \subseteq [slot: Slots, want: SUBSET WriteIds, seq: 1 .. MaxSeq]
      /\ \A u \in uses' : /\ u.seq \in cpu_coherent' + 1 .. ready_for_encode'
                          /\ u.seq # finishing' /\ u.slot[1] <= allocated
      /\ current' \in 1 .. allocated' /\ current_suballocation_' \in [Allocations -> Subs]
      /\ value' \in SUBSET WriteIds /\ cmdlist' \in [Lists -> CommandList]
      /\ limits' \subseteq {"forgotten", "reused", "stale"}
      /\ TimelineTypeOK'
      /\ UNCHANGED <<kind, suballocation_count_, allocated, content, writes>>
  BY ExecutedTyped
<1>3. /\ cmdlist[l].state = "finished" /\ fifo' = Pushed(fifo)
      /\ name_' = a /\ name_suballocation_' = n /\ owned_by_command_list_' = TRUE
      /\ current' = a /\ current_suballocation_' = EncodedSubs(l)
      /\ value' = cmdlist[l].value
      /\ UNCHANGED <<ready_for_encode, cpu_coherent>>
  BY DEF ExecuteCommandList, updateImmediateName, Pushed, CurrentSeqId, timeVars
<1>4. limits' = {} => limits = {} /\ ~StartsOver(l, uses')
  <2>1. limits' = limits \cup {} \cup (IF StartsOver(l, uses') THEN {"reused"} ELSE {})
    BY DEF ExecuteCommandList
  <2> QED BY <2>1
<1>5. \A m \in Lists :
        /\ cmdlist'[m].state = cmdlist[m].state /\ cmdlist'[m].used = cmdlist[m].used
        /\ cmdlist'[m].draws = cmdlist[m].draws /\ cmdlist'[m].value = cmdlist[m].value
        /\ cmdlist'[m].current_seq_id = cmdlist[m].current_seq_id
  BY <1>1, ExecutedLists
<1>6. /\ Len(used) \in DOMAIN used /\ Recorded(l) = used[Len(used)]
      /\ UsedBy(l, a) /\ a \in Allocations /\ n \in Nat
      /\ RecordedSlot(l) = <<a, n>>
  BY <1>1, RecordedFacts
<1>7. /\ a \in 1 .. allocated /\ ~InFifo(a) /\ ~IsName(a)
      /\ \A m \in Lists : UsedBy(m, a) => m = l
  BY <1>6, EntryFacts
<1>8. /\ fifo \in Seq(QueueEntry) /\ Distinct(fifo) /\ ~FifoHas(fifo, name_)
      /\ \A b : FifoHas(fifo, b) <=> InFifo(b)
  BY <1>1 DEF DynamicTypeOK, AllocationInOnePlace, Distinct, FifoHas, InFifo
<1>9. /\ fifo' \in Seq(QueueEntry) /\ Distinct(fifo')
      /\ \A b : FifoHas(fifo', b) <=> InFifo(b) \/ IsName(b)
      /\ \A i \in DOMAIN fifo' :
           \/ i \in DOMAIN fifo /\ fifo'[i] = fifo[i]
           \/ fifo'[i].allocation = name_ /\ fifo'[i].will_free_at = ready_for_encode
  BY <1>1, <1>3, <1>8, PushedFacts
<1>10. n < suballocation_count_
  BY <1>1, <1>6 DEF ListsOK, ListOK
<1>11. DynamicTypeOK'
  <2>1. name_suballocation_' \in 0 .. suballocation_count_' - 1
    <3>1. n \in Nat /\ n < suballocation_count_ /\ suballocation_count_ \in Nat
      BY <1>1, <1>6, <1>10, DynamicNumbers
    <3>2. n \in 0 .. suballocation_count_ - 1
      BY <3>1
    <3> QED BY <1>2, <1>3, <3>2
  <2>2. name_' \in 1 .. allocated' /\ owned_by_command_list_' \in BOOLEAN
    BY <1>2, <1>3, <1>7
  <2> QED BY <1>1, <1>2, <1>9, <2>1, <2>2 DEF DynamicTypeOK
<1>12. /\ \A b : InFifo(b)' <=> InFifo(b) \/ IsName(b)
       /\ \A b : ~IsName(b)'
       /\ \A m \in Lists : \A b : UsedBy(m, b)' <=> UsedBy(m, b)
  <2>1. \A b : InFifo(b)' <=> FifoHas(fifo', b)
    BY DEF InFifo, FifoHas
  <2> QED BY <1>3, <1>5, <1>9, <2>1 DEF IsName, UsedBy
<1>13. AllocationInOnePlace'
  <2>1. \A b \in 1 .. allocated' : InFifo(b)' \/ IsName(b)' \/ \E m \in Lists : UsedBy(m, b)'
    BY <1>1, <1>2, <1>12 DEF AllocationInOnePlace
  <2>2. \A m, k \in Lists, b \in 1 .. allocated' : UsedBy(m, b)' /\ UsedBy(k, b)' => m = k
    BY <1>12, EntryFacts
  <2>3. \A m \in Lists, b \in 1 .. allocated' : UsedBy(m, b)' => ~InFifo(b)' /\ ~IsName(b)'
    BY <1>12, EntryFacts
  <2>4. /\ \A i, j \in DOMAIN fifo' : fifo'[i].allocation = fifo'[j].allocation => i = j
        /\ \A m \in Lists : \A i, j \in DOMAIN cmdlist'[m].used :
             cmdlist'[m].used[i].allocation = cmdlist'[m].used[j].allocation => i = j
    BY <1>1, <1>5, <1>9 DEF AllocationInOnePlace, Distinct
  <2>5. ~InFifo(name_)'
    <3>1. ~FifoHas(fifo', a)
      BY <1>7, <1>9
    <3> QED BY <1>3, <3>1 DEF InFifo, FifoHas
  <2>6. UsedBy(l, name_)'
    BY <1>3, <1>5, <1>6 DEF UsedBy
  <2>7. owned_by_command_list_' => \E m \in Lists : UsedBy(m, name_)'
    BY <2>6
  <2> QED BY <2>1, <2>2, <2>3, <2>4, <2>5, <2>7 DEF AllocationInOnePlace
<1>14. AllocationsMade'
  <2>1. ASSUME NEW i \in DOMAIN fifo' PROVE fifo'[i].allocation <= allocated'
    <3>1. CASE i \in DOMAIN fifo /\ fifo'[i] = fifo[i]
      BY <1>1, <1>2, <3>1 DEF AllocationsMade
    <3>2. CASE fifo'[i].allocation = name_
      BY <1>1, <1>2, <3>2, DynamicNumbers
    <3> QED BY <1>9, <2>1, <3>1, <3>2
  <2> QED BY <1>1, <1>2, <1>5, <2>1 DEF AllocationsMade
<1>15. EncoderAgreesWithName'
  BY <1>3, <1>6, EncodedFacts DEF EncoderAgreesWithName, CurrentSlot
<1>16. ListsOK'
  <2> SUFFICES ASSUME NEW m \in Lists PROVE ListOK(m)'
    BY DEF ListsOK
  <2>1. ListOK(m)
    BY <1>1 DEF ListsOK
  <2>2. cmdlist[m].state = "recording" => ~UsedBy(m, name_)'
    <3>1. cmdlist[m].state = "recording" => ~UsedBy(m, a)
      BY <1>3, <1>7
    <3> QED BY <1>3, <1>5, <3>1 DEF UsedBy
  <2>3. ASSUME NEW i \in DOMAIN cmdlist[m].used, cmdlist[m].used[i].allocation = a
        PROVE  cmdlist[m].used[i].suballocation <= n
    <3>1. m = l
      BY <1>7, <2>3 DEF UsedBy
    <3>2. i = Len(used)
      BY <1>1, <1>6, <2>3, <3>1 DEF AllocationInOnePlace
    <3> QED BY <1>6, <3>1, <3>2
  <2> QED BY <1>2, <1>3, <1>5, <2>1, <2>2, <2>3 DEF ListOK, Executable
<1>17. ASSUME limits' = {}, NEW u \in uses' PROVE Unread(u)'
  <2>1. limits = {} /\ ~StartsOver(l, uses')
    BY <1>4, <1>17
  <2>2. u.slot[1] = a => u.slot[2] <= n
    <3>1. u.slot[2] \in Nat
      <4>1. u.slot \in Slots
        BY <1>2
      <4> QED BY <4>1, DynamicAssumption DEF Slots, Subs
    <3>2. u.slot[1] = a => ~(u.slot[2] > n)
      BY <2>1 DEF StartsOver
    <3> QED BY <1>6, <3>1, <3>2
  <2>3. /\ \A i \in DOMAIN fifo : u.slot[1] = fifo[i].allocation => u.seq <= fifo[i].will_free_at
        /\ \A m \in Lists : cmdlist[m].state = "recording" => ~UsedBy(m, u.slot[1])
    <3>1. CASE u \in uses
      BY <1>1, <2>1, <3>1 DEF MemoryKept, Unread
    <3>2. CASE u \notin uses
      <4>1. u.slot[1] = name_ \/ UsedBy(l, u.slot[1])
        BY <2>1, <3>2, ExecutedReads
      <4>2. CASE u.slot[1] = name_
        <5>1. ~InFifo(name_) /\ \A m \in Lists : cmdlist[m].state = "recording" => ~UsedBy(m, name_)
          BY <1>1 DEF AllocationInOnePlace, ListsOK, ListOK
        <5> QED BY <4>2, <5>1 DEF InFifo
      <4>3. CASE UsedBy(l, u.slot[1])
        <5>1. ~InFifo(u.slot[1]) /\ \A m \in Lists : UsedBy(m, u.slot[1]) => m = l
          BY <4>3, EntryFacts
        <5> QED BY <1>3, <5>1 DEF InFifo
      <4> QED BY <4>1, <4>2, <4>3
    <3> QED BY <3>1, <3>2
  <2>4. ASSUME NEW i \in DOMAIN fifo', u.slot[1] = fifo'[i].allocation
        PROVE  u.seq <= fifo'[i].will_free_at
    <3>1. CASE i \in DOMAIN fifo /\ fifo'[i] = fifo[i]
      BY <2>3, <2>4, <3>1
    <3>2. CASE fifo'[i].will_free_at = ready_for_encode
      BY <1>2, <1>3, <3>2
    <3> QED BY <1>9, <2>4, <3>1, <3>2
  <2>5. \A m \in Lists : cmdlist'[m].state = "recording" => ~UsedBy(m, u.slot[1])'
    BY <1>5, <1>12, <2>3
  <2> QED BY <1>3, <2>2, <2>4, <2>5 DEF Unread
<1>18. MemoryKept'
  <2> SUFFICES ASSUME limits' = {} PROVE LatestStored' /\ \A u \in uses' : Unread(u)'
    BY DEF MemoryKept
  <2>1. LatestStored
    BY <1>1, <1>4 DEF MemoryKept
  <2>2. value' \subseteq content'[<<name_', name_suballocation_'>>]
    BY <1>2, <1>3, <1>6, <2>1 DEF LatestStored, Executable
  <2>3. LatestStored'
    BY <1>2, <1>5, <2>1, <2>2 DEF LatestStored, Executable, RecordedSlot, Recorded
  <2> QED BY <1>17, <2>3
<1>19. DrawsSeeTheirWrites'
  <2> SUFFICES ASSUME limits' = {}
               PROVE  /\ \A u \in uses' : u.want \subseteq content[u.slot]
                      /\ \A m \in Lists : cmdlist[m].state \in {"recording", "finished"} =>
                           \A d \in cmdlist[m].draws : d.want \subseteq content[d.slot]
    BY <1>2, <1>5 DEF DrawsSeeTheirWrites
  <2>1. limits = {}
    BY <1>4
  <2>2. ASSUME NEW u \in uses' PROVE u.want \subseteq content[u.slot]
    <3>1. CASE u \in uses
      BY <1>1, <2>1, <3>1 DEF DrawsSeeTheirWrites
    <3>2. CASE u \notin uses
      BY <2>1, <3>2, ExecutedReads
    <3> QED BY <3>1, <3>2
  <2> QED BY <1>1, <2>1, <2>2 DEF DrawsSeeTheirWrites
<1> QED BY <1>11, <1>13, <1>14, <1>15, <1>16, <1>18, <1>19 DEF DynamicInv

LEMMA ExecuteCommandListStep ==
  ASSUME DynamicInv, NEW l \in Lists, ExecuteCommandList(l) PROVE DynamicInv'
BY ExecuteUnmappedStep, ExecuteForgottenStep, ExecuteLatestStep

(* Reset() recycles the last entry of a list.                              *)
LEMMA ResetEntryStep ==
  ASSUME DynamicInv, NEW l \in Lists, ResetEntry(l) PROVE DynamicInv'
<1> SUFFICES ASSUME NEW a, a = Recorded(l).allocation, NEW q, q = cmdlist[l].current_seq_id,
                    NEW used, used = cmdlist[l].used
             PROVE  DynamicInv'
  OBVIOUS
<1>1. /\ DynamicTypeOK /\ AllocationInOnePlace /\ AllocationsMade /\ ListsOK
      /\ EncoderAgreesWithName /\ MemoryKept /\ DrawsSeeTheirWrites
  BY DEF DynamicInv
<1>2. /\ cmdlist[l].state = "resetting" /\ used # <<>> /\ recycle(q, a)
      /\ cmdlist' = [cmdlist EXCEPT ![l].used = Front(used)]
      /\ UNCHANGED <<kind, suballocation_count_, name_, name_suballocation_>>
      /\ UNCHANGED <<allocated, current, current_suballocation_, content, value, writes>>
      /\ UNCHANGED <<uses, ready_for_encode, cpu_coherent, finishing>>
  BY DEF ResetEntry, resource, timeVars
<1>3. /\ Len(used) \in DOMAIN used /\ Recorded(l) = used[Len(used)]
      /\ UsedBy(l, a) /\ a \in Allocations /\ used \in Seq(UsedDynamic)
  BY <1>1, <1>2, RecordedFacts, ListFacts
<1>4. /\ a \in 1 .. allocated /\ ~InFifo(a) /\ ~IsName(a)
      /\ \A m \in Lists : UsedBy(m, a) => m = l
  BY <1>3, EntryFacts
<1>5. /\ Front(used) \in Seq(UsedDynamic) /\ Len(used) \in Nat /\ Len(used) >= 1
      /\ DOMAIN used = 1 .. Len(used) /\ DOMAIN Front(used) = 1 .. Len(used) - 1
      /\ \A i \in 1 .. Len(used) - 1 : Front(used)[i] = used[i]
  BY <1>2, <1>3, FrontFacts
<1>6. \A i : i \in DOMAIN Front(used) <=> i \in DOMAIN used /\ i # Len(used)
  BY <1>5
<1>7. /\ cmdlist' \in [Lists -> CommandList]
      /\ cmdlist'[l].state = "resetting" /\ cmdlist'[l].used = Front(used)
      /\ cmdlist'[l].current_seq_id = q
      /\ \A m \in Lists : m # l => cmdlist'[m] = cmdlist[m]
  <2> DEFINE c == [cmdlist[l] EXCEPT !.used = Front(used)]
  <2>1. cmdlist \in [Lists -> CommandList] /\ cmdlist[l] \in CommandList
    BY <1>1 DEF DynamicTypeOK
  <2>2. cmdlist' = [cmdlist EXCEPT ![l] = c]
    BY <1>2, <2>1 DEF CommandList
  <2>3. /\ c \in CommandList /\ c.state = cmdlist[l].state /\ c.used = Front(used)
        /\ c.current_seq_id = cmdlist[l].current_seq_id
    BY <1>5, <2>1 DEF CommandList
  <2> HIDE DEF c
  <2> QED BY <1>2, <2>1, <2>2, <2>3
<1>8. q \in 1 .. MaxSeq
  <2>1. cmdlist[l] \in CommandList
    BY <1>1, ListFacts
  <2>2. q \in 0 .. MaxSeq
    BY <2>1, ListTyped
  <2>3. q >= 1
    BY <1>1, <1>2 DEF ListsOK, ListOK
  <2> QED BY <2>2, <2>3
<1>9. \A i \in DOMAIN Front(used) : i \in DOMAIN used /\ Front(used)[i] = used[i]
                                    /\ used[i].allocation # a
  <2> SUFFICES ASSUME NEW i \in DOMAIN Front(used)
               PROVE  i \in DOMAIN used /\ Front(used)[i] = used[i] /\ used[i].allocation # a
    OBVIOUS
  <2>1. i \in DOMAIN used /\ i # Len(used) /\ Front(used)[i] = used[i]
    BY <1>5, <1>6
  <2> QED BY <1>1, <1>3, <2>1 DEF AllocationInOnePlace
<1>10. ASSUME NEW m \in Lists, NEW b PROVE UsedBy(m, b)' <=> UsedBy(m, b) /\ b # a
  <2>1. CASE m # l
    BY <1>4, <1>7, <2>1 DEF UsedBy
  <2>2. CASE m = l
    <3>1. UsedBy(l, b)' => UsedBy(l, b) /\ b # a
      BY <1>7, <1>9 DEF UsedBy
    <3>2. ASSUME UsedBy(l, b), b # a PROVE UsedBy(l, b)'
      <4>1. PICK i \in DOMAIN used : used[i].allocation = b
        BY <3>2 DEF UsedBy
      <4>2. i \in DOMAIN Front(used)
        BY <1>3, <1>6, <3>2, <4>1
      <4> QED BY <1>7, <1>9, <4>1, <4>2 DEF UsedBy
    <3> QED BY <2>2, <3>1, <3>2
  <2> QED BY <2>1, <2>2
<1>11. ASSUME NEW m \in Lists
       PROVE  /\ \A i \in DOMAIN cmdlist'[m].used : i \in DOMAIN cmdlist[m].used
              /\ \A i \in DOMAIN cmdlist'[m].used : cmdlist'[m].used[i] = cmdlist[m].used[i]
  BY <1>7, <1>9
<1>13. ListsOK'
  <2> SUFFICES ASSUME NEW m \in Lists PROVE ListOK(m)'
    BY DEF ListsOK
  <2>1. ListOK(m)
    BY <1>1 DEF ListsOK
  <2>2. CASE m # l
    BY <1>2, <1>7, <2>1, <2>2 DEF ListOK, Executable, UsedBy
  <2>3. CASE m = l
    <3>1. \A i \in DOMAIN Front(used) : Front(used)[i].suballocation < suballocation_count_
      BY <1>9, <2>1, <2>3 DEF ListOK
    <3> QED BY <1>2, <1>7, <1>8, <2>3, <3>1 DEF ListOK, Executable
  <2> QED BY <2>2, <2>3
<1>14. EncoderAgreesWithName' \/ limits' # limits
  BY <1>1, <1>2 DEF EncoderAgreesWithName, CurrentSlot
<1>15. TimelineTypeOK'
  BY <1>1, <1>2 DEF DynamicTypeOK, TimelineTypeOK
<1>16. ASSUME limits = {}, limits' = {} PROVE LatestStored' /\ DrawsSeeTheirWrites'
  <2>1. LatestStored /\ DrawsSeeTheirWrites
    BY <1>1, <1>16 DEF MemoryKept
  <2>2. LatestStored'
    <3>1. ASSUME NEW m \in Lists, Executable(m)', cmdlist'[m].used # <<>>
          PROVE  cmdlist'[m].value \subseteq content'[RecordedSlot(m)']
      <4>1. cmdlist'[m] = cmdlist[m]
        BY <1>7, <3>1 DEF Executable
      <4> QED BY <1>2, <2>1, <3>1, <4>1 DEF LatestStored, Executable, RecordedSlot, Recorded
    <3> QED BY <1>2, <2>1, <3>1 DEF LatestStored
  <2>3. ASSUME NEW m \in Lists, cmdlist'[m].state \in {"recording", "finished"}
        PROVE  \A d \in cmdlist'[m].draws : d.want \subseteq content'[d.slot]
    <3>1. cmdlist'[m] = cmdlist[m]
      BY <1>7, <2>3
    <3> QED BY <1>2, <1>16, <2>1, <2>3, <3>1 DEF DrawsSeeTheirWrites
  <2> QED BY <1>2, <1>16, <2>1, <2>2, <2>3 DEF DrawsSeeTheirWrites
<1>17. ASSUME NEW u \in uses, NEW m \in Lists, Unread(u), cmdlist'[m].state = "recording"
       PROVE  ~UsedBy(m, u.slot[1])'
  BY <1>7, <1>10, <1>17 DEF Unread
<1>18. \A m \in Lists : \A i, j \in DOMAIN cmdlist'[m].used :
         cmdlist'[m].used[i].allocation = cmdlist'[m].used[j].allocation => i = j
  BY <1>1, <1>11 DEF AllocationInOnePlace
<1>19. CASE owned_by_command_list_ /\ name_ = a
  <2>1. owned_by_command_list_' = FALSE /\ UNCHANGED <<fifo, limits>>
    BY <1>2, <1>19 DEF recycle
  <2>2. DynamicTypeOK'
    BY <1>1, <1>2, <1>7, <1>15, <2>1 DEF DynamicTypeOK
  <2>3. \A b : (InFifo(b)' <=> InFifo(b)) /\ (IsName(b)' <=> b = a) /\ ~IsName(b)
    BY <1>2, <1>19, <2>1 DEF InFifo, IsName
  <2>4. AllocationInOnePlace'
    <3>1. ASSUME NEW b \in 1 .. allocated'
          PROVE  InFifo(b)' \/ IsName(b)' \/ \E m \in Lists : UsedBy(m, b)'
      BY <1>1, <1>2, <1>10, <2>3 DEF AllocationInOnePlace
    <3>2. \A m, k \in Lists, b \in 1 .. allocated' : UsedBy(m, b)' /\ UsedBy(k, b)' => m = k
      BY <1>10, EntryFacts
    <3>3. \A m \in Lists, b \in 1 .. allocated' : UsedBy(m, b)' => ~InFifo(b)' /\ ~IsName(b)'
      BY <1>10, <2>3, EntryFacts
    <3>4. \A i, j \in DOMAIN fifo' : fifo'[i].allocation = fifo'[j].allocation => i = j
      BY <1>1, <2>1 DEF AllocationInOnePlace
    <3>5. ~InFifo(name_)'
      BY <1>1, <1>2, <2>1 DEF AllocationInOnePlace, InFifo
    <3>6. owned_by_command_list_' => \E m \in Lists : UsedBy(m, name_)'
      BY <2>1
    <3> QED BY <1>18, <3>1, <3>2, <3>3, <3>4, <3>5, <3>6 DEF AllocationInOnePlace
  <2>5. AllocationsMade'
    BY <1>1, <1>2, <1>11, <2>1 DEF AllocationsMade
  <2>6. ASSUME limits = {}, NEW u \in uses PROVE Unread(u)'
    <3>1. Unread(u)
      BY <1>1, <2>6 DEF MemoryKept
    <3> QED BY <1>2, <1>17, <2>1, <3>1 DEF Unread
  <2>7. MemoryKept' /\ DrawsSeeTheirWrites'
    <3>1. CASE limits = {}
      BY <1>2, <1>16, <2>1, <2>6, <3>1 DEF MemoryKept
    <3>2. CASE limits # {}
      BY <2>1, <3>2 DEF MemoryKept, DrawsSeeTheirWrites
    <3> QED BY <3>1, <3>2
  <2> QED BY <1>13, <1>14, <2>1, <2>2, <2>4, <2>5, <2>7 DEF DynamicInv
<1>20. CASE ~(owned_by_command_list_ /\ name_ = a)
  <2>1. /\ fifo' = Append(fifo, Entry(a, q)) /\ UNCHANGED owned_by_command_list_
        /\ limits' = IF UsedAfter(a, q) THEN limits \cup {"stale"} ELSE limits
    BY <1>2, <1>20 DEF recycle
  <2>2. a # name_
    BY <1>4, <1>20 DEF IsName
  <2>3. /\ fifo \in Seq(QueueEntry) /\ Distinct(fifo) /\ ~FifoHas(fifo, a)
        /\ \A b : FifoHas(fifo, b) <=> InFifo(b)
    BY <1>1, <1>4 DEF DynamicTypeOK, AllocationInOnePlace, Distinct, FifoHas, InFifo
  <2>4. /\ fifo' \in Seq(QueueEntry) /\ Distinct(fifo')
        /\ \A b : FifoHas(fifo', b) <=> InFifo(b) \/ b = a
        /\ \A i \in DOMAIN fifo' :
             \/ i \in DOMAIN fifo /\ fifo'[i] = fifo[i]
             \/ fifo'[i].allocation = a /\ fifo'[i].will_free_at = q
    BY <1>3, <1>8, <2>1, <2>3, AppendEntry, SMTT(20)
  <2>5. DynamicTypeOK'
    <3>1. limits' \subseteq {"forgotten", "reused", "stale"}
      BY <1>1, <2>1 DEF DynamicTypeOK
    <3> QED BY <1>1, <1>2, <1>7, <1>15, <2>1, <2>4, <3>1 DEF DynamicTypeOK
  <2>6. \A b : (InFifo(b)' <=> InFifo(b) \/ b = a) /\ (IsName(b)' <=> IsName(b))
    <3>1. \A b : InFifo(b)' <=> FifoHas(fifo', b)
      BY DEF InFifo, FifoHas
    <3> QED BY <1>2, <2>1, <2>4, <3>1 DEF IsName
  <2>7. AllocationInOnePlace'
    <3>1. ASSUME NEW b \in 1 .. allocated'
          PROVE  InFifo(b)' \/ IsName(b)' \/ \E m \in Lists : UsedBy(m, b)'
      BY <1>1, <1>2, <1>10, <2>6 DEF AllocationInOnePlace
    <3>2. \A m, k \in Lists, b \in 1 .. allocated' : UsedBy(m, b)' /\ UsedBy(k, b)' => m = k
      BY <1>10, EntryFacts
    <3>3. \A m \in Lists, b \in 1 .. allocated' : UsedBy(m, b)' => ~InFifo(b)' /\ ~IsName(b)'
      BY <1>10, <2>6, EntryFacts
    <3>4. \A i, j \in DOMAIN fifo' : fifo'[i].allocation = fifo'[j].allocation => i = j
      BY <2>4 DEF Distinct
    <3>5. ~InFifo(name_)'
      <4>1. ~FifoHas(fifo', name_)
        BY <1>1, <2>2, <2>4 DEF AllocationInOnePlace
      <4> QED BY <1>2, <4>1 DEF InFifo, FifoHas
    <3>6. ASSUME owned_by_command_list_ PROVE \E m \in Lists : UsedBy(m, name_)'
      <4>1. PICK m \in Lists : UsedBy(m, name_)
        BY <1>1, <3>6 DEF AllocationInOnePlace
      <4>2. PICK i \in DOMAIN cmdlist[m].used : cmdlist[m].used[i].allocation = name_
        BY <4>1 DEF UsedBy
      <4>3. i \in DOMAIN cmdlist'[m].used /\ cmdlist'[m].used[i].allocation = name_
        <5>1. CASE m # l
          BY <1>7, <4>2, <5>1
        <5>2. CASE m = l
          <6>1. i \in DOMAIN Front(used)
            BY <1>3, <1>6, <2>2, <4>2, <5>2
          <6> QED BY <1>7, <1>9, <4>2, <5>2, <6>1
        <5> QED BY <5>1, <5>2
      <4> QED BY <1>2, <4>3 DEF UsedBy
    <3>7. owned_by_command_list_' => \E m \in Lists : UsedBy(m, name_)'
      BY <2>1, <3>6
    <3> QED BY <1>18, <3>1, <3>2, <3>3, <3>4, <3>5, <3>7 DEF AllocationInOnePlace
  <2>8. AllocationsMade'
    <3>1. ASSUME NEW i \in DOMAIN fifo' PROVE fifo'[i].allocation <= allocated
      <4>1. CASE i \in DOMAIN fifo /\ fifo'[i] = fifo[i]
        BY <1>1, <4>1 DEF AllocationsMade
      <4>2. CASE fifo'[i].allocation = a
        BY <1>4, <4>2
      <4> QED BY <2>4, <3>1, <4>1, <4>2
    <3>2. ASSUME NEW m \in Lists, NEW i \in DOMAIN cmdlist'[m].used
          PROVE  cmdlist'[m].used[i].allocation <= allocated
      BY <1>1, <1>11 DEF AllocationsMade
    <3> QED BY <1>1, <1>2, <3>1, <3>2 DEF AllocationsMade
  <2>9. EncoderAgreesWithName'
    BY <1>1, <1>2, <2>1 DEF EncoderAgreesWithName, CurrentSlot
  <2>10. limits' = {} => limits = {} /\ ~UsedAfter(a, q)
    BY <2>1
  <2>11. ASSUME limits' = {}, NEW u \in uses PROVE Unread(u)'
    <3>1. Unread(u) /\ ~UsedAfter(a, q)
      BY <1>1, <2>10, <2>11 DEF MemoryKept
    <3>2. u.slot[1] = a => u.seq <= q
      <4>1. u.slot[1] = a => ~(u.seq > q)
        BY <3>1 DEF UsedAfter
      <4>2. u.seq \in Nat /\ q \in Nat
        BY <1>1, <1>8, UseTyped
      <4> QED BY <4>1, <4>2
    <3>3. ASSUME NEW i \in DOMAIN fifo', u.slot[1] = fifo'[i].allocation
          PROVE  u.seq <= fifo'[i].will_free_at
      <4>1. CASE i \in DOMAIN fifo /\ fifo'[i] = fifo[i]
        BY <3>1, <3>3, <4>1 DEF Unread
      <4>2. CASE fifo'[i].allocation = a /\ fifo'[i].will_free_at = q
        BY <3>2, <3>3, <4>2
      <4> QED BY <2>4, <3>3, <4>1, <4>2
    <3> QED BY <1>2, <1>17, <3>1, <3>3 DEF Unread
  <2>12. MemoryKept' /\ DrawsSeeTheirWrites'
    <3>1. CASE limits' = {}
      BY <1>2, <1>16, <2>10, <2>11, <3>1 DEF MemoryKept
    <3>2. CASE limits' # {}
      BY <3>2 DEF MemoryKept, DrawsSeeTheirWrites
    <3> QED BY <3>1, <3>2
  <2> QED BY <1>13, <2>5, <2>7, <2>8, <2>9, <2>12 DEF DynamicInv
<1> QED BY <1>19, <1>20

(* A dynamic resource that nobody has used, at any time of the queue.      *)
LEMMA DynamicAtRest == ASSUME DynamicInit, TimelineTypeOK PROVE DynamicInv
<1>1. /\ kind \in {"buffer", "linear"} /\ suballocation_count_ \in 1 .. Suballocations
      /\ fifo = <<>> /\ name_ = 1 /\ name_suballocation_ = 0 /\ owned_by_command_list_ = FALSE
      /\ allocated = 1 /\ current = 1 /\ current_suballocation_ = [a \in Allocations |-> 0]
      /\ content = [s \in Slots |-> {}] /\ value = {} /\ writes = 0 /\ uses = {}
      /\ cmdlist = [l \in Lists |-> FreshList] /\ limits = {}
  BY DEF DynamicInit
<1>2. FreshList \in CommandList /\ FreshList.state = "pool" /\ FreshList.used = <<>>
      /\ FreshList.draws = {}
  <2>1. <<>> \in Seq(UsedDynamic) /\ 0 \in 0 .. MaxSeq
    BY TimelineAssumption
  <2> QED BY <2>1 DEF FreshList, CommandList
<1>3. \A l \in Lists : /\ cmdlist[l].state = "pool" /\ cmdlist[l].used = <<>>
                       /\ cmdlist[l].draws = {} /\ DOMAIN cmdlist[l].used = {}
  BY <1>1, <1>2
<1>4. DynamicTypeOK
  <2>1. 1 \in Allocations /\ 0 \in Subs /\ 0 \in 0 .. MaxWrites
        /\ 0 \in 0 .. suballocation_count_ - 1
    BY <1>1, DynamicAssumption DEF Allocations, Subs
  <2>2. cmdlist \in [Lists -> CommandList] /\ fifo \in Seq(QueueEntry)
    BY <1>1, <1>2
  <2>3. current_suballocation_ \in [Allocations -> Subs] /\ content \in [Slots -> SUBSET WriteIds]
    BY <1>1, <2>1
  <2>4. name_ \in 1 .. allocated /\ current \in 1 .. allocated /\ allocated \in Allocations
    BY <1>1, <2>1
  <2>5. name_suballocation_ \in 0 .. suballocation_count_ - 1 /\ writes \in 0 .. MaxWrites
    BY <1>1, <2>1
  <2>6. owned_by_command_list_ \in BOOLEAN
    BY <1>1
  <2>7. value \in SUBSET WriteIds /\ limits \subseteq {"forgotten", "reused", "stale"}
    BY <1>1
  <2>8. /\ uses \subseteq [slot: Slots, want: SUBSET WriteIds, seq: 1 .. MaxSeq]
        /\ \A u \in uses : u.seq \in cpu_coherent + 1 .. ready_for_encode /\ u.seq # finishing
    BY <1>1
  <2> QED BY <1>1, <2>2, <2>3, <2>4, <2>5, <2>6, <2>7, <2>8 DEF DynamicTypeOK
<1>5. DOMAIN fifo = {} /\ (\A a : ~InFifo(a)) /\ (\A l \in Lists : \A a : ~UsedBy(l, a))
      /\ IsName(1)
  BY <1>1, <1>3 DEF InFifo, UsedBy, IsName
<1>6. AllocationInOnePlace
  <2>1. \A a \in 1 .. allocated : IsName(a)
    BY <1>1, <1>5
  <2> QED BY <1>1, <1>3, <1>5, <2>1 DEF AllocationInOnePlace
<1>7. AllocationsMade /\ ListsOK
  BY <1>1, <1>3, <1>5 DEF AllocationsMade, ListsOK, ListOK, Executable
<1>8. EncoderAgreesWithName
  BY <1>1, <1>4, DynamicNumbers DEF EncoderAgreesWithName, CurrentSlot
<1>9. MemoryKept /\ DrawsSeeTheirWrites
  BY <1>1, <1>3 DEF MemoryKept, LatestStored, DrawsSeeTheirWrites, Executable
<1> QED BY <1>4, <1>6, <1>7, <1>8, <1>9 DEF DynamicInv

LEMMA DynamicStep == DynamicInv /\ DynamicNext => DynamicInv'
<1> SUFFICES ASSUME DynamicInv, DynamicNext PROVE DynamicInv'
  OBVIOUS
<1>1. CASE MapDiscard BY <1>1, MapDiscardStep
<1>2. CASE MapNoOverwrite BY <1>2, MapNoOverwriteStep
<1>3. CASE DrawNow BY <1>3, DrawNowStep
<1>4. CASE DynamicCommit BY <1>4, DynamicCommitStep
<1>5. CASE DynamicBeginFinish BY <1>5, DynamicBeginFinishStep
<1>6. CASE DynamicSignal BY <1>6, DynamicSignalStep
<1>7. ASSUME NEW l \in Lists,
             \/ CreateCommandList(l) \/ DeferredMapDiscard(l) \/ DeferredMapNoOverwrite(l)
             \/ DeferredDraw(l) \/ FinishCommandList(l) \/ ExecuteCommandList(l)
             \/ Release(l) \/ ResetEntry(l) \/ ResetDone(l) \/ DestroyCommand(l)
      PROVE  DynamicInv'
  <2>1. CASE CreateCommandList(l) BY <2>1, CreateCommandListStep
  <2>2. CASE DeferredMapDiscard(l) BY <2>2, DeferredMapDiscardStep
  <2>3. CASE DeferredMapNoOverwrite(l) BY <2>3, DeferredMapNoOverwriteStep
  <2>4. CASE DeferredDraw(l) BY <2>4, DeferredDrawStep
  <2>5. CASE FinishCommandList(l) BY <2>5, FinishCommandListStep
  <2>6. CASE ExecuteCommandList(l) BY <2>6, ExecuteCommandListStep
  <2>7. CASE Release(l) BY <2>7, ReleaseStep
  <2>8. CASE ResetEntry(l) BY <2>8, ResetEntryStep
  <2>9. CASE ResetDone(l) BY <2>9, ResetDoneStep
  <2>10. CASE DestroyCommand(l) BY <2>10, DestroyCommandStep
  <2> QED BY <1>7, <2>1, <2>2, <2>3, <2>4, <2>5, <2>6, <2>7, <2>8, <2>9, <2>10
<1> QED BY <1>1, <1>2, <1>3, <1>4, <1>5, <1>6, <1>7 DEF DynamicNext

LEMMA DynamicStutter ==
  DynamicInv /\ UNCHANGED <<timeVars, dynamicVars>> => DynamicInv'
<1> SUFFICES ASSUME DynamicInv, UNCHANGED <<timeVars, dynamicVars>> PROVE DynamicInv'
  OBVIOUS
<1>1. DynamicTypeOK
  BY DEF DynamicInv
<1>2. TimelineTypeOK'
  BY <1>1 DEF DynamicTypeOK, TimelineTypeOK, timeVars
<1>3. ASSUME NEW u \in uses
      PROVE  u.seq \in cpu_coherent' + 1 .. ready_for_encode' /\ u.seq # finishing'
  BY <1>1 DEF DynamicTypeOK, timeVars
<1> QED BY <1>2, <1>3, TimeStep DEF dynamicVars

(* The invariant of a dynamic resource, for every number of command lists, *)
(* allocations, suballocations, writes and reads, and whatever order the   *)
(* immediate context, the deferred contexts and the finishing thread run   *)
(* in (allocate, updateImmediateName, recycle).                            *)
THEOREM DynamicInvariance == DynamicSpec => []DynamicInv
<1>1. DynamicInit /\ TimelineInit => DynamicInv
  BY TimelineStart, DynamicAtRest
<1>2. DynamicInv /\ [DynamicNext]_<<timeVars, dynamicVars>> => DynamicInv'
  BY DynamicStep, DynamicStutter
<1> QED BY <1>1, <1>2, PTL DEF DynamicSpec

(* No Map hands out memory that a read still needs: every read that is not *)
(* completed finds what was written for it, outside the known limits.      *)
THEOREM DiscardIsPrivate == DynamicSpec => []DrawsSeeTheirWrites
<1>1. DynamicInv => DrawsSeeTheirWrites
  BY DEF DynamicInv
<1> QED BY <1>1, DynamicInvariance, PTL

(* The CPU's name and the encoder's agree at every point of the program    *)
(* until a rename of a deferred context is forgotten.                      *)
THEOREM NameFollowed == DynamicSpec => []EncoderAgreesWithName
<1>1. DynamicInv => EncoderAgreesWithName
  BY DEF DynamicInv
<1> QED BY <1>1, DynamicInvariance, PTL

(* The applications of MCRenaming use one of the two resources and leave   *)
(* the other at rest.                                                      *)
OneResource ==
  /\ app \in {"one list", "lists", "staging"}
  /\ app = "staging" => StagingInv /\ DynamicInit
  /\ app # "staging" => DynamicInv /\ StagingInit

(* Both invariants hold of the behaviours the run of MCRenaming explores,  *)
(* at any bounds.                                                          *)
THEOREM RenamingInvariance == MCSpec => []RenamingInv
<1>1. MCInit => OneResource
  BY TimelineStart, StagingAtRest, DynamicAtRest DEF MCInit, OneResource
<1>2. OneResource /\ [MCNext]_mcVars => OneResource'
  <2> SUFFICES ASSUME OneResource, [MCNext]_mcVars PROVE OneResource'
    OBVIOUS
  <2>1. app' = app
    BY DEF MCNext, mcVars
  <2>2. CASE app = "staging"
    <3>1. StagingInv'
      BY <2>2, StagingStep, StagingStutter DEF OneResource, MCNext, mcVars
    <3>2. DynamicInit'
      <4>1. UNCHANGED dynamicVars
        BY <2>2 DEF MCNext, mcVars
      <4>2. /\ UNCHANGED <<kind, suballocation_count_, fifo, name_, name_suballocation_>>
            /\ UNCHANGED <<owned_by_command_list_, allocated, current, current_suballocation_>>
            /\ UNCHANGED <<content, value, writes, uses, cmdlist, limits>>
        BY <4>1 DEF dynamicVars, resource
      <4>3. DynamicInit
        BY <2>2 DEF OneResource
      <4> QED BY <4>2, <4>3 DEF DynamicInit
    <3> QED BY <2>1, <2>2, <3>1, <3>2 DEF OneResource
  <2>3. CASE app # "staging"
    <3>1. DynamicInv'
      BY <2>3, DynamicStep, DynamicStutter DEF OneResource, MCNext, mcVars
    <3>2. StagingInit'
      <4>1. UNCHANGED stagingVars
        BY <2>3 DEF MCNext, mcVars
      <4> QED BY <2>3, <4>1 DEF OneResource, StagingInit, stagingVars
    <3> QED BY <2>1, <2>3, <3>1, <3>2 DEF OneResource
  <2> QED BY <2>2, <2>3
<1>3. OneResource => RenamingInv
  <2>1. ASSUME OneResource, app = "staging" PROVE RenamingInv
    BY <2>1, DynamicAtRest DEF OneResource, RenamingInv, StagingInv, StagingTypeOK
  <2>2. ASSUME OneResource, app # "staging" PROVE RenamingInv
    BY <2>2, StagingAtRest DEF OneResource, RenamingInv, DynamicInv, DynamicTypeOK
  <2> QED BY <2>1, <2>2
<1> QED BY <1>1, <1>2, <1>3, PTL DEF MCSpec

=============================================================================
