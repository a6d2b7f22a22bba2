------------------------ MODULE PipelineCache_proofs ------------------------
(***************************************************************************)
(* Proofs about PipelineCache, for any pipelines, shaders, callers and     *)
(* workers, where pixel shaders are shared by pipelines of several classes *)
(* and shaders fail to compile: what a pipeline is built from, then that   *)
(* each task is in exactly one place.                                      *)
(***************************************************************************)
EXTENDS PipelineCache, SequenceTheorems, FiniteSetTheorems, TLAPS

(* SetToSeq lists the elements of a finite set.                            *)
LEMMA SetToSeqInSeq ==
  ASSUME NEW S, IsFiniteSet(S), NEW T, S \subseteq T
  PROVE  SetToSeq(S) \in Seq(T)
<1>1. Cardinality(S) \in Nat /\ ExistsBijection(1 .. Cardinality(S), S)
  BY FS_CardinalityType
<1>2. PICK f \in Bijection(1 .. Cardinality(S), S) : TRUE
  BY <1>1 DEF ExistsBijection
<1>3. f \in [1 .. Cardinality(S) -> S] /\ IsInjective(f)
  BY <1>2 DEF Bijection, Injection, IsInjective
<1>4. SetToSeq(S) \in [1 .. Cardinality(S) -> S]
  BY <1>3 DEF SetToSeq
<1> QED BY <1>1, <1>4, SeqDef

(* The continuations taken for a task are finitely many pipelines.         *)
LEMMA ContinuedPipelines ==
  ASSUME ContinuationsOK, NEW t
  PROVE  SetToSeq({d[2] : d \in Continuations(t)}) \in Seq(Issued)
<1> DEFINE C == Continuations(t)
           P == {d[2] : d \in C}
           f == [d \in C |-> d[2]]
<1>1. C \in SUBSET task_continuation_
  BY DEF Continuations
<1>2. IsFiniteSet(C)
  BY <1>1, FS_Subset DEF ContinuationsOK
<1>3. f \in Surjection(C, P)
  BY DEF Surjection
<1>4. IsFiniteSet(P)
  BY <1>2, <1>3, FS_Surjection
<1>5. P \subseteq Issued
  BY <1>1 DEF ContinuationsOK, Issued
<1> QED BY <1>4, <1>5, SetToSeqInSeq

(* Two threads never make pipelines of one class at a time.                *)
LEMMA OneMaker ==
  ASSUME MakersOK, NEW c \in Callers, NEW d \in Callers, Making(c), Making(d),
         Class[caller[c].pipeline] = Class[caller[d].pipeline]
  PROVE  c = d
BY DEF MakersOK, MakerOK

(* The compiled shader that a pipeline makes of a variant.                 *)
LEMMA OwnFacts ==
  ASSUME NEW p \in Pipelines, NEW s \in Shaders
  PROVE  Own(p, s) \in Compiled /\ Own(p, s)[1] = s
BY DEF Own, Compiled, Classes

(* What a pipeline was compiled from stays as it is.                       *)
LEMMA WholeKept ==
  ASSUME NEW p, Whole(p), handles'[p] = handles[p], unseen'[p] = unseen[p],
         built'[p] = built[p], done \subseteq done', invalid \subseteq invalid'
  PROVE  Whole(p)'
BY DEF Whole, VariantsOf, ToSet, MeshClasses

(* A maker that is not disturbed: its record, its mutex and its handles.   *)
LEMMA MakerKept ==
  ASSUME CacheInv, NEW d \in Callers, caller'[d] = caller[d],
         Making(d) => /\ caller[d].pipeline \notin pipelines_'
                      /\ class_mutex'[Class[caller[d].pipeline]] =
                           class_mutex[Class[caller[d].pipeline]]
                      /\ handles'[caller[d].pipeline] = handles[caller[d].pipeline]
                      /\ unseen'[caller[d].pipeline] = unseen[caller[d].pipeline]
  PROVE  MakerOK(d)'
<1>1. MakerOK(d)
  BY DEF CacheInv, MakersOK
<1> QED BY <1>1 DEF MakerOK, Making, Passed, VariantsOf, ToSet

(* So do the pointers, unless a step changes them.                         *)
LEMMA PassedKept ==
  ASSUME CacheInv, UNCHANGED <<pipelines_, handles, unseen>>, Made' = Made
  PROVE  HandlesOK'
<1>1. \A p \in Pipelines : VariantsOf(handles'[p]) \cup unseen'[p] = Passed(p)
  BY DEF Passed
<1>2. /\ handles' \in [Pipelines -> SUBSET Made']
      /\ \A p \in Pipelines : VariantsOf(handles'[p]) \cup unseen'[p] \subseteq ToSet(Uses[p])
      /\ \A p \in pipelines_' : VariantsOf(handles'[p]) \cup unseen'[p] = ToSet(Uses[p])
      /\ \A p \in Pipelines : \A s \in unseen'[p] : Shared(p, s)
  BY <1>1 DEF CacheInv, HandlesOK, Records
<1> QED BY <1>2 DEF HandlesOK, Passed, VariantsOf, Shared, ToSet

(* The pipelines in the map keep their pointers.                           *)
HandlesKept ==
  \A p \in pipelines_ : handles'[p] = handles[p] /\ unseen'[p] = unseen[p]

-----------------------------------------------------------------------------
(* Steps of the scheduler that leave the cache, the continuations and what *)
(* is done alone, and start neither a compilation nor a dependency.        *)
QuietWorkers ==
  /\ UNCHANGED depVars /\ HandlesKept
  /\ pipelines_ \subseteq pipelines_' /\ Made \subseteq Made'
  /\ \A w \in Workers : worker'[w].pc \in {"settle", "depend"} =>
       /\ worker'[w].pc = worker[w].pc /\ worker'[w].task = worker[w].task
       /\ worker'[w].dep = worker[w].dep
  /\ \A w \in Workers : worker'[w].pc \in {"begin", "run"} => worker'[w].task # NoTask

(* Such a step leaves what was compiled and what is left behind in order.  *)
LEMMA QuietBuilds ==
  ASSUME Records, ContinuationsOK, BuildsOK, QuietWorkers,
         pipelines_' \subseteq Pipelines
  PROVE  ContinuationsOK' /\ BuildsOK'
<1>1. ContinuationsOK'
  <2>1. \A w \in Workers : worker'[w].pc \in {"depend", "settle"} => worker'[w].task # NoTask
    BY DEF ContinuationsOK, QuietWorkers
  <2>2. \A w \in Workers : worker'[w].pc = "depend" =>
          worker'[w].dep # NoTask /\ worker'[w].task \in pipelines_'
    BY DEF ContinuationsOK, QuietWorkers
  <2>3. task_continuation_' = task_continuation_ /\ done' = done
    BY DEF QuietWorkers, depVars
  <2>4. /\ task_continuation_' \subseteq (Made' \ done') \X pipelines_'
        /\ IsFiniteSet(task_continuation_')
    BY <2>3 DEF ContinuationsOK, QuietWorkers
  <2> QED BY <2>1, <2>2, <2>4 DEF ContinuationsOK, QuietWorkers
<1>2. done' \subseteq Issued'
  BY DEF BuildsOK, QuietWorkers, depVars, Issued
<1>3. ASSUME NEW p \in pipelines_', Ran(p)'
      PROVE  Whole(p)'
  <2>1. p \notin Compiled /\ p # NoTask
    BY CacheAssumption DEF Tasks
  <2>2. Ran(p)
    BY <1>3 DEF Ran, At, QuietWorkers, depVars
  <2>3. p \in Issued
    BY <2>1, <2>2 DEF Ran, BuildsOK, Records, WorkerRecord
  <2>4. p \in pipelines_ /\ Whole(p)
    BY <2>1, <2>2, <2>3 DEF Issued, BuildsOK
  <2> QED BY <2>4, WholeKept DEF QuietWorkers, HandlesKept, depVars
<1> QED BY <1>1, <1>2, <1>3 DEF BuildsOK

(* The cache's part of the invariant reads only what the callers change.   *)
LEMMA QuietCache ==
  ASSUME CacheInv, UNCHANGED cacheVars
  PROVE  /\ MakersOK' /\ VariantsOK' /\ HandlesOK'
         /\ Issued' = Issued /\ Made' = Made
<1>1. Issued' = Issued /\ Made' = Made
  BY DEF Made, Issued, cacheVars
<1>2. MakersOK'
  <2>1. ASSUME NEW d \in Callers PROVE MakerOK(d)'
    <3>1. /\ UNCHANGED <<caller, class_mutex, handles, unseen>>
          /\ Making(d) => caller[d].pipeline \notin pipelines_'
      BY DEF CacheInv, MakersOK, MakerOK, cacheVars
    <3> QED BY <3>1, MakerKept
  <2> QED BY <2>1 DEF MakersOK
<1>3. VariantsOK'
  BY DEF CacheInv, VariantsOK, Inserting, Own, cacheVars
<1>4. HandlesOK'
  BY <1>1, PassedKept DEF cacheVars
<1> QED BY <1>1, <1>2, <1>3, <1>4

-----------------------------------------------------------------------------
(* notify_one and notify_all move waiting workers, and nothing else.       *)
Awakened(ws, ws2) ==
  /\ ws2 \in [Workers -> WorkerRecord]
  /\ \A w \in Workers :
       /\ ws2[w].task = ws[w].task /\ ws2[w].dep = ws[w].dep
       /\ ws2[w].buffer = ws[w].buffer
       /\ ws2[w].pc = ws[w].pc \/ (ws[w].pc = "waiting" /\ ws2[w].pc = "enter")

LEMMA NotifyOne ==
  ASSUME NEW ws \in [Workers -> WorkerRecord], NEW ws2, notify_one(ws, ws2)
  PROVE  Awakened(ws, ws2)
<1>1. "enter" \in WorkerPlaces
  BY DEF WorkerPlaces
<1>2. CASE ws2 = ws
  BY <1>2 DEF Awakened
<1>3. CASE \E w \in Waiting(ws) : ws2 = [ws EXCEPT ![w].pc = "enter"]
  <2>1. PICK w \in Workers : ws[w].pc = "waiting" /\ ws2 = [ws EXCEPT ![w].pc = "enter"]
    BY <1>3 DEF Waiting
  <2>2. ws[w] \in WorkerRecord /\ [ws[w] EXCEPT !.pc = "enter"] \in WorkerRecord
    BY <1>1 DEF WorkerRecord
  <2>3. ws2[w] = [ws[w] EXCEPT !.pc = "enter"] /\ \A v \in Workers : v # w => ws2[v] = ws[v]
    BY <2>1
  <2>4. ws2 \in [Workers -> WorkerRecord]
    BY <2>1, <2>2
  <2> QED BY <2>1, <2>2, <2>3, <2>4 DEF Awakened, WorkerRecord
<1> QED BY <1>2, <1>3 DEF notify_one

LEMMA NotifyAll ==
  ASSUME NEW ws \in [Workers -> WorkerRecord]
  PROVE  Awakened(ws, notify_all(ws))
<1>1. "enter" \in WorkerPlaces
  BY DEF WorkerPlaces
<1>2. \A w \in Workers : notify_all(ws)[w] \in {ws[w], [ws[w] EXCEPT !.pc = "enter"]}
  BY DEF notify_all
<1>3. ASSUME NEW w \in Workers PROVE notify_all(ws)[w] \in WorkerRecord
  <2>1. ws[w] \in WorkerRecord /\ [ws[w] EXCEPT !.pc = "enter"] \in WorkerRecord
    BY <1>1 DEF WorkerRecord
  <2> QED BY <1>2, <2>1
<1>4. notify_all(ws) \in [Workers -> WorkerRecord]
  BY <1>3 DEF notify_all
<1>5. \A w \in Workers : notify_all(ws)[w] # ws[w] => ws[w].pc = "waiting"
  BY DEF notify_all, Waiting
<1>6. \A w \in Workers : ws[w] \in WorkerRecord
  OBVIOUS
<1> QED BY <1>2, <1>4, <1>5, <1>6 DEF Awakened, WorkerRecord

(* submit adds a task, and perhaps a worker, which starts at the top.      *)
LEMMA Submitting ==
  ASSUME CacheInv, NEW task, submit(task)
  PROVE  /\ UNCHANGED depVars
         /\ task_queue_' = Append(task_queue_, task)
         /\ task_continuation_queue_' = task_continuation_queue_
         /\ worker' \in [Workers -> WorkerRecord]
         /\ \A w \in Workers : worker'[w].pc \in {"settle", "depend"} =>
              /\ worker'[w].pc = worker[w].pc /\ worker'[w].task = worker[w].task
              /\ worker'[w].dep = worker[w].dep
         /\ \A w \in Workers : worker'[w].pc \in {"begin", "run"} =>
              worker'[w].task # NoTask
<1>1. worker \in [Workers -> WorkerRecord]
  BY DEF CacheInv, Records
<1>2. CASE notify_one(worker, worker')
  BY <1>1, <1>2, NotifyOne DEF submit, Awakened, CacheInv, ContinuationsOK
<1>3. CASE ~notify_one(worker, worker')
  <2> DEFINE new == CHOOSE w \in Workers : worker[w].pc = "unused"
             ws == [worker EXCEPT ![new] = Started]
  <2>1. notify_one(ws, worker')
    BY <1>3 DEF submit
  <2>2. Started \in WorkerRecord /\ Started.pc = "top"
    BY EmptySeq DEF Started, Unused, WorkerRecord, WorkerPlaces
  <2>3. /\ ws \in [Workers -> WorkerRecord]
        /\ \A w \in Workers : ws[w] = worker[w] \/ ws[w] = Started
    BY <1>1, <2>2
  <2> HIDE DEF new, ws
  <2>4. Awakened(ws, worker')
    BY <2>1, <2>3, NotifyOne
  <2>5. /\ UNCHANGED depVars /\ task_queue_' = Append(task_queue_, task)
        /\ task_continuation_queue_' = task_continuation_queue_
    BY DEF submit
  <2>6. ASSUME NEW w \in Workers
        PROVE  /\ worker'[w].task = ws[w].task /\ worker'[w].dep = ws[w].dep
               /\ worker'[w].pc = ws[w].pc \/ worker'[w].pc = "enter"
               /\ ws[w] = worker[w] \/ ws[w].pc = "top"
    BY <2>2, <2>3, <2>4 DEF Awakened
  <2>7. worker' \in [Workers -> WorkerRecord]
    BY <2>4 DEF Awakened
  <2> QED BY <2>5, <2>6, <2>7 DEF CacheInv, ContinuationsOK
<1> QED BY <1>2, <1>3

-----------------------------------------------------------------------------
(* The steps of the workers.                                               *)

LEMMA WorkerQuiet ==
  ASSUME CacheInv, UNCHANGED cacheVars, QuietWorkers,
         worker' \in [Workers -> WorkerRecord],
         task_queue_' \in Seq(Issued), task_continuation_queue_' \in Seq(Issued)
  PROVE  CacheInv'
<1>1. MakersOK' /\ VariantsOK' /\ HandlesOK' /\ Issued' = Issued /\ Made' = Made
  BY QuietCache
<1>2. WorkerRecord' = WorkerRecord
  BY <1>1 DEF WorkerRecord
<1>3. Records'
  BY <1>1, <1>2 DEF CacheInv, Records, QuietWorkers, depVars, cacheVars
<1>4. ContinuationsOK' /\ BuildsOK'
  BY QuietBuilds DEF CacheInv, Records, cacheVars
<1> QED BY <1>1, <1>3, <1>4 DEF CacheInv

(* A step that only moves a worker to another place.                       *)
LEMMA Moving ==
  ASSUME CacheInv, NEW w \in Workers, NEW pc \in WorkerPlaces \ {"settle", "depend"},
         pc \in {"begin", "run"} => worker[w].task # NoTask,
         Goto(w, pc), UNCHANGED <<task_queue_, task_continuation_queue_>>,
         UNCHANGED cacheVars, UNCHANGED depVars
  PROVE  CacheInv'
<1>1. worker' \in [Workers -> WorkerRecord]
  BY DEF CacheInv, Records, Goto, WorkerRecord
<1>2. QuietWorkers
  BY QuietCache DEF QuietWorkers, HandlesKept, Goto, CacheInv, Records, WorkerRecord, cacheVars,
                    ContinuationsOK
<1> QED BY <1>1, <1>2, WorkerQuiet DEF CacheInv, Records

LEMMA TakeTaskInv == ASSUME CacheInv, NEW w \in Workers, TakeTask(w) PROVE CacheInv'
<1> DEFINE q == IF task_continuation_queue_ # <<>> THEN task_continuation_queue_
                ELSE task_queue_
<1>1. q \in Seq(Issued) /\ q # <<>>
  BY DEF CacheInv, Records, TakeTask, NothingQueued
<1>2. Head(q) \in Issued /\ Tail(q) \in Seq(Issued)
  BY <1>1, HeadTailProperties
<1>3. worker' = [worker EXCEPT ![w] = [@ EXCEPT !.pc = "begin", !.task = Head(q)]]
  BY DEF TakeTask
<1>4. task_queue_' \in Seq(Issued) /\ task_continuation_queue_' \in Seq(Issued)
  BY <1>2 DEF TakeTask, CacheInv, Records
<1> HIDE DEF q
<1>5. worker' \in [Workers -> WorkerRecord]
  <2>1. worker[w] \in WorkerRecord /\ worker \in [Workers -> WorkerRecord]
    BY DEF CacheInv, Records
  <2>2. PICK x : x = [worker[w] EXCEPT !.pc = "begin", !.task = Head(q)]
    OBVIOUS
  <2>3. x \in WorkerRecord
    BY <1>2, <2>1, <2>2 DEF WorkerRecord, WorkerPlaces
  <2>4. worker' = [worker EXCEPT ![w] = x]
    BY <1>3, <2>2
  <2> QED BY <2>1, <2>3, <2>4
<1>6. Head(q) # NoTask
  BY <1>2, CacheAssumption DEF Issued, Tasks, CacheInv, Records
<1>7. QuietWorkers /\ UNCHANGED cacheVars
  <2>1. UNCHANGED cacheVars /\ UNCHANGED depVars
    BY DEF TakeTask
  <2>2. HandlesKept /\ pipelines_' = pipelines_ /\ Made' = Made
    BY <2>1, QuietCache DEF HandlesKept, cacheVars
  <2>3. worker \in [Workers -> WorkerRecord]
    BY DEF CacheInv, Records
  <2>4. /\ \A v \in Workers : v # w => worker'[v] = worker[v]
        /\ worker'[w].pc = "begin" /\ worker'[w].task = Head(q)
    BY <1>3, <2>3 DEF WorkerRecord
  <2> QED BY <1>6, <2>1, <2>2, <2>4 DEF QuietWorkers, CacheInv, ContinuationsOK
<1> QED BY <1>4, <1>5, <1>7, WorkerQuiet

(* A pipeline is compiled when all its shaders are done, or given up when  *)
(* one of them has no Function.                                            *)
LEMMA RunToEndInv == ASSUME CacheInv, NEW w \in Workers, RunToEnd(w) PROVE CacheInv'
<1> DEFINE t == worker[w].task
<1>1. /\ UNCHANGED cacheVars /\ UNCHANGED <<task_continuation_, done>>
      /\ UNCHANGED <<task_queue_, task_continuation_queue_>>
      /\ worker' = [worker EXCEPT ![w].pc = "settle"]
  BY DEF RunToEnd, Goto
<1>2. MakersOK' /\ VariantsOK' /\ HandlesOK' /\ Issued' = Issued /\ Made' = Made
  BY <1>1, QuietCache
<1>3. At(w, "run") /\ worker \in [Workers -> WorkerRecord]
  BY DEF RunToEnd, CacheInv, Records
<1>4. t \in Issued /\ t \in Tasks /\ (t \notin Pipelines => t \in Compiled)
  BY <1>3 DEF CacheInv, Records, ContinuationsOK, WorkerRecord, At, Issued, Tasks
<1>5. invalid \subseteq invalid' /\ invalid' \subseteq Compiled
  BY <1>4 DEF RunToEnd, CacheInv, Records
<1>6. PICK B \in SUBSET Compiled : built' = [built EXCEPT ![t] = B]
  <2>1. CASE t \in Pipelines
    <3>1. handles[t] \cap done \in SUBSET Compiled /\ {} \in SUBSET Compiled
      BY <2>1 DEF CacheInv, HandlesOK, Made
    <3> QED BY <2>1, <3>1 DEF RunToEnd
  <2>2. CASE t \notin Pipelines
    BY <1>4, <2>2 DEF RunToEnd
  <2> QED BY <2>1, <2>2
<1>7. worker' \in [Workers -> WorkerRecord'] /\ built' \in [Tasks -> SUBSET Compiled]
  <2>1. worker' \in [Workers -> WorkerRecord] /\ WorkerRecord' = WorkerRecord
    BY <1>1, <1>2, <1>3 DEF WorkerRecord, WorkerPlaces
  <2> QED BY <1>6, <2>1 DEF CacheInv, Records
<1>8. Records'
  BY <1>1, <1>2, <1>5, <1>7 DEF CacheInv, Records, cacheVars
<1>9. /\ \A v \in Workers : v # w => worker'[v] = worker[v]
      /\ worker'[w].task = t /\ worker'[w].pc = "settle"
  BY <1>1, <1>3 DEF WorkerRecord
<1>10. ContinuationsOK'
  BY <1>1, <1>2, <1>3, <1>9 DEF CacheInv, ContinuationsOK, At, cacheVars
<1>11. ASSUME NEW p \in pipelines_, p = t PROVE Whole(p)'
  <2>1. /\ p \in Pipelines /\ Passed(p) = ToSet(Uses[p])
        /\ handles'[p] = handles[p] /\ unseen'[p] = unseen[p] /\ done' = done
    BY <1>1 DEF CacheInv, Records, HandlesOK, cacheVars
  <2>2. /\ NotReady(p) = {} /\ invalid' = invalid
        /\ built' = [built EXCEPT ![p] =
             IF \E i \in DOMAIN Uses[p] : Ends(p, i) THEN {} ELSE handles[p] \cap done]
    BY <1>11, <2>1 DEF RunToEnd
  <2>3. built'[p] = IF \E i \in DOMAIN Uses[p] : Ends(p, i) THEN {} ELSE handles[p] \cap done
    BY <2>1, <2>2 DEF CacheInv, Records, Tasks
  <2>4. CASE \E i \in DOMAIN Uses[p] : Ends(p, i)
    <3>1. Class[p] \in MeshClasses /\ handles[p] \cap done \cap invalid # {}
      BY <2>4 DEF Ends
    <3> QED BY <2>1, <2>2, <2>3, <2>4, <3>1 DEF Whole, MeshClasses
  <2>5. CASE ~ \E i \in DOMAIN Uses[p] : Ends(p, i)
    <3>1. ASSUME NEW o \in handles[p], o \notin done PROVE FALSE
      <4>1. PICK i \in DOMAIN Uses[p] : o[1] = Uses[p][i]
        BY <2>1 DEF Passed, VariantsOf, ToSet
      <4>2. Pending(p, i)
        BY <3>1, <4>1 DEF Pending
      <4>3. \A j \in 1 .. i - 1 : j \in DOMAIN Uses[p]
        <5>1. Uses[p] \in Seq(Shaders)
          BY <2>1, CacheAssumption
        <5> QED BY <4>1, <5>1
      <4> QED BY <2>2, <2>5, <4>1, <4>2, <4>3 DEF NotReady
    <3>2. built'[p] = handles[p]
      BY <2>3, <2>5, <3>1
    <3> QED BY <2>1, <3>2 DEF Whole, Passed, VariantsOf, ToSet
  <2> QED BY <2>4, <2>5
<1>12. ASSUME NEW p \in pipelines_, p # t, Ran(p)' PROVE Whole(p)'
  <2>1. Ran(p)
    BY <1>1, <1>9, <1>12 DEF Ran, At
  <2>2. built'[p] = built[p]
    BY <1>6, <1>12 DEF CacheInv, Records, Tasks
  <2>3. Whole(p)
    BY <2>1 DEF CacheInv, BuildsOK
  <2> QED BY <1>1, <1>5, <2>2, <2>3, WholeKept DEF cacheVars
<1>13. BuildsOK'
  BY <1>1, <1>2, <1>11, <1>12 DEF CacheInv, BuildsOK, cacheVars
<1> QED BY <1>2, <1>8, <1>10, <1>13 DEF CacheInv

(* Otherwise it waits for one of them.                                     *)
LEMMA RunToDependencyInv ==
  ASSUME CacheInv, NEW w \in Workers, RunToDependency(w) PROVE CacheInv'
<1> DEFINE t == worker[w].task
<1>1. PICK o \in handles[t] \ done :
        worker' = [worker EXCEPT ![w] = [@ EXCEPT !.pc = "depend", !.dep = o]]
  BY Zenon DEF RunToDependency
<1>2. /\ UNCHANGED cacheVars /\ UNCHANGED depVars
      /\ UNCHANGED <<task_queue_, task_continuation_queue_>>
  BY DEF RunToDependency
<1>3. MakersOK' /\ VariantsOK' /\ HandlesOK' /\ Issued' = Issued /\ Made' = Made
  BY <1>2, QuietCache
<1>4. worker \in [Workers -> WorkerRecord]
  BY DEF CacheInv, Records
<1>5. t \in pipelines_ /\ t # NoTask
  BY <1>4, CacheAssumption DEF RunToDependency, WorkerRecord, Issued, Tasks
<1>6. o \in Made /\ o # NoTask
  <2>1. o \in handles[t] /\ handles[t] \in SUBSET Made
    BY <1>1, <1>5 DEF CacheInv, HandlesOK, Records
  <2> QED BY <2>1, CacheAssumption DEF Made, Tasks
<1>7. worker' \in [Workers -> WorkerRecord']
  <2>1. worker' \in [Workers -> WorkerRecord] /\ WorkerRecord' = WorkerRecord
    BY <1>1, <1>3, <1>4, <1>6 DEF WorkerRecord, WorkerPlaces
  <2> QED BY <2>1
<1>8. Records'
  BY <1>2, <1>3, <1>7 DEF CacheInv, Records, cacheVars, depVars
<1>9. /\ \A v \in Workers : v # w => worker'[v] = worker[v]
      /\ worker'[w].pc = "depend" /\ worker'[w].task = t /\ worker'[w].dep = o
  BY <1>1, <1>4 DEF WorkerRecord
<1>10. ContinuationsOK'
  BY <1>2, <1>3, <1>5, <1>6, <1>9 DEF CacheInv, ContinuationsOK, cacheVars, depVars
<1>11. \A p : Ran(p)' => Ran(p)
  BY <1>2, <1>9 DEF Ran, At, depVars
<1>12. BuildsOK'
  BY <1>2, <1>3, <1>11, WholeKept DEF CacheInv, BuildsOK, cacheVars, depVars
<1> QED BY <1>3, <1>8, <1>10, <1>12 DEF CacheInv

(* A continuation is left for a shader that is made and not done.          *)
LEMMA DependInv == ASSUME CacheInv, NEW w \in Workers, Depend(w) PROVE CacheInv'
<1>0. /\ UNCHANGED cacheVars /\ UNCHANGED <<done, invalid, built>>
      /\ UNCHANGED <<task_queue_, task_continuation_queue_>>
  BY DEF Depend
<1>1. worker \in [Workers -> WorkerRecord] /\ At(w, "depend")
  BY DEF CacheInv, Records, Depend
<1>2. /\ worker[w].dep \in Made /\ worker[w].task \in pipelines_
      /\ worker[w].task # NoTask
  BY <1>1 DEF CacheInv, ContinuationsOK, WorkerRecord, At
<1>3. MakersOK' /\ VariantsOK' /\ HandlesOK' /\ Issued' = Issued /\ Made' = Made
  BY <1>0, QuietCache
<1>4. CASE worker[w].dep \in done
  <2>1. /\ worker' = [worker EXCEPT ![w] = [@ EXCEPT !.pc = "run", !.dep = NoTask]]
        /\ UNCHANGED task_continuation_
    BY <1>4 DEF Depend
  <2>2. worker' \in [Workers -> WorkerRecord]
    BY <1>1, <2>1 DEF WorkerRecord, WorkerPlaces
  <2>3. QuietWorkers
    BY <1>0, <1>1, <1>2, <1>3, <2>1
       DEF QuietWorkers, HandlesKept, WorkerRecord, depVars, cacheVars, CacheInv, ContinuationsOK
  <2> QED BY <1>0, <2>2, <2>3, WorkerQuiet DEF CacheInv, Records
<1>5. CASE worker[w].dep \notin done
  <2>1. /\ task_continuation_' = task_continuation_ \cup {<<worker[w].dep, worker[w].task>>}
        /\ worker' = [worker EXCEPT ![w] =
                        [@ EXCEPT !.pc = "end", !.task = NoTask, !.dep = NoTask]]
    BY <1>5 DEF Depend
  <2>2. worker' \in [Workers -> WorkerRecord] /\ WorkerRecord' = WorkerRecord
    BY <1>1, <1>3, <2>1 DEF WorkerRecord, WorkerPlaces
  <2>3. Records'
    BY <1>0, <1>3, <2>2 DEF CacheInv, Records, cacheVars
  <2>4. \A v \in Workers : v # w => worker'[v] = worker[v]
    BY <1>1, <2>1
  <2>5. worker'[w].pc = "end"
    BY <1>1, <2>1 DEF WorkerRecord
  <2>6. task_continuation_' \subseteq (Made' \ done') \X pipelines_'
    BY <1>0, <1>2, <1>3, <1>5, <2>1 DEF CacheInv, ContinuationsOK, cacheVars
  <2>7. IsFiniteSet(task_continuation_')
    BY <2>1, FS_AddElement DEF CacheInv, ContinuationsOK
  <2>8. ContinuationsOK'
    BY <1>0, <2>4, <2>5, <2>6, <2>7 DEF CacheInv, ContinuationsOK, cacheVars
  <2>9. \A p : Ran(p)' => Ran(p)
    BY <1>0, <2>4, <2>5 DEF Ran, At
  <2>10. BuildsOK'
    BY <1>0, <1>3, <2>9, WholeKept DEF CacheInv, BuildsOK, cacheVars
  <2> QED BY <1>3, <2>3, <2>8, <2>10 DEF CacheInv
<1> QED BY <1>4, <1>5

(* What settles takes with it all that was left for it.                    *)
LEMMA SettleInv == ASSUME CacheInv, NEW w \in Workers, Settle(w) PROVE CacheInv'
<1> DEFINE t == worker[w].task
           b == SetToSeq({d[2] : d \in Continuations(t)})
<1>0. /\ UNCHANGED cacheVars /\ UNCHANGED <<invalid, built>>
      /\ UNCHANGED <<task_queue_, task_continuation_queue_>>
      /\ worker' = [worker EXCEPT ![w] =
                      [@ EXCEPT !.pc = "push", !.task = NoTask, !.buffer = b]]
      /\ task_continuation_' = task_continuation_ \ Continuations(t)
      /\ done' = done \cup {t}
  BY DEF Settle
<1>1. worker \in [Workers -> WorkerRecord] /\ At(w, "settle")
  BY DEF CacheInv, Records, Settle
<1>2. t \in Issued
  BY <1>1 DEF CacheInv, ContinuationsOK, WorkerRecord, At
<1>3. MakersOK' /\ VariantsOK' /\ HandlesOK' /\ Issued' = Issued /\ Made' = Made
  BY <1>0, QuietCache
<1>4. b \in Seq(Issued)
  BY ContinuedPipelines DEF CacheInv
<1> HIDE DEF b
<1>5. worker' \in [Workers -> WorkerRecord] /\ WorkerRecord' = WorkerRecord
  BY <1>0, <1>1, <1>3, <1>4 DEF WorkerRecord, WorkerPlaces
<1>6. Records'
  BY <1>0, <1>2, <1>3, <1>5 DEF CacheInv, Records, cacheVars, Issued, Tasks
<1>7. /\ \A v \in Workers : v # w => worker'[v] = worker[v]
      /\ worker'[w].pc = "push"
  BY <1>0, <1>1 DEF WorkerRecord
<1>8. task_continuation_' \subseteq (Made' \ done') \X pipelines_'
  BY <1>0, <1>3 DEF CacheInv, ContinuationsOK, Continuations, cacheVars
<1>9. IsFiniteSet(task_continuation_')
  BY <1>0, FS_Subset DEF CacheInv, ContinuationsOK
<1>10. ContinuationsOK'
  BY <1>0, <1>7, <1>8, <1>9 DEF CacheInv, ContinuationsOK, cacheVars
<1>11. \A p : Ran(p)' => Ran(p)
  BY <1>0, <1>1, <1>7 DEF Ran, At
<1>12. BuildsOK'
  <2>1. done' \subseteq Issued' /\ done \subseteq done'
    BY <1>0, <1>2, <1>3 DEF CacheInv, BuildsOK
  <2>2. ASSUME NEW p \in pipelines_', Ran(p)' PROVE Whole(p)'
    <3>1. Whole(p)
      BY <1>0, <1>11, <2>2 DEF CacheInv, BuildsOK, cacheVars
    <3> QED BY <1>0, <2>1, <3>1, WholeKept DEF cacheVars
  <2> QED BY <2>1, <2>2 DEF BuildsOK
<1> QED BY <1>3, <1>6, <1>10, <1>12 DEF CacheInv

LEMMA PushContinuationsInv ==
  ASSUME CacheInv, NEW w \in Workers, PushContinuations(w) PROVE CacheInv'
<1>1. /\ UNCHANGED cacheVars /\ UNCHANGED depVars /\ UNCHANGED task_queue_
      /\ task_continuation_queue_' = task_continuation_queue_ \o worker[w].buffer
      /\ worker' = [worker EXCEPT ![w] = [@ EXCEPT !.pc = "notify", !.buffer = <<>>]]
  BY DEF PushContinuations
<1>2. worker \in [Workers -> WorkerRecord] /\ worker[w].buffer \in Seq(Issued)
  BY DEF CacheInv, Records, WorkerRecord
<1>3. <<>> \in Seq(Issued)
  BY EmptySeq
<1>4. worker' \in [Workers -> WorkerRecord]
  BY <1>1, <1>2, <1>3 DEF WorkerRecord, WorkerPlaces
<1>5. task_continuation_queue_' \in Seq(Issued)
  BY <1>1, <1>2, ConcatProperties DEF CacheInv, Records
<1>6. QuietWorkers
  BY <1>1, <1>2, QuietCache
     DEF QuietWorkers, HandlesKept, WorkerRecord, cacheVars, CacheInv, ContinuationsOK
<1> QED BY <1>1, <1>4, <1>5, <1>6, WorkerQuiet DEF CacheInv, Records

LEMMA NotifyWorkersInv ==
  ASSUME CacheInv, NEW w \in Workers, NotifyWorkers(w) PROVE CacheInv'
<1> DEFINE ws == [worker EXCEPT ![w].pc = "end"]
<1>1. /\ UNCHANGED cacheVars /\ UNCHANGED depVars
      /\ UNCHANGED <<task_queue_, task_continuation_queue_>>
      /\ worker' = notify_all(ws)
  BY DEF NotifyWorkers
<1>2. ws \in [Workers -> WorkerRecord]
  BY DEF CacheInv, Records, WorkerRecord, WorkerPlaces
<1>3. Awakened(ws, worker')
  BY <1>1, <1>2, NotifyAll
<1>4. \A v \in Workers : ws[v].pc = (IF v = w THEN "end" ELSE worker[v].pc)
                         /\ ws[v].task = worker[v].task /\ ws[v].dep = worker[v].dep
  BY DEF CacheInv, Records, WorkerRecord
<1> HIDE DEF ws
<1>5. QuietWorkers
  BY <1>1, <1>3, <1>4, QuietCache
     DEF QuietWorkers, HandlesKept, Awakened, cacheVars, CacheInv, ContinuationsOK
<1> QED BY <1>1, <1>3, <1>5, WorkerQuiet DEF CacheInv, Records, Awakened

LEMMA WorkerStepInv ==
  ASSUME CacheInv, NEW w \in Workers, WorkerStep(w) PROVE CacheInv'
<1>1. CASE TestDestroyed(w)
  BY <1>1, Moving DEF TestDestroyed, WorkerPlaces
<1>2. CASE FindNothing(w)
  BY <1>2, Moving DEF FindNothing, WorkerPlaces
<1>3. CASE Wait(w)
  BY <1>3, Moving DEF Wait, WorkerPlaces
<1>4. CASE BeginTask(w)
  <2>1. worker[w].task # NoTask
    BY <1>4 DEF BeginTask, At, CacheInv, ContinuationsOK
  <2> QED BY <1>4, <2>1, Moving DEF BeginTask, WorkerPlaces
<1>5. CASE EndTask(w)
  BY <1>5, Moving DEF EndTask, WorkerPlaces
<1> QED
  BY <1>1, <1>2, <1>3, <1>4, <1>5, TakeTaskInv, RunToEndInv, RunToDependencyInv,
     DependInv, SettleInv, PushContinuationsInv, NotifyWorkersInv DEF WorkerStep

-----------------------------------------------------------------------------
(* The steps of the callers.                                               *)

(* The set of a sequence is its head and the set of its tail.              *)
LEMMA HeadAndTail ==
  ASSUME NEW S, NEW s \in Seq(S), s # <<>>
  PROVE  /\ Head(s) \in S /\ Tail(s) \in Seq(S)
         /\ ToSet(s) = {Head(s)} \cup ToSet(Tail(s))
<1>1. /\ Head(s) \in S /\ Tail(s) \in Seq(S) /\ Head(s) = s[1]
      /\ Len(s) \in Nat \ {0} /\ Len(Tail(s)) = Len(s) - 1
      /\ \A i \in 1 .. Len(Tail(s)) : Tail(s)[i] = s[i + 1]
  BY HeadTailProperties, LenProperties, EmptySeq
<1>2. DOMAIN s = 1 .. Len(s) /\ DOMAIN Tail(s) = 1 .. Len(s) - 1
  BY <1>1, LenProperties
<1>3. ToSet(s) \subseteq {Head(s)} \cup ToSet(Tail(s))
  <2>1. ASSUME NEW i \in 1 .. Len(s) PROVE s[i] \in {Head(s)} \cup ToSet(Tail(s))
    <3>1. CASE i = 1
      BY <1>1, <3>1
    <3>2. CASE i # 1
      <4>1. i - 1 \in 1 .. Len(s) - 1 /\ (i - 1) + 1 = i
        BY <1>1, <3>2
      <4>2. Tail(s)[i - 1] = s[i]
        BY <1>1, <4>1
      <4> QED BY <1>2, <4>1, <4>2 DEF ToSet
    <3> QED BY <3>1, <3>2
  <2> QED BY <1>2, <2>1 DEF ToSet
<1>4. {Head(s)} \cup ToSet(Tail(s)) \subseteq ToSet(s)
  <2>1. \A i \in 1 .. Len(s) - 1 : i + 1 \in 1 .. Len(s) /\ Tail(s)[i] = s[i + 1]
    BY <1>1
  <2>2. Head(s) \in ToSet(s)
    BY <1>1, <1>2 DEF ToSet
  <2> QED BY <1>2, <2>1, <2>2 DEF ToSet
<1> QED BY <1>1, <1>3, <1>4

(* What a caller's record says of its pipeline.                            *)
LEMMA CallerFacts ==
  ASSUME CacheInv, NEW c \in Callers
  PROVE  /\ caller \in [Callers -> CallerRecord]
         /\ caller[c].rest \in Seq(Shaders)
         /\ caller[c].pipeline \in Pipelines \cup {NoTask}
         /\ Making(c) => caller[c].pipeline \in Pipelines \ pipelines_
BY DEF CacheInv, Records, CallerRecord, MakersOK, MakerOK

(* Steps of a caller that submit nothing leave the scheduler in order.     *)
LEMMA SchedulerKept ==
  ASSUME CacheInv, UNCHANGED schedVars, UNCHANGED depVars, HandlesKept,
         pipelines_' = pipelines_, Made' = Made
  PROVE  /\ ContinuationsOK' /\ BuildsOK'
         /\ worker' \in [Workers -> WorkerRecord']
         /\ task_queue_' \in Seq(Issued') /\ task_continuation_queue_' \in Seq(Issued')
         /\ done' \subseteq Tasks /\ invalid' \subseteq Compiled
         /\ built' \in [Tasks -> SUBSET Compiled]
<1>1. WorkerRecord' = WorkerRecord /\ Issued' = Issued
  BY DEF WorkerRecord, Issued
<1>2. QuietWorkers
  BY DEF QuietWorkers, schedVars, CacheInv, ContinuationsOK
<1>3. ContinuationsOK' /\ BuildsOK'
  BY <1>2, QuietBuilds DEF CacheInv, Records
<1> QED BY <1>1, <1>3 DEF CacheInv, Records, schedVars, depVars

LEMMA FindPipelineInv ==
  ASSUME CacheInv, NEW c \in Callers, NEW p \in Pipelines, FindPipeline(c, p)
  PROVE  CacheInv'
<1>1. /\ UNCHANGED <<pipelines_, variants, handles, unseen, class_mutex>>
      /\ UNCHANGED schedVars /\ UNCHANGED depVars
      /\ caller' = [caller EXCEPT ![c] = [pc |-> "get", pipeline |-> p, rest |-> <<>>]]
      /\ caller[c].pc = "idle"
  BY DEF FindPipeline, Idle
<1>2. Made' = Made /\ HandlesKept
  BY <1>1 DEF Made, HandlesKept
<1>3. caller' \in [Callers -> CallerRecord]
  BY <1>1, CallerFacts, EmptySeq DEF CallerRecord
<1>4. Records'
  BY <1>1, <1>2, <1>3, SchedulerKept DEF CacheInv, Records
<1>5. /\ \A d \in Callers : d # c => caller'[d] = caller[d]
      /\ caller'[c].pc = "get"
  BY <1>1, CallerFacts
<1>6. MakersOK'
  <2>1. MakerOK(c)'
    BY <1>5 DEF MakerOK, Making
  <2>2. ASSUME NEW d \in Callers, d # c PROVE MakerOK(d)'
    BY <1>1, <1>5, <2>2, MakerKept, CallerFacts
  <2> QED BY <2>1, <2>2 DEF MakersOK
<1>7. VariantsOK'
  BY <1>1, <1>5 DEF CacheInv, VariantsOK, Inserting, Own
<1>8. HandlesOK'
  BY <1>1, <1>2, PassedKept
<1> QED BY <1>1, <1>2, <1>4, <1>6, <1>7, <1>8, SchedulerKept DEF CacheInv

LEMMA CreatePipelineInv ==
  ASSUME CacheInv, NEW c \in Callers, NEW p \in Pipelines, CreatePipeline(c, p)
  PROVE  CacheInv'
<1>1. /\ UNCHANGED <<pipelines_, variants, handles, unseen>>
      /\ UNCHANGED schedVars /\ UNCHANGED depVars
      /\ caller' = [caller EXCEPT ![c] =
                      [pc |-> "create", pipeline |-> p, rest |-> Uses[p]]]
      /\ class_mutex' = [class_mutex EXCEPT ![Class[p]] = c]
      /\ caller[c].pc = "idle" /\ p \notin pipelines_ /\ class_mutex[Class[p]] = NoOne
  BY DEF CreatePipeline, Idle
<1>2. /\ Made' = Made /\ HandlesKept
      /\ Class[p] \in Classes /\ Uses[p] \in Seq(Shaders)
  BY <1>1, CacheAssumption DEF Made, HandlesKept, Classes
<1>3. caller' \in [Callers -> CallerRecord]
  BY <1>1, <1>2, CallerFacts DEF CallerRecord
<1>4. Records'
  BY <1>1, <1>2, <1>3, SchedulerKept DEF CacheInv, Records
<1>5. /\ \A d \in Callers : d # c => caller'[d] = caller[d]
      /\ caller'[c] = [pc |-> "create", pipeline |-> p, rest |-> Uses[p]]
  BY <1>1, CallerFacts
<1>6. MakersOK'
  <2>1. ASSUME NEW d \in Callers, d # c, Making(d)
        PROVE  class_mutex'[Class[caller[d].pipeline]] = d
    <3>1. class_mutex[Class[caller[d].pipeline]] = d /\ d # NoOne
      BY <2>1, CacheAssumption DEF CacheInv, MakersOK, MakerOK
    <3>2. Class[caller[d].pipeline] # Class[p]
      BY <1>1, <3>1
    <3>3. Class[caller[d].pipeline] \in Classes
      BY <2>1, CallerFacts DEF Classes
    <3> QED BY <1>1, <3>1, <3>2, <3>3 DEF CacheInv, Records
  <2>2. class_mutex'[Class[p]] = c
    BY <1>1, <1>2 DEF CacheInv, Records
  <2>3. Passed(p) \cup ToSet(Uses[p]) = ToSet(Uses[p])
    BY DEF CacheInv, HandlesOK
  <2>4. ASSUME NEW d \in Callers, d # c, Making(d)
        PROVE  /\ caller[d].pipeline \in Pipelines \ pipelines_
               /\ Passed(caller[d].pipeline) \cup ToSet(caller[d].rest) =
                    ToSet(Uses[caller[d].pipeline])
    BY <2>4 DEF CacheInv, MakersOK, MakerOK
  <2>5. MakerOK(c)'
    <3>1. VariantsOf(handles'[p]) \cup unseen'[p] \cup ToSet(Uses[p]) = ToSet(Uses[p])
      BY <1>1, <2>3 DEF Passed
    <3>2. /\ caller'[c].pipeline = p /\ caller'[c].rest = Uses[p] /\ caller'[c].pc = "create"
          /\ p \in Pipelines \ pipelines_'
      BY <1>1, <1>5
    <3>3. VariantsOf(handles'[caller'[c].pipeline]) \cup unseen'[caller'[c].pipeline]
            \cup ToSet(caller'[c].rest) = ToSet(Uses[caller'[c].pipeline])
      BY <3>1, <3>2
    <3>4. class_mutex'[Class[caller'[c].pipeline]] = c
      BY <2>2, <3>2
    <3> QED BY <3>2, <3>3, <3>4 DEF MakerOK, Passed, VariantsOf, ToSet
  <2>6. ASSUME NEW d \in Callers, d # c PROVE MakerOK(d)'
    <3>1. caller'[d] = caller[d] /\ MakerOK(d)
      BY <1>5, <2>6 DEF CacheInv, MakersOK, MakerOK
    <3> QED BY <1>1, <2>1, <2>4, <2>6, <3>1
               DEF MakerOK, Making, Passed, VariantsOf, ToSet
  <2> QED BY <2>5, <2>6 DEF MakersOK
<1>7. VariantsOK' /\ HandlesOK'
  <2>1. VariantsOK'
    BY <1>1, <1>5 DEF CacheInv, VariantsOK, Inserting, Own
  <2> QED BY <1>1, <1>2, <2>1, PassedKept
<1> QED BY <1>1, <1>2, <1>4, <1>6, <1>7, SchedulerKept DEF CacheInv

(* A null pointer that a maker finds is that of a pixel shader which a     *)
(* thread with the mutex of another class is inserting.                    *)
LEMMA NullIsShared ==
  ASSUME CacheInv, NEW c \in Callers, caller[c].pc = "create", caller[c].rest # <<>>,
         NEW o \in Nodes(Head(caller[c].rest)), variants[o] = "null"
  PROVE  Shared(caller[c].pipeline, Head(caller[c].rest))
<1> DEFINE s == Head(caller[c].rest)
           p == caller[c].pipeline
<1>1. s \in ToSet(Uses[p]) /\ p \in Pipelines /\ Making(c)
  <2>1. caller[c].rest \in Seq(Shaders) /\ Making(c) /\ p \in Pipelines
    BY CallerFacts DEF Making
  <2>2. s \in ToSet(caller[c].rest)
    BY <2>1, HeadAndTail
  <2>3. ToSet(caller[c].rest) \subseteq ToSet(Uses[p])
    BY <2>1 DEF CacheInv, MakersOK, MakerOK
  <2> QED BY <2>1, <2>2, <2>3
<1>2. PICK d \in Callers : Inserting(d, o)
  BY DEF CacheInv, VariantsOK, Nodes
<1>3. caller[d].pc = "variant" /\ Head(caller[d].rest) = s
  BY <1>2 DEF Inserting, Own, Nodes
<1>4. caller[d].rest # <<>> /\ Making(d)
  BY <1>3 DEF CacheInv, MakersOK, MakerOK, Making
<1>5. s \in ToSet(Uses[caller[d].pipeline]) /\ caller[d].pipeline \in Pipelines
  <2>1. caller[d].rest \in Seq(Shaders) /\ caller[d].pipeline \in Pipelines
    BY <1>4, CallerFacts
  <2>2. s \in ToSet(caller[d].rest)
    BY <1>3, <1>4, <2>1, HeadAndTail
  <2>3. ToSet(caller[d].rest) \subseteq ToSet(Uses[caller[d].pipeline])
    BY <1>4 DEF CacheInv, MakersOK, MakerOK
  <2> QED BY <2>1, <2>2, <2>3
<1>6. Class[caller[d].pipeline] # Class[p]
  <2>1. c # d
    BY <1>3
  <2> QED BY <1>1, <1>4, <2>1, OneMaker DEF CacheInv
<1>7. s \in PixelVariants
  BY <1>1, <1>5, <1>6, CacheAssumption
<1> QED BY <1>5, <1>6, <1>7 DEF Shared

(* The pipelines two threads make differ, and so do their classes.         *)
LEMMA MakersDiffer ==
  ASSUME CacheInv, NEW c \in Callers, NEW d \in Callers, c # d, Making(c), Making(d)
  PROVE  /\ Class[caller[d].pipeline] # Class[caller[c].pipeline]
         /\ caller[d].pipeline # caller[c].pipeline
BY OneMaker DEF CacheInv

LEMMA FindVariantInv ==
  ASSUME CacheInv, NEW c \in Callers, FindVariant(c) PROVE CacheInv'
<1> DEFINE s == Head(caller[c].rest)
           p == caller[c].pipeline
<1>1. /\ UNCHANGED <<pipelines_, variants, class_mutex>>
      /\ UNCHANGED schedVars /\ UNCHANGED depVars
      /\ caller' = [caller EXCEPT ![c].rest = Tail(@)]
      /\ caller[c].pc = "create" /\ caller[c].rest # <<>>
  BY DEF FindVariant
<1>2. PICK o \in Nodes(s) :
        /\ handles' = [handles EXCEPT ![p] = IF variants[o] = "made" THEN @ \cup {o} ELSE @]
        /\ unseen' = [unseen EXCEPT ![p] = IF variants[o] = "null" THEN @ \cup {s} ELSE @]
  BY DEF FindVariant
<1>3. /\ s \in Shaders /\ Tail(caller[c].rest) \in Seq(Shaders)
      /\ ToSet(caller[c].rest) = {s} \cup ToSet(Tail(caller[c].rest))
  BY <1>1, CallerFacts, HeadAndTail
<1>4. Making(c) /\ p \in Pipelines \ pipelines_ /\ MakerOK(c)
  BY <1>1, CallerFacts DEF Making, CacheInv, MakersOK
<1>5. Made' = Made
  BY <1>1 DEF Made
<1>6. /\ caller' \in [Callers -> CallerRecord]
      /\ \A d \in Callers : d # c => caller'[d] = caller[d]
      /\ caller'[c].pc = "create" /\ caller'[c].pipeline = p
      /\ caller'[c].rest = Tail(caller[c].rest)
  <2>1. caller' = [caller EXCEPT ![c].rest = Tail(@)]
    BY <1>1
  <2>2. caller[c] \in CallerRecord /\ Tail(caller[c].rest) \in Seq(Shaders)
    BY <1>3, CallerFacts
  <2>3. [caller[c] EXCEPT !.rest = Tail(@)] \in CallerRecord
    BY <2>2 DEF CallerRecord
  <2>4. caller'[c] = [caller[c] EXCEPT !.rest = Tail(@)]
    BY <2>1, CallerFacts
  <2>5. caller'[c].pc = "create" /\ caller'[c].pipeline = p
        /\ caller'[c].rest = Tail(caller[c].rest)
    BY <1>1, <2>2, <2>4 DEF CallerRecord
  <2> QED BY <2>1, <2>3, <2>5, CallerFacts
<1>7. /\ handles \in [Pipelines -> SUBSET Made] /\ unseen \in [Pipelines -> SUBSET Shaders]
      /\ \A q \in Pipelines : \A t \in unseen[q] : Shared(q, t)
  BY DEF CacheInv, HandlesOK, Records
<1>8. /\ \A q \in Pipelines : q # p => handles'[q] = handles[q] /\ unseen'[q] = unseen[q]
      /\ handles' \in [Pipelines -> SUBSET Made]
      /\ unseen' \in [Pipelines -> SUBSET Shaders]
      /\ VariantsOf(handles'[p]) \cup unseen'[p] = Passed(p) \cup {s}
      /\ \A t \in unseen'[p] : Shared(p, t)
  <2>1. o \in Compiled /\ o[1] = s /\ variants[o] \in {"null", "made"}
    BY DEF Nodes, CacheInv, Records
  <2>2. CASE variants[o] = "made"
    <3>1. o \in Made
      BY <2>1, <2>2 DEF Made
    <3>2. handles' = [handles EXCEPT ![p] = @ \cup {o}] /\ unseen' = unseen
      BY <1>2, <1>7, <2>2
    <3>3. handles'[p] = handles[p] \cup {o}
      BY <1>4, <1>7, <3>2
    <3> QED BY <1>4, <1>7, <2>1, <3>1, <3>2, <3>3 DEF Passed, VariantsOf
  <2>3. CASE variants[o] = "null"
    <3>1. handles' = handles /\ unseen' = [unseen EXCEPT ![p] = @ \cup {s}]
      BY <1>2, <1>7, <2>3
    <3>2. unseen'[p] = unseen[p] \cup {s}
      BY <1>4, <1>7, <3>1
    <3>3. Shared(p, s)
      BY <1>1, <2>3, NullIsShared
    <3> QED BY <1>3, <1>4, <1>7, <3>1, <3>2, <3>3 DEF Passed
  <2> QED BY <2>1, <2>2, <2>3
<1>9. HandlesKept
  BY <1>4, <1>8 DEF HandlesKept, CacheInv, Records
<1>10. Records'
  BY <1>1, <1>5, <1>6, <1>8, <1>9, SchedulerKept DEF CacheInv, Records
<1>11. /\ class_mutex[Class[p]] = c
       /\ Passed(p) \cup ToSet(caller[c].rest) = ToSet(Uses[p])
  BY <1>4 DEF MakerOK
<1>12. MakersOK'
  <2>1. MakerOK(c)'
    <3>1. VariantsOf(handles'[p]) \cup unseen'[p] \cup ToSet(Tail(caller[c].rest))
            = ToSet(Uses[p])
      BY <1>3, <1>8, <1>11
    <3>2. pipelines_' = pipelines_ /\ class_mutex' = class_mutex
      BY <1>1
    <3>3. /\ caller'[c].pipeline \in Pipelines \ pipelines_'
          /\ class_mutex'[Class[caller'[c].pipeline]] = c
          /\ caller'[c].pc # "variant"
      BY <1>4, <1>6, <1>11, <3>2
    <3>4. VariantsOf(handles'[caller'[c].pipeline]) \cup unseen'[caller'[c].pipeline]
            \cup ToSet(caller'[c].rest) = ToSet(Uses[caller'[c].pipeline])
      BY <1>6, <3>1
    <3> QED BY <3>3, <3>4 DEF MakerOK, Passed, VariantsOf, ToSet
  <2>2. ASSUME NEW d \in Callers, d # c PROVE MakerOK(d)'
    <3>1. Making(d) => /\ handles'[caller[d].pipeline] = handles[caller[d].pipeline]
                       /\ unseen'[caller[d].pipeline] = unseen[caller[d].pipeline]
                       /\ caller[d].pipeline \notin pipelines_
      BY <1>4, <1>8, <2>2, MakersDiffer, CallerFacts
    <3> QED BY <1>1, <1>6, <2>2, <3>1, MakerKept
  <2> QED BY <2>1, <2>2 DEF MakersOK
<1>13. VariantsOK'
  BY <1>1, <1>6 DEF CacheInv, VariantsOK, Inserting, Own
<1>14. HandlesOK'
  <2>1. s \in ToSet(Uses[p]) /\ Passed(p) \subseteq ToSet(Uses[p])
    BY <1>3, <1>11
  <2>2. \A q \in Pipelines : VariantsOf(handles'[q]) \cup unseen'[q] \subseteq ToSet(Uses[q])
    BY <1>8, <2>1 DEF CacheInv, HandlesOK, Passed
  <2>3. \A q \in pipelines_ : VariantsOf(handles'[q]) \cup unseen'[q] = ToSet(Uses[q])
    BY <1>4, <1>8 DEF CacheInv, HandlesOK, Passed, Records
  <2>4. \A q \in Pipelines : \A t \in unseen'[q] : Shared(q, t)
    BY <1>7, <1>8
  <2> QED BY <1>1, <1>5, <1>8, <2>2, <2>3, <2>4
             DEF HandlesOK, Passed, VariantsOf, Shared, ToSet
<1> QED BY <1>1, <1>5, <1>9, <1>10, <1>12, <1>13, <1>14, SchedulerKept DEF CacheInv

LEMMA InsertVariantInv ==
  ASSUME CacheInv, NEW c \in Callers, InsertVariant(c) PROVE CacheInv'
<1> DEFINE o == Own(caller[c].pipeline, Head(caller[c].rest))
<1>1. /\ UNCHANGED <<pipelines_, handles, unseen, class_mutex>>
      /\ UNCHANGED schedVars /\ UNCHANGED depVars
      /\ caller' = [caller EXCEPT ![c].pc = "variant"]
      /\ caller[c].pc = "create" /\ caller[c].rest # <<>> /\ variants[o] = "absent"
      /\ variants' = [variants EXCEPT ![o] = "null"]
  BY DEF InsertVariant
<1>2. o \in Compiled
  BY <1>1, CallerFacts, HeadAndTail, OwnFacts DEF Making
<1>3. /\ variants'[o] = "null" /\ \A t \in Compiled : t # o => variants'[t] = variants[t]
      /\ variants' \in [Compiled -> {"absent", "null", "made"}]
  BY <1>1, <1>2 DEF CacheInv, Records
<1>4. Made' = Made /\ HandlesKept
  BY <1>1, <1>3 DEF Made, HandlesKept
<1>5. /\ caller' \in [Callers -> CallerRecord]
      /\ \A d \in Callers : d # c => caller'[d] = caller[d]
      /\ caller'[c].pc = "variant" /\ caller'[c].pipeline = caller[c].pipeline
      /\ caller'[c].rest = caller[c].rest
  BY <1>1, CallerFacts DEF CallerRecord
<1>6. Records'
  BY <1>1, <1>3, <1>4, <1>5, SchedulerKept DEF CacheInv, Records
<1>7. MakersOK'
  <2>1. MakerOK(c)'
    <3>1. MakerOK(c) /\ Making(c)
      BY <1>1 DEF CacheInv, MakersOK, Making
    <3>2. /\ caller'[c].pipeline \in Pipelines \ pipelines_'
          /\ class_mutex'[Class[caller'[c].pipeline]] = c
          /\ caller'[c].rest # <<>>
      BY <1>1, <1>5, <3>1 DEF MakerOK
    <3>3. VariantsOf(handles'[caller'[c].pipeline]) \cup unseen'[caller'[c].pipeline]
            \cup ToSet(caller'[c].rest) = ToSet(Uses[caller'[c].pipeline])
      BY <1>1, <1>5, <3>1 DEF MakerOK, Passed
    <3> QED BY <3>2, <3>3 DEF MakerOK, Passed, VariantsOf, ToSet
  <2>2. ASSUME NEW d \in Callers, d # c PROVE MakerOK(d)'
    BY <1>1, <1>5, <2>2, MakerKept, CallerFacts
  <2> QED BY <2>1, <2>2 DEF MakersOK
<1>8. VariantsOK'
  <2>1. ASSUME NEW t \in Compiled, variants'[t] = "null"
        PROVE  \E d \in Callers : Inserting(d, t)'
    <3>1. CASE t = o
      <4>1. t = Own(caller'[c].pipeline, Head(caller'[c].rest))
        BY <1>5, <3>1
      <4> QED BY <1>5, <4>1 DEF Inserting, Own
    <3>2. CASE t # o
      <4>1. PICK d \in Callers : Inserting(d, t)
        BY <1>3, <2>1, <3>2 DEF CacheInv, VariantsOK
      <4>2. d # c
        BY <1>1, <4>1 DEF Inserting
      <4> QED BY <1>5, <4>1, <4>2 DEF Inserting, Own
    <3> QED BY <3>1, <3>2
  <2> QED BY <2>1 DEF VariantsOK
<1>9. HandlesOK'
  BY <1>1, <1>4, PassedKept
<1> QED BY <1>1, <1>4, <1>6, <1>7, <1>8, <1>9, SchedulerKept DEF CacheInv

LEMMA GetPipelineInv ==
  ASSUME CacheInv, NEW c \in Callers, GetPipeline(c) PROVE CacheInv'
<1>1. /\ UNCHANGED <<pipelines_, variants, handles, unseen, class_mutex>>
      /\ UNCHANGED schedVars /\ UNCHANGED depVars
      /\ caller' = [caller EXCEPT ![c] = Idle] /\ caller[c].pc = "get"
  BY DEF GetPipeline
<1>2. Made' = Made /\ HandlesKept
  BY <1>1 DEF Made, HandlesKept
<1>3. Idle \in CallerRecord /\ Idle.pc = "idle"
  BY EmptySeq DEF Idle, CallerRecord
<1>4. /\ caller' \in [Callers -> CallerRecord] /\ caller'[c] = Idle
      /\ \A d \in Callers : d # c => caller'[d] = caller[d]
  BY <1>1, <1>3, CallerFacts
<1>5. Records'
  BY <1>1, <1>2, <1>4, SchedulerKept DEF CacheInv, Records
<1>6. MakersOK'
  <2>1. MakerOK(c)'
    BY <1>3, <1>4 DEF MakerOK, Making
  <2>2. ASSUME NEW d \in Callers, d # c PROVE MakerOK(d)'
    BY <1>1, <1>4, <2>2, MakerKept, CallerFacts
  <2> QED BY <2>1, <2>2 DEF MakersOK
<1>7. VariantsOK'
  BY <1>1, <1>4 DEF CacheInv, VariantsOK, Inserting, Own
<1>8. HandlesOK'
  BY <1>1, <1>2, PassedKept
<1> QED BY <1>1, <1>2, <1>5, <1>6, <1>7, <1>8, SchedulerKept DEF CacheInv

(* After submit the scheduler is in order, whatever became new meanwhile.  *)
LEMMA SchedulerFed ==
  ASSUME CacheInv, NEW task \in Issued', submit(task), HandlesKept,
         pipelines_ \subseteq pipelines_', pipelines_' \subseteq Pipelines, Made \subseteq Made'
  PROVE  /\ ContinuationsOK' /\ BuildsOK'
         /\ worker' \in [Workers -> WorkerRecord']
         /\ task_queue_' \in Seq(Issued') /\ task_continuation_queue_' \in Seq(Issued')
         /\ done' \subseteq Tasks /\ invalid' \subseteq Compiled
         /\ built' \in [Tasks -> SUBSET Compiled]
<1>1. Issued \subseteq Issued'
  BY DEF Issued
<1>2. Seq(Issued) \subseteq Seq(Issued')
  BY <1>1, SeqDef
<1>3. WorkerRecord \subseteq WorkerRecord'
  BY <1>1, <1>2 DEF WorkerRecord
<1>4. worker' \in [Workers -> WorkerRecord']
  BY <1>3, Submitting
<1>5. task_queue_' \in Seq(Issued')
  <2>1. task_queue_ \in Seq(Issued')
    BY <1>2 DEF CacheInv, Records
  <2> QED BY <2>1, Submitting, AppendProperties
<1>6. task_continuation_queue_' \in Seq(Issued')
  BY <1>2, Submitting DEF CacheInv, Records
<1>7. QuietWorkers
  BY Submitting DEF QuietWorkers
<1>8. ContinuationsOK' /\ BuildsOK'
  BY <1>7, QuietBuilds DEF CacheInv
<1>9. /\ done' \subseteq Tasks /\ invalid' \subseteq Compiled
      /\ built' \in [Tasks -> SUBSET Compiled]
  BY Submitting DEF CacheInv, Records, depVars
<1> QED BY <1>4, <1>5, <1>6, <1>8, <1>9

LEMMA SubmitVariantInv ==
  ASSUME CacheInv, NEW c \in Callers, SubmitVariant(c) PROVE CacheInv'
<1> DEFINE s == Head(caller[c].rest)
           p == caller[c].pipeline
           o == Own(p, s)
<1>1. /\ UNCHANGED <<pipelines_, unseen, class_mutex>> /\ submit(o)
      /\ variants' = [variants EXCEPT ![o] = "made"]
      /\ handles' = [handles EXCEPT ![p] = @ \cup {o}]
      /\ caller' = [caller EXCEPT ![c].pc = "create", ![c].rest = Tail(@)]
      /\ caller[c].pc = "variant"
  BY DEF SubmitVariant
<1>2. /\ Making(c) /\ p \in Pipelines \ pipelines_ /\ class_mutex[Class[p]] = c
      /\ Passed(p) \cup ToSet(caller[c].rest) = ToSet(Uses[p])
      /\ caller[c].rest # <<>>
  BY <1>1, CallerFacts DEF Making, CacheInv, MakersOK, MakerOK
<1>3. /\ s \in Shaders /\ Tail(caller[c].rest) \in Seq(Shaders)
      /\ ToSet(caller[c].rest) = {s} \cup ToSet(Tail(caller[c].rest))
  BY <1>2, CallerFacts, HeadAndTail
<1>4. o \in Compiled /\ o[1] = s
  BY <1>2, <1>3, OwnFacts
<1> HIDE DEF o
<1>5. /\ variants' \in [Compiled -> {"absent", "null", "made"}] /\ variants'[o] = "made"
      /\ \A t \in Compiled : t # o => variants'[t] = variants[t]
  BY <1>1, <1>4 DEF CacheInv, Records
<1>6. Made' = Made \cup {o}
  BY <1>4, <1>5 DEF Made
<1>7. o \in Issued' /\ pipelines_' = pipelines_ /\ pipelines_ \subseteq Pipelines
  BY <1>1, <1>4 DEF Issued, CacheInv, Records
<1>8. /\ caller' \in [Callers -> CallerRecord]
      /\ \A d \in Callers : d # c => caller'[d] = caller[d]
      /\ caller'[c].pc = "create" /\ caller'[c].pipeline = p
      /\ caller'[c].rest = Tail(caller[c].rest)
  <2>1. caller[c] \in CallerRecord
    BY CallerFacts
  <2> DEFINE r == [caller[c] EXCEPT !.pc = "create", !.rest = Tail(caller[c].rest)]
  <2>2. caller'[c] = r /\ caller' = [caller EXCEPT ![c] = r]
    BY <1>1, <2>1, CallerFacts DEF CallerRecord
  <2>3. /\ r \in CallerRecord /\ r.pc = "create" /\ r.pipeline = p
        /\ r.rest = Tail(caller[c].rest)
    BY <1>3, <2>1 DEF CallerRecord
  <2> HIDE DEF r
  <2> QED BY <2>2, <2>3, CallerFacts
<1>9. /\ handles'[p] = handles[p] \cup {o} /\ unseen' = unseen
      /\ \A q \in Pipelines : q # p => handles'[q] = handles[q]
      /\ handles' \in [Pipelines -> SUBSET Made']
  BY <1>1, <1>2, <1>6 DEF CacheInv, HandlesOK
<1>10. VariantsOf(handles'[p]) \cup unseen'[p] = Passed(p) \cup {s}
  BY <1>4, <1>9 DEF Passed, VariantsOf
<1>11. HandlesKept
  BY <1>2, <1>7, <1>9 DEF HandlesKept
<1> HIDE DEF s
<1>12. Records'
  BY <1>1, <1>5, <1>6, <1>7, <1>8, <1>11, SchedulerFed DEF CacheInv, Records
<1>13. MakersOK'
  <2>1. MakerOK(c)'
    <3>1. pipelines_' = pipelines_ /\ class_mutex' = class_mutex
      BY <1>1
    <3>2. /\ caller'[c].pipeline \in Pipelines \ pipelines_'
          /\ class_mutex'[Class[caller'[c].pipeline]] = c
          /\ caller'[c].pc # "variant"
      BY <1>2, <1>8, <3>1
    <3>3. VariantsOf(handles'[caller'[c].pipeline]) \cup unseen'[caller'[c].pipeline]
            \cup ToSet(caller'[c].rest) = ToSet(Uses[caller'[c].pipeline])
      BY <1>2, <1>3, <1>8, <1>10
    <3> QED BY <3>2, <3>3 DEF MakerOK, Passed, VariantsOf, ToSet
  <2>2. ASSUME NEW d \in Callers, d # c PROVE MakerOK(d)'
    <3>1. Making(d) => handles'[caller[d].pipeline] = handles[caller[d].pipeline]
                       /\ caller[d].pipeline \notin pipelines_
      BY <1>2, <1>9, <2>2, MakersDiffer, CallerFacts
    <3> QED BY <1>1, <1>8, <1>9, <2>2, <3>1, MakerKept
  <2> QED BY <2>1, <2>2 DEF MakersOK
<1>14. VariantsOK'
  <2>1. ASSUME NEW t \in Compiled, variants'[t] = "null"
        PROVE  \E d \in Callers : Inserting(d, t)'
    <3>1. t # o /\ variants[t] = "null"
      BY <1>5, <2>1
    <3>2. PICK d \in Callers : Inserting(d, t)
      BY <3>1 DEF CacheInv, VariantsOK
    <3>3. d # c
      BY <3>1, <3>2 DEF Inserting, s, o
    <3> QED BY <1>8, <3>2, <3>3 DEF Inserting, Own
  <2> QED BY <2>1 DEF VariantsOK
<1>15. HandlesOK'
  <2>1. s \in ToSet(Uses[p]) /\ Passed(p) \subseteq ToSet(Uses[p])
    BY <1>2, <1>3
  <2>2. \A q \in Pipelines : VariantsOf(handles'[q]) \cup unseen'[q] \subseteq ToSet(Uses[q])
    BY <1>9, <1>10, <2>1 DEF CacheInv, HandlesOK, Passed
  <2>3. \A q \in pipelines_ : VariantsOf(handles'[q]) \cup unseen'[q] = ToSet(Uses[q])
    BY <1>2, <1>7, <1>9 DEF CacheInv, HandlesOK, Passed
  <2>4. \A q \in Pipelines : \A t \in unseen'[q] : Shared(q, t)
    BY <1>9 DEF CacheInv, HandlesOK
  <2> QED BY <1>7, <1>9, <2>2, <2>3, <2>4
             DEF HandlesOK, Passed, VariantsOf, Shared, ToSet
<1> QED BY <1>1, <1>6, <1>7, <1>11, <1>12, <1>13, <1>14, <1>15, SchedulerFed DEF CacheInv

(* A pipeline enters the map with pointers to all of its variants.         *)
LEMMA SubmitPipelineInv ==
  ASSUME CacheInv, NEW c \in Callers, SubmitPipeline(c) PROVE CacheInv'
<1> DEFINE p == caller[c].pipeline
<1>1. /\ UNCHANGED <<variants, handles, unseen>> /\ submit(p)
      /\ pipelines_' = pipelines_ \cup {p}
      /\ class_mutex' = [class_mutex EXCEPT ![Class[p]] = NoOne]
      /\ caller' = [caller EXCEPT ![c].pc = "get"]
      /\ caller[c].pc = "create" /\ caller[c].rest = <<>>
  BY DEF SubmitPipeline
<1>2. /\ Making(c) /\ p \in Pipelines \ pipelines_
      /\ Passed(p) \cup ToSet(caller[c].rest) = ToSet(Uses[p])
  BY <1>1, CallerFacts DEF Making, CacheInv, MakersOK, MakerOK
<1>3. Passed(p) = ToSet(Uses[p])
  <2>1. ToSet(<<>>) = {}
    BY EmptySeq DEF ToSet
  <2> QED BY <1>1, <1>2, <2>1
<1>4. Made' = Made /\ HandlesKept
  BY <1>1 DEF Made, HandlesKept
<1>5. p \in Issued' /\ pipelines_' \subseteq Pipelines
  BY <1>1, <1>2 DEF Issued, CacheInv, Records
<1>6. /\ caller' \in [Callers -> CallerRecord] /\ caller'[c].pc = "get"
      /\ \A d \in Callers : d # c => caller'[d] = caller[d]
  <2>1. caller[c] \in CallerRecord
    BY CallerFacts
  <2>2. [caller[c] EXCEPT !.pc = "get"] \in CallerRecord
    BY <2>1 DEF CallerRecord
  <2>3. caller'[c] = [caller[c] EXCEPT !.pc = "get"]
    BY <1>1, CallerFacts
  <2>4. caller'[c].pc = "get"
    BY <2>1, <2>3 DEF CallerRecord
  <2> QED BY <1>1, <2>2, <2>4, CallerFacts
<1>7. class_mutex' \in [Classes -> Callers \cup {NoOne}]
  BY <1>1 DEF CacheInv, Records
<1>8. Records'
  BY <1>1, <1>4, <1>5, <1>6, <1>7, SchedulerFed DEF CacheInv, Records
<1>9. MakersOK'
  <2>1. MakerOK(c)'
    BY <1>6 DEF MakerOK, Making
  <2>2. ASSUME NEW d \in Callers, d # c PROVE MakerOK(d)'
    <3>1. ASSUME Making(d)
          PROVE  /\ caller[d].pipeline \notin pipelines_'
                 /\ class_mutex'[Class[caller[d].pipeline]] =
                      class_mutex[Class[caller[d].pipeline]]
      <4>1. /\ caller[d].pipeline # p /\ Class[caller[d].pipeline] # Class[p]
            /\ caller[d].pipeline \in Pipelines \ pipelines_
        BY <1>2, <2>2, <3>1, MakersDiffer, CallerFacts
      <4>2. Class[caller[d].pipeline] \in Classes
        BY <4>1 DEF Classes
      <4> QED BY <1>1, <4>1, <4>2 DEF CacheInv, Records
    <3> QED BY <1>1, <1>6, <2>2, <3>1, MakerKept
  <2> QED BY <2>1, <2>2 DEF MakersOK
<1>10. VariantsOK'
  BY <1>1, <1>6 DEF CacheInv, VariantsOK, Inserting, Own
<1>11. HandlesOK'
  <2>1. \A q \in Pipelines : VariantsOf(handles'[q]) \cup unseen'[q] = Passed(q)
    BY <1>1 DEF Passed
  <2>2. /\ handles' \in [Pipelines -> SUBSET Made']
        /\ \A q \in Pipelines : VariantsOf(handles'[q]) \cup unseen'[q] \subseteq ToSet(Uses[q])
        /\ \A q \in Pipelines : \A t \in unseen'[q] : Shared(q, t)
    BY <1>1, <1>4, <2>1 DEF CacheInv, HandlesOK
  <2>3. \A q \in pipelines_' : VariantsOf(handles'[q]) \cup unseen'[q] = ToSet(Uses[q])
    BY <1>1, <1>2, <1>3, <2>1 DEF CacheInv, HandlesOK, Records
  <2> QED BY <2>2, <2>3 DEF HandlesOK, Passed, VariantsOf, Shared, ToSet
<1> QED BY <1>1, <1>4, <1>5, <1>8, <1>9, <1>10, <1>11, SchedulerFed DEF CacheInv

LEMMA CallerStepInv ==
  ASSUME CacheInv, NEW c \in Callers, CallerStep(c) PROVE CacheInv'
BY FindVariantInv, InsertVariantInv, SubmitVariantInv, SubmitPipelineInv, GetPipelineInv
   DEF CallerStep

-----------------------------------------------------------------------------
(* The destructor, and the whole.                                          *)

LEMMA DestructorInv ==
  ASSUME CacheInv, Destroy \/ DestructorStep PROVE CacheInv'
<1>1. /\ UNCHANGED cacheVars /\ UNCHANGED depVars
      /\ UNCHANGED <<task_queue_, task_continuation_queue_>>
      /\ worker' = worker \/ worker' = notify_all(worker)
  BY DEF Destroy, DestructorStep, DestroyNotify, DestroyJoin
<1>2. worker \in [Workers -> WorkerRecord]
  BY DEF CacheInv, Records
<1>3. Awakened(worker, worker')
  <2>1. CASE worker' = worker
    BY <1>2, <2>1 DEF Awakened
  <2>2. CASE worker' = notify_all(worker)
    BY <1>2, <2>2, NotifyAll
  <2> QED BY <1>1, <2>1, <2>2
<1>4. QuietWorkers
  BY <1>1, <1>3, QuietCache
     DEF QuietWorkers, HandlesKept, Awakened, cacheVars, CacheInv, ContinuationsOK
<1> QED BY <1>1, <1>3, <1>4, WorkerQuiet DEF CacheInv, Records, Awakened

LEMMA CacheInit == Init => CacheInv
<1> SUFFICES ASSUME Init PROVE CacheInv
  OBVIOUS
<1>1. Idle \in CallerRecord /\ Started \in WorkerRecord /\ Unused \in WorkerRecord
  BY EmptySeq DEF Idle, Started, Unused, CallerRecord, WorkerRecord, WorkerPlaces
<1>2. <<>> \in Seq(Issued)
  BY EmptySeq
<1>3. Records
  BY <1>1, <1>2 DEF Init, Records
<1>4. /\ \A c \in Callers : caller[c].pc = "idle"
      /\ \A w \in Workers : worker[w].pc \in {"unused", "top"}
  BY DEF Init, Idle, Started, Unused
<1>5. MakersOK /\ VariantsOK /\ HandlesOK
  BY <1>4 DEF Init, MakersOK, MakerOK, Making, VariantsOK, HandlesOK, Passed, VariantsOf
<1>6. ContinuationsOK
  BY <1>4, FS_EmptySet DEF Init, ContinuationsOK
<1>7. BuildsOK
  BY DEF Init, BuildsOK
<1> QED BY <1>3, <1>5, <1>6, <1>7 DEF CacheInv

LEMMA CacheNext == ASSUME CacheInv, [Next]_vars PROVE CacheInv'
<1>1. CASE Next
  BY <1>1, FindPipelineInv, CreatePipelineInv, CallerStepInv, WorkerStepInv, DestructorInv
     DEF Next
<1>2. CASE UNCHANGED vars
  <2>1. UNCHANGED cacheVars /\ UNCHANGED depVars /\ UNCHANGED worker
        /\ UNCHANGED <<task_queue_, task_continuation_queue_>>
    BY <1>2 DEF vars, cacheVars, depVars
  <2>2. QuietWorkers
    BY <2>1, QuietCache DEF QuietWorkers, HandlesKept, cacheVars, CacheInv, ContinuationsOK
  <2> QED BY <2>1, <2>2, WorkerQuiet DEF CacheInv, Records
<1> QED BY <1>1, <1>2

(* The mutexes, the maps, the pointers and the continuations stay in order *)
(* (d3d11_pipeline_cache.cpp), although get_shader's map has no mutex of   *)
(* its own: a null pointer is returned only for a pixel shader that a      *)
(* thread with the mutex of another class is inserting.                    *)
THEOREM CacheInvariance == Spec => []CacheInv
<1>1. CacheInv /\ [Next]_vars => CacheInv'
  BY CacheNext
<1> QED BY <1>1, CacheInit, PTL DEF Spec

(* A pipeline whose ready_ is set was compiled from every shader of its    *)
(* description, each of them ready before (RunThreadpoolWork), but for a   *)
(* pixel shader shared with another class and the early return of a mesh   *)
(* pipeline with an invalid shader.                                        *)
THEOREM BuildSafety == Spec => []BuiltFromItsShaders
<1>1. CacheInv => BuiltFromItsShaders
  <2> SUFFICES ASSUME CacheInv, NEW p \in Pipelines \cap done
               PROVE  Whole(p) /\ \A s \in unseen[p] : Shared(p, s)
    BY DEF BuiltFromItsShaders
  <2>1. p \in pipelines_
    BY CacheAssumption DEF CacheInv, BuildsOK, Issued
  <2> QED BY <2>1 DEF CacheInv, BuildsOK, HandlesOK, Ran
<1> QED BY <1>1, CacheInvariance, PTL

(* What a worker leaves behind under deps_mutex_ waits for a shader that   *)
(* was submitted, is not done and waits for nothing (worker_func).         *)
THEOREM ContinuationSafety == Spec => []ContinuationIsAwaited
<1>1. CacheInv => ContinuationIsAwaited
  <2> SUFFICES ASSUME CacheInv, NEW d \in task_continuation_
               PROVE  /\ Submitted(d[1]) /\ d[1] \notin done
                      /\ \A e \in task_continuation_ : e[2] # d[1]
    BY DEF ContinuationIsAwaited
  <2>1. d[1] \in Made \ done /\ \A e \in task_continuation_ : e[2] \in Pipelines
    BY DEF CacheInv, ContinuationsOK, Records
  <2> QED BY <2>1, CacheAssumption DEF Submitted, Made
<1> QED BY <1>1, CacheInvariance, PTL

-----------------------------------------------------------------------------
(* Counting, for TaskInOnePlace and the counters of the scheduler.         *)

(* One if x is in S.                                                       *)
Bit(x, S) == IF x \in S THEN 1 ELSE 0

(* One worker more or less, when a step moves one worker.                  *)
LEMMA CountAt ==
  ASSUME NEW A \in SUBSET Workers, NEW B \in SUBSET Workers, NEW w \in Workers,
         \A v \in Workers : v # w => (v \in A <=> v \in B)
  PROVE  /\ Cardinality(A) \in Nat /\ Cardinality(B) \in Nat
         /\ Cardinality(B) + Bit(w, A) = Cardinality(A) + Bit(w, B)
<1>1. IsFiniteSet(A) /\ IsFiniteSet(B)
  BY FS_Subset, CacheAssumption
<1>2. Cardinality(A) \in Nat /\ Cardinality(B) \in Nat
  BY <1>1, FS_CardinalityType
<1>3. A \ {w} = B \ {w}
  OBVIOUS
<1>4. /\ Cardinality(A \ {w}) = IF w \in A THEN Cardinality(A) - 1 ELSE Cardinality(A)
      /\ Cardinality(B \ {w}) = IF w \in B THEN Cardinality(B) - 1 ELSE Cardinality(B)
  BY <1>1, FS_RemoveElement
<1> QED BY <1>2, <1>3, <1>4 DEF Bit

(* The places of a task in a queue.                                        *)
Places(q, t) == {n \in DOMAIN q : q[n] = t}

LEMMA PlacesFinite ==
  ASSUME NEW T, NEW q \in Seq(T), NEW t
  PROVE  /\ IsFiniteSet(Places(q, t)) /\ Cardinality(Places(q, t)) \in Nat
         /\ Places(q, t) \subseteq 1 .. Len(q) /\ Len(q) \in Nat
<1>1. Places(q, t) \in SUBSET (1 .. Len(q)) /\ Len(q) \in Nat
  BY DEF Places
<1>2. IsFiniteSet(1 .. Len(q))
  BY <1>1, FS_Interval
<1>3. IsFiniteSet(Places(q, t))
  BY <1>1, <1>2, FS_Subset
<1> QED BY <1>1, <1>3, FS_CardinalityType

(* Moving places in a queue changes none of them.                          *)
LEMMA Shifted ==
  ASSUME NEW S, IsFiniteSet(S), S \subseteq Nat, NEW k \in Nat
  PROVE  /\ IsFiniteSet({n + k : n \in S})
         /\ Cardinality({n + k : n \in S}) = Cardinality(S)
<1> DEFINE T == {n + k : n \in S}
           f == [n \in S |-> n + k]
<1>1. f \in Surjection(S, T)
  BY DEF Surjection
<1>2. f \in Injection(S, T)
  <2>1. \A a, b \in S : a + k = b + k => a = b
    OBVIOUS
  <2> QED BY <2>1 DEF Injection, IsInjective
<1>3. IsFiniteSet(T) /\ Cardinality(T) = Cardinality(S)
  BY <1>1, <1>2, FS_Surjection
<1> QED BY <1>3

LEMMA CountAppend ==
  ASSUME NEW T, NEW q \in Seq(T), NEW e \in T, NEW t
  PROVE  Cardinality(Places(Append(q, e), t)) = Cardinality(Places(q, t)) + Bit(e, {t})
<1> DEFINE r == Append(q, e)
           n == Len(q) + 1
<1>1. /\ DOMAIN q = 1 .. Len(q) /\ Len(q) \in Nat /\ DOMAIN r = 1 .. n /\ r[n] = e
      /\ \A i \in 1 .. Len(q) : r[i] = q[i]
  BY AppendProperties
<1> HIDE DEF r
<1>2. Places(r, t) = IF e = t THEN Places(q, t) \cup {n} ELSE Places(q, t)
  BY <1>1 DEF Places
<1>3. IsFiniteSet(Places(q, t)) /\ n \notin Places(q, t) /\ Cardinality(Places(q, t)) \in Nat
  BY <1>1, PlacesFinite
<1>4. Cardinality(Places(q, t) \cup {n}) = Cardinality(Places(q, t)) + 1
  BY <1>3, FS_AddElement
<1>5. Cardinality(Places(r, t)) = Cardinality(Places(q, t)) + Bit(e, {t})
  BY <1>2, <1>3, <1>4 DEF Bit
<1> QED BY <1>5 DEF r

LEMMA CountTail ==
  ASSUME NEW T, NEW q \in Seq(T), q # <<>>, NEW t
  PROVE  /\ Tail(q) \in Seq(T)
         /\ Cardinality(Places(q, t)) = Cardinality(Places(Tail(q), t)) + Bit(Head(q), {t})
<1> DEFINE r == Tail(q)
           R == {n + 1 : n \in Places(r, t)}
<1>1. /\ r \in Seq(T) /\ Len(r) = Len(q) - 1 /\ Len(q) \in Nat /\ Len(q) >= 1 /\ Len(r) \in Nat
      /\ DOMAIN q = 1 .. Len(q) /\ DOMAIN r = 1 .. Len(r) /\ Head(q) = q[1]
      /\ \A i \in 1 .. Len(r) : r[i] = q[i + 1]
  BY HeadTailProperties
<1> HIDE DEF r
<1>2. IsFiniteSet(Places(r, t)) /\ Places(r, t) \subseteq 1 .. Len(r)
      /\ Cardinality(Places(r, t)) \in Nat
  BY <1>1, PlacesFinite
<1>3. IsFiniteSet(R) /\ Cardinality(R) = Cardinality(Places(r, t))
  BY <1>2, Shifted, 1 \in Nat
<1>4. Places(q, t) = IF Head(q) = t THEN R \cup {1} ELSE R
  <2>1. ASSUME NEW i \in Places(q, t), i # 1 PROVE i \in R
    <3>1. i - 1 \in 1 .. Len(r) /\ i = (i - 1) + 1 /\ q[i] = t
      BY <1>1, <2>1 DEF Places
    <3>2. r[i - 1] = q[(i - 1) + 1]
      BY <1>1, <3>1
    <3>3. i - 1 \in Places(r, t)
      BY <1>1, <3>1, <3>2 DEF Places
    <3> QED BY <3>1, <3>3
  <2>2. ASSUME NEW n \in Places(r, t) PROVE n + 1 \in Places(q, t)
    BY <1>1 DEF Places
  <2>3. 1 \in Places(q, t) <=> Head(q) = t
    BY <1>1 DEF Places
  <2>4. R \subseteq Places(q, t) /\ Places(q, t) \subseteq R \cup {1}
    BY <2>1, <2>2
  <2>5. 1 \notin R
    BY <1>2
  <2> QED BY ONLY <2>3, <2>4, <2>5
<1>5. 1 \notin R
  BY <1>2
<1>6. Cardinality(R \cup {1}) = Cardinality(R) + 1
  BY <1>3, <1>5, FS_AddElement
<1>7. Cardinality(Places(q, t)) = Cardinality(Places(r, t)) + Bit(Head(q), {t})
  BY <1>2, <1>3, <1>4, <1>6 DEF Bit
<1> QED BY <1>1, <1>7 DEF r

LEMMA CountConcat ==
  ASSUME NEW T, NEW q \in Seq(T), NEW b \in Seq(T), NEW t
  PROVE  Cardinality(Places(q \o b, t)) = Cardinality(Places(q, t)) + Cardinality(Places(b, t))
<1> DEFINE r == q \o b
           R == {n + Len(q) : n \in Places(b, t)}
<1>1. /\ Len(r) = Len(q) + Len(b) /\ Len(q) \in Nat /\ Len(b) \in Nat
      /\ DOMAIN q = 1 .. Len(q) /\ DOMAIN b = 1 .. Len(b) /\ DOMAIN r = 1 .. Len(r)
      /\ \A i \in 1 .. Len(r) : r[i] = IF i <= Len(q) THEN q[i] ELSE b[i - Len(q)]
  BY ConcatProperties
<1> HIDE DEF r
<1>2. /\ IsFiniteSet(Places(q, t)) /\ Places(q, t) \subseteq 1 .. Len(q)
      /\ IsFiniteSet(Places(b, t)) /\ Places(b, t) \subseteq 1 .. Len(b)
      /\ Cardinality(Places(q, t)) \in Nat /\ Cardinality(Places(b, t)) \in Nat
  BY PlacesFinite
<1>3. IsFiniteSet(R) /\ Cardinality(R) = Cardinality(Places(b, t))
  <2>1. Places(b, t) \subseteq Nat /\ Len(q) \in Nat
    BY <1>1, <1>2
  <2> QED BY <1>2, <2>1, Shifted
<1>4. Places(r, t) = Places(q, t) \cup R
  <2>1. ASSUME NEW i \in Places(r, t) PROVE i \in Places(q, t) \cup R
    <3>1. i \in 1 .. Len(q) + Len(b) /\ r[i] = t
      BY <1>1, <2>1 DEF Places
    <3>2. CASE i <= Len(q)
      BY <1>1, <3>1, <3>2 DEF Places
    <3>3. CASE i > Len(q)
      <4>1. i - Len(q) \in 1 .. Len(b) /\ i = (i - Len(q)) + Len(q) /\ b[i - Len(q)] = t
        BY <1>1, <3>1, <3>3
      <4>2. i - Len(q) \in Places(b, t)
        BY <1>1, <4>1 DEF Places
      <4> QED BY <4>1, <4>2
    <3> QED BY <1>1, <3>1, <3>2, <3>3
  <2>2. ASSUME NEW i \in Places(q, t) PROVE i \in Places(r, t)
    <3>1. i \in 1 .. Len(q) /\ q[i] = t
      BY <1>1 DEF Places
    <3>2. i \in 1 .. Len(r) /\ r[i] = q[i]
      BY <1>1, <3>1
    <3> QED BY <1>1, <3>1, <3>2 DEF Places
  <2>3. ASSUME NEW n \in Places(b, t) PROVE n + Len(q) \in Places(r, t)
    <3>1. n \in 1 .. Len(b) /\ b[n] = t
      BY <1>1 DEF Places
    <3>2. /\ n + Len(q) \in 1 .. Len(r) /\ ~(n + Len(q) <= Len(q))
          /\ (n + Len(q)) - Len(q) = n
      BY <1>1, <3>1
    <3>3. r[n + Len(q)] = b[n]
      BY <1>1, <3>2
    <3> QED BY <1>1, <3>1, <3>2, <3>3 DEF Places
  <2> QED BY <2>1, <2>2, <2>3
<1>5. Places(q, t) \cap R = {}
  <2>1. ASSUME NEW n \in Places(b, t) PROVE n + Len(q) \notin Places(q, t)
    <3>1. n \in 1 .. Len(b)
      BY <1>2
    <3>2. ~(n + Len(q) <= Len(q))
      BY <1>1, <3>1
    <3> QED BY <1>1, <1>2, <3>2
  <2> QED BY <2>1
<1>6. Cardinality(Places(q, t) \cup R) = Cardinality(Places(q, t)) + Cardinality(R)
  <2>1. Cardinality(Places(q, t) \cap R) = 0
    BY <1>5, FS_EmptySet
  <2>2. Cardinality(Places(q, t) \cup R) =
          Cardinality(Places(q, t)) + Cardinality(R) - Cardinality(Places(q, t) \cap R)
    BY <1>2, <1>3, FS_Union
  <2> QED BY <1>2, <1>3, <2>1, <2>2
<1>7. Cardinality(Places(r, t)) = Cardinality(Places(q, t)) + Cardinality(Places(b, t))
  BY <1>3, <1>4, <1>6
<1> QED BY <1>7 DEF r

(* A sequence without repetition has what is in it once.                   *)
LEMMA CountInjective ==
  ASSUME NEW T, NEW b \in Seq(T), IsInjective(b), NEW t
  PROVE  Cardinality(Places(b, t)) = Bit(t, ToSet(b))
<1>1. CASE t \in ToSet(b)
  <2>1. PICK n \in DOMAIN b : b[n] = t
    BY <1>1 DEF ToSet
  <2>2. Places(b, t) = {n}
    BY <2>1 DEF Places, IsInjective
  <2> QED BY <1>1, <2>2, FS_Singleton DEF Bit
<1>2. CASE t \notin ToSet(b)
  <2>1. Places(b, t) = {}
    BY <1>2 DEF Places, ToSet
  <2> QED BY <1>2, <2>1, FS_EmptySet DEF Bit
<1> QED BY <1>1, <1>2

(* SetToSeq lists every element of a finite set, once.                     *)
LEMMA SetToSeqOnce ==
  ASSUME NEW S, IsFiniteSet(S)
  PROVE  IsInjective(SetToSeq(S)) /\ ToSet(SetToSeq(S)) = S
<1> DEFINE n == Cardinality(S)
           s == SetToSeq(S)
<1>1. n \in Nat /\ ExistsBijection(1 .. n, S)
  BY FS_CardinalityType
<1>2. PICK f \in Bijection(1 .. n, S) : TRUE
  BY <1>1 DEF ExistsBijection
<1>3. f \in [1 .. n -> S] /\ IsInjective(f)
  BY <1>2 DEF Bijection, Injection, IsInjective
<1>4. s \in [1 .. n -> S] /\ IsInjective(s)
  BY <1>3 DEF SetToSeq
<1>5. s \in Injection(1 .. n, S)
  BY <1>4 DEF Injection
<1>6. IsFiniteSet(1 .. n) /\ Cardinality(1 .. n) = n
  BY <1>1, FS_Interval
<1>7. s \in Surjection(1 .. n, S)
  BY <1>5, <1>6, FS_Injection
<1>8. ToSet(s) = S
  BY <1>4, <1>7 DEF ToSet, Surjection
<1> QED BY <1>4, <1>8

-----------------------------------------------------------------------------
(* Where a task can be.                                                    *)

Hands(t) == {w \in Workers : worker[w].task = t}
Buffers(t) == {w \in Workers : t \in ToSet(worker[w].buffer)}
Left(t) == {d \in task_continuation_ : d[2] = t}

(* The five numbers that Held adds.                                        *)
LEMMA HeldParts ==
  ASSUME CacheInv, NEW t
  PROVE  /\ Held(t) = Cardinality(Hands(t)) + Cardinality(Buffers(t)) + Cardinality(Left(t))
                      + Cardinality(Places(task_queue_, t))
                      + Cardinality(Places(task_continuation_queue_, t))
         /\ Cardinality(Hands(t)) \in Nat /\ Cardinality(Buffers(t)) \in Nat
         /\ IsFiniteSet(Left(t)) /\ Cardinality(Left(t)) \in Nat
         /\ Cardinality(Places(task_queue_, t)) \in Nat
         /\ Cardinality(Places(task_continuation_queue_, t)) \in Nat
         /\ Hands(t) \in SUBSET Workers /\ Buffers(t) \in SUBSET Workers
         /\ IsFiniteSet(Hands(t)) /\ IsFiniteSet(Buffers(t))
<1>1. Hands(t) \in SUBSET Workers /\ Buffers(t) \in SUBSET Workers
  BY DEF Hands, Buffers
<1>2. IsFiniteSet(Hands(t)) /\ IsFiniteSet(Buffers(t))
  BY <1>1, FS_Subset, CacheAssumption
<1>3. Left(t) \in SUBSET task_continuation_ /\ IsFiniteSet(task_continuation_)
  BY DEF Left, CacheInv, ContinuationsOK
<1>4. IsFiniteSet(Left(t))
  BY <1>3, FS_Subset
<1>5. task_queue_ \in Seq(Issued) /\ task_continuation_queue_ \in Seq(Issued)
  BY DEF CacheInv, Records
<1>6. /\ Cardinality(Places(task_queue_, t)) \in Nat
      /\ Cardinality(Places(task_continuation_queue_, t)) \in Nat
  BY <1>5, PlacesFinite
<1>7. Cardinality(Hands(t)) \in Nat /\ Cardinality(Buffers(t)) \in Nat /\ Cardinality(Left(t)) \in Nat
  BY <1>2, <1>4, FS_CardinalityType
<1>8. Held(t) = Cardinality(Hands(t)) + Cardinality(Buffers(t)) + Cardinality(Left(t))
                + Cardinality(Places(task_queue_, t))
                + Cardinality(Places(task_continuation_queue_, t))
  BY DEF Held, Hands, Buffers, Left, Places
<1> QED BY <1>1, <1>2, <1>4, <1>6, <1>7, <1>8

(* The same in the next state, as a sum of five numbers.                   *)
HeldIs(t, h, b, l, q, c) ==
  /\ h = Cardinality(Hands(t)) /\ b = Cardinality(Buffers(t)) /\ l = Cardinality(Left(t))
  /\ q = Cardinality(Places(task_queue_, t)) /\ c = Cardinality(Places(task_continuation_queue_, t))
  /\ Held(t) = h + b + l + q + c
HeldSum(t) == \E h, b, l, q, c \in Nat : HeldIs(t, h, b, l, q, c)
LEMMA HeldNext == ASSUME NEW t PROVE (CacheInv => HeldSum(t)) /\ (CacheInv => HeldSum(t))'
<1>1. ASSUME CacheInv PROVE HeldSum(t)
  BY <1>1, HeldParts DEF HeldIs, HeldSum
<1>2. CacheInv => HeldSum(t)
  BY <1>1
<1> QED BY <1>2, PTL

(* The counters of the scheduler, and who holds worker_mutex_.             *)
RunPlaces == {"run", "depend", "settle", "push", "notify", "end"}
Running == {w \in Workers : worker[w].pc \in RunPlaces}
Used == {w \in Workers : worker[w].pc # "unused"}
Counted ==
  /\ \A w \in Workers : worker[w].pc = "to_wait" <=> worker_mutex_ = w
  /\ running = Cardinality(Running) /\ threads = Cardinality(Used)

PlaceInv == Counted /\ HandsOK /\ TaskInOnePlace

(* A step changes one worker; others at most stop waiting.                 *)
OthersKept(w) ==
  \A v \in Workers : v # w =>
    /\ worker'[v].task = worker[v].task /\ worker'[v].buffer = worker[v].buffer
    /\ worker'[v].pc = worker[v].pc \/ (worker[v].pc = "waiting" /\ worker'[v].pc = "enter")

(* The counters, when worker w goes from one place to another.             *)
LEMMA CountersMoved ==
  ASSUME Counted, NEW w \in Workers, OthersKept(w),
         running' \in Int, threads' \in Int,
         running' + Bit(worker[w].pc, RunPlaces) =
           running + Bit(worker'[w].pc, RunPlaces),
         threads' + Bit(worker'[w].pc, {"unused"}) = threads + Bit(worker[w].pc, {"unused"}),
         \/ /\ worker_mutex_' = worker_mutex_
            /\ worker[w].pc # "to_wait" /\ worker'[w].pc # "to_wait"
         \/ worker_mutex_ = NoOne /\ worker_mutex_' = w /\ worker'[w].pc = "to_wait"
         \/ /\ worker_mutex_' = NoOne
            /\ worker[w].pc = "to_wait" /\ worker'[w].pc # "to_wait"
  PROVE  Counted'
<1>1. \A v \in Workers : v # w => (v \in Running <=> v \in Running')
  BY DEF OthersKept, Running, RunPlaces
<1>2. \A v \in Workers : v # w => (v \in Used <=> v \in Used')
  BY DEF OthersKept, Used
<1>3. /\ Running \in SUBSET Workers /\ Running' \in SUBSET Workers
      /\ Used \in SUBSET Workers /\ Used' \in SUBSET Workers
  BY DEF Running, Used
<1>4. /\ Cardinality(Running) \in Nat /\ Cardinality(Running') \in Nat
      /\ Cardinality(Running') + Bit(w, Running) = Cardinality(Running) + Bit(w, Running')
  BY <1>1, <1>3, CountAt
<1>5. /\ Cardinality(Used) \in Nat /\ Cardinality(Used') \in Nat
      /\ Cardinality(Used') + Bit(w, Used) = Cardinality(Used) + Bit(w, Used')
  BY <1>2, <1>3, CountAt
<1>6. running' = Cardinality(Running')
  <2>1. running = Cardinality(Running)
    BY DEF Counted
  <2>2. Bit(w, Running) = Bit(worker[w].pc, RunPlaces)
        /\ Bit(w, Running') = Bit(worker'[w].pc, RunPlaces)
    BY DEF Running, Bit
  <2>3. Bit(worker[w].pc, RunPlaces) \in Int /\ Bit(worker'[w].pc, RunPlaces) \in Int
    BY DEF Bit
  <2> QED BY <1>4, <2>1, <2>2, <2>3
<1>7. threads' = Cardinality(Used')
  <2>1. threads = Cardinality(Used)
    BY DEF Counted
  <2>2. /\ Bit(w, Used) = 1 - Bit(worker[w].pc, {"unused"})
        /\ Bit(w, Used') = 1 - Bit(worker'[w].pc, {"unused"})
    BY DEF Used, Bit
  <2>3. Bit(worker[w].pc, {"unused"}) \in Int /\ Bit(worker'[w].pc, {"unused"}) \in Int
    BY DEF Bit
  <2>4. /\ threads' \in Int
        /\ threads' + Bit(worker'[w].pc, {"unused"}) = threads + Bit(worker[w].pc, {"unused"})
    OBVIOUS
  <2> QED BY ONLY <1>5, <2>1, <2>2, <2>3, <2>4
<1>8. ASSUME NEW v \in Workers PROVE worker'[v].pc = "to_wait" <=> worker_mutex_' = v
  <2>1. v # NoOne /\ w # NoOne
    BY CacheAssumption
  <2>2. /\ worker[v].pc = "to_wait" <=> worker_mutex_ = v
        /\ worker[w].pc = "to_wait" <=> worker_mutex_ = w
    BY DEF Counted
  <2>3. v # w => (worker'[v].pc = "to_wait" <=> worker[v].pc = "to_wait")
    BY DEF OthersKept
  <2> QED BY <2>1, <2>2, <2>3
<1> QED BY <1>6, <1>7, <1>8 DEF Counted

(* Where the workers' tasks are, when one worker changes.                  *)
LEMMA HandsMoved ==
  ASSUME CacheInv, NEW w \in Workers, OthersKept(w), NEW t
  PROVE  /\ Cardinality(Hands(t)') \in Nat /\ Cardinality(Buffers(t)') \in Nat
         /\ Cardinality(Hands(t)') + Bit(worker[w].task, {t}) =
              Cardinality(Hands(t)) + Bit(worker'[w].task, {t})
         /\ Cardinality(Buffers(t)') + Bit(t, ToSet(worker[w].buffer)) =
              Cardinality(Buffers(t)) + Bit(t, ToSet(worker'[w].buffer))
<1>1. \A v \in Workers : v # w => (v \in Hands(t) <=> v \in Hands(t)')
  BY DEF OthersKept, Hands
<1>2. \A v \in Workers : v # w => (v \in Buffers(t) <=> v \in Buffers(t)')
  BY DEF OthersKept, Buffers, ToSet
<1>3. /\ Hands(t) \in SUBSET Workers /\ Hands(t)' \in SUBSET Workers
      /\ Buffers(t) \in SUBSET Workers /\ Buffers(t)' \in SUBSET Workers
  BY DEF Hands, Buffers
<1>4. /\ Cardinality(Hands(t)') \in Nat
      /\ Cardinality(Hands(t)') + Bit(w, Hands(t)) =
           Cardinality(Hands(t)) + Bit(w, Hands(t)')
  BY <1>1, <1>3, CountAt
<1>5. /\ Cardinality(Buffers(t)') \in Nat
      /\ Cardinality(Buffers(t)') + Bit(w, Buffers(t)) =
           Cardinality(Buffers(t)) + Bit(w, Buffers(t)')
  BY <1>2, <1>3, CountAt
<1>6. /\ Bit(w, Hands(t)) = Bit(worker[w].task, {t})
      /\ Bit(w, Hands(t)') = Bit(worker'[w].task, {t})
  BY DEF Hands, Bit
<1>7. /\ Bit(w, Buffers(t)) = Bit(t, ToSet(worker[w].buffer))
      /\ Bit(w, Buffers(t)') = Bit(t, ToSet(worker'[w].buffer))
  BY DEF Buffers, Bit, ToSet
<1> QED BY <1>4, <1>5, <1>6, <1>7

(* The invariant of a worker that is only told to stop waiting.            *)
LEMMA HandsStay ==
  ASSUME HandsOK, NEW w \in Workers, OthersKept(w), HandOK(w)'
  PROVE  \A v \in Workers : HandOK(v)'
<1> SUFFICES ASSUME NEW v \in Workers, v # w PROVE HandOK(v)'
  OBVIOUS
<1>1. HandOK(v)
  BY DEF HandsOK
<1>2. /\ worker'[v].task = worker[v].task /\ worker'[v].buffer = worker[v].buffer
      /\ worker'[v].pc = worker[v].pc \/ (worker[v].pc = "waiting" /\ worker'[v].pc = "enter")
  BY DEF OthersKept
<1> QED BY <1>1, <1>2 DEF HandOK, IsInjective

-----------------------------------------------------------------------------
(* Steps that leave every task where it is.                                *)

LEMMA TasksStay ==
  ASSUME PlaceInv, NEW w \in Workers, OthersKept(w),
         worker'[w].task = worker[w].task, worker'[w].buffer = worker[w].buffer,
         UNCHANGED <<task_queue_, task_continuation_queue_, task_continuation_, done>>,
         \A t \in Tasks : Submitted(t)' <=> Submitted(t)
  PROVE  TaskInOnePlace'
<1>1. \A v \in Workers : worker'[v].task = worker[v].task /\ worker'[v].buffer = worker[v].buffer
  BY DEF OthersKept
<1>2. ASSUME NEW t \in Tasks
      PROVE  Held(t)' = IF Submitted(t)' /\ t \notin done' THEN 1 ELSE 0
  <2>1. Held(t)' = Held(t)
    <3>1. {v \in Workers : worker[v].task = t}' = {v \in Workers : worker[v].task = t}
      BY <1>1
    <3>2. {v \in Workers : t \in ToSet(worker[v].buffer)}' =
            {v \in Workers : t \in ToSet(worker[v].buffer)}
      BY <1>1 DEF ToSet
    <3>3. /\ task_queue_' = task_queue_ /\ task_continuation_queue_' = task_continuation_queue_
          /\ task_continuation_' = task_continuation_
      OBVIOUS
    <3> QED BY ONLY <3>1, <3>2, <3>3 DEF Held
  <2>2. Held(t) = IF Submitted(t) /\ t \notin done THEN 1 ELSE 0
    BY DEF PlaceInv, TaskInOnePlace
  <2> QED BY <2>1, <2>2
<1> QED BY <1>2 DEF TaskInOnePlace

(* A step of worker w in worker_func that touches neither the queues nor   *)
(* what is done.                                                           *)
LEMMA WorkerStays ==
  ASSUME PlaceInv, NEW w \in Workers, OthersKept(w), Counted', HandOK(w)',
         worker'[w].task = worker[w].task, worker'[w].buffer = worker[w].buffer,
         UNCHANGED <<task_queue_, task_continuation_queue_, task_continuation_, done>>,
         UNCHANGED cacheVars
  PROVE  PlaceInv'
<1>1. pipelines_' = pipelines_ /\ variants' = variants /\ caller' = caller
  BY DEF cacheVars
<1>2. \A t : Submitted(t)' <=> Submitted(t)
  BY <1>1 DEF Submitted
<1>3. TaskInOnePlace'
  BY <1>2, TasksStay
<1>4. \A v \in Workers : HandOK(v)'
  BY HandsStay DEF PlaceInv
<1>5. InsertersOK'
  BY <1>1 DEF PlaceInv, HandsOK, InsertersOK, Inserting
<1>6. HandsOK'
  BY <1>2, <1>4, <1>5 DEF PlaceInv, HandsOK
<1> QED BY <1>3, <1>6 DEF PlaceInv

(* Goto.                                                                   *)
LEMMA GoneTo ==
  ASSUME CacheInv, NEW w \in Workers, NEW pc, worker' = [worker EXCEPT ![w].pc = pc]
  PROVE  /\ OthersKept(w) /\ worker'[w].pc = pc
         /\ worker'[w].task = worker[w].task /\ worker'[w].buffer = worker[w].buffer
BY DEF CacheInv, Records, WorkerRecord, OthersKept

LEMMA HandStays ==
  ASSUME HandsOK, NEW w \in Workers,
         worker'[w].task = worker[w].task, worker'[w].buffer = worker[w].buffer,
         worker[w].task # NoTask => worker'[w].pc \in {"begin", "run", "depend", "settle"},
         worker[w].buffer # <<>> => worker'[w].pc = "push"
  PROVE  HandOK(w)'
<1>1. HandOK(w)
  BY DEF HandsOK
<1> QED BY <1>1 DEF HandOK, IsInjective

(* The counters are numbers.                                               *)
LEMMA CounterTypes == ASSUME PlaceInv PROVE running \in Nat /\ threads \in Nat
<1>1. Running \in SUBSET Workers /\ Used \in SUBSET Workers
  BY DEF Running, Used
<1>2. IsFiniteSet(Running) /\ IsFiniteSet(Used)
  BY <1>1, FS_Subset, CacheAssumption
<1> QED BY <1>2, FS_CardinalityType DEF PlaceInv, Counted

(* The steps of worker_func that only go on, with the counters.            *)
LEMMA GoOnPlaces ==
  ASSUME CacheInv, PlaceInv, NEW w \in Workers,
         TestDestroyed(w) \/ FindNothing(w) \/ Wait(w) \/ BeginTask(w) \/ RunToEnd(w) \/ EndTask(w)
  PROVE  PlaceInv'
<1>1. /\ UNCHANGED <<task_queue_, task_continuation_queue_, task_continuation_, done>>
      /\ UNCHANGED cacheVars /\ threads' = threads
  BY DEF TestDestroyed, FindNothing, Wait, BeginTask, RunToEnd, EndTask, depVars
<1>2. HandOK(w)
  BY DEF PlaceInv, HandsOK
<1>3. PICK pc : /\ worker' = [worker EXCEPT ![w].pc = pc]
                /\ \/ worker[w].pc = "top" /\ pc \in {"enter", "exited"}
                   \/ worker[w].pc = "enter" /\ pc = "exited"
                   \/ worker[w].pc = "enter" /\ pc = "to_wait"
                   \/ worker[w].pc = "to_wait" /\ pc = "waiting"
                   \/ worker[w].pc = "begin" /\ pc = "run"
                   \/ worker[w].pc = "run" /\ pc = "settle"
                   \/ worker[w].pc = "end" /\ pc = "top"
                /\ pc = "run" => running' = running + 1
                /\ pc = "top" => running' = running - 1
                /\ pc \notin {"run", "top"} => running' = running
                /\ pc = "to_wait" => worker_mutex_ = NoOne /\ worker_mutex_' = w
                /\ pc = "waiting" => worker_mutex_' = NoOne
                /\ pc \notin {"to_wait", "waiting"} => worker_mutex_' = worker_mutex_
  BY DEF TestDestroyed, FindNothing, Wait, BeginTask, RunToEnd, EndTask, Goto, At
<1>4. /\ OthersKept(w) /\ worker'[w].pc = pc
      /\ worker'[w].task = worker[w].task /\ worker'[w].buffer = worker[w].buffer
  BY <1>3, GoneTo
<1>5. running \in Nat /\ threads \in Nat
  BY CounterTypes
<1>6. /\ running' + Bit(worker[w].pc, RunPlaces) = running + Bit(worker'[w].pc, RunPlaces)
      /\ Bit(worker'[w].pc, {"unused"}) = 0 /\ Bit(worker[w].pc, {"unused"}) = 0
  BY <1>3, <1>4, <1>5 DEF Bit, RunPlaces
<1>7. \/ /\ worker_mutex_' = worker_mutex_
         /\ worker[w].pc # "to_wait" /\ worker'[w].pc # "to_wait"
      \/ worker_mutex_ = NoOne /\ worker_mutex_' = w /\ worker'[w].pc = "to_wait"
      \/ worker_mutex_' = NoOne /\ worker[w].pc = "to_wait" /\ worker'[w].pc # "to_wait"
  BY <1>3, <1>4
<1>8. running' \in Int
  BY <1>3, <1>5
<1>9. Counted'
  BY <1>1, <1>4, <1>5, <1>6, <1>7, <1>8, CountersMoved DEF PlaceInv
<1>10. HandOK(w)'
  BY <1>2, <1>3, <1>4, HandStays DEF HandOK, PlaceInv
<1> QED BY <1>1, <1>4, <1>9, <1>10, WorkerStays

(* A step of w between two places at which it runs a task.                 *)
LEMMA RunningOn ==
  ASSUME PlaceInv, NEW w \in Workers, OthersKept(w),
         worker[w].pc \in RunPlaces, worker'[w].pc \in RunPlaces,
         UNCHANGED <<running, threads, worker_mutex_>>
  PROVE  Counted'
<1>1. /\ Bit(worker[w].pc, RunPlaces) = 1 /\ Bit(worker'[w].pc, RunPlaces) = 1
      /\ Bit(worker[w].pc, {"unused"}) = 0 /\ Bit(worker'[w].pc, {"unused"}) = 0
      /\ worker[w].pc # "to_wait" /\ worker'[w].pc # "to_wait"
  BY DEF Bit, RunPlaces
<1>2. running \in Nat /\ threads \in Nat
  BY CounterTypes
<1> QED BY <1>1, <1>2, CountersMoved DEF PlaceInv

LEMMA RunToDependencyPlaces ==
  ASSUME CacheInv, PlaceInv, NEW w \in Workers, RunToDependency(w) PROVE PlaceInv'
<1>1. PICK o : worker' = [worker EXCEPT ![w] = [@ EXCEPT !.pc = "depend", !.dep = o]]
  BY Zenon DEF RunToDependency
<1>2. /\ UNCHANGED <<task_queue_, task_continuation_queue_, task_continuation_, done>>
      /\ UNCHANGED <<running, threads, worker_mutex_>>
      /\ UNCHANGED cacheVars /\ worker[w].pc = "run"
  BY DEF RunToDependency, depVars, At
<1>3. /\ OthersKept(w) /\ worker'[w].pc = "depend"
      /\ worker'[w].task = worker[w].task /\ worker'[w].buffer = worker[w].buffer
  BY <1>1 DEF CacheInv, Records, WorkerRecord, OthersKept
<1>4. Counted'
  BY <1>2, <1>3, RunningOn DEF RunPlaces
<1>5. HandOK(w)'
  BY <1>2, <1>3, HandStays DEF PlaceInv, HandsOK, HandOK
<1> QED BY <1>2, <1>3, <1>4, <1>5, WorkerStays

LEMMA NotifyWorkersPlaces ==
  ASSUME CacheInv, PlaceInv, NEW w \in Workers, NotifyWorkers(w) PROVE PlaceInv'
<1> DEFINE ws == [worker EXCEPT ![w].pc = "end"]
<1>1. /\ UNCHANGED <<task_queue_, task_continuation_queue_, task_continuation_, done>>
      /\ UNCHANGED <<running, threads, worker_mutex_>>
      /\ UNCHANGED cacheVars /\ worker[w].pc = "notify" /\ worker' = notify_all(ws)
  BY DEF NotifyWorkers, depVars, At
<1>2. ws \in [Workers -> WorkerRecord]
  BY DEF CacheInv, Records, WorkerRecord, WorkerPlaces
<1>3. Awakened(ws, worker')
  BY <1>1, <1>2, NotifyAll
<1>4. /\ \A v \in Workers : v # w => ws[v] = worker[v]
      /\ ws[w].pc = "end" /\ ws[w].task = worker[w].task /\ ws[w].buffer = worker[w].buffer
  BY DEF CacheInv, Records, WorkerRecord
<1> HIDE DEF ws
<1>5. /\ OthersKept(w) /\ worker'[w].pc = "end"
      /\ worker'[w].task = worker[w].task /\ worker'[w].buffer = worker[w].buffer
  BY <1>3, <1>4 DEF Awakened, OthersKept
<1>6. Counted'
  BY <1>1, <1>5, RunningOn DEF RunPlaces
<1>7. HandOK(w)'
  BY <1>1, <1>5, HandStays DEF PlaceInv, HandsOK, HandOK
<1> QED BY <1>1, <1>5, <1>6, <1>7, WorkerStays

(* Waking workers changes neither the counters nor what workers hold.      *)
LEMMA AwakenedHands ==
  ASSUME PlaceInv, worker' = worker \/ Awakened(worker, worker'),
         UNCHANGED <<running, threads, worker_mutex_>>
  PROVE  /\ Counted' /\ \A v \in Workers : HandOK(v)'
         /\ \A v \in Workers :
              worker'[v].task = worker[v].task /\ worker'[v].buffer = worker[v].buffer
<1>1. ASSUME NEW w \in Workers
      PROVE  /\ worker'[w].task = worker[w].task /\ worker'[w].buffer = worker[w].buffer
             /\ worker'[w].pc = worker[w].pc \/ (worker[w].pc = "waiting" /\ worker'[w].pc = "enter")
  BY DEF Awakened
<1>2. Running' = Running /\ Used' = Used
  BY <1>1 DEF Running, Used, RunPlaces
<1>3. \A v \in Workers : worker'[v].pc = "to_wait" <=> worker[v].pc = "to_wait"
  BY <1>1
<1>4. Counted'
  BY <1>2, <1>3 DEF PlaceInv, Counted
<1>5. ASSUME NEW w \in Workers PROVE HandOK(w)'
  BY <1>1, HandStays DEF PlaceInv, HandsOK, HandOK
<1> QED BY <1>1, <1>4, <1>5

(* The destructor at most wakes workers; a step of nobody does not either. *)
LEMMA AwakenedPlaces ==
  ASSUME PlaceInv, worker' = worker \/ Awakened(worker, worker'),
         UNCHANGED <<task_queue_, task_continuation_queue_, task_continuation_, done>>,
         UNCHANGED <<running, threads, worker_mutex_>>, UNCHANGED cacheVars
  PROVE  PlaceInv'
<1>1. PICK w \in Workers : TRUE
  BY CacheAssumption
<1>2. /\ OthersKept(w) /\ Counted' /\ HandOK(w)'
      /\ worker'[w].task = worker[w].task /\ worker'[w].buffer = worker[w].buffer
  BY AwakenedHands DEF Awakened, OthersKept
<1> QED BY <1>2, WorkerStays

-----------------------------------------------------------------------------
(* Steps that move tasks.                                                  *)

(* What a step leaves of TaskInOnePlace to show: the sum.                  *)
LEMMA TasksMoved ==
  ASSUME TaskInOnePlace, NEW x,
         \A t \in Tasks : Held(t) \in Nat /\ Held(t)' + Bit(t, {x}) = Held(t) /\ Held(t)' \in Nat,
         \A t \in Tasks : Submitted(t)' <=> Submitted(t), done' = done \cup ({x} \cap Tasks)
  PROVE  TaskInOnePlace'
<1> SUFFICES ASSUME NEW t \in Tasks
             PROVE  Held(t)' = IF Submitted(t)' /\ t \notin done' THEN 1 ELSE 0
  BY DEF TaskInOnePlace
<1>1. Held(t) = IF Submitted(t) /\ t \notin done THEN 1 ELSE 0
  BY DEF TaskInOnePlace
<1>2. Held(t) \in Nat /\ Held(t)' \in Nat /\ Held(t)' + Bit(t, {x}) = Held(t)
  OBVIOUS
<1>3. Submitted(t)' <=> Submitted(t)
  OBVIOUS
<1>4. CASE t = x
  <2>1. Bit(t, {x}) = 1 /\ t \in done'
    BY <1>4 DEF Bit
  <2>2. Held(t)' = 0
    BY ONLY <1>1, <1>2, <2>1
  <2> QED BY <2>1, <2>2
<1>5. CASE t # x
  <2>1. Bit(t, {x}) = 0 /\ (t \in done' <=> t \in done)
    BY <1>5 DEF Bit
  <2> QED BY ONLY <1>1, <1>2, <1>3, <2>1
<1> QED BY <1>4, <1>5

LEMMA TakeTaskPlaces ==
  ASSUME CacheInv, CacheInv', PlaceInv, NEW w \in Workers, TakeTask(w) PROVE PlaceInv'
<1> DEFINE c == task_continuation_queue_ # <<>>
           q == IF c THEN task_continuation_queue_ ELSE task_queue_
<1>1. /\ worker' = [worker EXCEPT ![w] = [@ EXCEPT !.pc = "begin", !.task = Head(q)]]
      /\ task_continuation_queue_' = IF c THEN Tail(q) ELSE task_continuation_queue_
      /\ task_queue_' = IF c THEN task_queue_ ELSE Tail(q)
      /\ UNCHANGED <<worker_mutex_, running, threads, task_continuation_, done>>
      /\ UNCHANGED cacheVars /\ worker[w].pc = "enter" /\ q # <<>>
  BY DEF TakeTask, depVars, At, NothingQueued
<1>2. q \in Seq(Issued)
  BY DEF CacheInv, Records
<1>3. PICK h : h = Head(q)
  OBVIOUS
<1>4. /\ OthersKept(w) /\ worker'[w].pc = "begin" /\ worker'[w].task = h
      /\ worker'[w].buffer = worker[w].buffer
  BY <1>1, <1>3 DEF CacheInv, Records, WorkerRecord, OthersKept
<1>5. worker[w].task = NoTask /\ HandOK(w)
  BY <1>1 DEF PlaceInv, HandsOK, HandOK
<1>6. /\ \A t : Cardinality(Places(q, t)) = Cardinality(Places(Tail(q), t)) + Bit(h, {t})
      /\ Tail(q) \in Seq(Issued)
  BY <1>1, <1>2, <1>3, CountTail
<1>7. ASSUME NEW t \in Tasks
      PROVE  Held(t) \in Nat /\ Held(t)' \in Nat /\ Held(t)' + Bit(t, {NoTask}) = Held(t)
  <2>1. t # NoTask
    BY CacheAssumption
  <2>2. /\ Cardinality(Hands(t)') + Bit(worker[w].task, {t}) =
             Cardinality(Hands(t)) + Bit(worker'[w].task, {t})
        /\ Cardinality(Buffers(t)') + Bit(t, ToSet(worker[w].buffer)) =
             Cardinality(Buffers(t)) + Bit(t, ToSet(worker'[w].buffer))
    BY <1>4, HandsMoved
  <2>3. /\ Bit(worker[w].task, {t}) = 0 /\ Bit(worker'[w].task, {t}) = Bit(h, {t})
        /\ Bit(t, ToSet(worker'[w].buffer)) = Bit(t, ToSet(worker[w].buffer))
        /\ Bit(t, {NoTask}) = 0 /\ Bit(h, {t}) \in Nat /\ Bit(t, ToSet(worker[w].buffer)) \in Nat
    BY <1>4, <1>5, <2>1 DEF Bit
  <2>4. Left(t)' = Left(t)
    BY <1>1 DEF Left
  <2>5. /\ Cardinality(Places(task_queue_, t)') + Cardinality(Places(task_continuation_queue_, t)')
             + Bit(h, {t})
           = Cardinality(Places(task_queue_, t)) + Cardinality(Places(task_continuation_queue_, t))
    <3>1. Cardinality(Places(q, t)) = Cardinality(Places(Tail(q), t)) + Bit(h, {t})
      BY <1>6
    <3>2. /\ Cardinality(Places(task_queue_, t)) \in Nat
          /\ Cardinality(Places(task_continuation_queue_, t)) \in Nat
      BY HeldParts
    <3>3. Cardinality(Places(Tail(q), t)) \in Nat
      BY <1>6, PlacesFinite
    <3>4. CASE c
      <4>1. /\ q = task_continuation_queue_
            /\ Places(task_queue_, t)' = Places(task_queue_, t)
            /\ Places(task_continuation_queue_, t)' = Places(Tail(q), t)
        BY <1>1, <3>4 DEF Places
      <4> QED BY ONLY <2>3, <3>1, <3>2, <3>3, <4>1
    <3>5. CASE ~c
      <4>1. /\ q = task_queue_
            /\ Places(task_queue_, t)' = Places(Tail(q), t)
            /\ Places(task_continuation_queue_, t)' = Places(task_continuation_queue_, t)
        BY <1>1, <3>5 DEF Places
      <4> QED BY ONLY <2>3, <3>1, <3>2, <3>3, <4>1
    <3> QED BY <3>4, <3>5
  <2>6. PICK h0, b0, l0, m0, n0 \in Nat : HeldIs(t, h0, b0, l0, m0, n0)
    BY HeldNext DEF HeldSum
  <2>7. PICK h1, b1, l1, m1, n1 \in Nat : HeldIs(t, h1, b1, l1, m1, n1)'
    BY HeldNext DEF HeldSum
  <2> QED BY ONLY <2>2, <2>3, <2>4, <2>5, <2>6, <2>7 DEF HeldIs
<1>8. \A t : Submitted(t)' <=> Submitted(t)
  BY <1>1 DEF Submitted, cacheVars
<1>9. TaskInOnePlace'
  <2>1. done' = done \cup ({NoTask} \cap Tasks)
    BY <1>1, CacheAssumption
  <2> QED BY <1>7, <1>8, <2>1, TasksMoved DEF PlaceInv
<1>10. Counted'
  <2>1. /\ Bit(worker[w].pc, RunPlaces) = 0 /\ Bit(worker'[w].pc, RunPlaces) = 0
        /\ Bit(worker[w].pc, {"unused"}) = 0 /\ Bit(worker'[w].pc, {"unused"}) = 0
    BY <1>1, <1>4 DEF Bit, RunPlaces
  <2>2. running \in Nat /\ threads \in Nat
    BY CounterTypes
  <2> QED BY <1>1, <1>4, <2>1, <2>2, CountersMoved DEF PlaceInv
<1>11. HandsOK'
  <2>1. task_continuation_queue_' \in Seq(Pipelines)
    <3>1. task_continuation_queue_ \in Seq(Pipelines)
      BY DEF PlaceInv, HandsOK
    <3>2. c => Tail(q) \in Seq(Pipelines)
      BY <3>1, HeadTailProperties
    <3> QED BY <1>1, <3>1, <3>2
  <2>2. HandOK(w)'
    BY <1>1, <1>4, <1>5 DEF HandOK, IsInjective
  <2>3. \A v \in Workers : HandOK(v)'
    BY <1>4, <2>2, HandsStay DEF PlaceInv
  <2>4. InsertersOK'
    BY <1>1 DEF PlaceInv, HandsOK, InsertersOK, Inserting, cacheVars
  <2>5. \A t \in done' : Submitted(t)'
    BY <1>1, <1>8 DEF PlaceInv, HandsOK
  <2> QED BY <2>1, <2>3, <2>4, <2>5 DEF HandsOK
<1> QED BY <1>9, <1>10, <1>11 DEF PlaceInv

(* A pipeline left behind is in the continuations instead of a worker's    *)
(* hands; it was in no other pair, as it was nowhere else.                 *)
LEMMA DependPlaces ==
  ASSUME CacheInv, CacheInv', PlaceInv, NEW w \in Workers, Depend(w) PROVE PlaceInv'
<1>1. /\ UNCHANGED <<task_queue_, task_continuation_queue_, worker_mutex_, running, threads>>
      /\ UNCHANGED cacheVars /\ UNCHANGED done /\ worker[w].pc = "depend"
  BY DEF Depend, At
<1>2. CASE worker[w].dep \in done
  <2>1. /\ worker' = [worker EXCEPT ![w] = [@ EXCEPT !.pc = "run", !.dep = NoTask]]
        /\ UNCHANGED task_continuation_
    BY <1>2 DEF Depend
  <2>2. /\ OthersKept(w) /\ worker'[w].pc = "run"
        /\ worker'[w].task = worker[w].task /\ worker'[w].buffer = worker[w].buffer
    BY <2>1 DEF CacheInv, Records, WorkerRecord, OthersKept
  <2>3. Counted'
    BY <1>1, <2>2, RunningOn DEF RunPlaces
  <2>4. HandOK(w)'
    BY <1>1, <2>2, HandStays DEF PlaceInv, HandsOK, HandOK
  <2> QED BY <1>1, <2>1, <2>2, <2>3, <2>4, WorkerStays
<1>3. CASE worker[w].dep \notin done
  <2> DEFINE x == worker[w].task
             d == <<worker[w].dep, x>>
  <2>1. /\ task_continuation_' = task_continuation_ \cup {d}
        /\ worker' = [worker EXCEPT ![w] =
                        [@ EXCEPT !.pc = "end", !.task = NoTask, !.dep = NoTask]]
    BY <1>3 DEF Depend
  <2>2. /\ OthersKept(w) /\ worker'[w].pc = "end"
        /\ worker'[w].task = NoTask /\ worker'[w].buffer = worker[w].buffer
    BY <2>1 DEF CacheInv, Records, WorkerRecord, OthersKept
  <2>3. x \in Tasks
    <3>1. x # NoTask /\ x \in Issued \cup {NoTask}
      BY <1>1 DEF CacheInv, Records, WorkerRecord, ContinuationsOK
    <3> QED BY <3>1 DEF Issued, Tasks, CacheInv, Records
  <2>4. ASSUME NEW t \in Tasks
        PROVE  Held(t) \in Nat /\ Held(t)' \in Nat /\ Held(t)' + Bit(t, {NoTask}) = Held(t)
    <3>1. t # NoTask
      BY CacheAssumption
    <3>2. PICK h0, b0, l0, m0, n0 \in Nat : HeldIs(t, h0, b0, l0, m0, n0)
      BY HeldNext DEF HeldSum
    <3>3. PICK h1, b1, l1, m1, n1 \in Nat : HeldIs(t, h1, b1, l1, m1, n1)'
      BY HeldNext DEF HeldSum
    <3>4. h1 + Bit(x, {t}) = h0 /\ b1 = b0 /\ m1 = m0 /\ n1 = n0
      <4>1. h1 + Bit(x, {t}) = h0 + Bit(NoTask, {t})
        BY <2>2, <3>2, <3>3, HandsMoved DEF HeldIs
      <4>2. Bit(NoTask, {t}) = 0 /\ Bit(x, {t}) \in Nat
        BY <3>1 DEF Bit
      <4>3. Buffers(t)' = Buffers(t)
        BY <2>2 DEF Buffers, OthersKept, ToSet
      <4>4. Places(task_queue_, t)' = Places(task_queue_, t)
            /\ Places(task_continuation_queue_, t)' = Places(task_continuation_queue_, t)
        BY <1>1 DEF Places
      <4> QED BY <3>2, <3>3, <4>1, <4>2, <4>3, <4>4 DEF HeldIs
    <3>5. l1 = l0 + Bit(x, {t})
      <4>1. CASE t = x
        <5>1. Held(t) \in {0, 1}
          BY DEF PlaceInv, TaskInOnePlace
        <5>2. w \in Hands(t)
          BY <4>1 DEF Hands
        <5>3. h0 # 0
          BY <3>2, <5>2, HeldParts, FS_EmptySet DEF HeldIs
        <5>4. Held(t) = h0 + b0 + l0 + m0 + n0
          BY <3>2 DEF HeldIs
        <5>5. l0 = 0
          <6>1. h0 \in Nat /\ b0 \in Nat /\ l0 \in Nat /\ m0 \in Nat /\ n0 \in Nat
            OBVIOUS
          <6> QED BY ONLY <5>1, <5>3, <5>4, <6>1
        <5>6. Left(t) = {}
          BY <3>2, <5>5, HeldParts, FS_EmptySet DEF HeldIs
        <5>7. Left(t)' = {d}
          BY <2>1, <4>1, <5>6 DEF Left
        <5>8. l1 = 1
          BY <3>3, <5>7, FS_Singleton DEF HeldIs
        <5> QED BY <4>1, <5>5, <5>8 DEF Bit
      <4>2. CASE t # x
        <5>1. Left(t)' = Left(t)
          BY <2>1, <4>2 DEF Left
        <5>2. Bit(x, {t}) = 0
          BY <4>2 DEF Bit
        <5>3. l1 = l0
          BY <3>2, <3>3, <5>1 DEF HeldIs
        <5> QED BY <5>2, <5>3
      <4> QED BY <4>1, <4>2
    <3>6. Held(t) = h0 + b0 + l0 + m0 + n0 /\ Held(t)' = h1 + b1 + l1 + m1 + n1
      BY <3>2, <3>3 DEF HeldIs
    <3>7. Bit(t, {NoTask}) = 0
      BY <3>1 DEF Bit
    <3>8. /\ h0 \in Nat /\ b0 \in Nat /\ l0 \in Nat /\ m0 \in Nat /\ n0 \in Nat
          /\ h1 \in Nat /\ b1 \in Nat /\ l1 \in Nat /\ m1 \in Nat /\ n1 \in Nat
          /\ Bit(x, {t}) \in Nat
      BY DEF Bit
    <3>9. PICK k \in Nat : k = Bit(x, {t})
      BY <3>8
    <3>10. h1 + b1 + l1 + m1 + n1 = h0 + b0 + l0 + m0 + n0
      <4>1. h1 + k = h0 /\ b1 = b0 /\ m1 = m0 /\ n1 = n0 /\ l1 = l0 + k /\ k \in Nat
        BY ONLY <3>4, <3>5, <3>9
      <4> QED BY ONLY <3>8, <4>1
    <3> QED BY <3>6, <3>7, <3>8, <3>10
  <2>5. \A t : Submitted(t)' <=> Submitted(t)
    BY <1>1 DEF Submitted, cacheVars
  <2>6. TaskInOnePlace'
    <3>1. done' = done \cup ({NoTask} \cap Tasks)
      BY <1>1, CacheAssumption
    <3> QED BY <2>4, <2>5, <3>1, TasksMoved DEF PlaceInv
  <2>7. Counted'
    BY <1>1, <2>2, RunningOn DEF RunPlaces
  <2>8. HandOK(w)
    BY DEF PlaceInv, HandsOK
  <2>9. HandOK(w)'
    BY <1>1, <2>2, <2>8 DEF HandOK, IsInjective
  <2>10. \A v \in Workers : HandOK(v)'
    BY <2>2, <2>9, HandsStay DEF PlaceInv
  <2>11. InsertersOK'
    BY <1>1 DEF PlaceInv, HandsOK, InsertersOK, Inserting, cacheVars
  <2>12. HandsOK'
    BY <1>1, <2>5, <2>10, <2>11 DEF PlaceInv, HandsOK
  <2> QED BY <2>6, <2>7, <2>12 DEF PlaceInv
<1> QED BY <1>2, <1>3

(* What settles is nowhere any more; what was left for it is in a buffer.  *)
LEMMA SettlePlaces ==
  ASSUME CacheInv, CacheInv', PlaceInv, NEW w \in Workers, Settle(w) PROVE PlaceInv'
<1> DEFINE x == worker[w].task
           P == {d[2] : d \in Continuations(x)}
<1>1. PICK s : s = SetToSeq(P)
  OBVIOUS
<1>2. /\ UNCHANGED <<task_queue_, task_continuation_queue_, worker_mutex_, running, threads>>
      /\ UNCHANGED cacheVars /\ worker[w].pc = "settle"
      /\ worker' = [worker EXCEPT ![w] =
                      [@ EXCEPT !.pc = "push", !.task = NoTask, !.buffer = s]]
      /\ task_continuation_' = task_continuation_ \ Continuations(x)
      /\ done' = done \cup {x}
  BY <1>1 DEF Settle, At
<1>3. /\ OthersKept(w) /\ worker'[w].pc = "push"
      /\ worker'[w].task = NoTask /\ worker'[w].buffer = s
  BY <1>2 DEF CacheInv, Records, WorkerRecord, OthersKept
<1>4. worker[w].buffer = <<>>
  BY <1>2 DEF PlaceInv, HandsOK, HandOK
<1>5. x \in Tasks
  <2>1. x # NoTask /\ x \in Issued \cup {NoTask}
    BY <1>2 DEF CacheInv, Records, WorkerRecord, ContinuationsOK
  <2> QED BY <2>1 DEF Issued, Tasks, CacheInv, Records
<1>6. /\ task_continuation_ \subseteq (Made \ done) \X pipelines_
      /\ pipelines_ \subseteq Pipelines /\ IsFiniteSet(task_continuation_)
  BY DEF CacheInv, ContinuationsOK, Records
<1>7. P \subseteq Pipelines /\ IsFiniteSet(P)
  <2> DEFINE C == Continuations(x)
             f == [d \in C |-> d[2]]
  <2>1. C \in SUBSET task_continuation_
    BY DEF Continuations
  <2>2. IsFiniteSet(C)
    BY <1>6, <2>1, FS_Subset
  <2>3. f \in Surjection(C, P)
    BY DEF Surjection
  <2>4. IsFiniteSet(P)
    BY <2>2, <2>3, FS_Surjection
  <2> QED BY <1>6, <2>1, <2>4
<1> HIDE DEF P
<1>8. s \in Seq(Pipelines) /\ IsInjective(s) /\ ToSet(s) = P
  BY <1>1, <1>7, SetToSeqInSeq, SetToSeqOnce
<1>9. \A t : t \in P <=> <<x, t>> \in task_continuation_
  BY <1>6 DEF P, Continuations
<1>10. ASSUME NEW t \in Tasks
       PROVE  Held(t) \in Nat /\ Held(t)' \in Nat /\ Held(t)' + Bit(t, {x}) = Held(t)
  <2>1. t # NoTask
    BY CacheAssumption
  <2>2. PICK h0, b0, l0, m0, n0 \in Nat : HeldIs(t, h0, b0, l0, m0, n0)
    BY HeldNext DEF HeldSum
  <2>3. PICK h1, b1, l1, m1, n1 \in Nat : HeldIs(t, h1, b1, l1, m1, n1)'
    BY HeldNext DEF HeldSum
  <2>4. h1 + Bit(t, {x}) = h0
    <3>1. h1 + Bit(x, {t}) = h0 + Bit(NoTask, {t})
      BY <1>3, <2>2, <2>3, HandsMoved DEF HeldIs
    <3>2. Bit(NoTask, {t}) = 0 /\ Bit(x, {t}) = Bit(t, {x}) /\ Bit(t, {x}) \in Nat
      BY <2>1 DEF Bit
    <3> QED BY <3>1, <3>2
  <2>5. b1 = b0 + Bit(t, P)
    <3>1. b1 + Bit(t, ToSet(worker[w].buffer)) = b0 + Bit(t, ToSet(worker'[w].buffer))
      BY <1>3, <2>2, <2>3, HandsMoved DEF HeldIs
    <3>2. ToSet(worker[w].buffer) = {}
      BY <1>4 DEF ToSet
    <3>3. ToSet(worker'[w].buffer) = P
      BY <1>3, <1>8
    <3>4. Bit(t, {}) = 0 /\ Bit(t, P) \in Nat
      BY DEF Bit
    <3> QED BY <3>1, <3>2, <3>3, <3>4
  <2>6. l1 + Bit(t, P) = l0
    <3>1. Left(t)' = Left(t) \ {<<x, t>>}
      BY <1>2, <1>6 DEF Left, Continuations
    <3>2. t \in P <=> <<x, t>> \in Left(t)
      BY <1>9 DEF Left
    <3>3. IsFiniteSet(Left(t)) /\ l0 = Cardinality(Left(t)) /\ l1 = Cardinality(Left(t)')
      BY <2>2, <2>3, HeldParts DEF HeldIs
    <3>4. Cardinality(Left(t) \ {<<x, t>>}) =
            IF <<x, t>> \in Left(t) THEN Cardinality(Left(t)) - 1 ELSE Cardinality(Left(t))
      BY <3>3, FS_RemoveElement
    <3>5. l1 = IF t \in P THEN l0 - 1 ELSE l0
      BY <3>1, <3>2, <3>3, <3>4
    <3> QED BY <3>5 DEF Bit
  <2>7. m1 = m0 /\ n1 = n0
    <3>1. Places(task_queue_, t)' = Places(task_queue_, t)
          /\ Places(task_continuation_queue_, t)' = Places(task_continuation_queue_, t)
      BY <1>2 DEF Places
    <3> QED BY <2>2, <2>3, <3>1 DEF HeldIs
  <2>8. Held(t) = h0 + b0 + l0 + m0 + n0 /\ Held(t)' = h1 + b1 + l1 + m1 + n1
    BY <2>2, <2>3 DEF HeldIs
  <2>9. /\ h0 \in Nat /\ b0 \in Nat /\ l0 \in Nat /\ m0 \in Nat /\ n0 \in Nat
        /\ h1 \in Nat /\ b1 \in Nat /\ l1 \in Nat /\ m1 \in Nat /\ n1 \in Nat
        /\ Bit(t, P) \in Nat /\ Bit(t, {x}) \in Nat
    BY DEF Bit
  <2> QED BY ONLY <2>4, <2>5, <2>6, <2>7, <2>8, <2>9
<1>11. \A t : Submitted(t)' <=> Submitted(t)
  BY <1>2 DEF Submitted, cacheVars
<1>12. TaskInOnePlace'
  <2>1. done' = done \cup ({x} \cap Tasks)
    BY <1>2, <1>5
  <2> QED BY <1>10, <1>11, <2>1, TasksMoved DEF PlaceInv
<1>13. Counted'
  BY <1>2, <1>3, RunningOn DEF RunPlaces
<1>14. HandsOK'
  <2>1. HandOK(w)'
    BY <1>3, <1>8 DEF HandOK, IsInjective
  <2>2. \A v \in Workers : HandOK(v)'
    BY <1>3, <2>1, HandsStay DEF PlaceInv
  <2>3. InsertersOK'
    BY <1>2 DEF PlaceInv, HandsOK, InsertersOK, Inserting, cacheVars
  <2>4. Submitted(x)
    <3>1. w \in Hands(x) /\ Hands(x) \in SUBSET Workers /\ IsFiniteSet(Hands(x))
      BY HeldParts DEF Hands
    <3>2. PICK h0, b0, l0, m0, n0 \in Nat : HeldIs(x, h0, b0, l0, m0, n0)
      BY HeldNext DEF HeldSum
    <3>3. h0 # 0
      BY <3>1, <3>2, FS_EmptySet DEF HeldIs
    <3>4. Held(x) = h0 + b0 + l0 + m0 + n0
      BY <3>2 DEF HeldIs
    <3>5. Held(x) # 0
      BY <3>3, <3>4
    <3> QED BY <1>5, <3>5 DEF PlaceInv, TaskInOnePlace
  <2>5. \A t \in done' : Submitted(t)'
    BY <1>2, <1>11, <2>4 DEF PlaceInv, HandsOK
  <2>6. task_continuation_queue_' \in Seq(Pipelines)
    BY <1>2 DEF PlaceInv, HandsOK
  <2> QED BY <2>2, <2>3, <2>5, <2>6 DEF HandsOK
<1> QED BY <1>12, <1>13, <1>14 DEF PlaceInv

LEMMA PushContinuationsPlaces ==
  ASSUME CacheInv, CacheInv', PlaceInv, NEW w \in Workers, PushContinuations(w) PROVE PlaceInv'
<1> DEFINE s == worker[w].buffer
<1>1. /\ UNCHANGED <<task_queue_, worker_mutex_, running, threads, task_continuation_, done>>
      /\ UNCHANGED cacheVars /\ worker[w].pc = "push"
      /\ task_continuation_queue_' = task_continuation_queue_ \o s
      /\ worker' = [worker EXCEPT ![w] = [@ EXCEPT !.pc = "notify", !.buffer = <<>>]]
  BY DEF PushContinuations, depVars, At
<1>2. /\ OthersKept(w) /\ worker'[w].pc = "notify"
      /\ worker'[w].task = worker[w].task /\ worker'[w].buffer = <<>>
  BY <1>1 DEF CacheInv, Records, WorkerRecord, OthersKept
<1>3. /\ s \in Seq(Pipelines) /\ IsInjective(s)
      /\ task_continuation_queue_ \in Seq(Pipelines) /\ HandOK(w)
  BY DEF PlaceInv, HandsOK, HandOK
<1>4. ASSUME NEW t \in Tasks
      PROVE  Held(t) \in Nat /\ Held(t)' \in Nat /\ Held(t)' + Bit(t, {NoTask}) = Held(t)
  <2>1. t # NoTask
    BY CacheAssumption
  <2>2. PICK h0, b0, l0, m0, n0 \in Nat : HeldIs(t, h0, b0, l0, m0, n0)
    BY HeldNext DEF HeldSum
  <2>3. PICK h1, b1, l1, m1, n1 \in Nat : HeldIs(t, h1, b1, l1, m1, n1)'
    BY HeldNext DEF HeldSum
  <2>4. PICK k \in Nat : k = Bit(t, ToSet(s))
    BY DEF Bit
  <2>5. b1 + k = b0
    <3>1. b1 + Bit(t, ToSet(worker[w].buffer)) = b0 + Bit(t, ToSet(worker'[w].buffer))
      BY <1>2, <2>2, <2>3, HandsMoved DEF HeldIs
    <3>2. ToSet(worker'[w].buffer) = {}
      BY <1>2 DEF ToSet
    <3>3. Bit(t, {}) = 0
      BY DEF Bit
    <3> QED BY <2>4, <3>1, <3>2, <3>3
  <2>6. n1 = n0 + k
    <3>1. Cardinality(Places(task_continuation_queue_ \o s, t)) =
            Cardinality(Places(task_continuation_queue_, t)) + Cardinality(Places(s, t))
      BY <1>3, CountConcat
    <3>2. Cardinality(Places(s, t)) = Bit(t, ToSet(s))
      BY <1>3, CountInjective
    <3>3. Places(task_continuation_queue_, t)' = Places(task_continuation_queue_ \o s, t)
      BY <1>1 DEF Places
    <3> QED BY <2>2, <2>3, <2>4, <3>1, <3>2, <3>3 DEF HeldIs
  <2>7. h1 = h0 /\ l1 = l0 /\ m1 = m0
    <3>1. Hands(t)' = Hands(t)
      BY <1>2 DEF Hands, OthersKept
    <3>2. Left(t)' = Left(t) /\ Places(task_queue_, t)' = Places(task_queue_, t)
      BY <1>1 DEF Left, Places
    <3> QED BY <2>2, <2>3, <3>1, <3>2 DEF HeldIs
  <2>8. Held(t) = h0 + b0 + l0 + m0 + n0 /\ Held(t)' = h1 + b1 + l1 + m1 + n1
    BY <2>2, <2>3 DEF HeldIs
  <2>9. h1 + b1 + l1 + m1 + n1 = h0 + b0 + l0 + m0 + n0
    BY <2>5, <2>6, <2>7
  <2>10. Bit(t, {NoTask}) = 0 /\ Held(t) \in Nat
    BY <2>1, <2>8 DEF Bit
  <2> QED BY <2>8, <2>9, <2>10
<1>5. \A t : Submitted(t)' <=> Submitted(t)
  BY <1>1 DEF Submitted, cacheVars
<1>6. TaskInOnePlace'
  <2>1. done' = done \cup ({NoTask} \cap Tasks)
    BY <1>1, CacheAssumption
  <2> QED BY <1>4, <1>5, <2>1, TasksMoved DEF PlaceInv
<1>7. Counted'
  BY <1>1, <1>2, RunningOn DEF RunPlaces
<1>8. HandsOK'
  <2>1. HandOK(w)'
    <3>1. <<>> \in Seq(Pipelines) /\ IsInjective(<<>>)
      BY EmptySeq DEF IsInjective
    <3> QED BY <1>1, <1>2, <1>3, <3>1 DEF HandOK, IsInjective
  <2>2. \A v \in Workers : HandOK(v)'
    BY <1>2, <2>1, HandsStay DEF PlaceInv
  <2>3. InsertersOK'
    BY <1>1 DEF PlaceInv, HandsOK, InsertersOK, Inserting, cacheVars
  <2>4. \A t \in done' : Submitted(t)'
    BY <1>1, <1>5 DEF PlaceInv, HandsOK
  <2>5. task_continuation_queue_' \in Seq(Pipelines)
    BY <1>1, <1>3, ConcatProperties
  <2> QED BY <2>2, <2>3, <2>4, <2>5 DEF HandsOK
<1> QED BY <1>6, <1>7, <1>8 DEF PlaceInv

LEMMA WorkerStepPlaces ==
  ASSUME CacheInv, CacheInv', PlaceInv, NEW w \in Workers, WorkerStep(w) PROVE PlaceInv'
BY GoOnPlaces, TakeTaskPlaces, RunToDependencyPlaces, DependPlaces, SettlePlaces,
   PushContinuationsPlaces, NotifyWorkersPlaces DEF WorkerStep

-----------------------------------------------------------------------------
(* submit, and the steps of the callers.                                   *)

(* A worker that submit adds was unused, and there is one: the counter of  *)
(* the threads is right.                                                   *)
LEMMA SubmitHands ==
  ASSUME CacheInv, PlaceInv, NEW task, submit(task)
  PROVE  /\ Counted' /\ \A v \in Workers : HandOK(v)'
         /\ \A v \in Workers :
              worker'[v].task = worker[v].task /\ worker'[v].buffer = worker[v].buffer
<1>1. worker \in [Workers -> WorkerRecord] /\ UNCHANGED <<running, worker_mutex_>>
  BY DEF CacheInv, Records, submit
<1>2. CASE ~(running = threads /\ threads < Cardinality(Workers))
  <2>1. notify_one(worker, worker') /\ UNCHANGED threads
    BY <1>2 DEF submit
  <2>2. Awakened(worker, worker')
    BY <1>1, <2>1, NotifyOne
  <2> QED BY <1>1, <2>1, <2>2, AwakenedHands
<1>3. CASE running = threads /\ threads < Cardinality(Workers)
  <2>1. PICK new : /\ new = CHOOSE w \in Workers : worker[w].pc = "unused"
                   /\ notify_one([worker EXCEPT ![new] = Started], worker')
                   /\ threads' = threads + 1
    BY <1>3 DEF submit
  <2> DEFINE ws == [worker EXCEPT ![new] = Started]
  <2>2. \E w \in Workers : worker[w].pc = "unused"
    <3>1. SUFFICES ASSUME \A w \in Workers : worker[w].pc # "unused" PROVE FALSE
      OBVIOUS
    <3>2. Used = Workers /\ threads = Cardinality(Used)
      BY <3>1 DEF Used, PlaceInv, Counted
    <3>3. threads \in Nat
      BY CounterTypes
    <3> QED BY <1>3, <3>2, <3>3
  <2>3. new \in Workers /\ worker[new].pc = "unused"
    BY <2>1, <2>2
  <2>4. /\ Started \in WorkerRecord /\ Started.pc = "top" /\ Started.task = NoTask
        /\ Started.buffer = <<>>
    BY EmptySeq DEF Started, Unused, WorkerRecord, WorkerPlaces
  <2>5. /\ ws \in [Workers -> WorkerRecord] /\ ws[new] = Started
        /\ \A v \in Workers : v # new => ws[v] = worker[v]
    BY <1>1, <2>3, <2>4
  <2> HIDE DEF ws
  <2>6. Awakened(ws, worker')
    BY <2>1, <2>5, NotifyOne DEF ws
  <2>7. /\ OthersKept(new) /\ worker'[new].pc = "top"
        /\ worker'[new].task = NoTask /\ worker'[new].buffer = <<>>
    BY <2>3, <2>4, <2>5, <2>6 DEF Awakened, OthersKept
  <2>8. HandOK(new) /\ worker[new].task = NoTask /\ worker[new].buffer = <<>>
    BY <2>3 DEF PlaceInv, HandsOK, HandOK
  <2>9. HandOK(new)'
    BY <2>7, <2>8 DEF HandOK, IsInjective
  <2>10. \A v \in Workers : HandOK(v)'
    BY <2>3, <2>7, <2>9, HandsStay DEF PlaceInv
  <2>11. Counted'
    <3>1. /\ Bit(worker[new].pc, RunPlaces) = 0 /\ Bit(worker'[new].pc, RunPlaces) = 0
          /\ Bit(worker[new].pc, {"unused"}) = 1 /\ Bit(worker'[new].pc, {"unused"}) = 0
      BY <2>3, <2>7 DEF Bit, RunPlaces
    <3>2. running \in Nat /\ threads \in Nat
      BY CounterTypes
    <3>3. worker_mutex_' = worker_mutex_ /\ worker[new].pc # "to_wait" /\ worker'[new].pc # "to_wait"
      BY <1>1, <2>3, <2>7
    <3> QED BY <1>1, <2>1, <2>3, <2>7, <3>1, <3>2, <3>3, CountersMoved DEF PlaceInv
  <2> QED BY <2>7, <2>8, <2>10, <2>11 DEF OthersKept
<1> QED BY <1>2, <1>3

(* A task that is submitted for the first time is then in the queue.       *)
LEMMA SubmitPlaces ==
  ASSUME CacheInv, CacheInv', PlaceInv, NEW task \in Tasks, submit(task), ~Submitted(task),
         \A t \in Tasks : Submitted(t)' <=> Submitted(t) \/ t = task, InsertersOK'
  PROVE  PlaceInv'
<1>1. /\ UNCHANGED <<task_continuation_queue_, task_continuation_, done>>
      /\ task_queue_' = Append(task_queue_, task)
  BY Submitting DEF depVars
<1>2. /\ Counted' /\ \A v \in Workers : HandOK(v)'
      /\ \A v \in Workers :
           worker'[v].task = worker[v].task /\ worker'[v].buffer = worker[v].buffer
  BY SubmitHands
<1>3. ASSUME NEW t \in Tasks
      PROVE  Held(t)' = IF Submitted(t)' /\ t \notin done' THEN 1 ELSE 0
  <2>1. PICK h0, b0, l0, m0, n0 \in Nat : HeldIs(t, h0, b0, l0, m0, n0)
    BY HeldNext DEF HeldSum
  <2>2. PICK h1, b1, l1, m1, n1 \in Nat : HeldIs(t, h1, b1, l1, m1, n1)'
    BY HeldNext DEF HeldSum
  <2>3. PICK k \in Nat : k = Bit(task, {t})
    BY DEF Bit
  <2>4. h1 = h0 /\ b1 = b0 /\ l1 = l0 /\ n1 = n0
    <3>1. Hands(t)' = Hands(t) /\ Buffers(t)' = Buffers(t)
      BY <1>2 DEF Hands, Buffers, ToSet
    <3>2. Left(t)' = Left(t)
          /\ Places(task_continuation_queue_, t)' = Places(task_continuation_queue_, t)
      BY <1>1 DEF Left, Places
    <3> QED BY <2>1, <2>2, <3>1, <3>2 DEF HeldIs
  <2>5. m1 = m0 + k
    <3>1. task_queue_ \in Seq(Tasks)
      <4>1. Issued \subseteq Tasks
        BY DEF CacheInv, Records, Issued, Tasks
      <4>2. task_queue_ \in Seq(Issued)
        BY DEF CacheInv, Records
      <4> QED BY <4>1, <4>2, SeqDef
    <3>2. Cardinality(Places(Append(task_queue_, task), t)) =
            Cardinality(Places(task_queue_, t)) + Bit(task, {t})
      BY <3>1, CountAppend
    <3>3. Places(task_queue_, t)' = Places(Append(task_queue_, task), t)
      BY <1>1 DEF Places
    <3> QED BY <2>1, <2>2, <2>3, <3>2, <3>3 DEF HeldIs
  <2>6. Held(t) = h0 + b0 + l0 + m0 + n0 /\ Held(t)' = h1 + b1 + l1 + m1 + n1
    BY <2>1, <2>2 DEF HeldIs
  <2>7. h1 + b1 + l1 + m1 + n1 = (h0 + b0 + l0 + m0 + n0) + k
    BY <2>4, <2>5
  <2>8. Held(t)' = Held(t) + k
    BY <2>6, <2>7
  <2>9. Held(t) = IF Submitted(t) /\ t \notin done THEN 1 ELSE 0
    BY DEF PlaceInv, TaskInOnePlace
  <2>10. /\ Submitted(t)' <=> Submitted(t) \/ t = task
         /\ t \in done => Submitted(t)
         /\ done' = done
    BY <1>1 DEF PlaceInv, HandsOK
  <2>11. CASE t = task
    <3>1. k = 1
      BY <2>3, <2>11 DEF Bit
    <3>2. Held(t) = 0
      BY <2>9, <2>11
    <3> QED BY <2>8, <2>10, <2>11, <3>1, <3>2
  <2>12. CASE t # task
    <3>1. k = 0
      BY <2>3, <2>12 DEF Bit
    <3>2. Held(t) \in Int
      BY <2>9
    <3>3. Held(t)' = Held(t)
      BY ONLY <2>8, <3>1, <3>2
    <3> QED BY <2>9, <2>10, <2>12, <3>3
  <2> QED BY <2>11, <2>12
<1>4. TaskInOnePlace'
  BY <1>3 DEF TaskInOnePlace
<1>5. HandsOK'
  <2>1. \A t \in done' : Submitted(t)'
    BY <1>1 DEF PlaceInv, HandsOK, CacheInv, Records
  <2>2. task_continuation_queue_' \in Seq(Pipelines)
    BY <1>1 DEF PlaceInv, HandsOK
  <2> QED BY <1>2, <2>1, <2>2 DEF HandsOK
<1> QED BY <1>2, <1>4, <1>5 DEF PlaceInv

(* A caller that submits nothing.                                          *)
LEMMA CallerStays ==
  ASSUME CacheInv, PlaceInv, UNCHANGED schedVars, UNCHANGED depVars,
         \A t \in Tasks : Submitted(t)' <=> Submitted(t), InsertersOK'
  PROVE  PlaceInv'
<1>1. /\ UNCHANGED <<task_queue_, task_continuation_queue_, task_continuation_, done>>
      /\ UNCHANGED <<running, threads, worker_mutex_>> /\ worker' = worker
  BY DEF schedVars, depVars
<1>2. PICK w \in Workers : TRUE
  BY CacheAssumption
<1>3. OthersKept(w) /\ worker'[w].task = worker[w].task /\ worker'[w].buffer = worker[w].buffer
  BY <1>1 DEF OthersKept
<1>4. Counted' /\ \A v \in Workers : HandOK(v)'
  BY <1>1, AwakenedHands
<1>5. TaskInOnePlace'
  BY <1>1, <1>3, TasksStay
<1>6. HandsOK'
  <2>1. \A t \in done' : Submitted(t)'
    BY <1>1 DEF PlaceInv, HandsOK, CacheInv, Records
  <2> QED BY <1>1, <1>4, <2>1 DEF PlaceInv, HandsOK
<1> QED BY <1>4, <1>5, <1>6 DEF PlaceInv

(* No thread but c starts or stops making a variant, and c is not at it.   *)
LEMMA InsertersStay ==
  ASSUME InsertersOK, NEW c \in Callers, variants' = variants, caller'[c].pc # "variant",
         \A d \in Callers : d # c => caller'[d] = caller[d]
  PROVE  InsertersOK'
BY DEF InsertersOK, Inserting, Own

(* The steps of a caller that submit nothing.                              *)
LEMMA CallerQuietPlaces ==
  ASSUME CacheInv, PlaceInv, NEW c \in Callers,
         \/ \E p \in Pipelines : FindPipeline(c, p) \/ CreatePipeline(c, p)
         \/ FindVariant(c) \/ GetPipeline(c)
  PROVE  PlaceInv'
<1>1. /\ UNCHANGED <<pipelines_, variants>> /\ UNCHANGED schedVars /\ UNCHANGED depVars
  BY DEF FindPipeline, CreatePipeline, FindVariant, GetPipeline
<1>2. PICK r : caller' = [caller EXCEPT ![c] = r] /\ r.pc # "variant"
  <2>1. CASE FindVariant(c)
    <3>1. PICK r : r = [caller[c] EXCEPT !.rest = Tail(caller[c].rest)]
      OBVIOUS
    <3>2. caller[c] \in CallerRecord /\ caller[c].pc = "create"
      BY <2>1, CallerFacts DEF FindVariant
    <3>3. r.pc = "create"
      BY <3>1, <3>2 DEF CallerRecord
    <3>4. caller' = [caller EXCEPT ![c] = r]
      BY <2>1, <3>1 DEF FindVariant
    <3> QED BY <3>3, <3>4
  <2>2. CASE ~FindVariant(c)
    BY <2>2 DEF FindPipeline, CreatePipeline, GetPipeline, Idle
  <2> QED BY <2>1, <2>2
<1>3. caller'[c].pc # "variant" /\ \A d \in Callers : d # c => caller'[d] = caller[d]
  BY <1>2, CallerFacts
<1>4. InsertersOK'
  BY <1>1, <1>3, InsertersStay DEF PlaceInv, HandsOK
<1>5. \A t \in Tasks : Submitted(t)' <=> Submitted(t)
  BY <1>1 DEF Submitted
<1> QED BY <1>1, <1>4, <1>5, CallerStays

(* A variant is inserted by one thread, as it was absent before.           *)
LEMMA InsertVariantPlaces ==
  ASSUME CacheInv, PlaceInv, NEW c \in Callers, InsertVariant(c) PROVE PlaceInv'
<1> DEFINE x == Own(caller[c].pipeline, Head(caller[c].rest))
<1>1. /\ variants' = [variants EXCEPT ![x] = "null"] /\ variants[x] = "absent"
      /\ caller' = [caller EXCEPT ![c].pc = "variant"] /\ caller[c].rest # <<>>
      /\ UNCHANGED pipelines_ /\ UNCHANGED schedVars /\ UNCHANGED depVars
  BY DEF InsertVariant
<1>2. x \in Compiled
  BY CallerFacts, HeadAndTail, OwnFacts DEF InsertVariant, Making
<1>3. /\ caller'[c].rest = caller[c].rest /\ caller'[c].pipeline = caller[c].pipeline
      /\ caller[c].pc = "create"
      /\ \A d \in Callers : d # c => caller'[d] = caller[d]
  BY <1>1, CallerFacts DEF InsertVariant, CallerRecord
<1>4. variants'[x] = "null" /\ \A s \in Compiled : s # x => variants'[s] = variants[s]
  BY <1>1, <1>2 DEF CacheInv, Records
<1>5. ASSUME NEW d \in Callers, NEW s \in Compiled, Inserting(d, s)'
      PROVE  /\ d = c => s = x
             /\ d # c => s # x /\ variants[s] = "null"
                         /\ \A e \in Callers : Inserting(e, s) => e = d
  <2>1. CASE d = c
    BY <1>3, <1>5, <2>1 DEF Inserting, Own
  <2>2. CASE d # c
    <3>1. Inserting(d, s)
      BY <1>3, <1>5, <2>2 DEF Inserting, Own
    <3> QED BY <1>1, <2>2, <3>1 DEF PlaceInv, HandsOK, InsertersOK
  <2> QED BY <2>1, <2>2
<1>6. InsertersOK'
  <2> SUFFICES ASSUME NEW d \in Callers, NEW s \in Compiled, Inserting(d, s)'
               PROVE  /\ variants'[s] = "null"
                      /\ \A e \in Callers : Inserting(e, s)' => e = d
    BY DEF InsertersOK
  <2>1. variants'[s] = "null"
    BY <1>4, <1>5
  <2>2. ASSUME NEW e \in Callers, Inserting(e, s)' PROVE e = d
    <3>1. CASE d = c
      <4>1. s = x
        BY <1>5, <3>1
      <4> QED BY <1>5, <2>2, <3>1, <4>1
    <3>2. CASE d # c
      <4>1. s # x /\ \A f \in Callers : Inserting(f, s) => f = d
        BY <1>5, <3>2
      <4>2. e # c
        BY <1>5, <2>2, <4>1
      <4>3. Inserting(e, s)
        BY <1>3, <2>2, <4>2 DEF Inserting, Own
      <4> QED BY <4>1, <4>3
    <3> QED BY <3>1, <3>2
  <2> QED BY <2>1, <2>2
<1>7. \A t \in Tasks : Submitted(t)' <=> Submitted(t)
  BY <1>1, <1>4 DEF Submitted, Tasks
<1> QED BY <1>1, <1>6, <1>7, CallerStays

LEMMA SubmitVariantPlaces ==
  ASSUME CacheInv, CacheInv', PlaceInv, NEW c \in Callers, SubmitVariant(c) PROVE PlaceInv'
<1> DEFINE x == Own(caller[c].pipeline, Head(caller[c].rest))
<1>1. /\ variants' = [variants EXCEPT ![x] = "made"] /\ submit(x) /\ UNCHANGED pipelines_
      /\ caller' = [caller EXCEPT ![c].pc = "create", ![c].rest = Tail(@)]
      /\ caller[c].pc = "variant"
  BY DEF SubmitVariant
<1>2. caller[c].rest # <<>> /\ Making(c)
  BY <1>1 DEF CacheInv, MakersOK, MakerOK, Making
<1>3. x \in Compiled /\ x \notin Pipelines
  BY <1>2, CallerFacts, HeadAndTail, OwnFacts, CacheAssumption
<1>4. caller'[c].pc # "variant" /\ \A d \in Callers : d # c => caller'[d] = caller[d]
  <2>1. PICK r : r = [caller[c] EXCEPT !.pc = "create", !.rest = Tail(caller[c].rest)]
    OBVIOUS
  <2>2. r.pc = "create"
    BY <2>1, CallerFacts DEF CallerRecord
  <2>3. caller' = [caller EXCEPT ![c] = r]
    BY <1>1, <2>1, CallerFacts DEF CallerRecord
  <2> QED BY <2>2, <2>3, CallerFacts
<1>5. variants'[x] = "made" /\ \A s \in Compiled : s # x => variants'[s] = variants[s]
  BY <1>1, <1>3 DEF CacheInv, Records
<1>6. Inserting(c, x) /\ InsertersOK
  BY <1>1 DEF Inserting, PlaceInv, HandsOK
<1>7. ~Submitted(x)
  BY <1>3, <1>6 DEF InsertersOK, Submitted
<1>8. InsertersOK'
  <2> SUFFICES ASSUME NEW d \in Callers, NEW s \in Compiled, Inserting(d, s)'
               PROVE  /\ variants'[s] = "null"
                      /\ \A e \in Callers : Inserting(e, s)' => e = d
    BY DEF InsertersOK
  <2>1. \A e \in Callers : Inserting(e, s)' => e # c /\ Inserting(e, s)
    BY <1>4 DEF Inserting, Own
  <2>2. s # x
    BY <1>3, <1>6, <2>1 DEF InsertersOK
  <2> QED BY <1>5, <1>6, <2>1, <2>2 DEF InsertersOK
<1>9. \A t \in Tasks : Submitted(t)' <=> Submitted(t) \/ t = x
  BY <1>1, <1>3, <1>5 DEF Submitted, Tasks
<1> QED BY <1>1, <1>3, <1>7, <1>8, <1>9, SubmitPlaces DEF Tasks

LEMMA SubmitPipelinePlaces ==
  ASSUME CacheInv, CacheInv', PlaceInv, NEW c \in Callers, SubmitPipeline(c) PROVE PlaceInv'
<1> DEFINE p == caller[c].pipeline
<1>1. /\ UNCHANGED variants /\ submit(p) /\ pipelines_' = pipelines_ \cup {p}
      /\ caller' = [caller EXCEPT ![c].pc = "get"] /\ caller[c].pc = "create"
  BY DEF SubmitPipeline
<1>2. p \in Pipelines \ pipelines_
  BY <1>1, CallerFacts DEF Making
<1>3. caller'[c].pc # "variant" /\ \A d \in Callers : d # c => caller'[d] = caller[d]
  BY <1>1, CallerFacts DEF CallerRecord
<1>4. InsertersOK'
  BY <1>1, <1>3, InsertersStay DEF PlaceInv, HandsOK
<1>5. ~Submitted(p) /\ p \in Tasks
  BY <1>2 DEF Submitted, Tasks
<1>6. \A t \in Tasks : Submitted(t)' <=> Submitted(t) \/ t = p
  BY <1>1, <1>2 DEF Submitted, Tasks
<1> QED BY <1>1, <1>4, <1>5, <1>6, SubmitPlaces

-----------------------------------------------------------------------------
(* The whole.                                                              *)

LEMMA PlaceInit == Init => PlaceInv
<1> SUFFICES ASSUME Init PROVE PlaceInv
  OBVIOUS
<1>1. /\ Started.pc = "top" /\ Started.task = NoTask /\ Started.buffer = <<>>
      /\ Unused.pc = "unused" /\ Unused.task = NoTask /\ Unused.buffer = <<>>
  BY DEF Started, Unused
<1>2. \A w \in Workers : worker[w] = IF w \in FirstWorkers THEN Started ELSE Unused
  BY DEF Init
<1>3. \A w \in Workers : /\ worker[w].task = NoTask /\ worker[w].buffer = <<>>
                         /\ worker[w].pc = IF w \in FirstWorkers THEN "top" ELSE "unused"
  BY <1>1, <1>2
<1>4. Counted
  <2>1. Running = {}
    BY <1>3 DEF Running, RunPlaces
  <2>2. Used = FirstWorkers
    BY <1>3, CacheAssumption DEF Used
  <2>3. \A w \in Workers : worker[w].pc # "to_wait" /\ worker_mutex_ # w
    BY <1>3, CacheAssumption DEF Init
  <2> QED BY <2>1, <2>2, <2>3, FS_EmptySet DEF Counted, Init
<1>5. HandsOK
  <2>1. <<>> \in Seq(Pipelines) /\ IsInjective(<<>>)
    BY EmptySeq DEF IsInjective
  <2>2. \A w \in Workers : HandOK(w)
    BY <1>3, <2>1 DEF HandOK
  <2>3. InsertersOK
    BY DEF Init, Idle, InsertersOK, Inserting
  <2> QED BY <2>1, <2>2, <2>3 DEF Init, HandsOK
<1>6. TaskInOnePlace
  <2> SUFFICES ASSUME NEW t \in Tasks
               PROVE  Held(t) = IF Submitted(t) /\ t \notin done THEN 1 ELSE 0
    BY DEF TaskInOnePlace
  <2>1. ~Submitted(t)
    BY DEF Init, Submitted, Tasks
  <2>2. t # NoTask
    BY CacheAssumption
  <2>3. Hands(t) = {} /\ Buffers(t) = {}
    BY <1>3, <2>2 DEF Hands, Buffers, ToSet
  <2>4. Left(t) = {} /\ Places(task_queue_, t) = {} /\ Places(task_continuation_queue_, t) = {}
    BY DEF Init, Left, Places
  <2>5. Held(t) = 0
    <3>1. PICK h, b, l, q, c \in Nat : HeldIs(t, h, b, l, q, c)
      BY CacheInit, HeldNext DEF HeldSum
    <3>2. h = 0 /\ b = 0 /\ l = 0 /\ q = 0 /\ c = 0
      BY <2>3, <2>4, <3>1, FS_EmptySet DEF HeldIs
    <3> QED BY <3>1, <3>2 DEF HeldIs
  <2> QED BY <2>1, <2>5
<1> QED BY <1>4, <1>5, <1>6 DEF PlaceInv

LEMMA PlaceNext == ASSUME CacheInv, CacheInv', PlaceInv, [Next]_vars PROVE PlaceInv'
<1>1. CASE \E c \in Callers, p \in Pipelines : FindPipeline(c, p) \/ CreatePipeline(c, p)
  BY <1>1, CallerQuietPlaces
<1>2. ASSUME NEW c \in Callers, CallerStep(c) PROVE PlaceInv'
  <2>1. CASE FindVariant(c) \/ GetPipeline(c)
    BY <2>1, CallerQuietPlaces
  <2> QED BY <1>2, <2>1, InsertVariantPlaces, SubmitVariantPlaces, SubmitPipelinePlaces
          DEF CallerStep
<1>3. ASSUME NEW w \in Workers, WorkerStep(w) PROVE PlaceInv'
  BY <1>3, WorkerStepPlaces
<1>4. CASE Destroy \/ DestructorStep \/ UNCHANGED vars
  <2>1. /\ UNCHANGED <<task_queue_, task_continuation_queue_, task_continuation_, done>>
        /\ UNCHANGED <<running, threads, worker_mutex_>> /\ UNCHANGED cacheVars
        /\ worker' = worker \/ worker' = notify_all(worker)
    BY <1>4 DEF Destroy, DestructorStep, DestroyNotify, DestroyJoin, vars, cacheVars, depVars
  <2>2. worker \in [Workers -> WorkerRecord]
    BY DEF CacheInv, Records
  <2>3. worker' = worker \/ Awakened(worker, worker')
    BY <2>1, <2>2, NotifyAll
  <2> QED BY <2>1, <2>3, AwakenedPlaces
<1> QED BY <1>1, <1>2, <1>3, <1>4 DEF Next

LEMMA CacheAndPlaces ==
  Spec => [](CacheInv /\ PlaceInv)
<1>1. CacheInv /\ PlaceInv /\ [Next]_vars => (CacheInv /\ PlaceInv)'
  BY CacheNext, PlaceNext
<1>2. Init => CacheInv /\ PlaceInv
  BY CacheInit, PlaceInit
<1> QED BY <1>1, <1>2, PTL DEF Spec

(* worker_func, submit and the cache neither lose a task nor run one twice:*)
(* a submitted task that is not done is in one queue, in one worker's      *)
(* hands, in a local buffer or left behind, once, and nowhere when done.   *)
(* With it: the types, the counters of submit, and who holds worker_mutex_.*)
THEOREM SchedulerSafety == Spec => []SchedulerInv
<1>1. CacheInv /\ PlaceInv => TypeOK /\ HandsOK /\ TaskInOnePlace
  <2> SUFFICES ASSUME CacheInv, PlaceInv PROVE TypeOK
    BY DEF PlaceInv
  <2>1. /\ pipelines_ \subseteq Pipelines /\ done \subseteq Tasks /\ invalid \subseteq Compiled
        /\ unseen \in [Pipelines -> SUBSET Shaders]
        /\ variants \in [Compiled -> {"absent", "null", "made"}]
        /\ class_mutex \in [Classes -> Callers \cup {NoOne}]
        /\ \A c \in Callers : caller[c].pc \in {"idle", "create", "variant", "get"}
    BY DEF CacheInv, Records, CallerRecord
  <2>2. handles \in [Pipelines -> SUBSET Compiled]
    BY DEF CacheInv, HandlesOK, Made
  <2>3. Issued \subseteq Tasks
    BY <2>1 DEF Issued, Tasks
  <2>4. task_queue_ \in Seq(Tasks)
    <3>1. task_queue_ \in Seq(Issued)
      BY DEF CacheInv, Records
    <3> QED BY <2>3, <3>1, SeqDef
  <2>5. task_continuation_ \subseteq Compiled \X Pipelines
    BY <2>1 DEF CacheInv, ContinuationsOK, Made
  <2>6. \A w \in Workers :
          worker[w].pc \in WorkerPlaces /\ worker[w].task \in Tasks \cup {NoTask}
    BY <2>3 DEF CacheInv, Records, WorkerRecord
  <2> QED BY <2>1, <2>2, <2>4, <2>5, <2>6
          DEF TypeOK, PlaceInv, Counted, HandsOK, Running, Used, RunPlaces
<1>2. CacheInv /\ PlaceInv => CacheInv
  OBVIOUS
<1> QED BY <1>1, <1>2, CacheAndPlaces, ContinuationSafety, PTL DEF SchedulerInv
=============================================================================
