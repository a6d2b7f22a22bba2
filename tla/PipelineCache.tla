---------------------------- MODULE PipelineCache ---------------------------
(***************************************************************************)
(* The cache of compiled shaders and pipelines of D3D11 and the scheduler  *)
(* that compiles them.  A thread that needs a pipeline looks it up under   *)
(* the mutex of its class, makes it and the shader variants it uses if     *)
(* they are new, submits each of them as a task, and waits until it is     *)
(* ready.  A worker that runs a pipeline whose shader is not ready yet     *)
(* does not wait: it leaves the pipeline as a continuation of the shader,  *)
(* for whoever finishes the shader to queue again.                         *)
(*                                                                         *)
(* The variants of a shader are in a map without a mutex of its own.  What *)
(* guards it is the mutex of the pipeline's class, and pipelines of two    *)
(* classes may have a pixel shader variant in common.  Two such threads    *)
(* race: one finds the null pointer that the other has inserted, or both   *)
(* insert the variant and each makes a compiled shader of its own.         *)
(***************************************************************************)
EXTENDS Integers, Sequences, SequencesExt, FiniteSets

CONSTANTS
  Pipelines,     \* pipeline descriptions
  Shaders,       \* shader variants
  PixelVariants, \* those of pixel shaders, which all but compute may use
  MayFail,       \* those whose compilation may fail
  Uses,          \* the variants a pipeline is made of, in order
  Class,         \* graphics, geometry, tessellation or compute
  Callers,       \* threads that draw
  Workers,       \* all the workers there may be: max_threads
  FirstWorkers,  \* those that the constructor starts
  NoTask

NoOne == "no one"
Classes == {Class[p] : p \in Pipelines}
MeshClasses == {"geometry", "tessellation"}

(* A compiled shader, named by its variant and the class of the pipeline   *)
(* it was made for.                                                        *)
Compiled == Shaders \X Classes
Own(p, s) == <<s, Class[p]>>
VariantsOf(compiled) == {o[1] : o \in compiled}

Tasks == Pipelines \cup Compiled

(* Only variants of pixel shaders do not name the class of the pipeline    *)
(* (d3d11_shader.hpp: ShaderVariantPixel).                                 *)
ASSUME CacheAssumption ==
  /\ Uses \in [Pipelines -> Seq(Shaders)]
  /\ \A p, q \in Pipelines : Class[p] # Class[q] =>
       ToSet(Uses[p]) \cap ToSet(Uses[q]) \subseteq PixelVariants
  /\ IsFiniteSet(Workers) /\ FirstWorkers \subseteq Workers /\ FirstWorkers # {}
  /\ Pipelines \cap Compiled = {}
  /\ NoTask \notin Tasks /\ NoOne \notin Callers \cup Workers

VARIABLES
  pipelines_,    \* the pipelines of the maps
  variants,      \* per compiled shader: absent, null (inserted) or made
  handles,       \* the compiled shaders a pipeline got pointers to
  unseen,        \* the variants it got a null pointer for
  class_mutex,   \* mutex_, mutex_gs_, mutex_ts_, mutex_cs_: their holders
  caller,        \* per caller: where it is and for which pipeline
  task_queue_, task_continuation_queue_,
  task_continuation_,    \* pairs <<awaited task, task>>
  worker_mutex_,         \* held from a false predicate until the wait
  worker,        \* per worker: where it is, its task and what it depends on
  running, threads,
  done,          \* the tasks of which ready_ is set
  invalid,       \* the compiled shaders that have no Function
  built,         \* history: the shaders a task was compiled from
  destroyed, destructor,
  missed         \* history: the destructor notified before a wait began

cacheVars == <<pipelines_, variants, handles, unseen, class_mutex, caller>>
depVars == <<task_continuation_, done, invalid, built>>
vars == <<pipelines_, variants, handles, unseen, class_mutex, caller, task_queue_,
          task_continuation_queue_, task_continuation_, worker_mutex_, worker,
          running, threads, done, invalid, built, destroyed, destructor, missed>>

Idle == [pc |-> "idle", pipeline |-> NoTask, rest |-> <<>>]
Unused == [pc |-> "unused", task |-> NoTask, dep |-> NoTask, buffer |-> <<>>]
Started == [Unused EXCEPT !.pc = "top"]

Init ==
  /\ pipelines_ = {} /\ variants = [o \in Compiled |-> "absent"]
  /\ handles = [p \in Pipelines |-> {}] /\ unseen = [p \in Pipelines |-> {}]
  /\ class_mutex = [c \in Classes |-> NoOne]
  /\ caller = [c \in Callers |-> Idle]
  /\ task_queue_ = <<>> /\ task_continuation_queue_ = <<>>
  /\ task_continuation_ = {}
  /\ worker_mutex_ = NoOne
  /\ worker = [w \in Workers |-> IF w \in FirstWorkers THEN Started ELSE Unused]
  /\ running = 0 /\ threads = Cardinality(FirstWorkers)
  /\ done = {} /\ invalid = {} /\ built = [t \in Tasks |-> {}]
  /\ destroyed = FALSE /\ destructor = "none" /\ missed = FALSE

-----------------------------------------------------------------------------
(* The condition variable: a worker that is notified contends for the      *)
(* mutex and tests the predicate again.                                    *)

Waiting(ws) == {w \in Workers : ws[w].pc = "waiting"}

(* Fault: nobody is told of a new task.                                    *)
notify_none(ws, ws2) == ws2 = ws

notify_one(ws, ws2) ==
  IF Waiting(ws) = {} THEN ws2 = ws
  ELSE \E w \in Waiting(ws) : ws2 = [ws EXCEPT ![w].pc = "enter"]
notify_all(ws) ==
  [w \in Workers |-> IF w \in Waiting(ws) THEN [ws[w] EXCEPT !.pc = "enter"] ELSE ws[w]]

(* submit: a worker is added when all seem to be busy.                     *)
submit(task) ==
  /\ worker_mutex_ = NoOne
  /\ task_queue_' = Append(task_queue_, task)
  /\ \/ /\ running = threads /\ threads < Cardinality(Workers)
        /\ LET new == CHOOSE w \in Workers : worker[w].pc = "unused"
           IN  notify_one([worker EXCEPT ![new] = Started], worker')
        /\ threads' = threads + 1
     \/ /\ ~(running = threads /\ threads < Cardinality(Workers))
        /\ notify_one(worker, worker')
        /\ UNCHANGED threads
  /\ UNCHANGED <<task_continuation_queue_, worker_mutex_, running,
                 destroyed, destructor, missed>> /\ UNCHANGED depVars

-----------------------------------------------------------------------------
(* The callers.                                                            *)

schedVars == <<task_queue_, task_continuation_queue_, worker_mutex_, worker,
               running, threads, destroyed, destructor, missed>>

(* Get...Pipeline: a pipeline that is there already is returned.           *)
FindPipeline(c, p) ==
  /\ caller[c] = Idle /\ destructor = "none"
  /\ class_mutex[Class[p]] = NoOne
  /\ p \in pipelines_
  /\ caller' = [caller EXCEPT ![c] = [pc |-> "get", pipeline |-> p, rest |-> <<>>]]
  /\ UNCHANGED <<pipelines_, variants, handles, unseen, class_mutex>>
  /\ UNCHANGED schedVars /\ UNCHANGED depVars

(* Otherwise it is constructed, from its shader variants.                  *)
CreatePipeline(c, p) ==
  /\ caller[c] = Idle /\ destructor = "none"
  /\ class_mutex[Class[p]] = NoOne
  /\ p \notin pipelines_
  /\ class_mutex' = [class_mutex EXCEPT ![Class[p]] = c]
  /\ caller' = [caller EXCEPT ![c] = [pc |-> "create", pipeline |-> p, rest |-> Uses[p]]]
  /\ UNCHANGED <<pipelines_, variants, handles, unseen>>
  /\ UNCHANGED schedVars /\ UNCHANGED depVars

(* The pointers that the map has for a variant.                            *)
Nodes(s) == {o \in Compiled : o[1] = s /\ variants[o] # "absent"}

(* get_shader of a variant that is in the map: its pointer is returned,    *)
(* null if the thread that inserted it has not assigned it yet.            *)
FindVariant(c) ==
  /\ caller[c].pc = "create" /\ caller[c].rest # <<>>
  /\ LET s == Head(caller[c].rest)
         p == caller[c].pipeline
     IN  \E o \in Nodes(s) :
           /\ handles' = [handles EXCEPT ![p] = IF variants[o] = "made" THEN @ \cup {o} ELSE @]
           /\ unseen' = [unseen EXCEPT ![p] = IF variants[o] = "null" THEN @ \cup {s} ELSE @]
  /\ caller' = [caller EXCEPT ![c].rest = Tail(@)]
  /\ UNCHANGED <<pipelines_, variants, class_mutex>>
  /\ UNCHANGED schedVars /\ UNCHANGED depVars

(* variants.insert({variant, nullptr}), if it is not in the map, or if     *)
(* another thread is inserting it ...                                      *)
InsertVariant(c) ==
  /\ caller[c].pc = "create" /\ caller[c].rest # <<>>
  /\ LET s == Head(caller[c].rest)
         o == Own(caller[c].pipeline, s)
     IN  /\ variants[o] = "absent"
         /\ \A n \in Nodes(s) : variants[n] = "null"
         /\ variants' = [variants EXCEPT ![o] = "null"]
  /\ caller' = [caller EXCEPT ![c].pc = "variant"]
  /\ UNCHANGED <<pipelines_, handles, unseen, class_mutex>>
  /\ UNCHANGED schedVars /\ UNCHANGED depVars

(* ... which is then created and submitted.                                *)
SubmitVariant(c) ==
  /\ caller[c].pc = "variant"
  /\ LET o == Own(caller[c].pipeline, Head(caller[c].rest)) IN
       /\ submit(o)
       /\ variants' = [variants EXCEPT ![o] = "made"]
       /\ handles' = [handles EXCEPT ![caller[c].pipeline] = @ \cup {o}]
  /\ caller' = [caller EXCEPT ![c].pc = "create", ![c].rest = Tail(@)]
  /\ UNCHANGED <<pipelines_, unseen, class_mutex>>

SubmitPipeline(c) ==
  /\ caller[c].pc = "create" /\ caller[c].rest = <<>>
  /\ LET p == caller[c].pipeline IN
       /\ submit(p)
       /\ pipelines_' = pipelines_ \cup {p}
       /\ class_mutex' = [class_mutex EXCEPT ![Class[p]] = NoOne]
  /\ caller' = [caller EXCEPT ![c].pc = "get"]
  /\ UNCHANGED <<variants, handles, unseen>>

(* GetPipeline: ready_.wait.                                               *)
GetPipeline(c) ==
  /\ caller[c].pc = "get" /\ caller[c].pipeline \in done
  /\ caller' = [caller EXCEPT ![c] = Idle]
  /\ UNCHANGED <<pipelines_, variants, handles, unseen, class_mutex>>
  /\ UNCHANGED schedVars /\ UNCHANGED depVars

-----------------------------------------------------------------------------
(* worker_func.                                                            *)

At(w, pc) == worker[w].pc = pc
Goto(w, pc) == worker' = [worker EXCEPT ![w].pc = pc]
endVars == <<destroyed, destructor, missed>>

TestDestroyed(w) ==
  /\ At(w, "top")
  /\ Goto(w, IF destroyed THEN "exited" ELSE "enter")
  /\ UNCHANGED <<task_queue_, task_continuation_queue_, worker_mutex_, running, threads>>
  /\ UNCHANGED cacheVars /\ UNCHANGED depVars /\ UNCHANGED endVars

NothingQueued == task_queue_ = <<>> /\ task_continuation_queue_ = <<>>

(* A continuation is taken first.                                          *)
TakeTask(w) ==
  /\ At(w, "enter") /\ worker_mutex_ = NoOne /\ ~NothingQueued
  /\ LET continued == task_continuation_queue_ # <<>>
         q == IF continued THEN task_continuation_queue_ ELSE task_queue_
     IN  /\ worker' = [worker EXCEPT ![w] = [@ EXCEPT !.pc = "begin", !.task = Head(q)]]
         /\ task_continuation_queue_' =
              IF continued THEN Tail(q) ELSE task_continuation_queue_
         /\ task_queue_' = IF continued THEN task_queue_ ELSE Tail(q)
  /\ UNCHANGED <<worker_mutex_, running, threads>>
  /\ UNCHANGED cacheVars /\ UNCHANGED depVars /\ UNCHANGED endVars

(* The predicate is false, or true only because of the destructor.         *)
FindNothing(w) ==
  /\ At(w, "enter") /\ worker_mutex_ = NoOne /\ NothingQueued
  /\ IF destroyed THEN Goto(w, "exited") /\ UNCHANGED worker_mutex_
     ELSE Goto(w, "to_wait") /\ worker_mutex_' = w
  /\ UNCHANGED <<task_queue_, task_continuation_queue_, running, threads>>
  /\ UNCHANGED cacheVars /\ UNCHANGED depVars /\ UNCHANGED endVars

Wait(w) ==
  /\ At(w, "to_wait") /\ Goto(w, "waiting") /\ worker_mutex_' = NoOne
  /\ UNCHANGED <<task_queue_, task_continuation_queue_, running, threads>>
  /\ UNCHANGED cacheVars /\ UNCHANGED depVars /\ UNCHANGED endVars

BeginTask(w) ==
  /\ At(w, "begin") /\ Goto(w, "run")
  /\ running' = running + 1
  /\ UNCHANGED <<task_queue_, task_continuation_queue_, worker_mutex_, threads>>
  /\ UNCHANGED cacheVars /\ UNCHANGED depVars /\ UNCHANGED endVars

(* A pipeline looks at its shaders in order.  One with a mesh ends at the  *)
(* first that turns out to have no Function.                               *)
Pending(p, i) == \E o \in handles[p] \ done : o[1] = Uses[p][i]
Ends(p, i) ==
  /\ Class[p] \in MeshClasses
  /\ \E o \in handles[p] \cap done \cap invalid : o[1] = Uses[p][i]

(* Fault: the first shader of a pipeline is looked at, the others are not. *)
NotReadyFirst(p) == {i \in DOMAIN Uses[p] : i = 1 /\ Pending(p, i)}

(* The places of the shaders that a pipeline has to wait for.              *)
NotReady(p) ==
  {i \in DOMAIN Uses[p] : Pending(p, i) /\ \A j \in 1 .. i - 1 : ~Ends(p, j)}

(* RunThreadpoolWork of a shader, or of a pipeline that has not to wait:   *)
(* it compiles and returns itself, whether that succeeds or not.           *)
RunToEnd(w) ==
  /\ At(w, "run")
  /\ LET t == worker[w].task IN
       \/ /\ t \in Pipelines /\ NotReady(t) = {}
          /\ built' = [built EXCEPT ![t] =
               IF \E i \in DOMAIN Uses[t] : Ends(t, i) THEN {} ELSE handles[t] \cap done]
          /\ UNCHANGED invalid
       \/ /\ t \notin Pipelines
          /\ built' = [built EXCEPT ![t] = {t}]
          /\ \/ UNCHANGED invalid
             \/ t[1] \in MayFail /\ invalid' = invalid \cup {t}
  /\ Goto(w, "settle")
  /\ UNCHANGED <<task_queue_, task_continuation_queue_, worker_mutex_, running, threads>>
  /\ UNCHANGED cacheVars /\ UNCHANGED <<task_continuation_, done>> /\ UNCHANGED endVars

(* Otherwise it returns the first that is not ready.                       *)
RunToDependency(w) ==
  /\ At(w, "run") /\ worker[w].task \in Pipelines
  /\ LET p == worker[w].task IN
       \E i \in NotReady(p) : \E o \in handles[p] \ done :
         /\ \A j \in NotReady(p) : i <= j
         /\ o[1] = Uses[p][i]
         /\ worker' = [worker EXCEPT ![w] = [@ EXCEPT !.pc = "depend", !.dep = o]]
  /\ UNCHANGED <<task_queue_, task_continuation_queue_, worker_mutex_, running, threads>>
  /\ UNCHANGED cacheVars /\ UNCHANGED depVars /\ UNCHANGED endVars

(* Fault: a pipeline is left to a shader that may be done already.         *)
DependUnchecked(w) ==
  /\ At(w, "depend")
  /\ task_continuation_' = task_continuation_ \cup {<<worker[w].dep, worker[w].task>>}
  /\ worker' = [worker EXCEPT ![w] =
       [@ EXCEPT !.pc = "end", !.task = NoTask, !.dep = NoTask]]
  /\ UNCHANGED <<task_queue_, task_continuation_queue_, worker_mutex_, running, threads>>
  /\ UNCHANGED cacheVars /\ UNCHANGED <<done, invalid, built>> /\ UNCHANGED endVars

(* Under deps_mutex_: "spurious dependency", or a continuation.            *)
Depend(w) ==
  /\ At(w, "depend")
  /\ IF worker[w].dep \in done
     THEN /\ worker' = [worker EXCEPT ![w] = [@ EXCEPT !.pc = "run", !.dep = NoTask]]
          /\ UNCHANGED task_continuation_
     ELSE /\ task_continuation_' =
               task_continuation_ \cup {<<worker[w].dep, worker[w].task>>}
          /\ worker' = [worker EXCEPT ![w] =
               [@ EXCEPT !.pc = "end", !.task = NoTask, !.dep = NoTask]]
  /\ UNCHANGED <<task_queue_, task_continuation_queue_, worker_mutex_, running, threads>>
  /\ UNCHANGED cacheVars /\ UNCHANGED <<done, invalid, built>> /\ UNCHANGED endVars

Continuations(t) == {d \in task_continuation_ : d[1] = t}

(* Under deps_mutex_: the continuations are taken and the task is done.    *)
Settle(w) ==
  /\ At(w, "settle")
  /\ LET t == worker[w].task IN
       /\ worker' = [worker EXCEPT ![w] = [@ EXCEPT !.pc = "push", !.task = NoTask,
            !.buffer = SetToSeq({d[2] : d \in Continuations(t)})]]
       /\ task_continuation_' = task_continuation_ \ Continuations(t)
       /\ done' = done \cup {t}
  /\ UNCHANGED <<task_queue_, task_continuation_queue_, worker_mutex_, running, threads>>
  /\ UNCHANGED cacheVars /\ UNCHANGED <<invalid, built>> /\ UNCHANGED endVars

PushContinuations(w) ==
  /\ At(w, "push") /\ worker_mutex_ = NoOne
  /\ task_continuation_queue_' = task_continuation_queue_ \o worker[w].buffer
  /\ worker' = [worker EXCEPT ![w] = [@ EXCEPT !.pc = "notify", !.buffer = <<>>]]
  /\ UNCHANGED <<task_queue_, worker_mutex_, running, threads>>
  /\ UNCHANGED cacheVars /\ UNCHANGED depVars /\ UNCHANGED endVars

NotifyWorkers(w) ==
  /\ At(w, "notify")
  /\ worker' = notify_all([worker EXCEPT ![w].pc = "end"])
  /\ UNCHANGED <<task_queue_, task_continuation_queue_, worker_mutex_, running, threads>>
  /\ UNCHANGED cacheVars /\ UNCHANGED depVars /\ UNCHANGED endVars

EndTask(w) ==
  /\ At(w, "end") /\ Goto(w, "top")
  /\ running' = running - 1
  /\ UNCHANGED <<task_queue_, task_continuation_queue_, worker_mutex_, threads>>
  /\ UNCHANGED cacheVars /\ UNCHANGED depVars /\ UNCHANGED endVars

-----------------------------------------------------------------------------
(* ~task_scheduler, when no thread uses the device any more.  It notifies  *)
(* without worker_mutex_: a worker that has found the predicate false but  *)
(* does not wait yet is missed.                                            *)

Destroy ==
  /\ destructor = "none" /\ \A c \in Callers : caller[c] = Idle
  /\ destroyed' = TRUE /\ destructor' = "notify"
  /\ UNCHANGED <<task_queue_, task_continuation_queue_, worker_mutex_, worker,
                 running, threads, missed>>
  /\ UNCHANGED cacheVars /\ UNCHANGED depVars

(* Fault: one worker is notified.                                          *)
DestroyNotifyOne ==
  /\ destructor = "notify"
  /\ notify_one(worker, worker')
  /\ missed' = (\E w \in Workers : At(w, "to_wait"))
  /\ destructor' = "join"
  /\ UNCHANGED <<task_queue_, task_continuation_queue_, worker_mutex_, running,
                 threads, destroyed>>
  /\ UNCHANGED cacheVars /\ UNCHANGED depVars

DestroyNotify ==
  /\ destructor = "notify"
  /\ worker' = notify_all(worker)
  /\ missed' = (\E w \in Workers : At(w, "to_wait"))
  /\ destructor' = "join"
  /\ UNCHANGED <<task_queue_, task_continuation_queue_, worker_mutex_, running,
                 threads, destroyed>>
  /\ UNCHANGED cacheVars /\ UNCHANGED depVars

DestroyJoin ==
  /\ destructor = "join"
  /\ \A w \in Workers : worker[w].pc \in {"exited", "unused"}
  /\ destructor' = "returned"
  /\ UNCHANGED <<task_queue_, task_continuation_queue_, worker_mutex_, worker,
                 running, threads, destroyed, missed>>
  /\ UNCHANGED cacheVars /\ UNCHANGED depVars

-----------------------------------------------------------------------------
CallerStep(c) ==
  \/ FindVariant(c) \/ InsertVariant(c) \/ SubmitVariant(c)
  \/ SubmitPipeline(c) \/ GetPipeline(c)

WorkerStep(w) ==
  \/ TestDestroyed(w) \/ TakeTask(w) \/ FindNothing(w) \/ Wait(w)
  \/ BeginTask(w) \/ RunToEnd(w) \/ RunToDependency(w) \/ Depend(w)
  \/ Settle(w) \/ PushContinuations(w) \/ NotifyWorkers(w) \/ EndTask(w)

DestructorStep == DestroyNotify \/ DestroyJoin

Next ==
  \/ \E c \in Callers, p \in Pipelines : FindPipeline(c, p) \/ CreatePipeline(c, p)
  \/ \E c \in Callers : CallerStep(c)
  \/ \E w \in Workers : WorkerStep(w)
  \/ Destroy \/ DestructorStep

(* The threads run; an application need not draw or release the device.    *)
Fairness ==
  /\ \A c \in Callers : WF_vars(CallerStep(c))
  /\ \A w \in Workers : WF_vars(WorkerStep(w))
  /\ WF_vars(DestructorStep)

Spec == Init /\ [][Next]_vars /\ Fairness

-----------------------------------------------------------------------------
(* Properties.                                                             *)

WorkerPlaces == {"unused", "top", "enter", "to_wait", "waiting", "begin", "run",
                 "depend", "settle", "push", "notify", "end", "exited"}

(* Types; the counters agree with the workers; and worker_mutex_ is held   *)
(* across steps exactly by a worker about to wait.                         *)
TypeOK ==
  /\ pipelines_ \subseteq Pipelines /\ done \subseteq Tasks /\ invalid \subseteq Compiled
  /\ variants \in [Compiled -> {"absent", "null", "made"}]
  /\ handles \in [Pipelines -> SUBSET Compiled]
  /\ unseen \in [Pipelines -> SUBSET Shaders]
  /\ class_mutex \in [Classes -> Callers \cup {NoOne}]
  /\ \A c \in Callers : caller[c].pc \in {"idle", "create", "variant", "get"}
  /\ task_queue_ \in Seq(Tasks) /\ task_continuation_queue_ \in Seq(Pipelines)
  /\ task_continuation_ \subseteq Compiled \X Pipelines
  /\ \A w \in Workers :
       /\ worker[w].pc \in WorkerPlaces
       /\ worker[w].task \in Tasks \cup {NoTask}
       /\ worker[w].pc = "to_wait" <=> worker_mutex_ = w
  /\ running = Cardinality({w \in Workers : worker[w].pc \in
                 {"run", "depend", "settle", "push", "notify", "end"}})
  /\ threads = Cardinality({w \in Workers : worker[w].pc # "unused"})

(* How often a task is queued, in the hands of a worker or left behind.    *)
Held(t) ==
  Cardinality({w \in Workers : worker[w].task = t}) +
  Cardinality({w \in Workers : t \in ToSet(worker[w].buffer)}) +
  Cardinality({d \in task_continuation_ : d[2] = t}) +
  Cardinality({n \in DOMAIN task_queue_ : task_queue_[n] = t}) +
  Cardinality({n \in DOMAIN task_continuation_queue_ : task_continuation_queue_[n] = t})

Submitted(t) == IF t \in Pipelines THEN t \in pipelines_ ELSE variants[t] = "made"

(* A submitted task that is not done is in exactly one place, a queue, the *)
(* hands of one worker or the continuations of a shader; once done it is   *)
(* nowhere.  No task is lost between the mutexes, and none is run by two   *)
(* workers at once or run again.                                           *)
TaskInOnePlace ==
  \A t \in Tasks : Held(t) = IF Submitted(t) /\ t \notin done THEN 1 ELSE 0

(* A task is left behind only for a shader somebody will finish: one that  *)
(* is submitted, not done, and itself waits for nothing.                   *)
ContinuationIsAwaited ==
  \A d \in task_continuation_ :
    /\ Submitted(d[1]) /\ d[1] \notin done
    /\ \A e \in task_continuation_ : e[2] # d[1]

(* A pipeline that is ready has been compiled from every shader of its     *)
(* description, each of them ready before, except that a pipeline with a   *)
(* mesh is given up when a shader of it is invalid, and that a pixel       *)
(* shader may be missing if pipelines of another class have it too: no     *)
(* other null pointer is ever returned, which would be dereferenced.       *)
Shared(p, s) ==
  s \in PixelVariants /\ \E q \in Pipelines : Class[q] # Class[p] /\ s \in ToSet(Uses[q])

Whole(p) ==
  \/ VariantsOf(built[p]) \cup unseen[p] = ToSet(Uses[p])
  \/ Class[p] \in MeshClasses /\ handles[p] \cap done \cap invalid # {} /\ built[p] = {}

BuiltFromItsShaders ==
  \A p \in Pipelines \cap done : Whole(p) /\ \A s \in unseen[p] : Shared(p, s)

(* The inductive invariant behind BuiltFromItsShaders and                  *)
(* ContinuationIsAwaited.                                                  *)

Made == {o \in Compiled : variants[o] = "made"}

(* What may be queued, run or left behind.                                 *)
Issued == pipelines_ \cup Compiled

CallerRecord == [pc : {"idle", "create", "variant", "get"},
                 pipeline : Pipelines \cup {NoTask}, rest : Seq(Shaders)]
WorkerRecord == [pc : WorkerPlaces, task : Issued \cup {NoTask},
                 dep : Made \cup {NoTask}, buffer : Seq(Issued)]

Records ==
  /\ pipelines_ \subseteq Pipelines /\ done \subseteq Tasks /\ invalid \subseteq Compiled
  /\ variants \in [Compiled -> {"absent", "null", "made"}]
  /\ unseen \in [Pipelines -> SUBSET Shaders]
  /\ class_mutex \in [Classes -> Callers \cup {NoOne}]
  /\ built \in [Tasks -> SUBSET Compiled]
  /\ caller \in [Callers -> CallerRecord]
  /\ worker \in [Workers -> WorkerRecord]
  /\ task_queue_ \in Seq(Issued) /\ task_continuation_queue_ \in Seq(Issued)

Making(c) == caller[c].pc \in {"create", "variant"}

(* The variants a pipeline has passed.                                     *)
Passed(p) == VariantsOf(handles[p]) \cup unseen[p]

(* Whoever makes a pipeline holds the mutex of its class, and has passed   *)
(* the variants that do not remain.                                        *)
MakerOK(c) ==
  /\ Making(c) =>
       /\ caller[c].pipeline \in Pipelines \ pipelines_
       /\ class_mutex[Class[caller[c].pipeline]] = c
       /\ Passed(caller[c].pipeline) \cup ToSet(caller[c].rest) =
            ToSet(Uses[caller[c].pipeline])
  /\ caller[c].pc = "variant" => caller[c].rest # <<>>
MakersOK == \A c \in Callers : MakerOK(c)

Inserting(c, o) ==
  caller[c].pc = "variant" /\ o = Own(caller[c].pipeline, Head(caller[c].rest))

(* A variant whose pointer is null is being made, for the class it is of.  *)
VariantsOK ==
  \A o \in Compiled : variants[o] = "null" => \E c \in Callers : Inserting(c, o)

(* Pipelines have pointers to made variants of theirs, in the end to all   *)
(* but those of pixel shaders that another class has in hand.              *)
HandlesOK ==
  /\ handles \in [Pipelines -> SUBSET Made]
  /\ \A p \in Pipelines : Passed(p) \subseteq ToSet(Uses[p])
  /\ \A p \in pipelines_ : Passed(p) = ToSet(Uses[p])
  /\ \A p \in Pipelines : \A s \in unseen[p] : Shared(p, s)

ContinuationsOK ==
  /\ task_continuation_ \subseteq (Made \ done) \X pipelines_
  /\ IsFiniteSet(task_continuation_)
  /\ \A w \in Workers :
       /\ worker[w].pc \in {"begin", "run", "depend", "settle"} => worker[w].task # NoTask
       /\ worker[w].pc = "depend" => worker[w].dep # NoTask /\ worker[w].task \in pipelines_

(* What is done, or about to be, was compiled from all its shaders.        *)
Ran(t) == t \in done \/ \E w \in Workers : At(w, "settle") /\ worker[w].task = t
BuildsOK ==
  /\ done \subseteq Issued
  /\ \A p \in pipelines_ : Ran(p) => Whole(p)

CacheInv ==
  Records /\ MakersOK /\ VariantsOK /\ HandlesOK /\ ContinuationsOK /\ BuildsOK

(* The rest of what TaskInOnePlace needs: a worker has a task, or pipelines*)
(* to queue again, at certain places only; a variant is made by the thread *)
(* that inserted it; and nothing is done before it is submitted.           *)
HandOK(w) ==
  /\ worker[w].task # NoTask => worker[w].pc \in {"begin", "run", "depend", "settle"}
  /\ worker[w].buffer # <<>> => worker[w].pc = "push"
  /\ worker[w].buffer \in Seq(Pipelines) /\ IsInjective(worker[w].buffer)

InsertersOK ==
  \A c \in Callers, o \in Compiled : Inserting(c, o) =>
    variants[o] = "null" /\ \A d \in Callers : Inserting(d, o) => d = c

HandsOK ==
  /\ task_continuation_queue_ \in Seq(Pipelines)
  /\ \A w \in Workers : HandOK(w)
  /\ InsertersOK
  /\ \A t \in done : Submitted(t)

(* What always holds of the scheduler: types, counters, that worker_func   *)
(* and submit neither lose nor double a task, and that a task left behind  *)
(* at deps_mutex_ will be picked up.                                       *)
SchedulerInv ==
  TypeOK /\ CacheInv /\ HandsOK /\ TaskInOnePlace /\ ContinuationIsAwaited

(* Whoever asks for a pipeline gets it: with few workers, however the      *)
(* requests and the completions of shared shaders interleave.              *)
RequestsAnswered ==
  \A c \in Callers : caller[c].pc # "idle" ~> caller[c].pc = "idle"

(* The destructor joins all workers, with tasks queued or not, unless it   *)
(* notified a worker that was about to wait.                               *)
DestructorReturns == destroyed ~> (destructor = "returned" \/ missed)

=============================================================================
