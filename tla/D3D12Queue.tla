----------------------------- MODULE D3D12Queue -----------------------------
(***************************************************************************)
(* ID3D12CommandQueue and ID3D12Fence on top of the one dxmt::CommandQueue *)
(* of the device.  Every D3D12 queue keeps its pending operations under    *)
(* its own mutex_ and drains them as far as its waits allow; a wait that   *)
(* is not satisfied leaves a callback with the fence, which the signaling  *)
(* thread, the finish thread of dxmt::CommandQueue or a listener thread    *)
(* runs, whichever comes first.                                            *)
(*                                                                         *)
(* A thread is a stack of the calls it is in, innermost first.  What runs  *)
(* under mutex_ and touches nothing shared is part of the step before it:  *)
(* pop_front follows the commit of a chunk in the code, which nobody can   *)
(* observe while mutex_ is held.  draining_pending_operations_ guards      *)
(* against re-entry, which a std::mutex never allows, and is left out, as  *)
(* are references, command records and the events of SetEventOnCompletion. *)
(* The dxmt::CommandQueue is abstracted to its chunks in flight, in order, *)
(* and the counter chunk_ongoing; the module CommandQueue has the detail.  *)
(***************************************************************************)
EXTENDS Integers, Sequences, FiniteSets

CONSTANTS
  Queues, Fences, Values,
  AppThreads, Finish,   \* the application's threads, the finish thread
  Nobody,               \* no thread
  kCommandChunkCount,
  MaxOps                \* bound: calls of the application

ASSUME QueueAssumption ==
  /\ Values \subseteq Nat \ {0}
  /\ kCommandChunkCount \in Nat /\ kCommandChunkCount > 1
  /\ MaxOps \in Nat
  /\ Finish \notin AppThreads /\ Nobody \notin AppThreads \cup {Finish}
  /\ (AppThreads \cup {Finish, Nobody}) \cap Nat = {}

Ids == 1 .. MaxOps
(* The listener thread of a wait is named by the wait's id.                *)
Threads == AppThreads \cup {Finish} \cup Ids

VARIABLES
  calls,        \* ids given to operations so far
  requested,    \* per fence: the largest value any signal was asked for
  pending,      \* per queue: pending_operations_
  mutex,        \* per queue: the owner of mutex_
  batches,      \* per queue: submitted_batches_ > 0
  has_waited,   \* per queue
  event,        \* per fence: value of the MTLSharedEvent
  manual,       \* per fence: has_manual_completed_value_
  completed,    \* per fence: completed_value_
  callbacks,    \* per fence: pending_callbacks_, the waits they belong to
  fired,        \* callbacks that have run
  listening,    \* waits whose listener thread has been started and sleeps
  notified,     \* those of them whose Win32 event the shared event has set
  info,         \* what each id stands for
  stack,        \* per thread
  recording,    \* threads between CurrentChunk and CommitCurrentChunk
  flight,       \* chunks published and not retired, oldest first
  gpu_done,     \* how many of them the GPU has completed
  ongoing,      \* chunk_ongoing
  allocator,    \* a command allocator: last serial, last completed, pending
  order,        \* history, per queue: the operations in submission order
  submitted,    \* history: operations handed to the chunk pipeline
  executed,     \* history: operations whose effect has happened
  signaled      \* history, per fence: the last and the largest value signaled

client   == <<calls, requested, info>>
queues   == <<pending, mutex, batches, has_waited>>
fences   == <<event, manual, completed, callbacks, fired, listening, notified>>
pipeline == <<recording, flight, gpu_done, ongoing>>
history  == <<order, submitted, executed, signaled>>
vars == <<client, queues, fences, stack, pipeline, allocator, history>>

NoOp == [id |-> 0, type |-> "None"]

(* Stack frames.                                                           *)
Lock(q, op, cb) == [at |-> "lock", q |-> q, op |-> op, cb |-> cb]
Drain(q)        == [at |-> "drain", q |-> q]
Arm(q)          == [at |-> "arm", q |-> q]
Commit(op)      == [at |-> "commit", op |-> op]
Throttled       == [at |-> "throttle"]
Uncounted       == [at |-> "count"]
Post(f, v)      == [at |-> "post", f |-> f, v |-> v]
Run(ids)        == IF ids = {} THEN <<>> ELSE <<[at |-> "run", cbs |-> ids]>>
Retire          == [at |-> "retire"]

At(t, what) == stack[t] # <<>> /\ Head(stack[t]).at = what
Return(t) == [stack EXCEPT ![t] = Tail(@)]
Goto(t, frame) == [stack EXCEPT ![t] = <<frame>> \o Tail(@)]
Call(t, frame) == [stack EXCEPT ![t] = <<frame>> \o @]

Init ==
  /\ calls = 0 /\ requested = [f \in Fences |-> 0] /\ info = [i \in Ids |-> NoOp]
  /\ pending = [q \in Queues |-> <<>>] /\ mutex = [q \in Queues |-> Nobody]
  /\ batches = [q \in Queues |-> FALSE] /\ has_waited = [q \in Queues |-> FALSE]
  /\ event = [f \in Fences |-> 0] /\ manual = [f \in Fences |-> FALSE]
  /\ completed = [f \in Fences |-> 0] /\ callbacks = [f \in Fences |-> {}]
  /\ fired = {} /\ listening = {} /\ notified = {}
  /\ stack = [t \in Threads |-> <<>>]
  /\ recording = {} /\ flight = <<>> /\ gpu_done = 0 /\ ongoing = 0
  /\ allocator = [last |-> 0, completed |-> 0, pending |-> 0]
  /\ order = [q \in Queues |-> <<>>]
  /\ submitted = {} /\ executed = {} /\ signaled = [f \in Fences |-> [last |-> 0, max |-> 0]]

-----------------------------------------------------------------------------
(* ID3D12Fence.                                                            *)

(* GetCompletedValueLocked                                                 *)
CompletedValue(f) == IF manual[f] THEN completed[f] ELSE event[f]

(* collectCompletedEventsLocked: the callbacks that are due.  The order in *)
(* which they are called is left open: the listener threads call the same  *)
(* callbacks, each when it is scheduled.                                   *)
Due(f, v) == {i \in callbacks[f] : info[i].v <= v}
NotDue(f, v) == callbacks[f] \ Due(f, v)

(* A signal of the application or of a queue takes effect.                 *)
Signaled(f, v) ==
  signaled' = [signaled EXCEPT ![f] = [last |-> v, max |-> IF v > @.max THEN v ELSE @.max]]

(* The locked part of Signal and SetCompletedValue.                        *)
Complete(f, v) ==
  /\ completed' = [completed EXCEPT ![f] = v]
  /\ manual' = [manual EXCEPT ![f] = TRUE]
  /\ callbacks' = [callbacks EXCEPT ![f] = NotDue(f, v)]

(* The shared event takes a value and sets the Win32 events that wait for  *)
(* it (MTLSharedEvent_setWin32EventAtValue).                               *)
SignalValue(f, v) ==
  /\ event' = [event EXCEPT ![f] = v]
  /\ notified' = notified \cup {i \in listening : info[i].f = f /\ info[i].v <= v}

(* event_.signalValue, outside the lock of the fence.                      *)
PostValue(t) ==
  /\ At(t, "post")
  /\ SignalValue(Head(stack[t]).f, Head(stack[t]).v)
  /\ stack' = Return(t)
  /\ UNCHANGED <<client, queues, manual, completed, callbacks, fired, listening,
                 pipeline, allocator, history>>

(* ID3D12Fence::Signal by the application.                                 *)
FenceSignal(t, f, v) ==
  /\ t \in AppThreads /\ stack[t] = <<>> /\ calls < MaxOps
  /\ v > requested[f]
  /\ calls' = calls + 1
  /\ requested' = [requested EXCEPT ![f] = v]
  /\ Complete(f, v) /\ Signaled(f, v)
  /\ stack' = [stack EXCEPT ![t] = <<Post(f, v)>> \o Run(Due(f, v))]
  /\ UNCHANGED <<info, queues, event, fired, listening, notified, pipeline, allocator,
                 order, submitted, executed>>

(* The callbacks are called one after the other, each at most once.        *)
RunCallback(t) ==
  /\ At(t, "run")
  /\ \E i \in Head(stack[t]).cbs :
       LET callback == IF i \in fired THEN <<>> ELSE <<Lock(info[i].q, NoOp, i)>> IN
       /\ fired' = fired \cup {i}
       /\ stack' = [stack EXCEPT
                      ![t] = callback \o Run(Head(@).cbs \ {i}) \o Tail(@)]
  /\ UNCHANGED <<client, queues, event, manual, completed, callbacks, listening,
                 notified, pipeline, allocator, history>>

(* The listener thread of a wait wakes up.                                 *)
Listen(i) ==
  /\ i \in notified
  /\ listening' = listening \ {i} /\ notified' = notified \ {i}
  /\ stack' = [stack EXCEPT ![i] = Run({i})]
  /\ UNCHANGED <<client, queues, event, manual, completed, callbacks, fired,
                 pipeline, allocator, history>>

-----------------------------------------------------------------------------
(* ID3D12CommandQueue.                                                     *)

(* ExecuteCommandLists, Signal and Wait, up to the lock.  A list executed  *)
(* takes a serial of its allocator (MarkSubmittedToQueue).                 *)
QueueCall(t, q, type, f, v) ==
  /\ t \in AppThreads /\ stack[t] = <<>> /\ calls < MaxOps
  /\ calls' = calls + 1
  /\ type = "Signal" => v > requested[f]
  /\ requested' = IF type = "Signal" THEN [requested EXCEPT ![f] = v] ELSE requested
  /\ allocator' = IF type = "Execute"
                  THEN [allocator EXCEPT !.last = @ + 1, !.pending = @ + 1]
                  ELSE allocator
  /\ LET op == [id |-> calls + 1, type |-> type, q |-> q, f |-> f, v |-> v,
                armed |-> FALSE, wait_completed |-> FALSE,
                serial |-> IF type = "Execute" THEN allocator.last + 1 ELSE 0] IN
     /\ info' = [info EXCEPT ![calls + 1] = op]
     /\ stack' = [stack EXCEPT ![t] = <<Lock(q, op, 0)>>]
  /\ UNCHANGED <<queues, fences, pipeline, history>>

(* EnqueuePendingOperation, once it holds mutex_                           *)
Enqueue(t) ==
  /\ At(t, "lock") /\ Head(stack[t]).cb = 0
  /\ LET q == Head(stack[t]).q
         op == Head(stack[t]).op IN
     /\ mutex[q] = Nobody
     /\ mutex' = [mutex EXCEPT ![q] = t]
     /\ has_waited' = [has_waited EXCEPT ![q] = @ \/ op.type = "Wait"]
     /\ pending' = [pending EXCEPT ![q] = Append(@, op)]
     /\ order' = [order EXCEPT ![q] = Append(@, op.id)]
     /\ stack' = Goto(t, Drain(q))
  /\ UNCHANGED <<client, batches, fences, pipeline, allocator,
                 submitted, executed, signaled>>

(* Fault: the callback does not compare the wait at the front with its own.*)
MarksAny(op, i) == op.type = "Wait"

(* The callback marks the wait at the front if it is the one it stands for.*)
Marks(op, i) == op.type = "Wait" /\ op.f = info[i].f /\ op.v = info[i].v

(* The callback of a wait, once it holds mutex_                            *)
Resume(t) ==
  /\ At(t, "lock") /\ Head(stack[t]).cb # 0
  /\ LET q == Head(stack[t]).q
         i == Head(stack[t]).cb IN
     /\ mutex[q] = Nobody
     /\ mutex' = [mutex EXCEPT ![q] = t]
     /\ pending' = IF pending[q] # <<>> /\ Marks(Head(pending[q]), i)
                   THEN [pending EXCEPT ![q][1].wait_completed = TRUE]
                   ELSE pending
     /\ stack' = Goto(t, Drain(q))
  /\ UNCHANGED <<client, batches, has_waited, fences, pipeline, allocator, history>>

Front(t, type) ==
  /\ At(t, "drain")
  /\ LET q == Head(stack[t]).q IN pending[q] # <<>> /\ Head(pending[q]).type = type

Unlock(t, q) ==
  /\ mutex' = [mutex EXCEPT ![q] = Nobody]
  /\ stack' = Return(t)

DrainEmpty(t) ==
  /\ At(t, "drain") /\ pending[Head(stack[t]).q] = <<>>
  /\ Unlock(t, Head(stack[t]).q)
  /\ UNCHANGED <<client, pending, batches, has_waited, fences, pipeline,
                 allocator, history>>

(* CurrentChunk and emitcc: the thread starts to fill the current chunk.   *)
(* Nothing in the code keeps the threads of two queues from doing so at    *)
(* once; the model assumes that they take turns, up to the publication of  *)
(* the chunk, so as not to describe the data race.                         *)
StartRecording(t, op) ==
  /\ recording = {}
  /\ recording' = recording \cup {t}
  /\ submitted' = submitted \cup {op.id}
  /\ stack' = Call(t, Commit(op))
  /\ UNCHANGED <<flight, gpu_done, ongoing>>

DrainExecute(t) ==
  /\ Front(t, "Execute")
  /\ LET q == Head(stack[t]).q IN
     /\ StartRecording(t, Head(pending[q]))
     /\ pending' = [pending EXCEPT ![q] = Tail(@)]
     /\ batches' = [batches EXCEPT ![q] = TRUE]
  /\ UNCHANGED <<client, mutex, has_waited, fences, allocator,
                 order, executed, signaled>>

(* Fault: the shortcut of SubmitFenceSignal forgets submitted_batches_.    *)
SignalPastWork(t) ==
  /\ Front(t, "Signal")
  /\ LET q == Head(stack[t]).q
         op == Head(pending[q]) IN
     /\ ~has_waited[q]
     /\ pending' = [pending EXCEPT ![q] = Tail(@)]
     /\ Complete(op.f, op.v) /\ Signaled(op.f, op.v)
     /\ submitted' = submitted \cup {op.id}
     /\ executed' = executed \cup {op.id}
     /\ stack' = [stack EXCEPT ![t] = <<Post(op.f, op.v)>> \o Run(Due(op.f, op.v)) \o @]
  /\ UNCHANGED <<client, mutex, batches, has_waited, event, fired, listening,
                 notified, pipeline, allocator, order>>

(* SubmitFenceSignal on a queue that has neither work nor waits behind it: *)
(* SignalFromQueue.                                                        *)
DrainSignalNow(t) ==
  /\ Front(t, "Signal")
  /\ LET q == Head(stack[t]).q
         op == Head(pending[q]) IN
     /\ ~batches[q] /\ ~has_waited[q]
     /\ pending' = [pending EXCEPT ![q] = Tail(@)]
     /\ Complete(op.f, op.v) /\ Signaled(op.f, op.v)
     /\ submitted' = submitted \cup {op.id}
     /\ executed' = executed \cup {op.id}
     /\ stack' = [stack EXCEPT ![t] = <<Post(op.f, op.v)>> \o Run(Due(op.f, op.v)) \o @]
  /\ UNCHANGED <<client, mutex, batches, has_waited, event, fired, listening,
                 notified, pipeline, allocator, order>>

(* SubmitFenceSignal through a chunk.                                      *)
DrainSignal(t) ==
  /\ Front(t, "Signal")
  /\ LET q == Head(stack[t]).q IN
     /\ batches[q] \/ has_waited[q]
     /\ StartRecording(t, Head(pending[q]))
     /\ pending' = [pending EXCEPT ![q] = Tail(@)]
  /\ UNCHANGED <<client, mutex, batches, has_waited, fences, allocator,
                 order, executed, signaled>>

Satisfied(op) == op.wait_completed \/ CompletedValue(op.f) >= op.v

(* The three outcomes of a wait at the front.                              *)
DrainWait(t) ==
  /\ Front(t, "Wait")
  /\ LET q == Head(stack[t]).q
         op == Head(pending[q]) IN
     \/ /\ Satisfied(op)
        /\ pending' = [pending EXCEPT ![q] = Tail(@)]
        /\ UNCHANGED <<mutex, stack>>
     \/ /\ ~Satisfied(op) /\ op.armed
        /\ Unlock(t, q)
        /\ UNCHANGED pending
     \/ /\ ~Satisfied(op) /\ ~op.armed
        /\ pending' = [pending EXCEPT ![q][1].armed = TRUE]
        /\ stack' = Goto(t, Arm(q))
        /\ UNCHANGED mutex
  /\ UNCHANGED <<client, batches, has_waited, fences, pipeline, allocator, history>>

(* The callback is kept by the fence and by a new listener thread.         *)
Register(op) ==
  /\ callbacks' = [callbacks EXCEPT ![op.f] = @ \cup {op.id}]
  /\ listening' = listening \cup {op.id}
  /\ notified' = IF event[op.f] >= op.v THEN notified \cup {op.id} ELSE notified

(* Fault: a fence that is reached meanwhile gets no callback at all.       *)
ForgetCallback(t) ==
  /\ At(t, "arm")
  /\ LET q == Head(stack[t]).q
         op == Head(pending[q]) IN
     /\ IF CompletedValue(op.f) >= op.v
        THEN UNCHANGED <<callbacks, listening, notified>>
        ELSE Register(op)
     /\ Unlock(t, q)
  /\ UNCHANGED <<client, pending, batches, has_waited, event, manual, completed,
                 fired, pipeline, allocator, history>>

(* AddCompletionCallback, called with mutex_ held, tests the fence again:  *)
(* it registers the callback and a listener thread, or runs the callback   *)
(* at once.                                                                *)
AddCompletionCallback(t) ==
  /\ At(t, "arm")
  /\ LET q == Head(stack[t]).q
         op == Head(pending[q]) IN
     \/ /\ CompletedValue(op.f) >= op.v
        /\ stack' = [stack EXCEPT ![t] = Run({op.id}) \o Tail(@)]
        /\ UNCHANGED <<mutex, callbacks, listening, notified>>
     \/ /\ CompletedValue(op.f) < op.v
        /\ Register(op)
        /\ Unlock(t, q)
  /\ UNCHANGED <<client, pending, batches, has_waited, event, manual, completed,
                 fired, pipeline, allocator, history>>

-----------------------------------------------------------------------------
(* dxmt::CommandQueue.                                                     *)

(* CommitCurrentChunk: the chunk is published, then chunk_ongoing is waited *)
(* on and incremented, which is not one step.                              *)
Publish(t) ==
  /\ At(t, "commit")
  /\ flight' = Append(flight, Head(stack[t]).op)
  /\ recording' = recording \ {t}
  /\ stack' = Goto(t, Throttled)
  /\ UNCHANGED <<client, queues, fences, gpu_done, ongoing, allocator, history>>

Throttle(t) ==
  /\ At(t, "throttle")
  /\ ongoing # kCommandChunkCount - 1
  /\ stack' = Goto(t, Uncounted)
  /\ UNCHANGED <<client, queues, fences, pipeline, allocator, history>>

CountOngoing(t) ==
  /\ At(t, "count")
  /\ ongoing' = ongoing + 1
  /\ stack' = Return(t)
  /\ UNCHANGED <<client, queues, fences, recording, flight, gpu_done, allocator, history>>

(* The GPU completes the chunks in order; a signal is encoded last.        *)
GpuComplete ==
  /\ gpu_done < Len(flight)
  /\ LET op == flight[gpu_done + 1] IN
     /\ IF op.type = "Signal"
        THEN SignalValue(op.f, op.v) /\ Signaled(op.f, op.v)
        ELSE UNCHANGED <<event, notified, signaled>>
     /\ executed' = executed \cup {op.id}
  /\ gpu_done' = gpu_done + 1
  /\ UNCHANGED <<client, queues, manual, completed, callbacks, fired, listening,
                 stack, recording, flight, ongoing, allocator, order, submitted>>

(* CompleteCommandListSubmission                                           *)
CompleteSubmission(a, serial) ==
  IF serial # 0 /\ serial <= a.completed THEN a
  ELSE [a EXCEPT !.completed = serial, !.pending = IF @ > 0 THEN @ - 1 ELSE @]

(* chunk.reset() on the finish thread calls the deferred readback of the   *)
(* chunk: CompleteCommandListSubmission, or SetCompletedValue.             *)
FinishReadback ==
  /\ stack[Finish] = <<>> /\ gpu_done > 0
  /\ LET op == flight[1] IN
     \/ /\ op.type = "Execute"
        /\ allocator' = CompleteSubmission(allocator, op.serial)
        /\ stack' = [stack EXCEPT ![Finish] = <<Retire>>]
        /\ UNCHANGED <<completed, manual, callbacks>>
     \/ /\ op.type = "Signal"
        /\ Complete(op.f, op.v)
        /\ stack' = [stack EXCEPT ![Finish] = Run(Due(op.f, op.v)) \o <<Retire>>]
        /\ UNCHANGED allocator
  /\ UNCHANGED <<client, queues, event, fired, listening, notified, pipeline, history>>

FinishRetire ==
  /\ At(Finish, "retire")
  /\ flight' = Tail(flight) /\ gpu_done' = gpu_done - 1
  /\ ongoing' = ongoing - 1
  /\ stack' = Return(Finish)
  /\ UNCHANGED <<client, queues, fences, recording, allocator, history>>

-----------------------------------------------------------------------------
Step(t) ==
  \/ PostValue(t) \/ RunCallback(t) \/ Enqueue(t) \/ Resume(t) \/ DrainEmpty(t) \/ DrainExecute(t)
  \/ DrainSignalNow(t) \/ DrainSignal(t) \/ DrainWait(t) \/ AddCompletionCallback(t)
  \/ Publish(t) \/ Throttle(t) \/ CountOngoing(t)

AppCall(t) ==
  \/ \E f \in Fences, v \in Values : FenceSignal(t, f, v)
  \/ \E q \in Queues, f \in Fences, v \in Values :
       QueueCall(t, q, "Signal", f, v) \/ QueueCall(t, q, "Wait", f, v)
  \/ \E q \in Queues, f \in Fences : QueueCall(t, q, "Execute", f, 0)

Inside == {t \in Threads : stack[t] # <<>>}

Next ==
  \/ \E t \in AppThreads \ Inside : AppCall(t)
  \/ \E t \in Inside : Step(t)
  \/ \E i \in Ids : Listen(i)
  \/ GpuComplete \/ FinishReadback \/ FinishRetire

Spec == Init /\ [][Next]_vars

-----------------------------------------------------------------------------
(* The operations of q before the j-th.                                    *)
Before(q, j) == {info[order[q][i]] : i \in 1 .. j - 1}

(* Nothing of a queue is handed to the GPU before what was submitted ahead *)
(* of it, nor before the fences it waits for have reached their values,    *)
(* whichever thread drains the queue and however late a callback runs.     *)
QueueOrder ==
  \A q \in Queues : \A j \in 1 .. Len(order[q]) :
    order[q][j] \in submitted =>
      \A op \in Before(q, j) :
        IF op.type = "Wait" THEN signaled[op.f].max >= op.v ELSE op.id \in submitted

(* A fence signaled by a queue tells that the work submitted to the queue  *)
(* ahead of the signal has been executed, also when the signal takes the   *)
(* shortcut past the pipeline.                                             *)
SignalCoversWork ==
  \A q \in Queues : \A j \in 1 .. Len(order[q]) :
    (info[order[q][j]].type = "Signal" /\ order[q][j] \in executed) =>
      \A op \in Before(q, j) : op.type = "Execute" => op.id \in executed

(* A registered wait is never forgotten: while a wait blocks its queue and *)
(* nobody drains it, its callback is still registered or under way.        *)
WaitIsWatched ==
  \A q \in Queues :
    (mutex[q] = Nobody /\ pending[q] # <<>> /\ Head(pending[q]).type = "Wait") =>
      LET i == Head(pending[q]).id IN
      \/ i \in listening
      \/ \E t \in Threads : \E k \in 1 .. Len(stack[t]) :
           LET fr == stack[t][k] IN
           \/ fr.at = "run" /\ i \in fr.cbs
           \/ fr.at = "lock" /\ fr.cb = i

-----------------------------------------------------------------------------
(* The parts of the inductive invariant.                                   *)

Op == [id : Ids, type : {"Execute", "Signal", "Wait"}, q : Queues, f : Fences,
       v : Values \cup {0}, armed : BOOLEAN, wait_completed : BOOLEAN, serial : Nat]

Frame ==
  [at : {"lock"}, q : Queues, op : Op \cup {NoOp}, cb : 0 .. MaxOps]
    \cup [at : {"drain", "arm"}, q : Queues] \cup [at : {"commit"}, op : Op]
    \cup [at : {"post"}, f : Fences, v : Values \cup {0}] \cup [at : {"run"}, cbs : SUBSET Ids]
    \cup [at : {"throttle", "count", "retire"}]

TypeOK ==
  /\ calls \in 0 .. MaxOps /\ requested \in [Fences -> Values \cup {0}]
  /\ info \in [Ids -> Op \cup {NoOp}]
  /\ pending \in [Queues -> Seq(Op)] /\ mutex \in [Queues -> Threads \cup {Nobody}]
  /\ batches \in [Queues -> BOOLEAN] /\ has_waited \in [Queues -> BOOLEAN]
  /\ event \in [Fences -> Values \cup {0}] /\ manual \in [Fences -> BOOLEAN]
  /\ completed \in [Fences -> Values \cup {0}] /\ callbacks \in [Fences -> SUBSET Ids]
  /\ fired \subseteq Ids /\ listening \subseteq Ids /\ notified \subseteq listening
  /\ stack \in [Threads -> Seq(Frame)] /\ recording \subseteq Threads
  /\ flight \in Seq(Op) /\ gpu_done \in 0 .. Len(flight) /\ ongoing \in Int
  /\ allocator \in [last : Nat, completed : Nat, pending : Nat]
  /\ order \in [Queues -> Seq(Ids)] /\ submitted \subseteq Ids /\ executed \subseteq Ids
  /\ signaled \in [Fences -> [last : Values \cup {0}, max : Values \cup {0}]]

Busy(t, what, q) == At(t, what) /\ stack[t][1].q = q
Enqueuing(t) == At(t, "lock") /\ stack[t][1].cb = 0
Resuming(t, i) == At(t, "lock") /\ stack[t][1].cb = i /\ i # 0

(* Calls inside which others run are callbacks, drains and the retirement  *)
(* of a chunk; who drains a queue holds its mutex_, once.                  *)
StacksOK ==
  /\ \A t \in Threads : \A k \in DOMAIN stack[t] :
       /\ k > 1 => stack[t][k].at \in {"run", "drain", "retire"}
       /\ stack[t][k].at \in {"drain", "arm"} => mutex[stack[t][k].q] = t
       /\ stack[t][k].at = "retire" => t = Finish /\ k = Len(stack[t]) /\ gpu_done > 0
  /\ \A t \in Threads : \A k, l \in DOMAIN stack[t] :
       (/\ stack[t][k].at \in {"drain", "arm"} /\ stack[t][l].at \in {"drain", "arm"}
        /\ stack[t][k].q = stack[t][l].q) => k = l
  /\ \A t \in recording : At(t, "commit")
  /\ \A t \in Threads : At(t, "commit") => recording = {t}
  /\ \A i \in listening : stack[i] = <<>>

(* op is what the application asked for under its id.                      *)
IsOp(op) ==
  LET o == info[op.id] IN
  op.type = o.type /\ op.q = o.q /\ op.f = o.f /\ op.v = o.v /\ op.id = o.id

(* How many operations of q have left pending_operations_.                 *)
Popped(q) == Len(order[q]) - Len(pending[q])

Reached(f, v) == signaled[f].max >= v

(* The pending operations of a queue are the last of its order; the others *)
(* were handed over, or are waits for values that were reached.            *)
PendingOK(q) ==
  /\ Len(pending[q]) <= Len(order[q])
  /\ \A k \in DOMAIN pending[q] :
       /\ pending[q][k].id = order[q][Popped(q) + k] /\ IsOp(pending[q][k])
       /\ pending[q][k].id \notin submitted
       /\ pending[q][k].wait_completed => Reached(pending[q][k].f, pending[q][k].v)
       /\ pending[q][k].armed => k = 1 /\ pending[q][k].type = "Wait"
  /\ \A j \in 1 .. Popped(q) :
       LET o == info[order[q][j]] IN
       IF o.type = "Wait" THEN Reached(o.f, o.v) ELSE order[q][j] \in submitted

(* Every operation is in the order of one queue, once, or on its way.      *)
OrdersOK ==
  /\ \A i \in Ids : i > calls => info[i] = NoOp
  /\ \A q \in Queues : \A j \in DOMAIN order[q] :
       /\ order[q][j] <= calls
       /\ info[order[q][j]] \in Op /\ info[order[q][j]].q = q
       /\ info[order[q][j]].id = order[q][j]
  /\ \A q, r \in Queues : \A j \in DOMAIN order[q], k \in DOMAIN order[r] :
       order[q][j] = order[r][k] => q = r /\ j = k
  /\ \A t \in Threads : Enqueuing(t) =>
       LET op == stack[t][1].op IN
       /\ op \in Op /\ op.id <= calls /\ IsOp(op) /\ op.q = stack[t][1].q
       /\ ~op.armed /\ ~op.wait_completed /\ op.id \notin submitted
       /\ \A q \in Queues : \A j \in DOMAIN order[q] : order[q][j] # op.id
       /\ \A u \in Threads : Enqueuing(u) /\ stack[u][1].op.id = op.id => u = t
  /\ \A i \in submitted : i <= calls

(* Whatever tells that a fence has reached a value tells the truth: the    *)
(* fence itself, the Win32 event of a listener, a signal under way, a      *)
(* callback that runs, a chunk that was executed.                          *)
WaitReached(i) == info[i].type = "Wait" /\ Reached(info[i].f, info[i].v)
FenceValues ==
  /\ \A f \in Fences : Reached(f, event[f]) /\ Reached(f, completed[f])
  /\ \A f \in Fences : \A i \in callbacks[f] : info[i].type = "Wait" /\ info[i].f = f
  /\ \A i \in listening : info[i].type = "Wait"
  /\ \A i \in notified : WaitReached(i)
FrameTrue(fr) ==
  /\ fr.at = "post" => Reached(fr.f, fr.v)
  /\ fr.at = "lock" /\ fr.cb # 0 => WaitReached(fr.cb) /\ fr.q = info[fr.cb].q
  /\ fr.at = "run" => \A i \in fr.cbs : WaitReached(i)
FrameValues == \A t \in Threads : \A k \in DOMAIN stack[t] : FrameTrue(stack[t][k])
FlightValues ==
  \A k \in 1 .. gpu_done : flight[k].type = "Signal" => Reached(flight[k].f, flight[k].v)

(* The chunks carry what was submitted, the work of a queue before the     *)
(* signals that follow it.                                                 *)
Work(q, j) == {order[q][i] : i \in {n \in 1 .. j - 1 : info[order[q][n]].type = "Execute"}}
FlightOK ==
  /\ executed \subseteq submitted
  /\ \A k \in DOMAIN flight :
       /\ flight[k].id \in submitted /\ IsOp(flight[k])
       /\ k <= gpu_done => flight[k].id \in executed
  /\ \A t \in Threads : At(t, "commit") => stack[t][1].op.id \in submitted /\ IsOp(stack[t][1].op)
  /\ \A i \in submitted \ executed :
       \/ \E k \in DOMAIN flight : k > gpu_done /\ flight[k].id = i
       \/ \E t \in Threads : At(t, "commit") /\ stack[t][1].op.id = i
  /\ \A q \in Queues : \A j \in DOMAIN order[q] :
       /\ order[q][j] \in submitted /\ info[order[q][j]].type = "Execute" => batches[q]
       /\ \A k \in DOMAIN flight : flight[k].id = order[q][j] =>
            Work(q, j) \subseteq executed \cup {flight[m].id : m \in 1 .. k - 1}

(* A wait is watched: until its callback runs, a listener or somebody who  *)
(* runs callbacks has it; then somebody is about to lock the queue for it. *)
InRun(i) ==
  \E t \in Threads : \E k \in DOMAIN stack[t] : stack[t][k].at = "run" /\ i \in stack[t][k].cbs
Watched(i) ==
  IF i \in fired THEN \E t \in Threads : Resuming(t, i) ELSE i \in listening \/ InRun(i)

Arming(q) == \E t \in Threads : Busy(t, "arm", q)
FrontOK(q) ==
  pending[q] # <<>> =>
    LET op == pending[q][1] IN
    /\ mutex[q] = Nobody => op.armed /\ ~op.wait_completed
    /\ Arming(q) => op.armed /\ ~op.wait_completed
    /\ op.armed /\ ~op.wait_completed /\ ~Arming(q) => Watched(op.id)

(* Only a wait that was armed, and once, has a callback or a listener.     *)
Seen(i) ==
  \/ i \in listening \/ i \in fired \/ stack[i] # <<>> \/ InRun(i)
  \/ \E f \in Fences : i \in callbacks[f]
  \/ \E t \in Threads : Resuming(t, i)
Armed(i) ==
  \E q \in Queues : \E j \in DOMAIN order[q] :
    /\ order[q][j] = i
    /\ \/ j <= Popped(q)
       \/ j = Popped(q) + 1 /\ pending[q][1].armed /\ ~Arming(q)
WatchOK ==
  /\ \A q \in Queues : FrontOK(q)
  /\ \A q \in Queues : Arming(q) => pending[q] # <<>>
  /\ \A i \in Ids : Seen(i) => Armed(i)

(* What always holds of the queues, strong enough to be inductive.         *)
SubmissionInv ==
  /\ TypeOK /\ StacksOK
  /\ \A q \in Queues : PendingOK(q)
  /\ OrdersOK /\ FenceValues /\ FrameValues /\ FlightValues
  /\ FlightOK /\ SignalCoversWork /\ WatchOK

-----------------------------------------------------------------------------
(* dxmt_command_queue.hpp: "CurrentChunk & CommitCurrentChunk should be    *)
(* called on the same thread".  What the rule protects: the chunk being    *)
(* filled has a slot of the ring to itself.  One thread is held back by    *)
(* the throttle after each commit; several are held back one by one.       *)
RingNotOverrun == Len(flight) + Cardinality(recording) <= kCommandChunkCount

(* test_queue_wait: a queue whose wait is satisfied goes on.  No thread    *)
(* waits for a mutex_ that it holds, nor the finish thread for the room in *)
(* the ring that it alone can make.                                        *)
NoSelfWait ==
  /\ \A t \in Threads : At(t, "lock") => mutex[Head(stack[t]).q] # t
  /\ ~(At(Finish, "throttle") /\ ongoing = kCommandChunkCount - 1)

(* Nothing is under way.                                                   *)
Idle ==
  /\ flight = <<>>
  /\ \A q \in Queues : pending[q] = <<>>
  /\ \A t \in Threads : stack[t] = <<>>

-----------------------------------------------------------------------------
(* Known limits.  The code does not keep the three statements below; TLC   *)
(* violates each within a few hundred states at the instance of the other  *)
(* violations.  No run checks them.                                        *)

(* dx12_smoke.cpp: after a signal of the application, GetCompletedValue    *)
(* returns the value signaled.  When every readback has run as well, it    *)
(* returns the value of the signal that took effect last.                  *)
FenceSettles == Idle => \A f \in Fences : CompletedValue(f) = signaled[f].last

(* A later signal of the same queue has happened and shows in its fence.   *)
Known(i) ==
  \E q \in Queues : \E j \in 1 .. Len(order[q]) : \E k \in 1 .. j - 1 :
    LET s == info[order[q][j]] IN
    /\ order[q][k] = i
    /\ s.type = "Signal" /\ s.id \in executed /\ CompletedValue(s.f) >= s.v

Lists == {i \in Ids : info[i].type = "Execute"}

(* d3d12_device.c: "wait_queue_idle" and then ID3D12CommandAllocator_Reset *)
(* succeeds: an allocator can be reset once a fence shows that its lists   *)
(* have been executed.                                                     *)
ResetAfterFence == (\A i \in Lists : Known(i)) => allocator.pending = 0

(* The same when nothing at all is under way any more: every submission    *)
(* that was counted has been uncounted, in whatever order they completed.  *)
AllocatorDrains == Idle => allocator.pending = 0

=============================================================================
