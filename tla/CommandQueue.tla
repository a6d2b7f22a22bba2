---------------------------- MODULE CommandQueue ----------------------------
(***************************************************************************)
(* The submission pipeline of dxmt::CommandQueue: a ring of                *)
(* kCommandChunkCount command chunks, filled by the application thread,    *)
(* encoded by dxmt-encode-thread, executed by the GPU and retired by       *)
(* dxmt-finish-thread.                                                     *)
(*                                                                         *)
(* A thread step ends at each access to state that another thread shares;  *)
(* `app', `enc' and `fin' are the program counters of the three threads.   *)
(* std::atomic::wait(v) is the guard "the value differs from v": each      *)
(* counter that is waited on moves away from v and back to it only through *)
(* the waiter itself, so a notified waiter cannot miss the change.         *)
(*                                                                         *)
(* A command is abstracted to the sequence number under which it was       *)
(* recorded: the command list of a chunk is the set of these numbers.  The *)
(* chunk's event id and resource_initializer_event_id are data that no     *)
(* step of this module reads; other modules follow them.                   *)
(***************************************************************************)
EXTENDS Integers

CONSTANTS
  kCommandChunkCount,  \* slots of the ring (32 in the source)
  Uint64,              \* how many values a uint64_t has (2^64 in the source)
  Latencies,           \* the values SetMaxLatency is called with
  DefaultLatency,      \* the initial value of max_latency_ (3 in the source)
  LatencyRace,         \* may SetMaxLatency run while the application presents?
  MaxSeq,              \* bound: chunks the application commits
  MaxFrame             \* bound: frames the application presents

ASSUME QueueAssumption ==
  /\ kCommandChunkCount \in Nat /\ kCommandChunkCount > 1
  /\ Uint64 \in Nat /\ Uint64 > kCommandChunkCount
  /\ Latencies \subseteq Nat
  /\ DefaultLatency \in Nat
  /\ LatencyRace \in BOOLEAN
  /\ MaxSeq \in Nat
  /\ MaxFrame \in Nat /\ MaxFrame < Uint64

VARIABLES
  ready_for_encode,    \* sequence number of the chunk being recorded
  ready_for_commit,    \* sequence number of the next buffer to be committed
  chunk_ongoing,       \* uint64_t: chunks handed over and not yet retired
  cpu_coherent,        \* CpuFence: every chunk up to it is retired
  frame_latency_fence, \* CpuFence: the newest frame known to be rendered
  stopped,             \* set once, by the destructor
  chunks,              \* the ring
  frame_count,         \* frames presented
  max_latency,
  app,                 \* program counter of the application thread
  app_then,            \* where it goes on after CommitCurrentChunk
  app_wait,            \* the fence value it waits for
  enc, enc_seq,        \* encode thread: program counter, internal_seq
  fin, fin_seq,        \* finish thread: program counter, internal_seq
  gpu_committed,       \* command buffers committed to the Metal queue
  gpu_done,            \* command buffers the GPU has completed, in order
  presented            \* history: the chunk that presents each frame

ring   == <<ready_for_encode, ready_for_commit, chunk_ongoing, stopped, chunks>>
fences == <<cpu_coherent, frame_latency_fence>>
frames == <<frame_count, max_latency, presented>>
appPc  == <<app, app_then, app_wait>>
encPc  == <<enc, enc_seq>>
finPc  == <<fin, fin_seq>>
gpu    == <<gpu_committed, gpu_done>>
vars   == <<ring, fences, frames, appPc, encPc, finPc, gpu>>

Slots == 0 .. (kCommandChunkCount - 1)
SlotOf(seq) == seq % kCommandChunkCount

(* ~0ull, which a chunk that presents nothing keeps in                     *)
(* signal_frame_latency_fence_ (frames are numbered from 1), and nullptr.  *)
NoSignal == 0
NoBuffer == 0

Chunk == [id : Nat, cmds : SUBSET Nat, signal : Nat, cmdbuf : Nat]

(* CommandChunk::reset(); chunk_id keeps its old value.                    *)
Reset(c) == [c EXCEPT !.cmds = {}, !.signal = NoSignal, !.cmdbuf = NoBuffer]

(* CurrentChunk()                                                          *)
CurrentSlot == SlotOf(ready_for_encode)

Init ==
  /\ ready_for_encode = 1
  /\ ready_for_commit = 1
  /\ chunk_ongoing = 0
  /\ stopped = FALSE
  /\ chunks = [s \in Slots |->
                 [id |-> 0, cmds |-> {}, signal |-> NoSignal, cmdbuf |-> NoBuffer]]
  /\ cpu_coherent = 0 /\ frame_latency_fence = 0
  /\ frame_count = 0 /\ max_latency = DefaultLatency
  /\ presented = [f \in 1 .. MaxFrame |-> 0]
  /\ app = "record" /\ app_then = "record" /\ app_wait = 0
  /\ enc = "loop" /\ enc_seq = 1
  /\ fin = "loop" /\ fin_seq = 1
  /\ gpu_committed = 0 /\ gpu_done = 0

-----------------------------------------------------------------------------
(* The application thread.                                                 *)

(* emitcc on CurrentChunk(): a command joins the list of the chunk.        *)
Emit ==
  /\ app = "record"
  /\ chunks' = [chunks EXCEPT ![CurrentSlot].cmds = @ \cup {ready_for_encode}]
  /\ UNCHANGED <<ready_for_encode, ready_for_commit, chunk_ongoing, stopped,
                 fences, frames, appPc, encPc, finPc, gpu>>

Sealed(chunk) == [chunk EXCEPT !.id = ready_for_encode]

(* CommitCurrentChunk, up to the release of the chunk to the encode thread.*)
Publish(chunk, then) ==
  /\ app = "record"
  /\ ready_for_encode <= MaxSeq
  /\ chunks' = [chunks EXCEPT ![CurrentSlot] = Sealed(chunk)]
  /\ ready_for_encode' = ready_for_encode + 1
  /\ app' = "throttle" /\ app_then' = then
  /\ UNCHANGED <<ready_for_commit, chunk_ongoing, stopped, fences, encPc,
                 finPc, gpu>>

Flush ==
  /\ Publish(chunks[CurrentSlot], "record")
  /\ UNCHANGED <<app_wait, frames>>

(* Fault: the sequence number is taken from the last committed chunk.      *)
FlushAndWaitStale ==
  /\ Publish(chunks[CurrentSlot], "cpu_fence")
  /\ app_wait' = ready_for_encode - 1
  /\ UNCHANGED frames

(* WaitUntilGPUIdle: the sequence number is read before the commit.        *)
FlushAndWait ==
  /\ Publish(chunks[CurrentSlot], "cpu_fence")
  /\ app_wait' = ready_for_encode
  /\ UNCHANGED frames

Presenting(chunk) ==
  [chunk EXCEPT !.signal = frame_count + 1, !.cmds = @ \cup {ready_for_encode}]

(* Present1: the chunk records the present command and announces the frame.*)
Present ==
  /\ frame_count < MaxFrame
  /\ Publish(Presenting(chunks[CurrentSlot]), "boundary")
  /\ presented' = [presented EXCEPT ![frame_count + 1] = ready_for_encode]
  /\ UNCHANGED <<app_wait, frame_count, max_latency>>

(* Fault: chunk_ongoing.wait(N), one chunk too many in the ring.           *)
ThrottleOffByOne ==
  /\ app = "throttle"
  /\ chunk_ongoing # kCommandChunkCount
  /\ app' = "count"
  /\ UNCHANGED <<ring, fences, frames, app_then, app_wait, encPc, finPc, gpu>>

(* The rest of CommitCurrentChunk: chunk_ongoing.wait(N - 1), and then the *)
(* increment, two accesses between which the finish thread may decrement.  *)
Throttle ==
  /\ app = "throttle"
  /\ chunk_ongoing # kCommandChunkCount - 1
  /\ app' = "count"
  /\ UNCHANGED <<ring, fences, frames, app_then, app_wait, encPc, finPc, gpu>>

CountOngoing ==
  /\ app = "count"
  /\ chunk_ongoing' = (chunk_ongoing + 1) % Uint64
  /\ app' = app_then
  /\ UNCHANGED <<ready_for_encode, ready_for_commit, stopped, chunks, fences,
                 frames, app_then, app_wait, encPc, finPc, gpu>>

(* PresentBoundary: count the frame; when there are more frames than       *)
(* max_latency_, read max_latency_ once more for the frame to wait for.    *)
CountFrame ==
  /\ app = "boundary"
  /\ frame_count' = frame_count + 1
  /\ app' = IF frame_count' > max_latency THEN "target" ELSE "record"
  /\ UNCHANGED <<ring, fences, max_latency, presented, app_then, app_wait,
                 encPc, finPc, gpu>>

(* Fault: the wait is for one frame too early.                             *)
LatencyTargetEarly ==
  /\ app = "target"
  /\ app_wait' = (frame_count - max_latency - 1) % Uint64
  /\ app' = "latency"
  /\ UNCHANGED <<ring, fences, frames, app_then, encPc, finPc, gpu>>

LatencyTarget ==
  /\ app = "target"
  /\ app_wait' = (frame_count - max_latency) % Uint64
  /\ app' = "latency"
  /\ UNCHANGED <<ring, fences, frames, app_then, encPc, finPc, gpu>>

WaitLatency ==
  /\ app = "latency"
  /\ frame_latency_fence >= app_wait
  /\ app' = "record"
  /\ UNCHANGED <<ring, fences, frames, app_then, app_wait, encPc, finPc, gpu>>

WaitCPUFence ==
  /\ app = "cpu_fence"
  /\ cpu_coherent >= app_wait
  /\ app' = "record"
  /\ UNCHANGED <<ring, fences, frames, app_then, app_wait, encPc, finPc, gpu>>

(* SetMaxLatency takes no lock: any thread may call it at any time.        *)
SetMaxLatency(value) ==
  /\ app = "record" \/ (LatencyRace /\ ~stopped)
  /\ max_latency' = value
  /\ UNCHANGED <<ring, fences, frame_count, presented, appPc, encPc, finPc, gpu>>

(* ~CommandQueue: stop, wake the encode thread, wake the finish thread,    *)
(* join both, reset every chunk.                                           *)
Stop ==
  /\ app = "record"
  /\ stopped' = TRUE
  /\ app' = "wake_encode"
  /\ UNCHANGED <<ready_for_encode, ready_for_commit, chunk_ongoing, chunks,
                 fences, frames, app_then, app_wait, encPc, finPc, gpu>>

WakeEncode ==
  /\ app = "wake_encode"
  /\ ready_for_encode' = ready_for_encode + 1
  /\ app' = "wake_finish"
  /\ UNCHANGED <<ready_for_commit, chunk_ongoing, stopped, chunks, fences,
                 frames, app_then, app_wait, encPc, finPc, gpu>>

(* Fault: the finish thread is notified but its counter is not moved.      *)
WakeFinishUncounted ==
  /\ app = "wake_finish"
  /\ app' = "join"
  /\ UNCHANGED <<ring, fences, frames, app_then, app_wait, encPc, finPc, gpu>>

WakeFinish ==
  /\ app = "wake_finish"
  /\ ready_for_commit' = ready_for_commit + 1
  /\ app' = "join"
  /\ UNCHANGED <<ready_for_encode, chunk_ongoing, stopped, chunks, fences,
                 frames, app_then, app_wait, encPc, finPc, gpu>>

Join ==
  /\ app = "join"
  /\ enc = "exited" /\ fin = "exited"
  /\ chunks' = [s \in Slots |-> Reset(chunks[s])]
  /\ app' = "destroyed"
  /\ UNCHANGED <<ready_for_encode, ready_for_commit, chunk_ongoing, stopped,
                 fences, frames, app_then, app_wait, encPc, finPc, gpu>>

-----------------------------------------------------------------------------
(* EncodingThread.                                                         *)

encStep == UNCHANGED <<fences, frames, appPc, finPc>>

(* Fault: `stopped' is not tested again after the wait.                    *)
EncodeLoopOneTest ==
  /\ enc \in {"loop", "woken"}
  /\ enc' = CASE enc = "woken" -> "encode"
              [] stopped       -> "exited"
              [] OTHER         -> "wait"
  /\ encStep /\ UNCHANGED <<ring, enc_seq, gpu>>

(* The loop condition and, after the wait, the second test of `stopped'.   *)
EncodeLoop ==
  /\ enc \in {"loop", "woken"}
  /\ enc' = CASE stopped      -> "exited"
              [] enc = "loop" -> "wait"
              [] OTHER        -> "encode"
  /\ encStep /\ UNCHANGED <<ring, enc_seq, gpu>>

EncodeWait ==
  /\ enc = "wait"
  /\ ready_for_encode # enc_seq
  /\ enc' = "woken"
  /\ encStep /\ UNCHANGED <<ring, enc_seq, gpu>>

(* CommitChunkInternal: a command buffer is attached, the commands of the  *)
(* chunk run and are flushed into it ...                                   *)
Encode ==
  /\ enc = "encode"
  /\ chunks' = [chunks EXCEPT ![SlotOf(enc_seq)].cmdbuf = enc_seq]
  /\ enc' = "commit"
  /\ encStep
  /\ UNCHANGED <<ready_for_encode, ready_for_commit, chunk_ongoing, stopped,
                 enc_seq, gpu>>

(* Fault: the buffer is never handed to the GPU.                           *)
CommitBufferDropped ==
  /\ enc = "commit"
  /\ enc' = "release"
  /\ encStep /\ UNCHANGED <<ring, enc_seq, gpu>>

(* ... the buffer is committed to the Metal queue ...                      *)
CommitBuffer ==
  /\ enc = "commit"
  /\ gpu_committed' = chunks[SlotOf(enc_seq)].cmdbuf
  /\ enc' = "release"
  /\ encStep /\ UNCHANGED <<ring, enc_seq, gpu_done>>

(* ... and the chunk is released to the finish thread.                     *)
ReleaseToFinish ==
  /\ enc = "release"
  /\ ready_for_commit' = ready_for_commit + 1
  /\ enc_seq' = enc_seq + 1
  /\ enc' = "loop"
  /\ encStep
  /\ UNCHANGED <<ready_for_encode, chunk_ongoing, stopped, chunks, gpu>>

(* External: the GPU completes the buffers of one Metal command queue in   *)
(* the order of their commits.                                             *)
GpuComplete ==
  /\ gpu_done < gpu_committed
  /\ gpu_done' = gpu_done + 1
  /\ UNCHANGED <<ring, fences, frames, appPc, encPc, finPc, gpu_committed>>

-----------------------------------------------------------------------------
(* WaitForFinishThread.                                                    *)

finStep == UNCHANGED <<frames, appPc, encPc, gpu>>

(* The chunk whose retirement is the finish thread's next step.            *)
Retiring == chunks[SlotOf(fin_seq)]

FinishLoop ==
  /\ fin \in {"loop", "woken"}
  /\ fin' = CASE stopped      -> "exited"
              [] fin = "loop" -> "wait"
              [] OTHER        -> "gpu"
  /\ finStep /\ UNCHANGED <<ring, fences, fin_seq>>

FinishWait ==
  /\ fin = "wait"
  /\ ready_for_commit # fin_seq
  /\ fin' = "woken"
  /\ finStep /\ UNCHANGED <<ring, fences, fin_seq>>

(* Fault: the command buffer's status is not waited for.                   *)
FinishWithoutWait ==
  /\ fin = "gpu"
  /\ frame_latency_fence' = IF Retiring.signal > frame_latency_fence
                            THEN Retiring.signal ELSE frame_latency_fence
  /\ fin' = "reset"
  /\ finStep /\ UNCHANGED <<ring, cpu_coherent, fin_seq>>

(* waitUntilCompleted, with an error or without; then the frame's fence.   *)
FinishCompleted ==
  /\ fin = "gpu"
  /\ Retiring.cmdbuf <= gpu_done
  /\ frame_latency_fence' = IF Retiring.signal > frame_latency_fence
                            THEN Retiring.signal ELSE frame_latency_fence
  /\ fin' = "reset"
  /\ finStep /\ UNCHANGED <<ring, cpu_coherent, fin_seq>>

(* Fault: the fence is signaled before the chunk is reset.                 *)
FinishSignalsFirst ==
  /\ fin = "reset"
  /\ cpu_coherent' = fin_seq
  /\ fin' = "coherent"
  /\ finStep /\ UNCHANGED <<ring, frame_latency_fence, fin_seq>>

FinishReset ==
  /\ fin = "reset"
  /\ chunks' = [chunks EXCEPT ![SlotOf(fin_seq)] = Reset(@)]
  /\ fin' = "coherent"
  /\ finStep
  /\ UNCHANGED <<ready_for_encode, ready_for_commit, chunk_ongoing, stopped,
                 fences, fin_seq>>

FinishCoherent ==
  /\ fin = "coherent"
  /\ cpu_coherent' = IF fin_seq > cpu_coherent THEN fin_seq ELSE cpu_coherent
  /\ fin' = "release"
  /\ finStep /\ UNCHANGED <<ring, frame_latency_fence, fin_seq>>

FinishRelease ==
  /\ fin = "release"
  /\ chunk_ongoing' = (chunk_ongoing - 1) % Uint64
  /\ fin_seq' = fin_seq + 1
  /\ fin' = "loop"
  /\ finStep
  /\ UNCHANGED <<ready_for_encode, ready_for_commit, stopped, chunks, fences>>

-----------------------------------------------------------------------------
Destructor == Stop \/ WakeEncode \/ WakeFinish \/ Join
AppWaits == Throttle \/ CountOngoing \/ CountFrame \/ LatencyTarget
              \/ WaitLatency \/ WaitCPUFence
AppNext ==
  \/ Emit \/ Flush \/ FlushAndWait \/ Present
  \/ AppWaits
  \/ \E value \in Latencies : SetMaxLatency(value)
  \/ Destructor
EncodingThread ==
  EncodeLoop \/ EncodeWait \/ Encode \/ CommitBuffer \/ ReleaseToFinish
WaitForFinishThread ==
  \/ FinishLoop \/ FinishWait \/ FinishCompleted \/ FinishReset
  \/ FinishCoherent \/ FinishRelease

(* After the destructor nothing happens.                                   *)
Destroyed == app = "destroyed" /\ UNCHANGED vars

Next == AppNext \/ EncodingThread \/ GpuComplete \/ WaitForFinishThread \/ Destroyed

(* The worker threads run at time-critical priority and the GPU completes  *)
(* what it is given; the application finishes every call it has begun, but *)
(* owes no further call.                                                   *)
Fairness ==
  /\ WF_vars(EncodingThread)
  /\ WF_vars(WaitForFinishThread)
  /\ WF_vars(GpuComplete)
  /\ WF_vars(AppWaits)
  /\ WF_vars(WakeEncode \/ WakeFinish \/ Join)

Spec == Init /\ [][Next]_vars /\ Fairness
-----------------------------------------------------------------------------
(* Properties.                                                             *)

(* The chunks handed to the encode thread: ready_for_encode counts them,   *)
(* until the destructor increments it once more to wake that thread.       *)
Published ==
  ready_for_encode - IF app \in {"wake_finish", "join", "destroyed"} THEN 2 ELSE 1

(* The oldest chunk whose slot is still in use.                            *)
Oldest == fin_seq + IF fin \in {"coherent", "release"} THEN 1 ELSE 0

(* The chunks that have a command buffer.                                  *)
Encoded == enc_seq - IF enc \in {"commit", "release"} THEN 0 ELSE 1

(* The increments of chunk_ongoing so far.                                 *)
Counted == Published - IF app \in {"throttle", "count"} THEN 1 ELSE 0

(* Type invariant: the values the members of CommandQueue may hold.        *)
TypeOK ==
  /\ ready_for_encode \in Nat /\ ready_for_commit \in Nat
  /\ chunk_ongoing \in 0 .. (Uint64 - 1)
  /\ stopped \in BOOLEAN
  /\ chunks \in [Slots -> Chunk]
  /\ cpu_coherent \in Nat /\ frame_latency_fence \in Nat
  /\ frame_count \in Nat /\ max_latency \in Nat
  /\ presented \in [1 .. MaxFrame -> Nat]
  /\ app \in {"record", "throttle", "count", "boundary", "target", "latency",
              "cpu_fence", "wake_encode", "wake_finish", "join", "destroyed"}
  /\ app_then \in {"record", "boundary", "cpu_fence"}
  /\ app_wait \in Nat
  /\ enc \in {"loop", "wait", "woken", "encode", "commit", "release", "exited"}
  /\ enc_seq \in Nat
  /\ fin \in {"loop", "wait", "woken", "gpu", "reset", "coherent", "release",
              "exited"}
  /\ fin_seq \in Nat
  /\ gpu_committed \in Nat /\ gpu_done \in Nat

(* A chunk is reused only when every thread has left it: what the encode   *)
(* thread executes is exactly the chunk with its own internal_seq and      *)
(* holds no command recorded for another one, and what the finish thread   *)
(* waits for and resets is the chunk and the command buffer of its own     *)
(* internal_seq.  The ring of CommitCurrentChunk, EncodingThread and       *)
(* WaitForFinishThread never wraps onto itself, the destructor's spurious  *)
(* increments of both counters included.                                   *)
NoChunkAliasing ==
  /\ enc \in {"encode", "commit", "release"} =>
       /\ chunks[SlotOf(enc_seq)].id = enc_seq
       /\ chunks[SlotOf(enc_seq)].cmds \subseteq {enc_seq}
  /\ fin \in {"gpu", "reset"} =>
       /\ Retiring.id = fin_seq /\ Retiring.cmdbuf = fin_seq
       /\ Retiring.cmds \subseteq {fin_seq}

(* CoherentSeqId() is safe to reclaim against: the GPU has completed every *)
(* chunk up to cpu_coherent, and the ring holds none of their commands any *)
(* more (their destructors have run before the fence was signaled).        *)
CoherentIsComplete ==
  /\ cpu_coherent <= gpu_done
  /\ \A s \in Slots : \A k \in chunks[s].cmds : k > cpu_coherent

(* The throttle of CommitCurrentChunk works although chunk_ongoing is      *)
(* tested before it is incremented: at most kCommandChunkCount chunks are  *)
(* published and not retired, and the counter leaves 0 .. N - 1 only for   *)
(* 2^64 - 1, while the increment it is missing is still to come.           *)
InFlightBound ==
  /\ Published - cpu_coherent <= kCommandChunkCount
  /\ \/ chunk_ongoing <= kCommandChunkCount - 1
     \/ chunk_ongoing = Uint64 - 1 /\ app \in {"throttle", "count"}

(* frame_latency_fence_ tells the truth: the chunk that presents a frame   *)
(* at or below the fence has been completed by the GPU.                    *)
FrameFenceIsRendered ==
  \A f \in 1 .. MaxFrame :
    f <= frame_latency_fence => presented[f] \in 1 .. gpu_done

(* PresentBoundary returns only when the frames that are max_latency_ or   *)
(* more frames older than the one just presented are rendered.             *)
LatencyBound ==
  [][app = "latency" /\ app' = "record" =>
       \A f \in 1 .. frame_count :
         f + max_latency <= frame_count => presented[f] <= gpu_done]_vars

(* WaitUntilGPUIdle returns only when the GPU has completed everything the *)
(* application had committed.                                              *)
IdleMeansDone ==
  [][app = "cpu_fence" /\ app' = "record" => gpu_done >= Published]_vars

(* Known limit: PresentBoundary waits for a frame that has been presented, *)
(* "After present N-th frame (N starts from 1), wait for (N - max_latency) *)
(* -th frame to finish rendering".  With LatencyRace and a latency above   *)
(* the frame count TLC violates it; no run checks it.                      *)
LatencyTargetIsAFrame == app = "latency" => app_wait \in 1 .. frame_count

(* Every chunk that is committed is retired, unless the queue is destroyed *)
(* first: the encode, GPU and finish stages cannot starve one another.     *)
EveryChunkRetires ==
  \A k \in 1 .. MaxSeq : (Published >= k) ~> (cpu_coherent >= k \/ stopped)

(* No call blocks for ever: CommitCurrentChunk's throttle, PresentBoundary,*)
(* WaitUntilGPUIdle and the destructor's joins all return.                 *)
CallsReturn == (app # "record") ~> (app \in {"record", "destroyed"})
-----------------------------------------------------------------------------
(* The inductive invariant behind NoChunkAliasing, CoherentIsComplete and  *)
(* InFlightBound.                                                          *)

Stopping == {"wake_encode", "wake_finish", "join", "destroyed"}

(* How far each stage is: finish behind GPU behind encoder behind          *)
(* application.  A worker that was woken may be one chunk too far, but     *)
(* then `stopped' is set and it leaves.                                    *)
StageOrder ==
  /\ stopped <=> app \in Stopping
  /\ 1 <= fin_seq /\ fin_seq <= enc_seq /\ enc_seq <= Published + 1
  /\ enc \in {"encode", "commit", "release"} => enc_seq <= Published
  /\ enc = "woken" /\ ~stopped => enc_seq <= Published
  /\ gpu_committed = enc_seq - IF enc = "release" THEN 0 ELSE 1
  /\ ready_for_commit = enc_seq + IF app \in {"join", "destroyed"} THEN 1 ELSE 0
  /\ fin \in {"gpu", "reset", "coherent", "release"} => fin_seq < enc_seq
  /\ fin = "woken" /\ ~stopped => fin_seq < enc_seq
  /\ gpu_done <= gpu_committed /\ fin_seq - 1 <= gpu_done
  /\ fin \in {"reset", "coherent", "release"} => fin_seq <= gpu_done
  /\ cpu_coherent = fin_seq - IF fin = "release" THEN 0 ELSE 1
  /\ app = "destroyed" => enc = "exited" /\ fin = "exited"

(* chunk_ongoing is Counted - (fin_seq - 1) in 64-bit arithmetic.          *)
ThrottleOK ==
  /\ chunk_ongoing = (Counted - (fin_seq - 1)) % Uint64
  /\ Counted - (fin_seq - 1) <= kCommandChunkCount - 1
  /\ app = "count" => Counted - (fin_seq - 1) < kCommandChunkCount - 1

(* The sequence numbers whose slots are in use: from the oldest chunk that *)
(* is not reset to the one that the application may be recording.          *)
Live(k) ==
  /\ k \in Nat /\ Oldest <= k /\ k <= Published + 1
  /\ app \in {"throttle", "count"} => k <= Published

(* What the slots hold: commands of live chunks in their own slots, the    *)
(* ids of the published chunks and the buffers of the encoded ones.        *)
CmdsOK ==
  \A s \in Slots : \A k \in chunks[s].cmds : SlotOf(k) = s /\ Live(k)
IdsOK == \A k \in Oldest .. Published : chunks[SlotOf(k)].id = k
BuffersOK ==
  app # "destroyed" => \A k \in Oldest .. Encoded : chunks[SlotOf(k)].cmdbuf = k

IInv == TypeOK /\ StageOrder /\ ThrottleOK /\ CmdsOK /\ IdsOK /\ BuffersOK

(* The rest of the inductive invariant, behind FrameFenceIsRendered,       *)
(* LatencyBound and IdleMeansDone.                                         *)

(* A call that has published a chunk and will go on at `then'.             *)
Going(then) == app = then \/ (app \in {"throttle", "count"} /\ app_then = then)

(* The frames a chunk announces, counted by frame_count or about to be.    *)
Announced == frame_count + IF Going("boundary") THEN 1 ELSE 0

(* Frames are presented by published chunks, later frames by later chunks. *)
FramesOK ==
  /\ Announced <= MaxFrame
  /\ \A f \in 1 .. Announced : presented[f] \in 1 .. Published
  /\ \A f, g \in 1 .. Announced : f < g => presented[f] < presented[g]

(* A chunk that announces a frame is the one that presents it.             *)
SignalsOK ==
  \A s \in Slots : chunks[s].signal # NoSignal =>
    /\ chunks[s].signal \in 1 .. Announced
    /\ SlotOf(presented[chunks[s].signal]) = s
    /\ Oldest <= presented[chunks[s].signal]

(* The frames at or below the fence have been announced and rendered.      *)
FrameFenceOK ==
  /\ frame_latency_fence <= Announced
  /\ \A f \in 1 .. Announced : f <= frame_latency_fence => presented[f] <= gpu_done

(* What the application waits for: the last chunk in WaitUntilGPUIdle and, *)
(* as long as nothing changes max_latency_ meanwhile, the frame that is    *)
(* max_latency_ frames old in PresentBoundary.                             *)
WaitsOK ==
  /\ Going("cpu_fence") => app_wait = Published
  /\ ~LatencyRace =>
       /\ app \in {"target", "latency"} => frame_count > max_latency
       /\ app = "latency" => app_wait = frame_count - max_latency

FInv == FramesOK /\ SignalsOK /\ FrameFenceOK /\ WaitsOK

QueueInv == IInv /\ FInv
=============================================================================
