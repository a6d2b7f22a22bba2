------------------------- MODULE D3D12Queue_proofs -------------------------
(***************************************************************************)
(* The queues of D3D12 keep their order, their signals cover their work    *)
(* and no wait is forgotten, for any number of queues, fences, threads and *)
(* calls.                                                                  *)
(***************************************************************************)
EXTENDS D3D12Queue, SequenceTheorems, TLAPS

-----------------------------------------------------------------------------
(* Frames and stacks.                                                      *)

(* Sequences that lose their front, as a queue that is drained, and that   *)
(* gain an element, as a queue to which an operation is added.             *)
LEMMA TailFacts ==
  ASSUME NEW S, NEW s \in Seq(S), s # <<>>, NEW u, u = Tail(s), NEW p, p = Len(s)
  PROVE  /\ u \in Seq(S) /\ Len(u) = p - 1 /\ DOMAIN u = 1 .. p - 1
         /\ \A k \in 1 .. p - 1 : u[k] = s[k + 1]
<1>1. u \in Seq(S) /\ Len(u) = p - 1 /\ \A k \in 1 .. p - 1 : u[k] = s[k + 1]
  BY HeadTailProperties
<1>2. DOMAIN u = 1 .. Len(u)
  BY <1>1
<1> QED BY <1>1, <1>2

LEMMA AppendFacts ==
  ASSUME NEW S, NEW s \in Seq(S), NEW x \in S, NEW u, u = Append(s, x), NEW n, n = Len(s)
  PROVE  /\ n \in Nat /\ DOMAIN s = 1 .. n
         /\ u \in Seq(S) /\ Len(u) = n + 1 /\ DOMAIN u = 1 .. n + 1
         /\ u[n + 1] = x /\ \A k \in 1 .. n : u[k] = s[k]
<1>1. n \in Nat /\ DOMAIN s = 1 .. n
  OBVIOUS
<1>2. u \in Seq(S) /\ Len(u) = n + 1
  BY <1>1
<1>3. DOMAIN u = 1 .. n + 1
  BY <1>1, <1>2
<1>4. u[n + 1] = x /\ \A k \in 1 .. n : u[k] = s[k]
  BY <1>1
<1> QED BY <1>1, <1>2, <1>3, <1>4

(* The parts of the invariants on orders and on flight, one at a time.     *)
LEMMA OrderPlaces ==
  ASSUME OrdersOK, NEW q \in Queues, NEW r \in Queues,
         NEW j \in DOMAIN order[q], NEW k \in DOMAIN order[r], order[q][j] = order[r][k]
  PROVE  q = r /\ j = k
BY DEF OrdersOK

LEMMA FlightEntry ==
  ASSUME FlightOK, NEW k \in DOMAIN flight
  PROVE  /\ flight[k].id \in submitted /\ IsOp(flight[k])
         /\ k <= gpu_done => flight[k].id \in executed
BY DEF FlightOK

LEMMA CommitEntry ==
  ASSUME FlightOK, NEW t \in Threads, At(t, "commit")
  PROVE  stack[t][1].op.id \in submitted /\ IsOp(stack[t][1].op)
BY DEF FlightOK

LEMMA OpFacts ==
  ASSUME NEW op \in Op
  PROVE  /\ op.id \in Ids /\ op.type \in {"Execute", "Signal", "Wait"}
         /\ op.q \in Queues /\ op.f \in Fences /\ op.v \in Values \cup {0}
         /\ op.armed \in BOOLEAN /\ op.wait_completed \in BOOLEAN /\ op.serial \in Nat
         /\ op # NoOp
<1>1. NoOp.type = "None"
  BY DEF NoOp
<1> QED BY <1>1 DEF Op

LEMMA FrameFacts ==
  ASSUME NEW fr \in Frame
  PROVE  /\ fr.at \in {"lock", "drain", "arm", "commit", "post", "run",
                       "throttle", "count", "retire"}
         /\ fr.at = "lock" => fr.q \in Queues /\ fr.op \in Op \cup {NoOp} /\ fr.cb \in 0 .. MaxOps
         /\ fr.at \in {"drain", "arm"} => fr.q \in Queues
         /\ fr.at = "commit" => fr.op \in Op
         /\ fr.at = "post" => fr.f \in Fences /\ fr.v \in Values \cup {0}
         /\ fr.at = "run" => fr.cbs \in SUBSET Ids
BY DEF Frame

LEMMA FramesMade ==
  /\ \A q \in Queues, op \in Op \cup {NoOp}, cb \in 0 .. MaxOps : Lock(q, op, cb) \in Frame
  /\ \A q \in Queues : Drain(q) \in Frame /\ Arm(q) \in Frame
  /\ \A op \in Op : Commit(op) \in Frame
  /\ \A f \in Fences, v \in Values \cup {0} : Post(f, v) \in Frame
  /\ \A ids \in SUBSET Ids : [at |-> "run", cbs |-> ids] \in Frame
  /\ Throttled \in Frame /\ Uncounted \in Frame /\ Retire \in Frame
<1>1. \A q \in Queues, op \in Op \cup {NoOp}, cb \in 0 .. MaxOps : Lock(q, op, cb) \in Frame
  BY DEF Frame, Lock
<1>2. \A q \in Queues : Drain(q) \in Frame /\ Arm(q) \in Frame
  BY DEF Frame, Drain, Arm
<1>3. \A op \in Op : Commit(op) \in Frame
  BY DEF Frame, Commit
<1>4. \A f \in Fences, v \in Values \cup {0} : Post(f, v) \in Frame
  BY DEF Frame, Post
<1>5. \A ids \in SUBSET Ids : [at |-> "run", cbs |-> ids] \in Frame
  BY DEF Frame
<1>6. Throttled \in Frame /\ Uncounted \in Frame /\ Retire \in Frame
  BY DEF Frame, Throttled, Uncounted, Retire
<1> QED BY <1>1, <1>2, <1>3, <1>4, <1>5, <1>6

(* The stack of t loses its d innermost calls and gets those of new.       *)
Moved(t, new, d) ==
  /\ \A u \in Threads : u # t => stack'[u] = stack[u]
  /\ stack'[t] \in Seq(Frame)
  /\ new \in Seq(Frame) /\ Len(new) \in Nat /\ DOMAIN new = 1 .. Len(new)
  /\ \A k \in DOMAIN new : new[k] \in Frame
  /\ d \in {0, 1} /\ Len(stack'[t]) = Len(new) + Len(stack[t]) - d
  /\ d = 1 => Len(stack[t]) >= 1
  /\ \A k \in 1 .. Len(new) : stack'[t][k] = new[k]
  /\ \A k \in Len(new) + 1 .. Len(stack'[t]) : stack'[t][k] = stack[t][k - Len(new) + d]

LEMMA StackTyped ==
  ASSUME TypeOK, NEW t \in Threads
  PROVE  /\ stack[t] \in Seq(Frame) /\ Len(stack[t]) \in Nat /\ DOMAIN stack[t] = 1 .. Len(stack[t])
         /\ \A k \in 1 .. Len(stack[t]) : stack[t][k] \in Frame
         /\ stack[t] # <<>> <=> Len(stack[t]) >= 1
         /\ stack[t] # <<>> => Head(stack[t]) = stack[t][1]
<1>1. stack[t] \in Seq(Frame)
  BY DEF TypeOK
<1> HIDE DEF Frame
<1> QED BY <1>1

LEMMA PushMoves ==
  ASSUME TypeOK, NEW t \in Threads, NEW new \in Seq(Frame),
         stack' = [stack EXCEPT ![t] = new \o stack[t]]
  PROVE  Moved(t, new, 0) /\ stack' \in [Threads -> Seq(Frame)]
<1>1. stack \in [Threads -> Seq(Frame)]
  BY DEF TypeOK
<1>2. stack'[t] = new \o stack[t] /\ \A u \in Threads : u # t => stack'[u] = stack[u]
  BY <1>1
<1>3. stack[t] \in Seq(Frame)
  BY <1>1
<1>4. /\ new \o stack[t] \in Seq(Frame)
      /\ Len(new \o stack[t]) = Len(new) + Len(stack[t])
      /\ \A k \in 1 .. Len(new) + Len(stack[t]) :
           (new \o stack[t])[k] = IF k <= Len(new) THEN new[k] ELSE stack[t][k - Len(new)]
  BY <1>3, ConcatProperties
<1>5. /\ Len(new) \in Nat /\ Len(stack[t]) \in Nat /\ DOMAIN new = 1 .. Len(new)
      /\ \A k \in DOMAIN new : new[k] \in Frame
  BY <1>3
<1>6. \A k \in Len(new) + 1 .. Len(new) + Len(stack[t]) : k - Len(new) + 0 = k - Len(new)
  BY <1>5
<1>7. stack' \in [Threads -> Seq(Frame)]
  BY <1>1, <1>4
<1> QED BY <1>2, <1>4, <1>5, <1>6, <1>7 DEF Moved

LEMMA ReplaceMoves ==
  ASSUME TypeOK, NEW t \in Threads, NEW new \in Seq(Frame), stack[t] # <<>>,
         stack' = [stack EXCEPT ![t] = new \o Tail(stack[t])]
  PROVE  Moved(t, new, 1) /\ stack' \in [Threads -> Seq(Frame)]
<1>1. stack \in [Threads -> Seq(Frame)]
  BY DEF TypeOK
<1>2. stack'[t] = new \o Tail(stack[t]) /\ \A u \in Threads : u # t => stack'[u] = stack[u]
  BY <1>1
<1>3. stack[t] \in Seq(Frame)
  BY <1>1
<1>4. /\ Tail(stack[t]) \in Seq(Frame) /\ Len(Tail(stack[t])) = Len(stack[t]) - 1
      /\ Len(stack[t]) >= 1 /\ Len(stack[t]) \in Nat
      /\ \A k \in 1 .. Len(stack[t]) - 1 : Tail(stack[t])[k] = stack[t][k + 1]
  BY <1>3, HeadTailProperties
<1>5. /\ new \o Tail(stack[t]) \in Seq(Frame)
      /\ Len(new \o Tail(stack[t])) = Len(new) + (Len(stack[t]) - 1)
      /\ \A k \in 1 .. Len(new) + (Len(stack[t]) - 1) : (new \o Tail(stack[t]))[k] =
           IF k <= Len(new) THEN new[k] ELSE Tail(stack[t])[k - Len(new)]
  BY <1>4, ConcatProperties
<1>6. /\ Len(new) \in Nat /\ DOMAIN new = 1 .. Len(new) /\ \A k \in DOMAIN new : new[k] \in Frame
  OBVIOUS
<1>7. ASSUME NEW k \in Len(new) + 1 .. Len(new) + (Len(stack[t]) - 1)
      PROVE  (new \o Tail(stack[t]))[k] = stack[t][k - Len(new) + 1]
  <2>1. k - Len(new) \in 1 .. Len(stack[t]) - 1 /\ ~(k <= Len(new))
        /\ k \in 1 .. Len(new) + (Len(stack[t]) - 1)
    BY <1>4, <1>6
  <2> QED BY <1>4, <1>5, <2>1
<1>8. stack' \in [Threads -> Seq(Frame)]
  BY <1>1, <1>5
<1> QED BY <1>2, <1>4, <1>5, <1>6, <1>7, <1>8 DEF Moved

LEMMA ReturnMoves ==
  ASSUME TypeOK, NEW t \in Threads, stack[t] # <<>>, stack' = Return(t)
  PROVE  Moved(t, <<>>, 1) /\ stack' \in [Threads -> Seq(Frame)]
<1>1. stack[t] \in Seq(Frame)
  BY DEF TypeOK
<1>2. Tail(stack[t]) = <<>> \o Tail(stack[t]) /\ <<>> \in Seq(Frame)
  BY <1>1, HeadTailProperties, ConcatEmptySeq
<1>3. stack' = [stack EXCEPT ![t] = <<>> \o Tail(stack[t])]
  BY <1>2 DEF Return
<1> QED BY <1>2, <1>3, ReplaceMoves

LEMMA GotoMoves ==
  ASSUME TypeOK, NEW t \in Threads, stack[t] # <<>>, NEW fr \in Frame, stack' = Goto(t, fr)
  PROVE  Moved(t, <<fr>>, 1) /\ stack' \in [Threads -> Seq(Frame)]
<1>1. stack' = [stack EXCEPT ![t] = <<fr>> \o Tail(stack[t])]
  BY DEF Goto
<1>2. <<fr>> \in Seq(Frame)
  OBVIOUS
<1> QED BY <1>1, <1>2, ReplaceMoves

LEMMA CallMoves ==
  ASSUME TypeOK, NEW t \in Threads, NEW fr \in Frame, stack' = Call(t, fr)
  PROVE  Moved(t, <<fr>>, 0) /\ stack' \in [Threads -> Seq(Frame)]
<1>1. stack' = [stack EXCEPT ![t] = <<fr>> \o stack[t]]
  BY DEF Call
<1>2. <<fr>> \in Seq(Frame)
  OBVIOUS
<1> QED BY <1>1, <1>2, PushMoves

(* A thread that is in no call begins one.                                 *)
LEMMA BeginMoves ==
  ASSUME TypeOK, NEW t \in Threads, stack[t] = <<>>, NEW new \in Seq(Frame),
         stack' = [stack EXCEPT ![t] = new]
  PROVE  Moved(t, new, 0) /\ stack' \in [Threads -> Seq(Frame)]
<1>1. new = new \o stack[t]
  BY ConcatEmptySeq
<1>2. stack' = [stack EXCEPT ![t] = new \o stack[t]]
  BY <1>1
<1> QED BY <1>2, PushMoves

RunFrame(ids) == [at |-> "run", cbs |-> ids]

LEMMA RunSequence ==
  ASSUME NEW ids \in SUBSET Ids
  PROVE  /\ Run(ids) \in Seq(Frame) /\ Len(Run(ids)) = (IF ids = {} THEN 0 ELSE 1)
         /\ \A k \in 1 .. Len(Run(ids)) : Run(ids)[k] = RunFrame(ids)
         /\ RunFrame(ids) \in Frame
<1>1. RunFrame(ids) \in Frame
  BY FramesMade DEF RunFrame
<1>2. CASE ids = {}
  BY <1>1, <1>2 DEF Run
<1>3. CASE ids # {}
  <2>1. Run(ids) = <<RunFrame(ids)>>
    BY <1>3 DEF Run, RunFrame
  <2> QED BY <1>1, <1>3, <2>1
<1> QED BY <1>2, <1>3

(* A frame followed by callbacks to run.                                   *)
ThenRuns(fr, ids) == <<fr>> \o Run(ids)

LEMMA ThenRun ==
  ASSUME NEW fr \in Frame, NEW ids \in SUBSET Ids, NEW new, new = ThenRuns(fr, ids)
  PROVE  /\ new \in Seq(Frame) /\ new # <<>> /\ DOMAIN new = 1 .. Len(new)
         /\ Len(new) = (IF ids = {} THEN 1 ELSE 2)
         /\ new[1] = fr /\ \A k \in DOMAIN new : k > 1 => new[k] = RunFrame(ids)
<1>1. <<fr>> \in Seq(Frame) /\ Len(<<fr>>) = 1 /\ <<fr>>[1] = fr
  OBVIOUS
<1>2. /\ Run(ids) \in Seq(Frame) /\ Len(Run(ids)) = (IF ids = {} THEN 0 ELSE 1)
      /\ \A k \in 1 .. Len(Run(ids)) : Run(ids)[k] = RunFrame(ids)
  BY RunSequence
<1>3. /\ new \in Seq(Frame) /\ Len(new) = 1 + Len(Run(ids))
      /\ \A k \in 1 .. 1 + Len(Run(ids)) : new[k] =
            IF k <= 1 THEN <<fr>>[k] ELSE Run(ids)[k - 1]
  <2>1. new = <<fr>> \o Run(ids)
    BY DEF ThenRuns
  <2> QED BY <1>1, <1>2, <2>1, ConcatProperties
<1>4. DOMAIN new = 1 .. Len(new) /\ new # <<>>
  <2>1. new \in Seq(Frame) /\ Len(new) >= 1
    BY <1>2, <1>3
  <2> QED BY <2>1
<1>5. ASSUME NEW k \in DOMAIN new, k > 1 PROVE new[k] = RunFrame(ids)
  <2>1. k \in 1 .. 1 + Len(Run(ids)) /\ ~(k <= 1) /\ k - 1 \in 1 .. Len(Run(ids))
    BY <1>2, <1>3, <1>4, <1>5
  <2> QED BY <1>2, <1>3, <2>1
<1>6. new[1] = fr
  BY <1>1, <1>2, <1>3
<1>7. Len(new) = (IF ids = {} THEN 1 ELSE 2)
  BY <1>2, <1>3
<1> QED BY <1>3, <1>4, <1>5, <1>6, <1>7

LEMMA MovedFrames ==
  ASSUME TypeOK, NEW t \in Threads, NEW new, NEW d, Moved(t, new, d), NEW u \in Threads
  PROVE  /\ \A k \in DOMAIN stack'[u] :
              \/ \E l \in DOMAIN stack[u] : /\ stack'[u][k] = stack[u][l] /\ (u = t => l > d)
              \/ u = t /\ k \in DOMAIN new /\ stack'[u][k] = new[k]
         /\ \A l \in DOMAIN stack[u] : (u = t => l > d) =>
              \E k \in DOMAIN stack'[u] : stack'[u][k] = stack[u][l]
         /\ u = t => \A k \in DOMAIN new : k \in DOMAIN stack'[u] /\ stack'[u][k] = new[k]
<1>1. /\ stack[t] \in Seq(Frame) /\ Len(stack[t]) \in Nat /\ DOMAIN stack[t] = 1 .. Len(stack[t])
  BY StackTyped
<1>2. /\ \A v \in Threads : v # t => stack'[v] = stack[v]
      /\ Len(stack'[t]) = Len(new) + Len(stack[t]) - d
      /\ Len(new) \in Nat /\ DOMAIN new = 1 .. Len(new) /\ d \in {0, 1}
      /\ d = 1 => Len(stack[t]) >= 1
      /\ \A k \in 1 .. Len(new) : stack'[t][k] = new[k]
      /\ \A k \in Len(new) + 1 .. Len(stack'[t]) : stack'[t][k] = stack[t][k - Len(new) + d]
  BY DEF Moved
<1>3. DOMAIN stack'[t] = 1 .. Len(stack'[t])
  BY DEF Moved
<1>4. CASE u # t
  BY <1>2, <1>4
<1>5. CASE u = t
  <2>1. ASSUME NEW k \in DOMAIN stack'[t], k \notin DOMAIN new
        PROVE  \E l \in DOMAIN stack[t] : stack'[t][k] = stack[t][l] /\ l > d
    <3>1. k - Len(new) + d \in DOMAIN stack[t] /\ k - Len(new) + d > d
          /\ k \in Len(new) + 1 .. Len(stack'[t])
      BY <1>1, <1>2, <1>3, <2>1
    <3> QED BY <1>2, <3>1
  <2>2. ASSUME NEW l \in DOMAIN stack[t], l > d
        PROVE  \E k \in DOMAIN stack'[t] : stack'[t][k] = stack[t][l]
    <3> SUFFICES ASSUME NEW k, k = l - d + Len(new)
                 PROVE  k \in DOMAIN stack'[t] /\ stack'[t][k] = stack[t][l]
      OBVIOUS
    <3>1. k \in Len(new) + 1 .. Len(stack'[t]) /\ k - Len(new) + d = l /\ k \in DOMAIN stack'[t]
      BY <1>1, <1>2, <1>3, <2>2
    <3> QED BY <1>2, <3>1
  <2>3. \A k \in DOMAIN new : k \in DOMAIN stack'[t] /\ stack'[t][k] = new[k]
    BY <1>1, <1>2, <1>3
  <2> QED BY <1>5, <2>1, <2>2, <2>3
<1> QED BY <1>4, <1>5

(* Frames that are never buried are found where they were, or are new.     *)
LEMMA MovedHeads ==
  ASSUME TypeOK, StacksOK, NEW t \in Threads, NEW new, NEW d, Moved(t, new, d),
         new = <<>> => d = 1, NEW u \in Threads,
         NEW w \in {"lock", "commit", "arm", "post"}
  PROVE  /\ u # t => stack'[u] = stack[u] /\ (At(u, w)' <=> At(u, w))
         /\ u = t => (At(u, w)' <=> new # <<>> /\ new[1].at = w)
         /\ u = t /\ new # <<>> => stack'[u][1] = new[1]
<1>1. /\ stack[t] \in Seq(Frame) /\ Len(stack[t]) \in Nat /\ DOMAIN stack[t] = 1 .. Len(stack[t])
  BY StackTyped
<1>2. /\ u # t => stack'[u] = stack[u]
      /\ stack'[t] \in Seq(Frame) /\ Len(stack'[t]) = Len(new) + Len(stack[t]) - d
      /\ Len(new) \in Nat /\ DOMAIN new = 1 .. Len(new) /\ d \in {0, 1}
      /\ \A k \in 1 .. Len(new) : stack'[t][k] = new[k]
      /\ \A k \in Len(new) + 1 .. Len(stack'[t]) : stack'[t][k] = stack[t][k - Len(new) + d]
  BY DEF Moved
<1>3. stack'[t] # <<>> <=> Len(stack'[t]) >= 1
  BY <1>2
<1>4. stack'[t] # <<>> => Head(stack'[t]) = stack'[t][1]
  BY <1>2
<1>5. CASE u # t
  BY <1>2, <1>5 DEF At
<1>6. CASE u = t /\ new # <<>>
  <2>1. Len(new) >= 1
    <3>1. SUFFICES ASSUME Len(new) = 0 PROVE FALSE
      BY <1>2
    <3>2. new = <<>>
      BY <3>1 DEF Moved
    <3> QED BY <1>6, <3>2
  <2>2. Len(stack'[t]) >= 1
    BY <1>1, <1>2, <2>1 DEF Moved
  <2> QED BY <1>2, <1>3, <1>4, <1>6, <2>1, <2>2 DEF At
<1>7. CASE u = t /\ new = <<>>
  <2>1. d = 1 /\ Len(new) = 0
    BY <1>7
  <2>2. ASSUME stack'[t] # <<>> PROVE stack'[t][1].at \in {"run", "drain", "retire"}
    <3>1. 1 - Len(new) + d = 2 /\ 1 \in Len(new) + 1 .. Len(stack'[t]) /\ 2 \in DOMAIN stack[t]
      BY <1>1, <1>2, <1>3, <2>1, <2>2
    <3>2. stack'[t][1] = stack[t][2]
      BY <1>2, <3>1
    <3> QED BY <3>1, <3>2 DEF StacksOK
  <2> QED BY <1>4, <1>7, <2>2 DEF At
<1> QED BY <1>5, <1>6, <1>7

Draining(fr) == fr.at \in {"drain", "arm"}

(* What a step of thread t may do to the stacks, mutexes and the ring.     *)
LEMMA StacksKept ==
  ASSUME TypeOK, StacksOK, NEW t \in Threads, NEW new, NEW d, Moved(t, new, d),
         new = <<>> => d = 1,
         d = 0 => stack[t] = <<>> \/ At(t, "drain"),
         \A k \in DOMAIN new : k > 1 => new[k].at \in {"run", "retire"},
         \A k \in DOMAIN new : Draining(new[k]) =>
           /\ mutex'[new[k].q] = t /\ d = 1
           /\ mutex[new[k].q] = Nobody \/ (At(t, "drain") /\ stack[t][1].q = new[k].q),
         \A k \in DOMAIN new : new[k].at = "retire" =>
           t = Finish /\ stack[t] = <<>> /\ k = Len(new) /\ gpu_done' > 0,
         \A q \in Queues : \/ mutex'[q] = mutex[q] \/ mutex[q] = Nobody
                           \/ d = 1 /\ Draining(stack[t][1]) /\ stack[t][1].q = q,
         gpu_done' \in Int,
         gpu_done' >= gpu_done \/ (d = 1 /\ At(t, "retire")),
         \/ recording' = {t} /\ recording = {} /\ new # <<>> /\ new[1].at = "commit"
         \/ /\ recording' = recording \ {t} /\ d = 1
            /\ new = <<>> \/ new[1].at # "commit"
         \/ /\ recording' = recording /\ (d = 1 => ~At(t, "commit"))
            /\ new = <<>> \/ new[1].at # "commit",
         t \notin listening', \A i \in listening' : i \in listening \/ stack[i] = <<>>,
         listening' \subseteq Ids
  PROVE  StacksOK'
<1>1. /\ stack[t] \in Seq(Frame) /\ Len(stack[t]) \in Nat /\ DOMAIN stack[t] = 1 .. Len(stack[t])
      /\ stack[t] # <<>> <=> Len(stack[t]) >= 1
      /\ stack[t] # <<>> => Head(stack[t]) = stack[t][1]
  BY StackTyped
<1>2. /\ \A u \in Threads : u # t => stack'[u] = stack[u]
      /\ stack'[t] \in Seq(Frame) /\ Len(stack'[t]) = Len(new) + Len(stack[t]) - d
      /\ Len(new) \in Nat /\ DOMAIN new = 1 .. Len(new) /\ d \in {0, 1}
      /\ d = 1 => Len(stack[t]) >= 1
      /\ \A k \in 1 .. Len(new) : stack'[t][k] = new[k]
      /\ \A k \in Len(new) + 1 .. Len(stack'[t]) : stack'[t][k] = stack[t][k - Len(new) + d]
      /\ \A k \in DOMAIN new : new[k] \in Frame
  BY DEF Moved
<1>3. DOMAIN stack'[t] = 1 .. Len(stack'[t])
  BY <1>2
<1>4. ASSUME NEW k \in DOMAIN stack'[t], k \notin DOMAIN new, NEW l, l = k - Len(new) + d
      PROVE  /\ l \in DOMAIN stack[t] /\ l > d /\ stack'[t][k] = stack[t][l]
             /\ k = Len(stack'[t]) <=> l = Len(stack[t])
  <2>1. /\ k \in Len(new) + 1 .. Len(stack'[t]) /\ l \in 1 .. Len(stack[t]) /\ l > d
        /\ k = Len(stack'[t]) <=> l = Len(stack[t])
    <3>1. Len(stack'[t]) = Len(new) + Len(stack[t]) - d /\ d \in {0, 1}
          /\ Len(new) \in Nat /\ Len(stack[t]) \in Nat
      BY <1>1, <1>2
    <3>2. k \in 1 .. Len(stack'[t]) /\ k \notin 1 .. Len(new)
      BY <1>2, <1>3, <1>4
    <3>3. k > Len(new) /\ k \in Int /\ k <= Len(stack'[t])
      BY <3>1, <3>2
    <3>4. CASE d = 0
      BY <1>4, <3>1, <3>3, <3>4
    <3>5. CASE d = 1
      BY <1>4, <3>1, <3>3, <3>5
    <3> QED BY <3>1, <3>4, <3>5
  <2> QED BY <1>1, <1>2, <1>4, <2>1
<1>5. ASSUME NEW u \in Threads, NEW l \in DOMAIN stack[u], Draining(stack[u][l]), u = t => l > d
      PROVE  mutex'[stack[u][l].q] = u
  <2>1. stack[u][l] \in Frame /\ stack[u][l].q \in Queues
    BY <1>5, StackTyped, FrameFacts DEF Draining
  <2>2. mutex[stack[u][l].q] = u
    BY <1>5 DEF StacksOK, Draining
  <2>3. u # Nobody
    BY QueueAssumption DEF Threads, Ids
  <2>4. CASE d = 1 /\ Draining(stack[t][1]) /\ stack[t][1].q = stack[u][l].q
    <3>1. 1 \in DOMAIN stack[t] /\ mutex[stack[t][1].q] = t
      BY <1>1, <1>2, <2>4 DEF StacksOK, Draining
    <3>2. u = t
      BY <2>2, <2>4, <3>1
    <3>3. l = 1
      BY <1>5, <2>4, <3>1, <3>2 DEF StacksOK, Draining
    <3> QED BY <1>5, <2>4, <3>2, <3>3
  <2> QED BY <2>1, <2>2, <2>3, <2>4
<1>6. ASSUME NEW u \in Threads, NEW k \in DOMAIN stack'[u]
      PROVE  /\ k > 1 => stack'[u][k].at \in {"run", "drain", "retire"}
             /\ Draining(stack'[u][k]) => mutex'[stack'[u][k].q] = u
             /\ stack'[u][k].at = "retire" => u = Finish /\ k = Len(stack'[u]) /\ gpu_done' > 0
  <2>1. CASE u # t
    <3>1. stack'[u] = stack[u]
      BY <1>2, <2>1
    <3>2. stack[u][k].at = "retire" => u = Finish /\ k = Len(stack[u]) /\ gpu_done > 0
      BY <1>6, <3>1 DEF StacksOK
    <3>3. ASSUME At(t, "retire"), stack[u][k].at = "retire" PROVE FALSE
      <4>1. 1 \in DOMAIN stack[t] /\ stack[t][1].at = "retire"
        BY <1>1, <3>3 DEF At
      <4> QED BY <2>1, <3>2, <3>3, <4>1 DEF StacksOK
    <3>4. stack[u][k].at = "retire" => gpu_done' > 0
      BY <3>2, <3>3 DEF TypeOK
    <3> QED BY <1>5, <1>6, <2>1, <3>1, <3>2, <3>4 DEF StacksOK
  <2>2. CASE u = t /\ k \in DOMAIN new
    <3>1. stack'[t][k] = new[k] /\ new[k] \in Frame
      BY <1>2, <2>2
    <3>2. new[k].at = "retire" => k = Len(stack'[t])
      BY <1>1, <1>2, <2>2
    <3> QED BY <2>2, <3>1, <3>2
  <2>3. CASE u = t /\ k \notin DOMAIN new
    <3> SUFFICES ASSUME NEW l, l = k - Len(new) + d
                 PROVE  /\ k > 1 => stack'[u][k].at \in {"run", "drain", "retire"}
                        /\ Draining(stack'[u][k]) => mutex'[stack'[u][k].q] = u
                        /\ stack'[u][k].at = "retire" =>
                             u = Finish /\ k = Len(stack'[u]) /\ gpu_done' > 0
      OBVIOUS
    <3>1. /\ l \in DOMAIN stack[t] /\ l > d /\ stack'[t][k] = stack[t][l]
          /\ k = Len(stack'[t]) <=> l = Len(stack[t])
      BY <1>4, <1>6, <2>3
    <3>2. k > 1 => stack[t][l].at \in {"run", "drain", "retire"}
      <4>1. CASE l > 1
        BY <3>1, <4>1 DEF StacksOK
      <4>2. CASE l = 1
        <5>1. d = 0
          BY <1>2, <3>1, <4>2
        <5>2. stack[t][1].at = "drain"
          BY <1>1, <3>1, <4>2, <5>1 DEF At
        <5> QED BY <4>2, <5>2
      <4> QED BY <1>1, <3>1, <4>1, <4>2
    <3>3. stack[t][l].at = "retire" => t = Finish /\ l = Len(stack[t]) /\ gpu_done > 0
      BY <3>1 DEF StacksOK
    <3>4. ASSUME stack[t][l].at = "retire", d = 1, At(t, "retire") PROVE FALSE
      <4>1. 1 \in DOMAIN stack[t] /\ stack[t][1].at = "retire"
        BY <1>1, <3>4 DEF At
      <4>2. 1 = Len(stack[t])
        <5>1. \A m \in DOMAIN stack[t] : stack[t][m].at = "retire" => m = Len(stack[t])
          BY DEF StacksOK
        <5> QED BY <4>1, <5>1
      <4> QED BY <1>1, <3>1, <3>4, <4>2
    <3>5. stack[t][l].at = "retire" => gpu_done' > 0
      BY <3>3, <3>4 DEF TypeOK
    <3> QED BY <1>5, <2>3, <3>1, <3>2, <3>3, <3>5
  <2> QED BY <2>1, <2>2, <2>3
<1>7. ASSUME NEW u \in Threads, NEW k \in DOMAIN stack'[u], NEW l \in DOMAIN stack'[u],
             Draining(stack'[u][k]), Draining(stack'[u][l]), stack'[u][k].q = stack'[u][l].q
      PROVE  k = l
  <2>1. CASE u # t
    BY <1>2, <1>7, <2>1 DEF StacksOK, Draining
  <2>2. CASE u = t /\ k \in DOMAIN new /\ l \in DOMAIN new
    <3>1. ASSUME NEW n \in DOMAIN new, Draining(new[n]) PROVE n = 1
      BY <1>2, <3>1 DEF Draining
    <3> QED BY <1>2, <1>7, <2>2, <3>1
  <2>3. ASSUME NEW n \in DOMAIN new, NEW m \in DOMAIN stack'[t], m \notin DOMAIN new,
               Draining(new[n]), Draining(stack'[t][m]), new[n].q = stack'[t][m].q
        PROVE  FALSE
    <3> SUFFICES ASSUME NEW i, i = m - Len(new) + d PROVE FALSE
      OBVIOUS
    <3>1. i \in DOMAIN stack[t] /\ i > d /\ stack'[t][m] = stack[t][i]
      BY <1>4, <2>3
    <3>2. mutex[stack[t][i].q] = t
      BY <2>3, <3>1 DEF StacksOK, Draining
    <3>3. t # Nobody
      BY QueueAssumption DEF Threads, Ids
    <3>4. At(t, "drain") /\ stack[t][1].q = stack[t][i].q
      BY <2>3, <3>1, <3>2, <3>3
    <3>5. i = 1
      BY <1>1, <2>3, <3>1, <3>4 DEF StacksOK, Draining, At
    <3> QED BY <2>3, <3>1, <3>5
  <2>4. CASE u = t /\ k \notin DOMAIN new /\ l \notin DOMAIN new
    <3> SUFFICES ASSUME NEW i, i = k - Len(new) + d, NEW j, j = l - Len(new) + d PROVE k = l
      OBVIOUS
    <3>1. i \in DOMAIN stack[t] /\ stack'[t][k] = stack[t][i]
      BY <1>4, <2>4
    <3>2. j \in DOMAIN stack[t] /\ stack'[t][l] = stack[t][j]
      BY <1>4, <2>4
    <3>3. i = j
      BY <1>7, <2>4, <3>1, <3>2 DEF StacksOK, Draining
    <3> QED BY <1>2, <1>3, <2>4, <3>3
  <2>5. ASSUME u = t, k \in DOMAIN new, l \notin DOMAIN new PROVE FALSE
    <3>1. stack'[t][k] = new[k]
      BY <1>2, <2>5
    <3> QED BY <1>7, <2>3, <2>5, <3>1
  <2>6. ASSUME u = t, l \in DOMAIN new, k \notin DOMAIN new PROVE FALSE
    <3>1. stack'[t][l] = new[l]
      BY <1>2, <2>6
    <3> QED BY <1>7, <2>3, <2>6, <3>1
  <2> QED BY ONLY <2>1, <2>2, <2>4, <2>5, <2>6
<1>8. ASSUME NEW u \in Threads
      PROVE  At(u, "commit")' <=> \/ u # t /\ At(u, "commit")
                                  \/ u = t /\ new # <<>> /\ new[1].at = "commit"
  BY MovedHeads
<1>9. (\A u \in recording' : At(u, "commit")') /\ recording' \subseteq Threads
  <2>1. recording \subseteq Threads /\ \A u \in recording : At(u, "commit")
    BY DEF StacksOK, TypeOK
  <2>2. d = 0 => ~At(t, "commit")
    BY <1>1 DEF At
  <2> SUFFICES ASSUME NEW u \in recording' PROVE u \in Threads /\ At(u, "commit")'
    BY DEF At
  <2>3. u = t => new # <<>> /\ new[1].at = "commit"
    BY <1>2, <2>1, <2>2
  <2>4. u # t => u \in recording
    OBVIOUS
  <2> QED BY <1>8, <2>1, <2>3, <2>4
<1>10. \A u \in Threads : At(u, "commit")' => recording' = {u}
  <2> SUFFICES ASSUME NEW u \in Threads, At(u, "commit")' PROVE recording' = {u}
    BY DEF At
  <2>1. \A v \in Threads : At(v, "commit") => recording = {v}
    BY DEF StacksOK
  <2> QED BY <1>8, <2>1
<1>11. \A i \in listening' : stack'[i] = <<>>
  <2>1. \A i \in listening : stack[i] = <<>>
    BY DEF StacksOK
  <2> QED BY <1>2, <2>1 DEF Threads
<1> QED BY <1>6, <1>7, <1>9, <1>10, <1>11 DEF StacksOK, Draining

-----------------------------------------------------------------------------
(* What a step may do without touching a part of the invariant.            *)

Grows == \A f \in Fences : signaled'[f].max >= signaled[f].max
EnqueuersKept == \A u \in Threads : Enqueuing(u)' => Enqueuing(u) /\ stack'[u][1] = stack[u][1]
CommitsKept ==
  \A u \in Threads : /\ At(u, "commit")' <=> At(u, "commit")
                     /\ At(u, "commit") => stack'[u][1] = stack[u][1]
ArmsKept == \A q \in Queues : Arming(q)' <=> Arming(q)
WatchedKept == \A i \in Ids : Watched(i) => Watched(i)'
SeenKept == \A i \in Ids : Seen(i)' => Seen(i)

LEMMA Numbers ==
  ASSUME TypeOK
  PROVE  /\ Values \cup {0} \subseteq Nat
         /\ \A f \in Fences : signaled[f].max \in Nat /\ event[f] \in Nat /\ completed[f] \in Nat
         /\ calls \in Nat /\ gpu_done \in Nat /\ Len(flight) \in Nat /\ DOMAIN flight = 1 .. Len(flight)
         /\ \A k \in DOMAIN flight : flight[k] \in Op
         /\ \A q \in Queues :
              /\ Len(pending[q]) \in Nat /\ DOMAIN pending[q] = 1 .. Len(pending[q])
              /\ \A k \in DOMAIN pending[q] : pending[q][k] \in Op
              /\ Len(order[q]) \in Nat /\ DOMAIN order[q] = 1 .. Len(order[q])
              /\ \A j \in DOMAIN order[q] : order[q][j] \in Ids
<1>1. Values \cup {0} \subseteq Nat
  BY QueueAssumption
<1>2. \A f \in Fences : signaled[f].max \in Nat /\ event[f] \in Nat /\ completed[f] \in Nat
  BY <1>1 DEF TypeOK
<1>3. calls \in Nat
  BY QueueAssumption DEF TypeOK
<1>4. /\ gpu_done \in Nat /\ Len(flight) \in Nat /\ DOMAIN flight = 1 .. Len(flight)
      /\ \A k \in DOMAIN flight : flight[k] \in Op
  <2>1. flight \in Seq(Op) /\ gpu_done \in 0 .. Len(flight)
    BY DEF TypeOK
  <2> QED BY <2>1
<1>5. ASSUME NEW q \in Queues
      PROVE  /\ Len(pending[q]) \in Nat /\ DOMAIN pending[q] = 1 .. Len(pending[q])
             /\ \A k \in DOMAIN pending[q] : pending[q][k] \in Op
             /\ Len(order[q]) \in Nat /\ DOMAIN order[q] = 1 .. Len(order[q])
             /\ \A j \in DOMAIN order[q] : order[q][j] \in Ids
  <2>1. pending[q] \in Seq(Op) /\ order[q] \in Seq(Ids)
    BY DEF TypeOK
  <2> QED BY <2>1
<1> QED BY <1>1, <1>2, <1>3, <1>4, <1>5

LEMMA ReachedKept ==
  ASSUME TypeOK, TypeOK', Grows, NEW f \in Fences, NEW v \in Nat, Reached(f, v)
  PROVE  Reached(f, v)'
<1>1. signaled[f].max \in Nat /\ signaled'[f].max \in Nat
  <2>1. Values \cup {0} \subseteq Nat
    BY QueueAssumption
  <2> QED BY <2>1 DEF TypeOK
<1> QED BY <1>1 DEF Grows, Reached

(* A queue nobody acts on.                                                 *)
LEMMA PendingKept ==
  ASSUME TypeOK, TypeOK', OrdersOK, NEW q \in Queues, PendingOK(q),
         pending'[q] = pending[q], order'[q] = order[q], Grows,
         \A i \in Ids : info[i] \in Op => info'[i] = info[i],
         submitted \subseteq submitted',
         \A k \in DOMAIN pending[q] : pending[q][k].id \notin submitted'
  PROVE  PendingOK(q)'
<1>1. /\ Len(pending[q]) \in Nat /\ DOMAIN pending[q] = 1 .. Len(pending[q])
      /\ \A k \in DOMAIN pending[q] : pending[q][k] \in Op
      /\ Len(order[q]) \in Nat /\ DOMAIN order[q] = 1 .. Len(order[q])
      /\ \A j \in DOMAIN order[q] : order[q][j] \in Ids
  BY Numbers
<1>2. /\ Popped(q)' = Popped(q) /\ Popped(q) \in Nat
      /\ Popped(q) + Len(pending[q]) = Len(order[q])
  BY <1>1 DEF Popped, PendingOK
<1>3. \A j \in DOMAIN order[q] : info[order[q][j]] \in Op /\ info'[order[q][j]] = info[order[q][j]]
  BY <1>1 DEF OrdersOK
<1>4. ASSUME NEW k \in DOMAIN pending[q]
      PROVE  /\ pending[q][k].id = order[q][Popped(q) + k] /\ IsOp(pending[q][k])'
             /\ pending[q][k].wait_completed => Reached(pending[q][k].f, pending[q][k].v)'
             /\ pending[q][k].armed => k = 1 /\ pending[q][k].type = "Wait"
  <2>1. /\ pending[q][k].id = order[q][Popped(q) + k] /\ IsOp(pending[q][k])
        /\ pending[q][k].wait_completed => Reached(pending[q][k].f, pending[q][k].v)
        /\ pending[q][k].armed => k = 1 /\ pending[q][k].type = "Wait"
    BY DEF PendingOK
  <2>2. Popped(q) + k \in DOMAIN order[q]
    BY <1>1, <1>2
  <2>3. IsOp(pending[q][k])'
    BY <1>3, <2>1, <2>2 DEF IsOp
  <2>4. pending[q][k].f \in Fences /\ pending[q][k].v \in Nat
    BY <1>1, OpFacts, Numbers
  <2> QED BY <2>1, <2>3, <2>4, ReachedKept
<1>5. ASSUME NEW j \in 1 .. Popped(q)
      PROVE  (LET o == info[order[q][j]] IN
              IF o.type = "Wait" THEN Reached(o.f, o.v) ELSE order[q][j] \in submitted)'
  <2>1. j \in DOMAIN order[q]
    BY <1>1, <1>2
  <2> SUFFICES ASSUME NEW o, o = info[order[q][j]]
               PROVE  IF o.type = "Wait" THEN Reached(o.f, o.v)' ELSE order[q][j] \in submitted'
    BY <1>3, <2>1 DEF Reached
  <2>2. IF o.type = "Wait" THEN Reached(o.f, o.v) ELSE order[q][j] \in submitted
    BY DEF PendingOK
  <2>3. o \in Op
    BY <1>3, <2>1
  <2>4. o.f \in Fences /\ o.v \in Nat
    BY <2>3, OpFacts, Numbers
  <2> QED BY <2>2, <2>4, ReachedKept
<1>6. /\ DOMAIN pending'[q] = DOMAIN pending[q] /\ Len(pending'[q]) <= Len(order'[q])
  BY DEF PendingOK
<1> QED BY <1>2, <1>4, <1>5, <1>6 DEF PendingOK, Reached

LEMMA OrdersKept ==
  ASSUME TypeOK, OrdersOK, UNCHANGED <<order, info>>,
         calls' \in Nat, calls' >= calls, EnqueuersKept,
         \A i \in submitted' : i \in submitted \/ \E q \in Queues : \E j \in DOMAIN order[q] : order[q][j] = i
  PROVE  OrdersOK'
<1>1. calls \in Nat /\ \A q \in Queues : \A j \in DOMAIN order[q] : order[q][j] \in Ids
  BY Numbers
<1>2. \A i \in Ids : i > calls' => info'[i] = NoOp
  BY <1>1 DEF OrdersOK, Ids
<1>3. \A q \in Queues : \A j \in DOMAIN order[q] :
         /\ order[q][j] <= calls'
         /\ info[order[q][j]] \in Op /\ info[order[q][j]].q = q /\ info[order[q][j]].id = order[q][j]
  BY <1>1 DEF OrdersOK, Ids
<1>4. \A q, r \in Queues : \A j \in DOMAIN order[q], k \in DOMAIN order[r] :
        order[q][j] = order[r][k] => q = r /\ j = k
  BY DEF OrdersOK
<1>5. ASSUME NEW u \in Threads, Enqueuing(u)'
      PROVE  (LET op == stack[u][1].op IN
              /\ op \in Op /\ op.id <= calls /\ IsOp(op) /\ op.q = stack[u][1].q
              /\ ~op.armed /\ ~op.wait_completed /\ op.id \notin submitted
              /\ \A q \in Queues : \A j \in DOMAIN order[q] : order[q][j] # op.id
              /\ \A v \in Threads : Enqueuing(v) /\ stack[v][1].op.id = op.id => v = u)'
  <2>1. Enqueuing(u) /\ stack'[u][1] = stack[u][1]
    BY <1>5 DEF EnqueuersKept
  <2> SUFFICES ASSUME NEW op, op = stack[u][1].op
               PROVE  /\ op \in Op /\ op.id <= calls' /\ IsOp(op)' /\ op.q = stack[u][1].q
                      /\ ~op.armed /\ ~op.wait_completed /\ op.id \notin submitted'
                      /\ \A q \in Queues : \A j \in DOMAIN order[q] : order[q][j] # op.id
                      /\ \A v \in Threads : Enqueuing(v)' /\ stack'[v][1].op.id = op.id => v = u
    BY <2>1 DEF IsOp, Enqueuing, At
  <2>2. /\ op \in Op /\ op.id <= calls /\ IsOp(op) /\ op.q = stack[u][1].q
        /\ ~op.armed /\ ~op.wait_completed /\ op.id \notin submitted
        /\ \A q \in Queues : \A j \in DOMAIN order[q] : order[q][j] # op.id
        /\ \A v \in Threads : Enqueuing(v) /\ stack[v][1].op.id = op.id => v = u
    BY <2>1 DEF OrdersOK
  <2>3. op.id \in Nat /\ op.id <= calls'
    BY <1>1, <2>2, OpFacts DEF Ids
  <2>4. IsOp(op)'
    BY <2>2 DEF IsOp
  <2>5. \A v \in Threads : Enqueuing(v)' /\ stack'[v][1].op.id = op.id => v = u
    BY <2>2 DEF EnqueuersKept
  <2> QED BY <2>2, <2>3, <2>4, <2>5
<1>6. \A i \in submitted' : i <= calls'
  <2>1. \A i \in submitted : i <= calls /\ i \in Nat
    BY DEF OrdersOK, TypeOK, Ids
  <2> QED BY <1>1, <1>3, <2>1
<1> QED BY <1>2, <1>3, <1>4, <1>5, <1>6 DEF OrdersOK

LEMMA FlightKept ==
  ASSUME FlightOK, CommitsKept,
         UNCHANGED <<order, info, flight, gpu_done, batches, executed, submitted>>
  PROVE  FlightOK'
<1>1. \A op : IsOp(op)' <=> IsOp(op)
  BY DEF IsOp
<1>2. /\ \A k \in DOMAIN flight :
           /\ flight[k].id \in submitted /\ IsOp(flight[k])'
           /\ k <= gpu_done => flight[k].id \in executed
      /\ executed \subseteq submitted
  BY DEF FlightOK, IsOp
<1>3. ASSUME NEW t \in Threads, At(t, "commit")'
      PROVE  (stack[t][1].op.id \in submitted /\ IsOp(stack[t][1].op))'
  <2>1. At(t, "commit") /\ stack'[t][1] = stack[t][1]
    BY <1>3 DEF CommitsKept
  <2> QED BY <2>1 DEF FlightOK, IsOp
<1>4. ASSUME NEW i \in submitted \ executed
      PROVE  \/ \E k \in DOMAIN flight : k > gpu_done /\ flight[k].id = i
             \/ \E t \in Threads : At(t, "commit")' /\ stack'[t][1].op.id = i
  <2>1. CASE \E k \in DOMAIN flight : k > gpu_done /\ flight[k].id = i
    BY <2>1
  <2>2. CASE \E t \in Threads : At(t, "commit") /\ stack[t][1].op.id = i
    BY <2>2 DEF CommitsKept
  <2> QED BY <2>1, <2>2 DEF FlightOK
<1>5. \A q \in Queues : \A j \in DOMAIN order[q] :
       /\ order[q][j] \in submitted /\ info[order[q][j]].type = "Execute" => batches[q]
       /\ \A k \in DOMAIN flight : flight[k].id = order[q][j] =>
            Work(q, j)' \subseteq executed \cup {flight[m].id : m \in 1 .. k - 1}
  BY DEF FlightOK, Work
<1>6. UNCHANGED <<order, info, flight, gpu_done, batches, executed, submitted>>
  OBVIOUS
<1> QED BY ONLY <1>2, <1>3, <1>4, <1>5, <1>6, SMTT(40) DEF FlightOK

LEMMA WatchesKept ==
  ASSUME TypeOK, WatchOK, UNCHANGED <<pending, order>>,
         \A q \in Queues : PendingOK(q),
         \A q \in Queues : mutex'[q] = Nobody => mutex[q] = Nobody,
         ArmsKept, WatchedKept, SeenKept
  PROVE  WatchOK'
<1>1. ASSUME NEW q \in Queues PROVE FrontOK(q)'
  <2> SUFFICES ASSUME pending[q] # <<>>, NEW op, op = pending[q][1]
               PROVE  /\ mutex'[q] = Nobody => op.armed /\ ~op.wait_completed
                      /\ Arming(q)' => op.armed /\ ~op.wait_completed
                      /\ op.armed /\ ~op.wait_completed /\ ~Arming(q)' => Watched(op.id)'
    BY DEF FrontOK
  <2>1. /\ mutex[q] = Nobody => op.armed /\ ~op.wait_completed
        /\ Arming(q) => op.armed /\ ~op.wait_completed
        /\ op.armed /\ ~op.wait_completed /\ ~Arming(q) => Watched(op.id)
    BY DEF WatchOK, FrontOK
  <2>2. op.id \in Ids
    <3>1. pending[q] \in Seq(Op)
      BY DEF TypeOK
    <3>2. op \in Op
      BY <3>1
    <3> QED BY <3>2, OpFacts
  <2>3. Arming(q)' <=> Arming(q)
    BY DEF ArmsKept
  <2>4. Watched(op.id) => Watched(op.id)'
    BY <2>2 DEF WatchedKept
  <2> QED BY <2>1, <2>3, <2>4
<1>2. \A q \in Queues : Arming(q)' => pending[q] # <<>>
  BY DEF ArmsKept, WatchOK
<1>3. ASSUME NEW i \in Ids, Seen(i)' PROVE Armed(i)'
  <2>1. Armed(i)
    BY <1>3 DEF SeenKept, WatchOK
  <2>2. PICK q \in Queues : \E j \in DOMAIN order[q] :
          /\ order[q][j] = i
          /\ \/ j <= Popped(q)
             \/ j = Popped(q) + 1 /\ pending[q][1].armed /\ ~Arming(q)
    BY <2>1 DEF Armed
  <2>3. Popped(q)' = Popped(q) /\ (Arming(q)' <=> Arming(q))
    BY DEF Popped, ArmsKept
  <2> QED BY <2>2, <2>3 DEF Armed
<1> QED BY <1>1, <1>2, <1>3 DEF WatchOK

LEMMA WaitFacts ==
  ASSUME TypeOK, NEW i \in Ids, info[i].type = "Wait"
  PROVE  info[i] \in Op /\ info[i].f \in Fences /\ info[i].v \in Nat /\ info[i].q \in Queues
<1>1. info[i] \in Op
  <2>1. NoOp.type # "Wait"
    BY DEF NoOp
  <2> QED BY <2>1 DEF TypeOK
<1> QED BY <1>1, OpFacts, Numbers

LEMMA WaitReachedKept ==
  ASSUME TypeOK, TypeOK', Grows, NEW i \in Ids, WaitReached(i), info'[i] = info[i]
  PROVE  WaitReached(i)'
<1>1. info[i].f \in Fences /\ info[i].v \in Nat
  BY WaitFacts DEF WaitReached
<1>2. SUFFICES ASSUME NEW f \in Fences, NEW v \in Nat, f = info[i].f, v = info[i].v
               PROVE  Reached(f, v)'
  BY <1>1 DEF WaitReached, Reached
<1> QED BY <1>2, ReachedKept DEF WaitReached

LEMMA FrameTrueKept ==
  ASSUME TypeOK, TypeOK', Grows, NEW fr \in Frame, FrameTrue(fr),
         \A i \in Ids : info[i] # NoOp => info'[i] = info[i]
  PROVE  FrameTrue(fr)'
<1>1. NoOp.type # "Wait"
  BY DEF NoOp
<1>2. ASSUME fr.at = "post" PROVE Reached(fr.f, fr.v)'
  BY <1>2, FrameFacts, ReachedKept, Numbers DEF FrameTrue
<1>3. ASSUME fr.at = "lock", fr.cb # 0 PROVE WaitReached(fr.cb)' /\ fr.q = info'[fr.cb].q
  <2>1. fr.cb \in Ids
    BY <1>3, FrameFacts, QueueAssumption DEF Ids
  <2>2. WaitReached(fr.cb) /\ fr.q = info[fr.cb].q /\ info'[fr.cb] = info[fr.cb]
    BY <1>1, <1>3, <2>1 DEF FrameTrue, WaitReached
  <2> QED BY <2>1, <2>2, WaitReachedKept
<1>4. ASSUME fr.at = "run", NEW i \in fr.cbs PROVE WaitReached(i)'
  <2>1. i \in Ids
    BY <1>4, FrameFacts
  <2>2. WaitReached(i) /\ info'[i] = info[i]
    BY <1>1, <1>4, <2>1 DEF FrameTrue, WaitReached
  <2> QED BY <2>1, <2>2, WaitReachedKept
<1> QED BY <1>2, <1>3, <1>4 DEF FrameTrue, WaitReached, Reached

LEMMA FramesTrueKept ==
  ASSUME TypeOK, TypeOK', Grows, FrameValues,
         \A i \in Ids : info[i] # NoOp => info'[i] = info[i],
         NEW t \in Threads, NEW new, NEW d, Moved(t, new, d),
         \A k \in DOMAIN new : FrameTrue(new[k])'
  PROVE  FrameValues'
<1> SUFFICES ASSUME NEW u \in Threads, NEW k \in DOMAIN stack'[u], NEW fr, fr = stack'[u][k]
             PROVE  FrameTrue(fr)'
  BY DEF FrameValues, FrameTrue, WaitReached, Reached
<1>1. CASE \E l \in DOMAIN stack[u] : stack'[u][k] = stack[u][l]
  <2>1. fr \in Frame /\ FrameTrue(fr)
    BY <1>1, StackTyped DEF FrameValues
  <2> QED BY <2>1, FrameTrueKept
<1>2. CASE k \in DOMAIN new /\ stack'[u][k] = new[k]
  BY <1>2 DEF FrameTrue, WaitReached, Reached
<1> QED BY <1>1, <1>2, MovedFrames

LEMMA EnqueuersMoved ==
  ASSUME TypeOK, StacksOK, NEW t \in Threads, NEW new, NEW d, Moved(t, new, d),
         new = <<>> => d = 1, new # <<>> => new[1].at # "lock" \/ new[1].cb # 0
  PROVE  EnqueuersKept
<1> SUFFICES ASSUME NEW u \in Threads, Enqueuing(u)'
             PROVE  Enqueuing(u) /\ stack'[u][1] = stack[u][1]
  BY DEF EnqueuersKept
<1>1. /\ u # t => stack'[u] = stack[u] /\ (At(u, "lock")' <=> At(u, "lock"))
      /\ u = t => (At(u, "lock")' <=> new # <<>> /\ new[1].at = "lock")
      /\ u = t /\ new # <<>> => stack'[u][1] = new[1]
  BY MovedHeads
<1> QED BY <1>1 DEF Enqueuing

LEMMA CommitsMoved ==
  ASSUME TypeOK, StacksOK, NEW t \in Threads, NEW new, NEW d, Moved(t, new, d),
         new = <<>> => d = 1, ~At(t, "commit"), new # <<>> => new[1].at # "commit"
  PROVE  CommitsKept
<1> SUFFICES ASSUME NEW u \in Threads
             PROVE  /\ At(u, "commit")' <=> At(u, "commit")
                    /\ At(u, "commit") => stack'[u][1] = stack[u][1]
  BY DEF CommitsKept
<1>1. /\ u # t => stack'[u] = stack[u] /\ (At(u, "commit")' <=> At(u, "commit"))
      /\ u = t => (At(u, "commit")' <=> new # <<>> /\ new[1].at = "commit")
  BY MovedHeads
<1> QED BY <1>1

(* A step that neither runs, registers nor resumes a callback.             *)
LEMMA WatchersMoved ==
  ASSUME TypeOK, StacksOK, NEW t \in Threads, NEW new, NEW d, Moved(t, new, d),
         new = <<>> => d = 1,
         d = 0 => stack[t] = <<>> \/ At(t, "drain"),
         stack[t] = <<>> => t \notin Ids,
         d = 1 => /\ stack[t][1].at \notin {"run", "arm"}
                  /\ stack[t][1].at = "lock" => stack[t][1].cb = 0,
         new # <<>> => new[1].at # "arm" /\ (new[1].at = "lock" => new[1].cb = 0),
         \A k \in DOMAIN new : new[k].at = "run" => \A i \in new[k].cbs : Seen(i),
         UNCHANGED <<fired, listening>>,
         \A f \in Fences : callbacks'[f] \subseteq callbacks[f]
  PROVE  ArmsKept /\ WatchedKept /\ SeenKept
<1>1. /\ stack[t] \in Seq(Frame) /\ Len(stack[t]) \in Nat /\ DOMAIN stack[t] = 1 .. Len(stack[t])
      /\ stack[t] # <<>> <=> Len(stack[t]) >= 1
      /\ stack[t] # <<>> => Head(stack[t]) = stack[t][1]
  BY StackTyped
<1>2. d \in {0, 1} /\ (d = 1 => stack[t] # <<>>)
  BY <1>1 DEF Moved
<1>3. ~At(t, "arm") /\ \A i \in Ids : ~Resuming(t, i)
  BY <1>1, <1>2 DEF At, Resuming
<1>4. ASSUME NEW q \in Queues, NEW u \in Threads PROVE Busy(u, "arm", q)' <=> Busy(u, "arm", q)
  <2>1. /\ u # t => stack'[u] = stack[u] /\ (At(u, "arm")' <=> At(u, "arm"))
        /\ u = t => (At(u, "arm")' <=> new # <<>> /\ new[1].at = "arm")
    BY MovedHeads
  <2> QED BY <1>3, <2>1 DEF Busy
<1>5. ArmsKept
  <2> SUFFICES ASSUME NEW q \in Queues PROVE Arming(q)' <=> Arming(q)
    BY DEF ArmsKept
  <2> QED BY <1>4 DEF Arming
<1>6. ASSUME NEW i \in Ids, NEW u \in Threads PROVE Resuming(u, i)' <=> Resuming(u, i)
  <2>1. /\ u # t => stack'[u] = stack[u] /\ (At(u, "lock")' <=> At(u, "lock"))
        /\ u = t => (At(u, "lock")' <=> new # <<>> /\ new[1].at = "lock")
        /\ u = t /\ new # <<>> => stack'[u][1] = new[1]
    BY MovedHeads
  <2> QED BY <1>3, <2>1 DEF Resuming
<1>7. ASSUME NEW i \in Ids, InRun(i) PROVE InRun(i)'
  <2>1. PICK u \in Threads : \E k \in DOMAIN stack[u] : stack[u][k].at = "run" /\ i \in stack[u][k].cbs
    BY <1>7 DEF InRun
  <2>2. PICK l \in DOMAIN stack[u] : stack[u][l].at = "run" /\ i \in stack[u][l].cbs
    BY <2>1
  <2>3. u = t => l > d
    BY <1>1, <1>2, <2>2
  <2>4. \E k \in DOMAIN stack'[u] : stack'[u][k] = stack[u][l]
    BY <2>3, MovedFrames
  <2> QED BY <2>2, <2>4 DEF InRun
<1>8. WatchedKept
  <2> SUFFICES ASSUME NEW i \in Ids, Watched(i) PROVE Watched(i)'
    BY DEF WatchedKept
  <2>1. CASE i \in fired
    <3>1. PICK u \in Threads : Resuming(u, i)
      BY <2>1 DEF Watched
    <3>2. Resuming(u, i)'
      BY <1>6, <3>1
    <3> QED BY <2>1, <3>2 DEF Watched
  <2>2. CASE i \notin fired
    BY <1>7, <2>2 DEF Watched
  <2> QED BY <2>1, <2>2
<1>9. ASSUME NEW i \in Ids, InRun(i)' PROVE Seen(i)
  <2>1. PICK u \in Threads : \E k \in DOMAIN stack'[u] :
          stack'[u][k].at = "run" /\ i \in stack'[u][k].cbs
    BY <1>9 DEF InRun
  <2>2. PICK k \in DOMAIN stack'[u] : stack'[u][k].at = "run" /\ i \in stack'[u][k].cbs
    BY <2>1
  <2>3. CASE \E l \in DOMAIN stack[u] : stack'[u][k] = stack[u][l]
    BY <2>2, <2>3 DEF Seen, InRun
  <2>4. CASE k \in DOMAIN new /\ stack'[u][k] = new[k]
    BY <2>2, <2>4
  <2> QED BY <2>3, <2>4, MovedFrames
<1>10. ASSUME NEW i \in Ids, stack'[i] # <<>> PROVE stack[i] # <<>>
  BY <1>10 DEF Moved, Threads
<1>11. SeenKept
  <2> SUFFICES ASSUME NEW i \in Ids, Seen(i)' PROVE Seen(i)
    BY DEF SeenKept
  <2>1. CASE i \in listening' \/ i \in fired' \/ stack'[i] # <<>> \/ \E f \in Fences : i \in callbacks'[f]
    BY <1>10, <2>1 DEF Seen
  <2>2. CASE InRun(i)'
    BY <1>9, <2>2
  <2>3. CASE \E u \in Threads : Resuming(u, i)'
    BY <1>6, <2>3 DEF Seen
  <2> QED BY <2>1, <2>2, <2>3 DEF Seen
<1> QED BY <1>5, <1>8, <1>11

LEMMA FencesKept ==
  ASSUME TypeOK, TypeOK', FenceValues, Grows,
         \A i \in Ids : info[i] # NoOp => info'[i] = info[i],
         \A f \in Fences : event'[f] = event[f] \/ signaled'[f].max >= event'[f],
         \A f \in Fences : completed'[f] = completed[f] \/ signaled'[f].max >= completed'[f],
         \A f \in Fences : \A i \in callbacks'[f] :
           i \in callbacks[f] \/ (info[i].type = "Wait" /\ info[i].f = f),
         \A i \in listening' : i \in listening \/ info[i].type = "Wait",
         \A i \in notified' : \/ i \in notified
                              \/ info[i].type = "Wait" /\ signaled'[info[i].f].max >= info[i].v
  PROVE  FenceValues'
<1>1. NoOp.type # "Wait"
  BY DEF NoOp
<1>2. \A i \in Ids : info[i].type = "Wait" => info'[i] = info[i]
  BY <1>1
<1>3. ASSUME NEW f \in Fences PROVE signaled'[f].max >= event'[f] /\ signaled'[f].max >= completed'[f]
  <2>1. Reached(f, event[f]) /\ Reached(f, completed[f]) /\ event[f] \in Nat /\ completed[f] \in Nat
    BY Numbers DEF FenceValues
  <2>2. Reached(f, event[f]) => signaled'[f].max >= event[f]
    <3> SUFFICES ASSUME NEW v \in Nat, v = event[f], Reached(f, v) PROVE Reached(f, v)'
      BY <2>1 DEF Reached
    <3> QED BY ReachedKept
  <2>3. Reached(f, completed[f]) => signaled'[f].max >= completed[f]
    <3> SUFFICES ASSUME NEW v \in Nat, v = completed[f], Reached(f, v) PROVE Reached(f, v)'
      BY <2>1 DEF Reached
    <3> QED BY ReachedKept
  <2> QED BY <2>1, <2>2, <2>3
<1>4. ASSUME NEW f \in Fences, NEW i \in callbacks'[f] PROVE info'[i].type = "Wait" /\ info'[i].f = f
  <2>1. i \in Ids
    BY DEF TypeOK
  <2> QED BY <1>2, <2>1 DEF FenceValues
<1>5. ASSUME NEW i \in listening' PROVE info'[i].type = "Wait"
  <2>1. i \in Ids
    BY DEF TypeOK
  <2> QED BY <1>2, <2>1 DEF FenceValues
<1>6. ASSUME NEW i \in notified' PROVE WaitReached(i)'
  <2>1. i \in Ids
    BY DEF TypeOK
  <2>2. CASE i \in notified
    BY <1>1, <2>1, <2>2, WaitReachedKept DEF FenceValues, WaitReached
  <2>3. CASE info[i].type = "Wait" /\ signaled'[info[i].f].max >= info[i].v
    BY <1>2, <2>1, <2>3 DEF WaitReached, Reached
  <2> QED BY <2>2, <2>3
<1> QED BY <1>3, <1>4, <1>5, <1>6 DEF FenceValues, Reached, WaitReached

LEMMA FlightValuesKept ==
  ASSUME TypeOK, TypeOK', FlightValues, Grows, UNCHANGED <<flight, gpu_done>>
  PROVE  FlightValues'
<1> SUFFICES ASSUME NEW k \in 1 .. gpu_done, NEW f, NEW v, f = flight[k].f, v = flight[k].v,
                    flight[k].type = "Signal"
             PROVE  Reached(f, v)'
  BY DEF FlightValues, Reached
<1>1. k \in DOMAIN flight
  BY Numbers DEF TypeOK
<1>2. flight[k] \in Op
  BY <1>1, Numbers
<1>3. f \in Fences /\ v \in Nat
  BY <1>2, OpFacts, Numbers
<1>4. Reached(f, v)
  BY DEF FlightValues
<1> QED BY <1>3, <1>4, ReachedKept

LEMMA SignalsKept ==
  ASSUME SignalCoversWork, UNCHANGED <<order, info, executed>>
  PROVE  SignalCoversWork'
BY DEF SignalCoversWork, Before

LEMMA StillGrows ==
  ASSUME TypeOK, signaled' = signaled
  PROVE  Grows
<1>1. \A f \in Fences : signaled[f].max \in Nat
  BY Numbers
<1> QED BY <1>1 DEF Grows

(* A step of t that leaves the queues, and the callbacks of waits, alone.  *)
LEMMA CalmStep ==
  ASSUME SubmissionInv, TypeOK', StacksOK',
         NEW t \in Threads, NEW new, NEW d, Moved(t, new, d),
         new = <<>> => d = 1,
         d = 0 => stack[t] = <<>> \/ At(t, "drain"),
         stack[t] = <<>> => t \notin Ids,
         d = 1 => stack[t][1].at \notin {"run", "arm", "lock"},
         new # <<>> => new[1].at \notin {"arm", "lock"},
         \A k \in DOMAIN new : new[k].at = "run" => \A i \in new[k].cbs : Seen(i),
         UNCHANGED <<pending, order, mutex, info, submitted, fired, listening>>,
         \A f \in Fences : callbacks'[f] \subseteq callbacks[f],
         calls' >= calls, Grows,
         \A k \in DOMAIN new : FrameTrue(new[k])',
         FenceValues', FlightValues', FlightOK', SignalCoversWork'
  PROVE  SubmissionInv'
<1>1. /\ TypeOK /\ StacksOK /\ OrdersOK /\ FrameValues /\ WatchOK
      /\ \A q \in Queues : PendingOK(q)
  BY DEF SubmissionInv
<1>2. calls' \in Nat
  BY QueueAssumption DEF TypeOK
<1>3. ArmsKept /\ WatchedKept /\ SeenKept
  BY <1>1, WatchersMoved
<1>4. EnqueuersKept
  BY <1>1, EnqueuersMoved
<1>5. FrameValues'
  BY <1>1, FramesTrueKept
<1>6. ASSUME NEW q \in Queues PROVE PendingOK(q)'
  <2>1. PendingOK(q)
    BY <1>1
  <2>2. \A k \in DOMAIN pending[q] : pending[q][k].id \notin submitted
    BY <2>1 DEF PendingOK
  <2> QED BY <1>1, <2>1, <2>2, PendingKept
<1>7. OrdersOK'
  BY <1>1, <1>2, <1>4, OrdersKept
<1>8. WatchOK'
  BY <1>1, <1>3, WatchesKept
<1> QED BY <1>5, <1>6, <1>7, <1>8 DEF SubmissionInv

-----------------------------------------------------------------------------
(* The steps of dxmt::CommandQueue and of fences.                          *)

LEMMA HeadFacts ==
  ASSUME TypeOK, NEW t \in Threads, NEW w, At(t, w)
  PROVE  /\ stack[t] # <<>> /\ Head(stack[t]) = stack[t][1] /\ stack[t][1] \in Frame
         /\ stack[t][1].at = w /\ 1 \in DOMAIN stack[t]
BY StackTyped DEF At

LEMMA PostValueStep ==
  ASSUME SubmissionInv, NEW t \in Threads, PostValue(t)
  PROVE  SubmissionInv'
<1>1. /\ TypeOK /\ StacksOK /\ FenceValues /\ FrameValues /\ FlightValues /\ FlightOK
      /\ SignalCoversWork
  BY DEF SubmissionInv
<1>2. At(t, "post")
  BY DEF PostValue
<1>3. /\ stack[t] # <<>> /\ Head(stack[t]) = stack[t][1] /\ stack[t][1] \in Frame
      /\ stack[t][1].at = "post" /\ 1 \in DOMAIN stack[t]
  BY <1>1, <1>2, HeadFacts
<1> SUFFICES ASSUME NEW f, NEW v, f = stack[t][1].f, v = stack[t][1].v PROVE SubmissionInv'
  OBVIOUS
<1>4. f \in Fences /\ v \in Values \cup {0} /\ Reached(f, v)
  BY <1>1, <1>3, FrameFacts DEF FrameValues, FrameTrue
<1>5. /\ event' = [event EXCEPT ![f] = v]
      /\ notified' = notified \cup {i \in listening : info[i].f = f /\ info[i].v <= v}
      /\ stack' = Return(t)
      /\ UNCHANGED <<calls, requested, info, pending, mutex, batches, has_waited>>
      /\ UNCHANGED <<manual, completed, callbacks, fired, listening>>
      /\ UNCHANGED <<recording, flight, gpu_done, ongoing, allocator>>
      /\ UNCHANGED <<order, submitted, executed, signaled>>
  BY <1>3 DEF PostValue, SignalValue, client, queues, pipeline, history
<1>6. Moved(t, <<>>, 1) /\ stack' \in [Threads -> Seq(Frame)]
  BY <1>1, <1>3, <1>5, ReturnMoves
<1>7. TypeOK'
  BY <1>1, <1>4, <1>5, <1>6 DEF TypeOK
<1>8. StacksOK'
  <2>1. t \notin listening
    BY <1>1, <1>3 DEF StacksOK
  <2>2. gpu_done \in Int /\ listening \subseteq Ids
    BY <1>1, Numbers DEF TypeOK
  <2> QED BY <1>1, <1>2, <1>3, <1>5, <1>6, <2>1, <2>2, StacksKept DEF At
<1>9. Grows
  BY <1>1, <1>5, StillGrows
<1>10. FenceValues'
  <2>1. \A g \in Fences : event'[g] = event[g] \/ signaled'[g].max >= event'[g]
    BY <1>1, <1>4, <1>5 DEF TypeOK, Reached
  <2>2. ASSUME NEW i \in notified', i \notin notified
        PROVE  info[i].type = "Wait" /\ signaled'[info[i].f].max >= info[i].v
    <3>1. i \in listening /\ info[i].f = f /\ info[i].v <= v
      BY <1>5, <2>2
    <3>2. info[i].type = "Wait" /\ i \in Ids
      BY <1>1, <3>1 DEF FenceValues, TypeOK
    <3>3. info[i].v \in Nat /\ signaled[f].max \in Nat /\ v \in Nat
      BY <1>1, <1>4, <3>2, WaitFacts, Numbers
    <3> QED BY <1>4, <1>5, <3>1, <3>2, <3>3 DEF Reached
  <2> QED BY <1>1, <1>5, <1>7, <1>9, <2>1, <2>2, FencesKept
<1>11. FlightValues' /\ SignalCoversWork'
  BY <1>1, <1>5, <1>7, <1>9, FlightValuesKept, SignalsKept
<1>12. FlightOK'
  <2>1. CommitsKept
    BY <1>1, <1>3, <1>6, CommitsMoved DEF At
  <2> QED BY <1>1, <1>5, <2>1, FlightKept
<1>13. calls' >= calls
  BY <1>1, <1>5, Numbers
<1> QED BY <1>3, <1>5, <1>6, <1>7, <1>8, <1>9, <1>10, <1>11, <1>12, <1>13, CalmStep

LEMMA SignaledGrows ==
  ASSUME TypeOK, NEW f \in Fences, NEW v \in Values \cup {0}, Signaled(f, v)
  PROVE  /\ signaled' \in [Fences -> [last : Values \cup {0}, max : Values \cup {0}]]
         /\ Grows /\ signaled'[f].max >= v
<1>1. /\ signaled \in [Fences -> [last : Values \cup {0}, max : Values \cup {0}]]
      /\ \A g \in Fences : signaled[g].max \in Nat /\ signaled[g].max \in Values \cup {0}
      /\ v \in Nat
  BY Numbers DEF TypeOK
<1>2. signaled' = [signaled EXCEPT ![f] =
                     [last |-> v, max |-> IF v > signaled[f].max THEN v ELSE signaled[f].max]]
  BY DEF Signaled
<1> SUFFICES ASSUME NEW m, m = IF v > signaled[f].max THEN v ELSE signaled[f].max
             PROVE  /\ signaled' \in [Fences -> [last : Values \cup {0}, max : Values \cup {0}]]
                    /\ Grows /\ signaled'[f].max >= v
  OBVIOUS
<1>3. m \in Values \cup {0} /\ m >= v /\ m >= signaled[f].max
  BY <1>1
<1>4. /\ signaled' \in [Fences -> [last : Values \cup {0}, max : Values \cup {0}]]
      /\ signaled'[f].max = m /\ \A g \in Fences : g # f => signaled'[g] = signaled[g]
  BY <1>1, <1>2, <1>3
<1>5. Grows
  BY <1>1, <1>3, <1>4 DEF Grows
<1> QED BY <1>3, <1>4, <1>5

LEMMA ThrottleSteps ==
  ASSUME SubmissionInv, NEW t \in Threads, Throttle(t) \/ CountOngoing(t)
  PROVE  SubmissionInv'
<1>1. /\ TypeOK /\ StacksOK /\ FenceValues /\ FrameValues /\ FlightValues /\ FlightOK
      /\ SignalCoversWork
  BY DEF SubmissionInv
<1>2. /\ UNCHANGED <<calls, requested, info, pending, mutex, batches, has_waited>>
      /\ UNCHANGED <<event, manual, completed, callbacks, fired, listening, notified>>
      /\ UNCHANGED <<recording, flight, gpu_done, allocator>>
      /\ UNCHANGED <<order, submitted, executed, signaled>>
      /\ ongoing' \in {ongoing, ongoing + 1}
  BY DEF Throttle, CountOngoing, client, queues, fences, pipeline, history
<1>3. At(t, "throttle") \/ At(t, "count")
  BY DEF Throttle, CountOngoing
<1>4. /\ stack[t] # <<>> /\ stack[t][1] \in Frame
      /\ stack[t][1].at \in {"throttle", "count"} /\ 1 \in DOMAIN stack[t]
      /\ Head(stack[t]) = stack[t][1]
  BY <1>1, <1>3, HeadFacts
<1> SUFFICES ASSUME NEW new, new = <<>> \/ new = <<Uncounted>>,
                    Moved(t, new, 1), stack' \in [Threads -> Seq(Frame)]
             PROVE  SubmissionInv'
  <2>1. CASE Throttle(t)
    BY <1>1, <1>4, <2>1, GotoMoves, FramesMade DEF Throttle
  <2>2. CASE CountOngoing(t)
    BY <1>1, <1>4, <2>2, ReturnMoves DEF CountOngoing
  <2> QED BY <2>1, <2>2
<1>5. /\ DOMAIN new = 1 .. Len(new) /\ \A k \in DOMAIN new : k = 1 /\ new[k].at = "count"
      /\ new # <<>> => new[1].at = "count"
  BY DEF Uncounted
<1>6. TypeOK'
  BY <1>1, <1>2 DEF TypeOK
<1>7. StacksOK'
  <2>1. t \notin listening
    BY <1>1, <1>4 DEF StacksOK
  <2>2. gpu_done \in Int /\ listening \subseteq Ids /\ gpu_done' >= gpu_done
    BY <1>1, <1>2, Numbers DEF TypeOK
  <2>3. ~At(t, "commit")
    BY <1>4 DEF At
  <2> QED BY <1>1, <1>2, <1>4, <1>5, <2>1, <2>2, <2>3, StacksKept DEF Draining
<1>8. Grows
  BY <1>1, <1>2, StillGrows
<1>9. FenceValues'
  BY <1>1, <1>2, <1>6, <1>8, FencesKept
<1>10. FlightValues' /\ SignalCoversWork'
  BY <1>1, <1>2, <1>6, <1>8, FlightValuesKept, SignalsKept
<1>11. FlightOK'
  <2>1. CommitsKept
    BY <1>1, <1>4, <1>5, CommitsMoved DEF At
  <2> QED BY <1>1, <1>2, <2>1, FlightKept
<1>12. calls' >= calls
  BY <1>1, <1>2, Numbers
<1>13. \A k \in DOMAIN new : FrameTrue(new[k])'
  BY <1>5 DEF FrameTrue
<1> QED BY <1>2, <1>4, <1>5, <1>6, <1>7, <1>8, <1>9, <1>10, <1>11, <1>12, <1>13, CalmStep

(* What was handed over has left the queue, and so has what precedes it.   *)
LEMMA SubmittedPopped ==
  ASSUME TypeOK, NEW q \in Queues, PendingOK(q), NEW j \in DOMAIN order[q], order[q][j] \in submitted
  PROVE  /\ j \in 1 .. Popped(q) /\ Work(q, j) \subseteq submitted
<1>1. /\ Len(pending[q]) \in Nat /\ DOMAIN pending[q] = 1 .. Len(pending[q])
      /\ Len(order[q]) \in Nat /\ DOMAIN order[q] = 1 .. Len(order[q])
  BY Numbers
<1>2. Popped(q) \in Nat /\ Popped(q) + Len(pending[q]) = Len(order[q])
  BY <1>1 DEF Popped, PendingOK
<1>3. j \in 1 .. Popped(q)
  <2> SUFFICES ASSUME j > Popped(q), NEW k, k = j - Popped(q) PROVE FALSE
    BY <1>1, <1>2
  <2>1. k \in DOMAIN pending[q] /\ Popped(q) + k = j
    BY <1>1, <1>2
  <2>2. pending[q][k].id = order[q][Popped(q) + k] /\ pending[q][k].id \notin submitted
    BY <2>1 DEF PendingOK
  <2> QED BY <2>1, <2>2
<1>4. ASSUME NEW i \in 1 .. j - 1, info[order[q][i]].type = "Execute" PROVE order[q][i] \in submitted
  <2>1. i \in 1 .. Popped(q)
    BY <1>2, <1>3
  <2> QED BY <1>4, <2>1 DEF PendingOK
<1> QED BY <1>3, <1>4 DEF Work

LEMMA PublishStep ==
  ASSUME SubmissionInv, NEW t \in Threads, Publish(t)
  PROVE  SubmissionInv'
<1>1. /\ TypeOK /\ StacksOK /\ FenceValues /\ FrameValues /\ FlightValues /\ FlightOK
      /\ SignalCoversWork /\ OrdersOK /\ \A q \in Queues : PendingOK(q)
  BY DEF SubmissionInv
<1>2. At(t, "commit")
  BY DEF Publish
<1>3. /\ stack[t] # <<>> /\ stack[t][1] \in Frame /\ Head(stack[t]) = stack[t][1]
      /\ stack[t][1].at = "commit" /\ 1 \in DOMAIN stack[t]
  BY <1>1, <1>2, HeadFacts
<1> SUFFICES ASSUME NEW op, op = stack[t][1].op PROVE SubmissionInv'
  OBVIOUS
<1>4. op \in Op /\ op.id \in submitted /\ IsOp(op)
  BY <1>1, <1>2, <1>3, FrameFacts DEF FlightOK
<1>5. /\ flight' = Append(flight, op) /\ recording' = recording \ {t}
      /\ stack' = Goto(t, Throttled)
      /\ UNCHANGED <<calls, requested, info, pending, mutex, batches, has_waited>>
      /\ UNCHANGED <<event, manual, completed, callbacks, fired, listening, notified>>
      /\ UNCHANGED <<gpu_done, ongoing, allocator>>
      /\ UNCHANGED <<order, submitted, executed, signaled>>
  BY <1>3 DEF Publish, client, queues, fences, history
<1>6. Moved(t, <<Throttled>>, 1) /\ stack' \in [Threads -> Seq(Frame)]
  BY <1>1, <1>3, <1>5, GotoMoves, FramesMade
<1> SUFFICES ASSUME NEW new, new = <<Throttled>> PROVE SubmissionInv'
  OBVIOUS
<1>7. DOMAIN new = {1} /\ new # <<>> /\ new[1].at = "throttle" /\ Moved(t, new, 1)
  BY <1>6 DEF Throttled
<1> SUFFICES ASSUME NEW n, n = Len(flight) PROVE SubmissionInv'
  OBVIOUS
<1>8. /\ n \in Nat /\ DOMAIN flight = 1 .. n /\ gpu_done \in 0 .. n
      /\ flight' \in Seq(Op) /\ Len(flight') = n + 1 /\ DOMAIN flight' = 1 .. n + 1
      /\ flight'[n + 1] = op /\ \A k \in 1 .. n : flight'[k] = flight[k]
  <2>1. flight \in Seq(Op) /\ gpu_done \in 0 .. n
    BY <1>1 DEF TypeOK
  <2>2. op \in Op /\ flight' = Append(flight, op) /\ n = Len(flight)
    BY <1>4, <1>5
  <2> QED BY ONLY <2>1, <2>2, AppendFacts
<1>9. TypeOK'
  <2>1. gpu_done' \in 0 .. Len(flight')
    BY <1>5, <1>8
  <2>2. recording' \subseteq Threads
    BY <1>1, <1>5 DEF TypeOK
  <2> QED BY <1>1, <1>5, <1>6, <1>8, <2>1, <2>2 DEF TypeOK
<1>10. StacksOK'
  <2>1. t \notin listening
    BY <1>1, <1>3 DEF StacksOK
  <2>2. gpu_done \in Int /\ listening \subseteq Ids /\ gpu_done' >= gpu_done
    BY <1>1, <1>5, <1>8 DEF TypeOK
  <2> QED BY <1>1, <1>3, <1>5, <1>7, <2>1, <2>2, StacksKept DEF Draining
<1>11. Grows
  BY <1>1, <1>5, StillGrows
<1>12. FenceValues'
  BY <1>1, <1>5, <1>9, <1>11, FencesKept
<1>13. FlightValues' /\ SignalCoversWork'
  <2>1. SignalCoversWork'
    BY <1>1, <1>5, SignalsKept
  <2>2. \A k \in 1 .. gpu_done : k \in 1 .. n
    BY <1>8
  <2> QED BY <1>1, <1>5, <1>8, <2>1, <2>2 DEF FlightValues, Reached
<1>14. FlightOK'
  <2>1. \A u \in Threads : At(u, "commit") => u = t
    BY <1>1, <1>2 DEF StacksOK
  <2>2. ASSUME NEW u \in Threads PROVE ~At(u, "commit")'
    BY <1>1, <1>7, <2>1, MovedHeads
  <2>3. ASSUME NEW k \in DOMAIN flight'
        PROVE  /\ flight'[k].id \in submitted /\ IsOp(flight[k])'
               /\ k <= gpu_done => flight'[k].id \in executed
    <3>0. info' = info /\ submitted' = submitted /\ executed' = executed /\ gpu_done' = gpu_done
      BY <1>5
    <3>1. CASE k \in 1 .. n
      <4>1. k \in DOMAIN flight /\ flight'[k] = flight[k]
        BY <1>8, <3>1
      <4>2. /\ flight[k].id \in submitted /\ IsOp(flight[k])
            /\ k <= gpu_done => flight[k].id \in executed
        BY <1>1, <4>1, FlightEntry
      <4> QED BY ONLY <3>0, <4>1, <4>2 DEF IsOp
    <3>2. CASE k = n + 1
      <4>1. flight'[k] = op /\ ~(k <= gpu_done)
        BY <1>8, <3>2
      <4> QED BY ONLY <1>4, <3>0, <4>1 DEF IsOp
    <3> QED BY <1>8, <3>1, <3>2
  <2>4. ASSUME NEW i \in submitted \ executed
        PROVE  \E k \in DOMAIN flight' : k > gpu_done /\ flight'[k].id = i
    <3>1. CASE \E k \in DOMAIN flight : k > gpu_done /\ flight[k].id = i
      BY <1>8, <3>1
    <3>2. CASE \E u \in Threads : At(u, "commit") /\ stack[u][1].op.id = i
      <4>1. op.id = i
        BY <2>1, <3>2
      <4>2. n + 1 \in DOMAIN flight' /\ n + 1 > gpu_done
        BY <1>8
      <4> QED BY <1>8, <4>1, <4>2
    <3> QED BY <1>1, <3>1, <3>2 DEF FlightOK
  <2>5. ASSUME NEW q \in Queues, NEW j \in DOMAIN order[q], NEW k \in DOMAIN flight',
               flight'[k].id = order[q][j], NEW w \in Work(q, j)
        PROVE  w \in executed \/ \E m \in 1 .. k - 1 : flight'[m].id = w
    <3>1. CASE k \in 1 .. n
      <4>1. w \in executed \/ \E m \in 1 .. k - 1 : flight[m].id = w
        BY <1>1, <1>8, <2>5, <3>1 DEF FlightOK
      <4>2. \A m \in 1 .. k - 1 : m \in 1 .. n
        BY <1>8, <3>1
      <4> QED BY <1>8, <4>1, <4>2
    <3>2. CASE k = n + 1
      <4>1. op.id = order[q][j] /\ order[q][j] \in submitted
        BY <1>4, <1>8, <2>5, <3>2
      <4>2. w \in submitted
        BY <1>1, <4>1, SubmittedPopped
      <4>3. PICK i \in 1 .. j - 1 : w = order[q][i]
        BY DEF Work
      <4>4. i \in DOMAIN order[q] /\ i # j
        BY <1>1, Numbers
      <4>5. w # op.id
        BY <1>1, <4>1, <4>3, <4>4 DEF OrdersOK
      <4>6. w \in executed \/ \E m \in DOMAIN flight : flight[m].id = w
        BY <1>1, <2>1, <4>2, <4>5 DEF FlightOK
      <4>7. k - 1 = n
        BY <1>8, <3>2
      <4> QED BY <1>8, <4>6, <4>7
    <3> QED BY <1>8, <3>1, <3>2
  <2>6. ASSUME NEW q \in Queues, NEW j \in DOMAIN order[q]
        PROVE  /\ order[q][j] \in submitted /\ info[order[q][j]].type = "Execute" => batches[q]
               /\ \A k \in DOMAIN flight' : flight'[k].id = order[q][j] =>
                    Work(q, j) \subseteq executed \cup {flight'[m].id : m \in 1 .. k - 1}
    BY <1>1, <2>5 DEF FlightOK
  <2>7. executed \subseteq submitted
    BY <1>1 DEF FlightOK
  <2> QED BY <1>5, <2>2, <2>3, <2>4, <2>6, <2>7 DEF FlightOK, Work, At
<1>15. calls' >= calls
  BY <1>1, <1>5, Numbers
<1>16. \A k \in DOMAIN new : FrameTrue(new[k])'
  BY <1>7 DEF FrameTrue
<1> QED BY <1>3, <1>5, <1>7, <1>9, <1>10, <1>11, <1>12, <1>13, <1>14, <1>15, <1>16, CalmStep

LEMMA CompleteFacts ==
  ASSUME TypeOK, NEW f \in Fences, NEW v \in Values \cup {0}, Complete(f, v)
  PROVE  /\ completed' \in [Fences -> Values \cup {0}] /\ manual' \in [Fences -> BOOLEAN]
         /\ callbacks' \in [Fences -> SUBSET Ids]
         /\ completed'[f] = v /\ \A g \in Fences : g # f => completed'[g] = completed[g]
         /\ \A g \in Fences : callbacks'[g] \subseteq callbacks[g]
         /\ Due(f, v) \in SUBSET Ids /\ Due(f, v) \subseteq callbacks[f]
         /\ \A i \in Due(f, v) : info[i].v <= v
<1>1. /\ completed \in [Fences -> Values \cup {0}] /\ manual \in [Fences -> BOOLEAN]
      /\ callbacks \in [Fences -> SUBSET Ids]
  BY DEF TypeOK
<1>2. /\ completed' = [completed EXCEPT ![f] = v] /\ manual' = [manual EXCEPT ![f] = TRUE]
      /\ callbacks' = [callbacks EXCEPT ![f] = NotDue(f, v)]
  BY DEF Complete
<1>3. /\ NotDue(f, v) \subseteq callbacks[f] /\ Due(f, v) \subseteq callbacks[f]
      /\ \A i \in Due(f, v) : info[i].v <= v
  BY DEF NotDue, Due
<1> QED BY <1>1, <1>2, <1>3

(* Callbacks that are due stand for waits whose value has been reached.    *)
LEMMA DueReached ==
  ASSUME TypeOK, TypeOK', FenceValues, NEW f \in Fences, NEW v \in Values \cup {0},
         signaled'[f].max >= v, info' = info, NEW i \in Due(f, v)
  PROVE  WaitReached(i)' /\ Seen(i) /\ i \in Ids
<1>1. i \in callbacks[f] /\ info[i].v <= v /\ i \in Ids
  BY DEF Due, TypeOK
<1>2. info[i].type = "Wait" /\ info[i].f = f /\ info[i].v \in Nat
  BY <1>1, WaitFacts DEF FenceValues
<1>3. signaled'[f].max \in Nat /\ v \in Nat
  <2>1. Values \cup {0} \subseteq Nat
    BY QueueAssumption
  <2> QED BY <2>1 DEF TypeOK
<1>4. signaled'[f].max >= info[i].v
  BY <1>1, <1>2, <1>3
<1> QED BY <1>1, <1>2, <1>4 DEF WaitReached, Reached, Seen

LEMMA FenceSignalStep ==
  ASSUME SubmissionInv, NEW t \in AppThreads, NEW f \in Fences, NEW v \in Values, FenceSignal(t, f, v)
  PROVE  SubmissionInv'
<1>1. /\ TypeOK /\ StacksOK /\ FenceValues /\ FrameValues /\ FlightValues /\ FlightOK
      /\ SignalCoversWork
  BY DEF SubmissionInv
<1>2. /\ stack[t] = <<>> /\ calls < MaxOps /\ calls' = calls + 1
      /\ requested' = [requested EXCEPT ![f] = v]
      /\ Complete(f, v) /\ Signaled(f, v)
      /\ stack' = [stack EXCEPT ![t] = ThenRuns(Post(f, v), Due(f, v))]
      /\ UNCHANGED <<info, pending, mutex, batches, has_waited>>
      /\ UNCHANGED <<event, fired, listening, notified>>
      /\ UNCHANGED <<recording, flight, gpu_done, ongoing, allocator>>
      /\ UNCHANGED <<order, submitted, executed>>
  BY DEF FenceSignal, queues, pipeline, ThenRuns
<1>3. t \in Threads /\ t \notin Ids
  BY QueueAssumption DEF Threads, Ids
<1>4. v \in Values \cup {0} /\ v \in Nat
  BY QueueAssumption
<1>5. /\ completed' \in [Fences -> Values \cup {0}] /\ manual' \in [Fences -> BOOLEAN]
      /\ callbacks' \in [Fences -> SUBSET Ids]
      /\ completed'[f] = v /\ \A g \in Fences : g # f => completed'[g] = completed[g]
      /\ \A g \in Fences : callbacks'[g] \subseteq callbacks[g]
      /\ Due(f, v) \in SUBSET Ids
  BY <1>1, <1>2, <1>4, CompleteFacts
<1>6. /\ signaled' \in [Fences -> [last : Values \cup {0}, max : Values \cup {0}]]
      /\ Grows /\ signaled'[f].max >= v
  BY <1>1, <1>2, <1>4, SignaledGrows
<1>a. PICK due, new : due = Due(f, v) /\ new = ThenRuns(Post(f, v), due)
  OBVIOUS
<1>7. /\ new \in Seq(Frame) /\ new # <<>> /\ DOMAIN new = 1 .. Len(new)
      /\ new[1] = Post(f, v) /\ \A k \in DOMAIN new : k > 1 => new[k] = RunFrame(due)
  <2>1. PICK fr : fr = Post(f, v)
    OBVIOUS
  <2>2. fr \in Frame /\ due \in SUBSET Ids
    BY <1>5, <1>a, <2>1, FramesMade
  <2>3. new = ThenRuns(fr, due)
    BY <1>a, <2>1
  <2>4. /\ new \in Seq(Frame) /\ new # <<>> /\ DOMAIN new = 1 .. Len(new)
        /\ new[1] = fr /\ \A k \in DOMAIN new : k > 1 => new[k] = RunFrame(due)
    BY <2>2, <2>3, ThenRun
  <2> QED BY <2>1, <2>4
<1>8. Moved(t, new, 0) /\ stack' \in [Threads -> Seq(Frame)]
  BY <1>1, <1>2, <1>3, <1>7, <1>a, BeginMoves
<1>9. TypeOK'
  <2>1. calls' \in 0 .. MaxOps
    BY <1>1, <1>2, QueueAssumption DEF TypeOK
  <2>2. requested' \in [Fences -> Values \cup {0}]
    BY <1>1, <1>2 DEF TypeOK
  <2> QED BY <1>1, <1>2, <1>5, <1>6, <1>8, <2>1, <2>2 DEF TypeOK
<1>10. /\ new[1].at = "post" /\ new[1].f = f /\ new[1].v = v
       /\ RunFrame(due).at = "run" /\ RunFrame(due).cbs = due
  BY <1>7 DEF Post, RunFrame
<1>11. \A k \in DOMAIN new : \/ k = 1 /\ new[k] = new[1]
                             \/ k > 1 /\ new[k].at = "run" /\ new[k].cbs = due
  BY <1>7, <1>10
<1>12. StacksOK'
  <2>1. t \notin listening
    BY <1>1, <1>3 DEF TypeOK
  <2>2. gpu_done \in Int /\ listening \subseteq Ids /\ gpu_done' >= gpu_done
    BY <1>1, <1>2, Numbers DEF TypeOK
  <2>3. /\ \A k \in DOMAIN new : new[k].at \in {"post", "run"}
        /\ \A k \in DOMAIN new : k > 1 => new[k].at = "run"
    BY <1>10, <1>11
  <2>4. \A k \in DOMAIN new : ~Draining(new[k]) /\ new[k].at # "retire"
    BY <2>3 DEF Draining
  <2>5. new # <<>> /\ new[1].at # "commit"
    BY <1>7, <1>10
  <2> QED BY <1>1, <1>2, <1>3, <1>8, <2>1, <2>2, <2>3, <2>4, <2>5, StacksKept
<1>13. FenceValues'
  <2>1. \A g \in Fences : completed'[g] = completed[g] \/ signaled'[g].max >= completed'[g]
    BY <1>5, <1>6
  <2> QED BY <1>1, <1>2, <1>5, <1>6, <1>9, <2>1, FencesKept
<1>14. FlightValues' /\ SignalCoversWork'
  BY <1>1, <1>2, <1>6, <1>9, FlightValuesKept, SignalsKept
<1>15. FlightOK'
  <2>1. CommitsKept
    <3>1. ~At(t, "commit")
      BY <1>2 DEF At
    <3> QED BY <1>1, <1>3, <1>7, <1>8, <1>10, <3>1, CommitsMoved
  <2> QED BY <1>1, <1>2, <2>1, FlightKept
<1>16. calls' >= calls
  BY <1>1, <1>2, Numbers
<1>17. \A i \in due : WaitReached(i)' /\ Seen(i)
  BY <1>1, <1>2, <1>4, <1>6, <1>9, <1>a, DueReached
<1>18. \A k \in DOMAIN new : FrameTrue(new[k])'
  <2> SUFFICES ASSUME NEW k \in DOMAIN new PROVE FrameTrue(new[k])'
    BY DEF FrameTrue, WaitReached, Reached
  <2>1. CASE new[k] = new[1]
    BY <1>6, <1>10, <2>1 DEF FrameTrue, Reached
  <2>2. CASE new[k].at = "run" /\ new[k].cbs = due
    BY <1>17, <2>2 DEF FrameTrue
  <2> QED BY <1>11, <2>1, <2>2
<1>19. /\ new # <<>> /\ new[1].at \notin {"arm", "lock"}
       /\ \A k \in DOMAIN new : new[k].at = "run" => \A i \in new[k].cbs : Seen(i)
  BY <1>7, <1>10, <1>11, <1>17
<1> QED BY <1>2, <1>3, <1>5, <1>6, <1>8, <1>9, <1>12, <1>13, <1>14, <1>15, <1>16, <1>18, <1>19,
           CalmStep

LEMMA FinishReadbackStep ==
  ASSUME SubmissionInv, FinishReadback
  PROVE  SubmissionInv'
<1>1. /\ TypeOK /\ StacksOK /\ FenceValues /\ FrameValues /\ FlightValues /\ FlightOK
      /\ SignalCoversWork
  BY DEF SubmissionInv
<1>2. /\ stack[Finish] = <<>> /\ gpu_done > 0
      /\ UNCHANGED <<calls, requested, info, pending, mutex, batches, has_waited>>
      /\ UNCHANGED <<event, fired, listening, notified>>
      /\ UNCHANGED <<recording, flight, gpu_done, ongoing>>
      /\ UNCHANGED <<order, submitted, executed, signaled>>
  BY DEF FinishReadback, client, queues, pipeline, history
<1> SUFFICES ASSUME NEW op, op = flight[1] PROVE SubmissionInv'
  OBVIOUS
<1>3. op \in Op /\ 1 \in 1 .. gpu_done
  <2>1. 1 \in DOMAIN flight
    BY <1>1, <1>2, Numbers DEF TypeOK
  <2> QED BY <1>1, <1>2, <2>1, Numbers
<1>4. Finish \in Threads /\ Finish \notin Ids
  BY QueueAssumption DEF Threads, Ids
<1>5. op.f \in Fences /\ op.v \in Values \cup {0} /\ op.serial \in Nat
  BY <1>3, OpFacts
<1>6. \E ids \in SUBSET Ids, new \in Seq(Frame) :
        /\ new # <<>> /\ stack' = [stack EXCEPT ![Finish] = new]
        /\ \A k \in DOMAIN new : \/ new[k] = RunFrame(ids) /\ k < Len(new)
                                 \/ new[k] = Retire /\ k = Len(new) /\ k \in {1, 2}
        /\ ids = {} \/ (op.type = "Signal" /\ ids = Due(op.f, op.v))
  <2>1. CASE op.type = "Execute"
    <3>1. PICK new : new = <<Retire>>
      OBVIOUS
    <3>2. stack' = [stack EXCEPT ![Finish] = new]
      BY <2>1, <3>1 DEF FinishReadback
    <3>3. /\ new \in Seq(Frame) /\ new # <<>>
          /\ \A k \in DOMAIN new : new[k] = Retire /\ k = Len(new) /\ k \in {1, 2}
      BY <3>1, FramesMade
    <3> new \in Seq(Frame) /\ {} \in SUBSET Ids
      BY <3>3
    <3> WITNESS {} \in SUBSET Ids, new \in Seq(Frame)
    <3> QED BY <3>2, <3>3
  <2>2. CASE op.type # "Execute"
    <3>0. PICK ids, new : ids = Due(op.f, op.v) /\ new = Run(ids) \o <<Retire>>
      OBVIOUS
    <3>1. stack' = [stack EXCEPT ![Finish] = new] /\ op.type = "Signal"
      BY <2>2, <3>0 DEF FinishReadback
    <3>2. ids \in SUBSET Ids
      BY <1>1, <1>5, <3>0 DEF Due, TypeOK
    <3>3. /\ Run(ids) \in Seq(Frame) /\ Len(Run(ids)) \in {0, 1}
          /\ \A k \in 1 .. Len(Run(ids)) : Run(ids)[k] = RunFrame(ids)
      BY <3>2, RunSequence
    <3>4. <<Retire>> \in Seq(Frame) /\ Len(<<Retire>>) = 1 /\ <<Retire>>[1] = Retire
      BY FramesMade
    <3>5. /\ new \in Seq(Frame) /\ Len(new) = Len(Run(ids)) + 1
          /\ \A k \in 1 .. Len(Run(ids)) + 1 : new[k] =
               IF k <= Len(Run(ids)) THEN Run(ids)[k] ELSE <<Retire>>[k - Len(Run(ids))]
      BY <3>0, <3>3, <3>4, ConcatProperties
    <3>6. DOMAIN new = 1 .. Len(new) /\ new # <<>>
      BY <3>3, <3>5
    <3>7. ASSUME NEW k \in DOMAIN new
          PROVE  \/ new[k] = RunFrame(ids) /\ k < Len(new)
                 \/ new[k] = Retire /\ k = Len(new) /\ k \in {1, 2}
      <4>1. CASE k <= Len(Run(ids))
        BY <3>3, <3>5, <3>6, <4>1
      <4>2. CASE ~(k <= Len(Run(ids)))
        <5>1. k = Len(Run(ids)) + 1 /\ k - Len(Run(ids)) = 1 /\ k \in {1, 2}
          BY <3>3, <3>5, <3>6, <4>2
        <5> QED BY <3>4, <3>5, <3>6, <4>2, <5>1
      <4> QED BY <4>1, <4>2
    <3> ids \in SUBSET Ids /\ new \in Seq(Frame)
      BY <3>2, <3>5
    <3> WITNESS ids \in SUBSET Ids, new \in Seq(Frame)
    <3> QED BY <3>0, <3>1, <3>6, <3>7
  <2> QED BY <2>1, <2>2
<1>7. PICK ids \in SUBSET Ids, new \in Seq(Frame) :
        /\ new # <<>> /\ stack' = [stack EXCEPT ![Finish] = new]
        /\ \A k \in DOMAIN new : \/ new[k] = RunFrame(ids) /\ k < Len(new)
                                 \/ new[k] = Retire /\ k = Len(new) /\ k \in {1, 2}
        /\ ids = {} \/ (op.type = "Signal" /\ ids = Due(op.f, op.v))
  BY <1>6
<1>8. Moved(Finish, new, 0) /\ stack' \in [Threads -> Seq(Frame)]
  BY <1>1, <1>2, <1>4, <1>7, BeginMoves
<1>9. op.type = "Signal" => signaled[op.f].max >= op.v
  BY <1>1, <1>3 DEF FlightValues, Reached
<1>10. /\ completed' \in [Fences -> Values \cup {0}] /\ manual' \in [Fences -> BOOLEAN]
       /\ callbacks' \in [Fences -> SUBSET Ids]
       /\ \A g \in Fences : completed'[g] = completed[g] \/ signaled[g].max >= completed'[g]
       /\ \A g \in Fences : callbacks'[g] \subseteq callbacks[g]
  <2>1. CASE op.type = "Execute"
    <3>1. UNCHANGED <<completed, manual, callbacks>>
      BY <2>1 DEF FinishReadback
    <3> QED BY <1>1, <3>1 DEF TypeOK
  <2>2. CASE op.type # "Execute"
    <3>1. Complete(op.f, op.v) /\ op.type = "Signal"
      BY <2>2 DEF FinishReadback
    <3> QED BY <1>1, <1>5, <1>9, <3>1, CompleteFacts
  <2> QED BY <2>1, <2>2
<1>11. allocator' \in [last : Nat, completed : Nat, pending : Nat]
  <2>1. allocator \in [last : Nat, completed : Nat, pending : Nat]
    BY <1>1 DEF TypeOK
  <2>2. CompleteSubmission(allocator, op.serial) \in [last : Nat, completed : Nat, pending : Nat]
    <3> SUFFICES ASSUME NEW n, n = IF allocator.pending > 0 THEN allocator.pending - 1
                                   ELSE allocator.pending
                 PROVE  [allocator EXCEPT !.completed = op.serial, !.pending = n]
                          \in [last : Nat, completed : Nat, pending : Nat]
      BY <2>1 DEF CompleteSubmission
    <3>1. n \in Nat
      BY <2>1
    <3> QED BY <1>5, <2>1, <3>1
  <2>3. allocator' = allocator \/ allocator' = CompleteSubmission(allocator, op.serial)
    BY DEF FinishReadback
  <2> QED BY <2>1, <2>2, <2>3
<1>12. TypeOK'
  BY <1>1, <1>2, <1>8, <1>10, <1>11 DEF TypeOK
<1>13. /\ DOMAIN new = 1 .. Len(new) /\ Len(new) \in Nat
       /\ RunFrame(ids).at = "run" /\ RunFrame(ids).cbs = ids /\ Retire.at = "retire"
  BY <1>7 DEF RunFrame, Retire
<1>14. \A k \in DOMAIN new : \/ new[k].at = "run" /\ new[k].cbs = ids
                             \/ new[k].at = "retire" /\ k = Len(new)
  BY <1>7, <1>13
<1>15. 1 \in DOMAIN new
  BY <1>7
<1>16. StacksOK'
  <2>1. Finish \notin listening
    BY <1>1, <1>4 DEF TypeOK
  <2>2. gpu_done \in Int /\ listening \subseteq Ids /\ gpu_done' >= gpu_done /\ gpu_done' > 0
    BY <1>1, <1>2, Numbers DEF TypeOK
  <2>3. new[1].at # "commit"
    BY <1>14, <1>15
  <2> QED BY <1>1, <1>2, <1>4, <1>7, <1>8, <1>14, <2>1, <2>2, <2>3, StacksKept DEF Draining
<1>17. Grows
  BY <1>1, <1>2, StillGrows
<1>18. FenceValues'
  BY <1>1, <1>2, <1>10, <1>12, <1>17, FencesKept
<1>19. FlightValues' /\ SignalCoversWork'
  BY <1>1, <1>2, <1>12, <1>17, FlightValuesKept, SignalsKept
<1>20. FlightOK'
  <2>1. CommitsKept
    BY <1>1, <1>2, <1>4, <1>7, <1>8, <1>14, <1>15, CommitsMoved DEF At
  <2> QED BY <1>1, <1>2, <2>1, FlightKept
<1>21. calls' >= calls
  BY <1>1, <1>2, Numbers
<1>22. \A i \in ids : WaitReached(i)' /\ Seen(i)
  BY <1>1, <1>2, <1>5, <1>7, <1>9, <1>12, DueReached
<1>23. \A k \in DOMAIN new : FrameTrue(new[k])'
  BY <1>14, <1>22 DEF FrameTrue, WaitReached, Reached
<1>24. new[1].at \notin {"arm", "lock"} /\ \A k \in DOMAIN new : new[k].at = "run" => \A i \in new[k].cbs : Seen(i)
  BY <1>14, <1>15, <1>22
<1> QED BY <1>2, <1>4, <1>7, <1>8, <1>10, <1>12, <1>16, <1>17, <1>18, <1>19, <1>20, <1>21,
           <1>23, <1>24, CalmStep

LEMMA FinishRetireStep ==
  ASSUME SubmissionInv, FinishRetire
  PROVE  SubmissionInv'
<1>1. /\ TypeOK /\ StacksOK /\ FenceValues /\ FrameValues /\ FlightValues /\ FlightOK
      /\ SignalCoversWork
  BY DEF SubmissionInv
<1>2. Finish \in Threads /\ Finish \notin Ids /\ At(Finish, "retire")
  BY QueueAssumption DEF Threads, Ids, FinishRetire
<1>3. /\ stack[Finish] # <<>> /\ stack[Finish][1] \in Frame
      /\ stack[Finish][1].at = "retire" /\ 1 \in DOMAIN stack[Finish]
  BY <1>1, <1>2, HeadFacts
<1>4. /\ flight' = Tail(flight) /\ gpu_done' = gpu_done - 1 /\ ongoing' = ongoing - 1
      /\ stack' = Return(Finish)
      /\ UNCHANGED <<calls, requested, info, pending, mutex, batches, has_waited>>
      /\ UNCHANGED <<event, manual, completed, callbacks, fired, listening, notified>>
      /\ UNCHANGED <<recording, allocator>>
      /\ UNCHANGED <<order, submitted, executed, signaled>>
  BY DEF FinishRetire, client, queues, fences, history
<1>5. gpu_done > 0
  BY <1>1, <1>2, <1>3 DEF StacksOK
<1>6. PICK n, g : n = Len(flight) /\ g = gpu_done
  OBVIOUS
<1>7. /\ n \in Nat /\ n > 0 /\ g \in 1 .. n /\ DOMAIN flight = 1 .. n
      /\ flight' \in Seq(Op) /\ DOMAIN flight' = 1 .. n - 1 /\ Len(flight') = n - 1
      /\ \A k \in 1 .. n - 1 : flight'[k] = flight[k + 1]
  <2>1. flight \in Seq(Op) /\ gpu_done \in 0 .. Len(flight)
    BY <1>1 DEF TypeOK
  <2>2. flight # <<>>
    BY <1>5, <2>1
  <2>3. /\ Tail(flight) \in Seq(Op) /\ Len(Tail(flight)) = Len(flight) - 1
        /\ \A k \in 1 .. Len(flight) - 1 : Tail(flight)[k] = flight[k + 1]
    BY <2>1, <2>2, HeadTailProperties
  <2> QED BY <1>4, <1>5, <1>6, <2>1, <2>3
<1>8. Moved(Finish, <<>>, 1) /\ stack' \in [Threads -> Seq(Frame)]
  BY <1>1, <1>2, <1>3, <1>4, ReturnMoves
<1>9. TypeOK'
  <2>1. gpu_done' \in 0 .. Len(flight')
    BY <1>4, <1>6, <1>7
  <2>2. ongoing' \in Int
    BY <1>1, <1>4 DEF TypeOK
  <2> QED BY <1>1, <1>4, <1>7, <1>8, <2>1, <2>2 DEF TypeOK
<1>10. StacksOK'
  <2>1. Finish \notin listening /\ listening \subseteq Ids
    BY <1>1, <1>2 DEF TypeOK
  <2>2. gpu_done' \in Int
    BY <1>4, <1>6, <1>7
  <2>3. ~At(Finish, "commit")
    BY <1>3, <1>2 DEF At
  <2> QED BY <1>1, <1>2, <1>3, <1>4, <1>8, <2>1, <2>2, <2>3, StacksKept
<1>11. Grows
  BY <1>1, <1>4, StillGrows
<1>12. FenceValues'
  BY <1>1, <1>4, <1>9, <1>11, FencesKept
<1>13. SignalCoversWork'
  BY <1>1, <1>4, SignalsKept
<1>14. FlightValues'
  <2>1. \A k \in 1 .. g - 1 : k + 1 \in 1 .. g /\ k \in 1 .. n - 1
    BY <1>7
  <2> QED BY <1>1, <1>4, <1>6, <1>7, <2>1 DEF FlightValues, Reached
<1>15. FlightOK'
  <2>1. CommitsKept
    <3>1. ~At(Finish, "commit")
      BY <1>3, <1>2 DEF At
    <3> QED BY <1>1, <1>2, <1>8, <3>1, CommitsMoved
  <2>2. ASSUME NEW k \in 1 .. n - 1
        PROVE  /\ flight'[k].id \in submitted /\ IsOp(flight[k])'
               /\ k <= g - 1 => flight'[k].id \in executed
    <3>1. k + 1 \in DOMAIN flight /\ flight'[k] = flight[k + 1] /\ (k <= g - 1 => k + 1 <= g)
      BY <1>7
    <3>2. /\ flight[k + 1].id \in submitted /\ IsOp(flight[k + 1])
          /\ k + 1 <= g => flight[k + 1].id \in executed
      BY <1>1, <1>6, <3>1 DEF FlightOK
    <3>3. IsOp(flight[k])'
      BY <1>4, <3>1, <3>2 DEF IsOp
    <3> QED BY <3>1, <3>2, <3>3
  <2>3. ASSUME NEW u \in Threads, At(u, "commit")'
        PROVE  (stack[u][1].op.id \in submitted /\ IsOp(stack[u][1].op))'
    <3>1. At(u, "commit") /\ stack'[u][1] = stack[u][1]
      BY <2>1, <2>3 DEF CommitsKept
    <3> QED BY <1>1, <1>4, <3>1 DEF FlightOK, IsOp
  <2>4. ASSUME NEW i \in submitted \ executed
        PROVE  \/ \E k \in 1 .. n - 1 : k > g - 1 /\ flight'[k].id = i
               \/ \E u \in Threads : At(u, "commit")' /\ stack'[u][1].op.id = i
    <3>1. CASE \E k \in DOMAIN flight : k > gpu_done /\ flight[k].id = i
      <4>1. PICK k \in 1 .. n : k > g /\ flight[k].id = i
        BY <1>6, <1>7, <3>1
      <4>2. PICK l : l = k - 1
        OBVIOUS
      <4>3. l \in 1 .. n - 1 /\ l > g - 1 /\ l + 1 = k
        BY <1>7, <4>1, <4>2
      <4> QED BY <1>7, <4>1, <4>3
    <3>2. CASE \E u \in Threads : At(u, "commit") /\ stack[u][1].op.id = i
      BY <2>1, <3>2 DEF CommitsKept
    <3> QED BY <1>1, <3>1, <3>2 DEF FlightOK
  <2>5. ASSUME NEW q \in Queues, NEW j \in DOMAIN order[q], NEW k \in 1 .. n - 1,
               flight'[k].id = order[q][j], NEW w \in Work(q, j), w \notin executed
        PROVE  \E m \in 1 .. k - 1 : flight'[m].id = w
    <3>1. k + 1 \in DOMAIN flight /\ flight'[k] = flight[k + 1] /\ k + 1 - 1 = k
      BY <1>7
    <3>2. PICK m \in 1 .. k : flight[m].id = w
      BY <1>1, <2>5, <3>1 DEF FlightOK
    <3>3. m # 1
      <4>1. 1 \in DOMAIN flight /\ 1 <= gpu_done
        BY <1>6, <1>7
      <4>2. flight[1].id \in executed
        BY <1>1, <4>1 DEF FlightOK
      <4> QED BY <2>5, <3>2, <4>2
    <3>4. PICK l : l = m - 1
      OBVIOUS
    <3>5. l \in 1 .. k - 1 /\ l + 1 = m /\ l \in 1 .. n - 1
      BY <1>7, <3>2, <3>3, <3>4
    <3> QED BY <1>7, <3>2, <3>5
  <2>6. ASSUME NEW q \in Queues, NEW j \in DOMAIN order[q]
        PROVE  /\ order[q][j] \in submitted /\ info[order[q][j]].type = "Execute" => batches[q]
               /\ \A k \in 1 .. n - 1 : flight'[k].id = order[q][j] =>
                    Work(q, j) \subseteq executed \cup {flight'[m].id : m \in 1 .. k - 1}
    BY <1>1, <2>5 DEF FlightOK
  <2>7. executed \subseteq submitted
    BY <1>1 DEF FlightOK
  <2>8. gpu_done' = g - 1
    BY <1>4, <1>6
  <2>9. (\A k \in DOMAIN flight :
           /\ flight[k].id \in submitted /\ IsOp(flight[k])
           /\ k <= gpu_done => flight[k].id \in executed)'
    BY <1>4, <1>7, <2>2, <2>8 DEF IsOp
  <2>10. (\A i \in submitted \ executed :
            \/ \E k \in DOMAIN flight : k > gpu_done /\ flight[k].id = i
            \/ \E t \in Threads : At(t, "commit") /\ stack[t][1].op.id = i)'
    BY <1>4, <1>7, <2>4, <2>8 DEF At
  <2>11. (\A q \in Queues : \A j \in DOMAIN order[q] :
            /\ order[q][j] \in submitted /\ info[order[q][j]].type = "Execute" => batches[q]
            /\ \A k \in DOMAIN flight : flight[k].id = order[q][j] =>
                 Work(q, j) \subseteq executed \cup {flight[m].id : m \in 1 .. k - 1})'
    <3>1. \A q \in Queues : \A j \in DOMAIN order[q] :
            /\ order[q][j] \in submitted /\ info[order[q][j]].type = "Execute" => batches[q]
            /\ \A k \in DOMAIN flight' : flight'[k].id = order[q][j] =>
                 Work(q, j) \subseteq executed \cup {flight'[m].id : m \in 1 .. k - 1}
      BY <1>7, <2>6
    <3> QED BY <1>4, <3>1 DEF Work
  <2>12. (executed \subseteq submitted)'
    BY <1>4, <2>7
  <2> QED BY <2>3, <2>9, <2>10, <2>11, <2>12 DEF FlightOK, IsOp, At
<1>16. calls' >= calls
  BY <1>1, <1>4, Numbers
<1> QED BY <1>2, <1>3, <1>4, <1>8, <1>9, <1>10, <1>11, <1>12, <1>13, <1>14, <1>15, <1>16, CalmStep

LEMMA StillStack ==
  ASSUME UNCHANGED <<stack, fired, listening, callbacks>>
  PROVE  EnqueuersKept /\ CommitsKept /\ ArmsKept /\ WatchedKept /\ SeenKept
<1>1. EnqueuersKept
  BY DEF EnqueuersKept, Enqueuing, At
<1>2. CommitsKept
  BY DEF CommitsKept, At
<1>3. ArmsKept
  BY DEF ArmsKept, Arming, Busy, At
<1>4. WatchedKept
  BY DEF WatchedKept, Watched, InRun, Resuming, At
<1>5. SeenKept
  BY DEF SeenKept, Seen, InRun, Resuming, At
<1> QED BY <1>1, <1>2, <1>3, <1>4, <1>5

LEMMA GpuCompleteStep ==
  ASSUME SubmissionInv, GpuComplete
  PROVE  SubmissionInv'
<1>1. /\ TypeOK /\ StacksOK /\ FenceValues /\ FrameValues /\ FlightValues /\ FlightOK
      /\ SignalCoversWork /\ OrdersOK /\ WatchOK /\ \A q \in Queues : PendingOK(q)
  BY DEF SubmissionInv
<1>2. PICK n, g, op : n = Len(flight) /\ g = gpu_done /\ op = flight[g + 1]
  OBVIOUS
<1>3. /\ op.type = "Signal" => SignalValue(op.f, op.v) /\ Signaled(op.f, op.v)
      /\ op.type # "Signal" => UNCHANGED <<event, notified, signaled>>
      /\ executed' = executed \cup {op.id} /\ gpu_done' = g + 1 /\ g < n
      /\ UNCHANGED <<calls, requested, info, pending, mutex, batches, has_waited>>
      /\ UNCHANGED <<manual, completed, callbacks, fired, listening>>
      /\ UNCHANGED <<stack, recording, flight, ongoing, allocator, order, submitted>>
  BY <1>2 DEF GpuComplete, client, queues
<1>4. /\ n \in Nat /\ g \in Nat /\ DOMAIN flight = 1 .. n /\ g + 1 \in 1 .. n /\ op \in Op
  <2>1. n \in Nat /\ g \in Nat /\ DOMAIN flight = 1 .. n /\ \A k \in DOMAIN flight : flight[k] \in Op
    BY <1>1, <1>2, Numbers
  <2>2. g + 1 \in 1 .. n
    BY <1>3, <2>1
  <2> QED BY <1>2, <2>1, <2>2
<1>5. op.f \in Fences /\ op.v \in Values \cup {0} /\ op.v \in Nat /\ op.id \in Ids
  BY <1>1, <1>4, OpFacts, Numbers
<1>6. /\ signaled' \in [Fences -> [last : Values \cup {0}, max : Values \cup {0}]]
      /\ Grows /\ (op.type = "Signal" => signaled'[op.f].max >= op.v)
  <2>1. CASE op.type = "Signal"
    BY <1>1, <1>3, <1>5, <2>1, SignaledGrows
  <2>2. CASE op.type # "Signal"
    BY <1>1, <1>3, <2>2, StillGrows DEF TypeOK
  <2> QED BY <2>1, <2>2
<1>7. /\ event' \in [Fences -> Values \cup {0}] /\ notified' \subseteq listening
      /\ \A f \in Fences : event'[f] = event[f] \/ signaled'[f].max >= event'[f]
      /\ \A i \in notified' : i \in notified \/ (op.type = "Signal" /\ info[i].f = op.f /\ info[i].v <= op.v)
  <2>1. CASE op.type = "Signal"
    BY <1>1, <1>3, <1>5, <1>6, <2>1 DEF TypeOK, SignalValue
  <2>2. CASE op.type # "Signal"
    BY <1>1, <1>3, <2>2 DEF TypeOK
  <2> QED BY <2>1, <2>2
<1>8. TypeOK'
  <2>1. gpu_done' \in 0 .. Len(flight')
    BY <1>2, <1>3, <1>4
  <2>2. executed' \subseteq Ids
    BY <1>1, <1>3, <1>5 DEF TypeOK
  <2> QED BY <1>1, <1>3, <1>6, <1>7, <2>1, <2>2 DEF TypeOK
<1>9. StacksOK'
  <2>1. gpu_done > 0 => gpu_done' > 0
    BY <1>2, <1>3, <1>4
  <2>2. \A t \in Threads, w \in {"commit"} : At(t, w)' <=> At(t, w)
    BY <1>3 DEF At
  <2> QED BY <1>1, <1>3, <2>1, <2>2 DEF StacksOK, At
<1>10. EnqueuersKept /\ CommitsKept /\ ArmsKept /\ WatchedKept /\ SeenKept
  BY <1>3, StillStack
<1>11. ASSUME NEW q \in Queues PROVE PendingOK(q)'
  <2>1. PendingOK(q)
    BY <1>1
  <2>2. \A k \in DOMAIN pending[q] : pending[q][k].id \notin submitted
    BY <2>1 DEF PendingOK
  <2> QED BY <1>1, <1>3, <1>6, <1>8, <2>1, <2>2, PendingKept
<1>12. OrdersOK'
  <2>1. calls' \in Nat /\ calls' >= calls
    BY <1>1, <1>3, Numbers
  <2> QED BY <1>1, <1>3, <1>10, <2>1, OrdersKept
<1>13. FenceValues'
  <2>1. ASSUME NEW i \in notified', i \notin notified
        PROVE  info[i].type = "Wait" /\ signaled'[info[i].f].max >= info[i].v
    <3>1. op.type = "Signal" /\ info[i].f = op.f /\ info[i].v <= op.v /\ i \in listening /\ i \in Ids
      BY <1>1, <1>7, <2>1 DEF TypeOK
    <3>2. info[i].type = "Wait"
      BY <1>1, <3>1 DEF FenceValues
    <3>3. info[i].v \in Nat /\ signaled'[op.f].max \in Nat
      BY <1>1, <1>5, <1>6, <3>1, <3>2, WaitFacts, Numbers
    <3> QED BY <1>5, <1>6, <3>1, <3>2, <3>3
  <2> QED BY <1>1, <1>3, <1>6, <1>7, <1>8, <2>1, FencesKept
<1>14. FrameValues'
  <2> SUFFICES ASSUME NEW u \in Threads, NEW k \in DOMAIN stack[u], NEW fr, fr = stack[u][k]
               PROVE  FrameTrue(fr)'
    BY <1>3 DEF FrameValues, FrameTrue, WaitReached, Reached
  <2>1. fr \in Frame /\ FrameTrue(fr)
    BY <1>1, StackTyped DEF FrameValues
  <2> QED BY <1>1, <1>3, <1>6, <1>8, <2>1, FrameTrueKept
<1>15. FlightValues'
  <2> SUFFICES ASSUME NEW k \in 1 .. g + 1, NEW f, NEW v, f = flight[k].f, v = flight[k].v,
                      flight[k].type = "Signal"
               PROVE  signaled'[f].max >= v
    BY <1>3 DEF FlightValues, Reached
  <2>1. CASE k = g + 1
    BY <1>2, <1>6, <2>1
  <2>2. CASE k \in 1 .. g
    <3>1. k \in DOMAIN flight
      BY <1>4, <2>2
    <3>2. f \in Fences /\ v \in Nat
      BY <1>1, <3>1, OpFacts, Numbers
    <3>3. Reached(f, v)
      BY <1>1, <1>2, <2>2 DEF FlightValues
    <3>4. Reached(f, v)'
      BY <1>1, <1>6, <1>8, <3>2, <3>3, ReachedKept
    <3> QED BY <3>4 DEF Reached
  <2> QED BY <1>4, <2>1, <2>2
<1>16. op.id \in submitted /\ \A m \in 1 .. g : flight[m].id \in executed
  <2>1. g + 1 \in DOMAIN flight /\ \A m \in 1 .. g : m \in DOMAIN flight /\ m <= gpu_done
    BY <1>2, <1>4
  <2> QED BY <1>1, <1>2, <2>1 DEF FlightOK
<1>17. FlightOK'
  <2>1. ASSUME NEW k \in DOMAIN flight
        PROVE  /\ flight[k].id \in submitted /\ IsOp(flight[k])
               /\ k <= g + 1 => flight[k].id \in executed'
    <3>1. k \in 1 .. n /\ (k <= g + 1 => k \in 1 .. g \/ k = g + 1)
      BY <1>4
    <3> QED BY <1>1, <1>2, <1>3, <1>16, <3>1 DEF FlightOK
  <2>2. ASSUME NEW i \in submitted \ executed'
        PROVE  \/ \E k \in DOMAIN flight : k > g + 1 /\ flight[k].id = i
               \/ \E u \in Threads : At(u, "commit") /\ stack[u][1].op.id = i
    <3>1. i \in submitted \ executed /\ i # op.id
      BY <1>3
    <3>2. CASE \E k \in DOMAIN flight : k > gpu_done /\ flight[k].id = i
      <4>1. PICK k \in 1 .. n : k > g /\ flight[k].id = i
        BY <1>2, <1>4, <3>2
      <4>2. k # g + 1
        BY <1>2, <3>1, <4>1
      <4>3. k > g + 1
        BY <1>4, <4>1, <4>2
      <4> QED BY <1>4, <4>1, <4>3
    <3> QED BY <1>1, <3>1, <3>2 DEF FlightOK
  <2>3. /\ executed' \subseteq submitted
        /\ \A t \in Threads : At(t, "commit") => stack[t][1].op.id \in submitted /\ IsOp(stack[t][1].op)
    BY <1>1, <1>3, <1>16 DEF FlightOK
  <2>4. ASSUME NEW q \in Queues, NEW j \in DOMAIN order[q]
        PROVE  /\ order[q][j] \in submitted /\ info[order[q][j]].type = "Execute" => batches[q]
               /\ \A k \in DOMAIN flight : flight[k].id = order[q][j] =>
                    Work(q, j) \subseteq executed' \cup {flight[m].id : m \in 1 .. k - 1}
    BY <1>1, <1>3 DEF FlightOK
  <2> QED BY <1>3, <2>1, <2>2, <2>3, <2>4 DEF FlightOK, Work, At, IsOp
<1>18. SignalCoversWork'
  <2> SUFFICES ASSUME NEW q \in Queues, NEW j \in 1 .. Len(order[q]),
                      info[order[q][j]].type = "Signal", order[q][j] \in executed',
                      NEW i \in 1 .. j - 1, info[order[q][i]].type = "Execute"
               PROVE  info[order[q][i]].id \in executed'
    BY <1>3 DEF SignalCoversWork, Before
  <2>1. CASE order[q][j] \in executed
    BY <1>1, <1>3, <2>1 DEF SignalCoversWork, Before
  <2>2. CASE order[q][j] = op.id
    <3>1. /\ j \in DOMAIN order[q] /\ i \in DOMAIN order[q]
          /\ g + 1 \in DOMAIN flight /\ flight[g + 1].id = order[q][j]
      BY <1>1, <1>2, <1>4, <2>2, Numbers
    <3>2. info[order[q][i]].id = order[q][i] /\ order[q][i] \in Work(q, j)
      BY <1>1, <3>1 DEF OrdersOK, Work
    <3>3. PICK k : k = g + 1
      OBVIOUS
    <3>4. order[q][i] \in executed \/ \E m \in 1 .. g : flight[m].id = order[q][i]
      <4>1. k \in DOMAIN flight /\ flight[k].id = order[q][j] /\ k - 1 = g
        BY <1>4, <3>1, <3>3
      <4>2. Work(q, j) \subseteq executed \cup {flight[m].id : m \in 1 .. k - 1}
        BY <1>1, <3>1, <4>1 DEF FlightOK
      <4> QED BY <3>2, <4>1, <4>2
    <3> QED BY <1>3, <1>16, <3>2, <3>4
  <2> QED BY <1>3, <2>1, <2>2
<1>19. WatchOK'
  BY <1>1, <1>3, <1>10, WatchesKept
<1> QED BY <1>8, <1>9, <1>11, <1>12, <1>13, <1>14, <1>15, <1>17, <1>18, <1>19 DEF SubmissionInv

-----------------------------------------------------------------------------
(* Callbacks.                                                              *)

RunIn(new, i) == \E k \in DOMAIN new : new[k].at = "run" /\ i \in new[k].cbs

LEMMA RunsMoved ==
  ASSUME TypeOK, NEW t \in Threads, NEW new, NEW d, Moved(t, new, d), NEW i \in Ids
  PROVE  /\ InRun(i)' => InRun(i) \/ RunIn(new, i)
         /\ InRun(i) => InRun(i)' \/ (d = 1 /\ stack[t][1].at = "run" /\ i \in stack[t][1].cbs)
         /\ RunIn(new, i) => InRun(i)'
<1>1. ASSUME InRun(i)' PROVE InRun(i) \/ RunIn(new, i)
  <2>1. PICK u \in Threads : \E k \in DOMAIN stack'[u] :
          stack'[u][k].at = "run" /\ i \in stack'[u][k].cbs
    BY <1>1 DEF InRun
  <2>2. PICK k \in DOMAIN stack'[u] : stack'[u][k].at = "run" /\ i \in stack'[u][k].cbs
    BY <2>1
  <2>3. CASE \E l \in DOMAIN stack[u] : stack'[u][k] = stack[u][l]
    BY <2>2, <2>3 DEF InRun
  <2>4. CASE k \in DOMAIN new /\ stack'[u][k] = new[k]
    BY <2>2, <2>4 DEF RunIn
  <2> QED BY <2>3, <2>4, MovedFrames
<1>2. ASSUME InRun(i), ~(d = 1 /\ stack[t][1].at = "run" /\ i \in stack[t][1].cbs) PROVE InRun(i)'
  <2>1. PICK u \in Threads : \E k \in DOMAIN stack[u] : stack[u][k].at = "run" /\ i \in stack[u][k].cbs
    BY <1>2 DEF InRun
  <2>2. PICK l \in DOMAIN stack[u] : stack[u][l].at = "run" /\ i \in stack[u][l].cbs
    BY <2>1
  <2>3. DOMAIN stack[u] = 1 .. Len(stack[u]) /\ Len(stack[u]) \in Nat /\ d \in {0, 1}
    BY StackTyped DEF Moved
  <2>4. u = t => l > d
    BY <1>2, <2>2, <2>3
  <2>5. \E k \in DOMAIN stack'[u] : stack'[u][k] = stack[u][l]
    BY <2>4, MovedFrames
  <2> QED BY <2>2, <2>5 DEF InRun
<1>3. ASSUME RunIn(new, i) PROVE InRun(i)'
  <2>1. PICK k \in DOMAIN new : new[k].at = "run" /\ i \in new[k].cbs
    BY <1>3 DEF RunIn
  <2>2. k \in DOMAIN stack'[t] /\ stack'[t][k] = new[k]
    BY MovedFrames
  <2> QED BY <2>1, <2>2 DEF InRun
<1> QED BY <1>1, <1>2, <1>3

LEMMA ArmsMoved ==
  ASSUME TypeOK, StacksOK, NEW t \in Threads, NEW new, NEW d, Moved(t, new, d),
         new = <<>> => d = 1, ~At(t, "arm"), new # <<>> => new[1].at # "arm"
  PROVE  ArmsKept
<1>1. ASSUME NEW q \in Queues, NEW u \in Threads PROVE Busy(u, "arm", q)' <=> Busy(u, "arm", q)
  <2>1. /\ u # t => stack'[u] = stack[u] /\ (At(u, "arm")' <=> At(u, "arm"))
        /\ u = t => (At(u, "arm")' <=> new # <<>> /\ new[1].at = "arm")
    BY MovedHeads
  <2> QED BY <2>1 DEF Busy
<1> SUFFICES ASSUME NEW q \in Queues PROVE Arming(q)' <=> Arming(q)
  BY DEF ArmsKept
<1> QED BY <1>1 DEF Arming

LEMMA ResumesMoved ==
  ASSUME TypeOK, StacksOK, NEW t \in Threads, NEW new, NEW d, Moved(t, new, d),
         new = <<>> => d = 1, NEW u \in Threads, NEW i \in Ids
  PROVE  /\ u # t => (Resuming(u, i)' <=> Resuming(u, i))
         /\ u = t => (Resuming(u, i)' <=> new # <<>> /\ new[1].at = "lock" /\ new[1].cb = i)
<1>1. /\ u # t => stack'[u] = stack[u] /\ (At(u, "lock")' <=> At(u, "lock"))
      /\ u = t => (At(u, "lock")' <=> new # <<>> /\ new[1].at = "lock")
      /\ u = t /\ new # <<>> => stack'[u][1] = new[1]
  BY MovedHeads
<1>2. i # 0
  BY DEF Ids
<1> QED BY <1>1, <1>2 DEF Resuming

(* A step that leaves everything but the callbacks and the stacks alone.   *)
LEMMA CallbackStep ==
  ASSUME SubmissionInv, StacksOK',
         NEW t \in Threads, NEW new, NEW d, Moved(t, new, d), stack' \in [Threads -> Seq(Frame)],
         new = <<>> => d = 1, ~At(t, "arm"), ~At(t, "commit"),
         new # <<>> => new[1].at \notin {"arm", "commit"} /\ (new[1].at = "lock" => new[1].cb # 0),
         WatchedKept, SeenKept,
         fired' \subseteq Ids, listening' \subseteq listening, notified' \subseteq listening',
         notified' \subseteq notified,
         \A k \in DOMAIN new : FrameTrue(new[k]),
         UNCHANGED <<calls, requested, info, pending, mutex, batches, has_waited>>,
         UNCHANGED <<event, manual, completed, callbacks>>,
         UNCHANGED <<recording, flight, gpu_done, ongoing, allocator>>,
         UNCHANGED <<order, submitted, executed, signaled>>
  PROVE  SubmissionInv'
<1>1. /\ TypeOK /\ StacksOK /\ FenceValues /\ FrameValues /\ FlightValues /\ FlightOK
      /\ SignalCoversWork /\ OrdersOK /\ WatchOK /\ \A q \in Queues : PendingOK(q)
  BY DEF SubmissionInv
<1>2. TypeOK'
  BY <1>1 DEF TypeOK
<1>3. Grows /\ calls' >= calls /\ calls' \in Nat
  BY <1>1, StillGrows, Numbers
<1>4. ArmsKept /\ EnqueuersKept /\ CommitsKept
  BY <1>1, ArmsMoved, EnqueuersMoved, CommitsMoved
<1>5. ASSUME NEW q \in Queues PROVE PendingOK(q)'
  <2>1. PendingOK(q)
    BY <1>1
  <2>2. \A k \in DOMAIN pending[q] : pending[q][k].id \notin submitted
    BY <2>1 DEF PendingOK
  <2> QED BY <1>1, <1>2, <1>3, <2>1, <2>2, PendingKept
<1>6. OrdersOK'
  BY <1>1, <1>3, <1>4, OrdersKept
<1>7. FenceValues'
  BY <1>1, <1>2, <1>3, FencesKept
<1>8. FrameValues'
  <2>1. \A k \in DOMAIN new : FrameTrue(new[k])'
    BY DEF FrameTrue, WaitReached, Reached
  <2> QED BY <1>1, <1>2, <1>3, <2>1, FramesTrueKept
<1>9. FlightValues' /\ FlightOK' /\ SignalCoversWork'
  BY <1>1, <1>2, <1>3, <1>4, FlightValuesKept, FlightKept, SignalsKept
<1>10. WatchOK'
  BY <1>1, <1>4, WatchesKept
<1> QED BY <1>2, <1>5, <1>6, <1>7, <1>8, <1>9, <1>10 DEF SubmissionInv

LEMMA ListenStep ==
  ASSUME SubmissionInv, NEW t \in Ids, Listen(t)
  PROVE  SubmissionInv'
<1>1. TypeOK /\ StacksOK /\ FenceValues /\ FrameValues
  BY DEF SubmissionInv
<1>2. /\ t \in notified /\ listening' = listening \ {t} /\ notified' = notified \ {t}
      /\ stack' = [stack EXCEPT ![t] = Run({t})]
      /\ UNCHANGED <<calls, requested, info, pending, mutex, batches, has_waited>>
      /\ UNCHANGED <<event, manual, completed, callbacks, fired>>
      /\ UNCHANGED <<recording, flight, gpu_done, ongoing, allocator>>
      /\ UNCHANGED <<order, submitted, executed, signaled>>
  BY DEF Listen, client, queues, pipeline, history
<1>3. t \in Threads /\ t \in listening /\ WaitReached(t) /\ stack[t] = <<>>
  BY <1>1, <1>2 DEF Threads, TypeOK, FenceValues, StacksOK
<1>4. PICK new : new = Run({t})
  OBVIOUS
<1>5. /\ new \in Seq(Frame) /\ Len(new) = 1 /\ new # <<>> /\ DOMAIN new = {1}
      /\ new[1].at = "run" /\ new[1].cbs = {t}
  <2>1. new \in Seq(Frame) /\ Len(new) = 1 /\ new[1] = RunFrame({t})
    <3>1. PICK ids : ids = {t}
      OBVIOUS
    <3>2. ids \in SUBSET Ids /\ ids # {} /\ new = Run(ids)
      BY <1>4, <3>1
    <3>3. new \in Seq(Frame) /\ Len(new) = 1 /\ new[1] = RunFrame(ids)
      BY ONLY <3>2, RunSequence
    <3> QED BY ONLY <3>1, <3>3
  <2>2. RunFrame({t}).at = "run" /\ RunFrame({t}).cbs = {t}
    BY DEF RunFrame
  <2>3. DOMAIN new = {1} /\ new # <<>>
    <3>1. DOMAIN new = 1 .. 1 /\ new # <<>>
      BY ONLY <2>1
    <3> QED BY ONLY <3>1
  <2> QED BY ONLY <2>1, <2>2, <2>3
<1>6. Moved(t, new, 0) /\ stack' \in [Threads -> Seq(Frame)]
  BY <1>1, <1>2, <1>3, <1>4, <1>5, BeginMoves
<1>7. \A w \in {"arm", "commit"} : ~At(t, w)
  BY <1>3 DEF At
<1>8. StacksOK'
  <2>1. gpu_done' \in Int /\ gpu_done' >= gpu_done
    BY <1>1, <1>2, Numbers
  <2>2. /\ \A k \in DOMAIN new : k > 1 => new[k].at \in {"run", "retire"}
        /\ \A k \in DOMAIN new : ~Draining(new[k]) /\ new[k].at # "retire"
    BY <1>5 DEF Draining
  <2>3. new # <<>> /\ new[1].at # "commit" /\ t \notin listening' /\ listening' \subseteq Ids
        /\ \A i \in listening' : i \in listening
    BY <1>1, <1>2, <1>5 DEF TypeOK
  <2> QED BY <1>1, <1>2, <1>3, <1>6, <1>7, <2>1, <2>2, <2>3, StacksKept
<1>9. ASSUME NEW i \in Ids
      PROVE  /\ InRun(i)' => InRun(i) \/ i = t
             /\ InRun(i) => InRun(i)'
  <2>1. RunIn(new, i) <=> i = t
    BY <1>5 DEF RunIn
  <2> QED BY <1>1, <1>3, <1>6, <2>1, RunsMoved
<1>10. \A i \in Ids : i = t => InRun(i)'
  BY <1>1, <1>3, <1>5, <1>6, RunsMoved DEF RunIn
<1>11. ASSUME NEW u \in Threads, NEW i \in Ids PROVE Resuming(u, i)' <=> Resuming(u, i)
  <2>1. ~Resuming(t, i)
    BY <1>3 DEF Resuming, At
  <2> QED BY <1>1, <1>3, <1>5, <1>6, <2>1, ResumesMoved
<1>12. WatchedKept
  <2> SUFFICES ASSUME NEW i \in Ids, Watched(i) PROVE Watched(i)'
    BY DEF WatchedKept
  <2>1. CASE i \in fired
    <3>1. PICK u \in Threads : Resuming(u, i)
      BY <2>1 DEF Watched
    <3>2. Resuming(u, i)'
      BY <1>11, <3>1
    <3> QED BY <1>2, <2>1, <3>2 DEF Watched
  <2>2. CASE i \notin fired
    BY <1>2, <1>9, <1>10, <2>2 DEF Watched
  <2> QED BY <2>1, <2>2
<1>13. SeenKept
  <2> SUFFICES ASSUME NEW i \in Ids, Seen(i)' PROVE Seen(i)
    BY DEF SeenKept
  <2>1. CASE i = t
    BY <1>3, <2>1 DEF Seen
  <2>2. CASE i # t
    <3>1. stack'[i] = stack[i]
      BY <1>6, <2>2 DEF Moved, Threads
    <3>2. CASE \E u \in Threads : Resuming(u, i)'
      BY <1>11, <3>2 DEF Seen
    <3>3. CASE InRun(i)'
      BY <1>9, <2>2, <3>3 DEF Seen
    <3> QED BY <1>2, <3>1, <3>2, <3>3 DEF Seen
  <2> QED BY <2>1, <2>2
<1>14. \A k \in DOMAIN new : FrameTrue(new[k])
  BY <1>3, <1>5 DEF FrameTrue
<1>15. fired' \subseteq Ids /\ listening' \subseteq listening /\ notified' \subseteq listening'
       /\ notified' \subseteq notified
  BY <1>1, <1>2 DEF TypeOK
<1>16. new # <<>> /\ new[1].at \notin {"arm", "commit", "lock"}
  BY <1>5
<1> QED BY <1>2, <1>3, <1>6, <1>7, <1>8, <1>12, <1>13, <1>14, <1>15, <1>16, CallbackStep

LEMMA RunCallbackStep ==
  ASSUME SubmissionInv, NEW t \in Threads, RunCallback(t)
  PROVE  SubmissionInv'
<1>1. TypeOK /\ StacksOK /\ FenceValues /\ FrameValues
  BY DEF SubmissionInv
<1>2. At(t, "run")
  BY DEF RunCallback
<1>3. /\ stack[t] # <<>> /\ stack[t][1] \in Frame /\ Head(stack[t]) = stack[t][1]
      /\ stack[t][1].at = "run" /\ 1 \in DOMAIN stack[t]
  BY <1>1, <1>2, HeadFacts
<1>4. PICK c \in stack[t][1].cbs :
        /\ fired' = fired \cup {c}
        /\ stack' = [stack EXCEPT
             ![t] = (IF c \in fired THEN <<>> ELSE <<Lock(info[c].q, NoOp, c)>>)
                      \o Run(stack[t][1].cbs \ {c}) \o Tail(stack[t])]
  BY <1>3 DEF RunCallback
<1>5. /\ UNCHANGED <<calls, requested, info, pending, mutex, batches, has_waited>>
      /\ UNCHANGED <<event, manual, completed, callbacks, listening, notified>>
      /\ UNCHANGED <<recording, flight, gpu_done, ongoing, allocator>>
      /\ UNCHANGED <<order, submitted, executed, signaled>>
  BY DEF RunCallback, client, queues, pipeline, history
<1>6. PICK rest, lock : rest = stack[t][1].cbs \ {c} /\ lock = Lock(info[c].q, NoOp, c)
  OBVIOUS
<1>7. /\ stack[t][1].cbs \in SUBSET Ids /\ rest \in SUBSET Ids /\ c \in Ids
      /\ \A i \in stack[t][1].cbs : WaitReached(i)
  BY <1>1, <1>3, <1>6, FrameFacts DEF FrameValues, FrameTrue
<1>8. lock \in Frame /\ lock.at = "lock" /\ lock.cb = c /\ lock.q = info[c].q /\ c # 0
  <2>1. info[c].q \in Queues /\ c \in 0 .. MaxOps /\ c # 0
    BY <1>1, <1>7, WaitFacts, QueueAssumption DEF WaitReached, Ids
  <2>2. lock \in Frame
    BY <1>6, <2>1, FramesMade
  <2> QED BY <1>6, <2>1, <2>2 DEF Lock
<1>9. \E new \in Seq(Frame) :
        /\ stack' = [stack EXCEPT ![t] = new \o Tail(stack[t])]
        /\ \A k \in DOMAIN new : (k = 1 /\ c \notin fired /\ new[k] = lock) \/ new[k] = RunFrame(rest)
        /\ c \notin fired => new # <<>> /\ new[1] = lock
        /\ rest # {} => \E k \in DOMAIN new : new[k] = RunFrame(rest)
  <2>1. CASE c \in fired
    <3>1. PICK new : new = Run(rest)
      OBVIOUS
    <3>2. /\ new \in Seq(Frame) /\ Len(new) = (IF rest = {} THEN 0 ELSE 1)
          /\ \A k \in 1 .. Len(new) : new[k] = RunFrame(rest)
      BY <1>7, <3>1, RunSequence
    <3>3. DOMAIN new = 1 .. Len(new) /\ (rest # {} => 1 \in DOMAIN new)
      <4>1. new \in Seq(Frame) /\ (rest # {} => Len(new) = 1)
        BY <3>2
      <4>2. DOMAIN new = 1 .. Len(new)
        BY <4>1
      <4> QED BY <4>1, <4>2
    <3>4. stack' = [stack EXCEPT ![t] = new \o Tail(stack[t])]
      <4>1. <<>> \o new = new
        BY <3>2, ConcatEmptySeq
      <4> QED BY <1>4, <1>6, <2>1, <3>1, <4>1
    <3> QED BY <2>1, <3>2, <3>3, <3>4
  <2>2. CASE c \notin fired
    <3>1. PICK new : new = ThenRuns(lock, rest)
      OBVIOUS
    <3>2. /\ new \in Seq(Frame) /\ new # <<>> /\ DOMAIN new = 1 .. Len(new)
          /\ Len(new) = (IF rest = {} THEN 1 ELSE 2)
          /\ new[1] = lock /\ \A k \in DOMAIN new : k > 1 => new[k] = RunFrame(rest)
      BY <1>7, <1>8, <3>1, ThenRun
    <3>3. /\ \A k \in DOMAIN new : k = 1 \/ k > 1
          /\ rest # {} => 2 \in DOMAIN new /\ 2 > 1
      BY <3>2
    <3>4. stack' = [stack EXCEPT ![t] = new \o Tail(stack[t])]
      BY <1>4, <1>6, <2>2, <3>1 DEF ThenRuns
    <3> QED BY <2>2, <3>2, <3>3, <3>4
  <2> QED BY <2>1, <2>2
<1>10. PICK new \in Seq(Frame) :
        /\ stack' = [stack EXCEPT ![t] = new \o Tail(stack[t])]
        /\ \A k \in DOMAIN new : (k = 1 /\ c \notin fired /\ new[k] = lock) \/ new[k] = RunFrame(rest)
        /\ c \notin fired => new # <<>> /\ new[1] = lock
        /\ rest # {} => \E k \in DOMAIN new : new[k] = RunFrame(rest)
  BY <1>9
<1>11. Moved(t, new, 1) /\ stack' \in [Threads -> Seq(Frame)]
  BY <1>1, <1>3, <1>10, ReplaceMoves
<1>12. RunFrame(rest).at = "run" /\ RunFrame(rest).cbs = rest
  BY DEF RunFrame
<1>13. /\ \A k \in DOMAIN new : \/ k = 1 /\ c \notin fired /\ new[k].at = "lock" /\ new[k].cb = c
                                \/ new[k].at = "run" /\ new[k].cbs = rest
       /\ new # <<>> => 1 \in DOMAIN new
       /\ c \notin fired => new # <<>> /\ new[1].at = "lock" /\ new[1].cb = c
  BY <1>8, <1>10, <1>12
<1>14. ~At(t, "arm") /\ ~At(t, "commit") /\ ~At(t, "lock")
  BY <1>3 DEF At
<1>15. StacksOK'
  <2>1. gpu_done' \in Int /\ gpu_done' >= gpu_done
    BY <1>1, <1>5, Numbers
  <2>2. /\ \A k \in DOMAIN new : k > 1 => new[k].at \in {"run", "retire"}
        /\ \A k \in DOMAIN new : ~Draining(new[k]) /\ new[k].at # "retire" /\ new[k].at # "commit"
    BY <1>13 DEF Draining
  <2>3. /\ t \notin listening /\ listening' \subseteq Ids
        /\ \A i \in listening' : i \in listening
    BY <1>1, <1>3, <1>5 DEF TypeOK, StacksOK
  <2>4. new = <<>> \/ new[1].at # "commit"
    BY <1>13, <2>2
  <2> QED BY <1>1, <1>3, <1>5, <1>11, <1>14, <2>1, <2>2, <2>3, <2>4, StacksKept
<1>16. ASSUME NEW i \in Ids
       PROVE  /\ RunIn(new, i) => i \in rest
              /\ i \in rest => RunIn(new, i)
              /\ i \in stack[t][1].cbs => InRun(i) /\ i \in rest \cup {c}
  <2>1. RunIn(new, i) => i \in rest
    BY <1>13 DEF RunIn
  <2>2. i \in rest => RunIn(new, i)
    BY <1>10, <1>12 DEF RunIn
  <2>3. i \in stack[t][1].cbs => InRun(i)
    BY <1>3 DEF InRun
  <2>4. i \in stack[t][1].cbs => i \in rest \cup {c}
    BY <1>6
  <2> QED BY <2>1, <2>2, <2>3, <2>4
<1>17. ASSUME NEW i \in Ids
       PROVE  /\ InRun(i)' => InRun(i)
              /\ InRun(i) /\ i # c => InRun(i)'
  <2>1. /\ InRun(i)' => InRun(i) \/ RunIn(new, i)
        /\ InRun(i) => InRun(i)' \/ i \in stack[t][1].cbs
        /\ RunIn(new, i) => InRun(i)'
    BY <1>1, <1>11, RunsMoved
  <2>2. i \in rest => i \in stack[t][1].cbs
    BY <1>6
  <2> QED BY <1>16, <2>1, <2>2
<1>18. ASSUME NEW u \in Threads, NEW i \in Ids
       PROVE  /\ Resuming(u, i)' => Resuming(u, i) \/ i = c
              /\ Resuming(u, i) => Resuming(u, i)'
              /\ i = c /\ u = t /\ c \notin fired => Resuming(u, i)'
  <2>1. ~Resuming(t, i)
    BY <1>14 DEF Resuming
  <2>2. /\ u # t => (Resuming(u, i)' <=> Resuming(u, i))
        /\ u = t => (Resuming(u, i)' <=> new # <<>> /\ new[1].at = "lock" /\ new[1].cb = i)
    BY <1>1, <1>11, ResumesMoved
  <2>3. new # <<>> /\ new[1].at = "lock" => new[1].cb = c
    BY <1>13
  <2> QED BY <1>13, <2>1, <2>2, <2>3
<1>19. WatchedKept
  <2> SUFFICES ASSUME NEW i \in Ids, Watched(i) PROVE Watched(i)'
    BY DEF WatchedKept
  <2>1. CASE i \in fired
    <3>1. PICK u \in Threads : Resuming(u, i)
      BY <2>1 DEF Watched
    <3>2. Resuming(u, i)' /\ i \in fired'
      BY <1>4, <1>18, <2>1, <3>1
    <3> QED BY <3>2 DEF Watched
  <2>2. CASE i \notin fired /\ i = c
    <3>1. Resuming(t, i)' /\ i \in fired'
      BY <1>4, <1>18, <2>2
    <3> QED BY <3>1 DEF Watched
  <2>3. CASE i \notin fired /\ i # c
    <3>1. i \notin fired' /\ (i \in listening \/ InRun(i))
      BY <1>4, <2>3 DEF Watched
    <3> QED BY <1>5, <1>17, <2>3, <3>1 DEF Watched
  <2> QED BY <2>1, <2>2, <2>3
<1>20. SeenKept
  <2> SUFFICES ASSUME NEW i \in Ids, Seen(i)' PROVE Seen(i)
    BY DEF SeenKept
  <2>1. CASE i = c
    BY <1>16, <2>1 DEF Seen
  <2>2. CASE i # c
    <3>1. stack'[i] # <<>> => stack[i] # <<>>
      BY <1>3, <1>11 DEF Moved, Threads
    <3>2. CASE \E u \in Threads : Resuming(u, i)'
      BY <1>18, <2>2, <3>2 DEF Seen
    <3>3. CASE InRun(i)'
      BY <1>17, <3>3 DEF Seen
    <3>4. i \in fired' => i \in fired
      BY <1>4, <2>2
    <3> QED BY <1>5, <3>1, <3>2, <3>3, <3>4 DEF Seen
  <2> QED BY <2>1, <2>2
<1>21. \A k \in DOMAIN new : FrameTrue(new[k])
  <2> SUFFICES ASSUME NEW k \in DOMAIN new PROVE FrameTrue(new[k])
    OBVIOUS
  <2>1. CASE new[k] = lock
    BY <1>7, <1>8, <2>1 DEF FrameTrue
  <2>2. CASE new[k] = RunFrame(rest)
    BY <1>6, <1>7, <1>12, <2>2 DEF FrameTrue
  <2> QED BY <1>10, <2>1, <2>2
<1>22. fired' \subseteq Ids /\ listening' \subseteq listening /\ notified' \subseteq listening'
       /\ notified' \subseteq notified
  BY <1>1, <1>4, <1>5, <1>7 DEF TypeOK
<1>23. new # <<>> => new[1].at \notin {"arm", "commit"} /\ (new[1].at = "lock" => new[1].cb # 0)
  BY <1>8, <1>13
<1> QED BY <1>5, <1>11, <1>14, <1>15, <1>19, <1>20, <1>21, <1>22, <1>23, CallbackStep

-----------------------------------------------------------------------------
(* The calls of the application.                                           *)

InfoKept == \A i \in Ids : info[i] # NoOp => info'[i] = info[i]

(* A new operation changes nothing of those that there were.               *)
LEMMA InfoExtended ==
  ASSUME TypeOK, OrdersOK, InfoKept, order' = order
  PROVE  /\ \A op \in Op : IsOp(op) => IsOp(op)'
         /\ \A q \in Queues : \A j \in DOMAIN order[q] :
              /\ info'[order[q][j]] = info[order[q][j]]
              /\ Work(q, j)' = Work(q, j) /\ Before(q, j)' = Before(q, j)
<1>1. ASSUME NEW op \in Op, IsOp(op) PROVE IsOp(op)'
  <2>1. op.id \in Ids /\ op.type \in {"Execute", "Signal", "Wait"}
    BY OpFacts
  <2>2. info[op.id] # NoOp
    BY <1>1, <2>1 DEF IsOp, NoOp
  <2>3. info'[op.id] = info[op.id]
    BY <2>1, <2>2 DEF InfoKept
  <2> QED BY <1>1, <2>3 DEF IsOp
<1>2. ASSUME NEW q \in Queues, NEW j \in DOMAIN order[q] PROVE info'[order[q][j]] = info[order[q][j]]
  <2>1. order[q][j] \in Ids /\ info[order[q][j]] \in Op
    BY Numbers DEF OrdersOK
  <2>2. info[order[q][j]] # NoOp
    BY <2>1, OpFacts
  <2> QED BY <2>1, <2>2 DEF InfoKept
<1>3. ASSUME NEW q \in Queues, NEW j \in DOMAIN order[q]
      PROVE  Work(q, j)' = Work(q, j) /\ Before(q, j)' = Before(q, j)
  <2>1. \A i \in 1 .. j - 1 : i \in DOMAIN order[q]
    BY Numbers
  <2>2. \A i \in 1 .. j - 1 : info'[order[q][i]] = info[order[q][i]]
    BY <1>2, <2>1
  <2>3. Before(q, j)' = Before(q, j)
    BY <2>2 DEF Before
  <2>4. \A w : w \in Work(q, j)' <=> w \in Work(q, j)
    BY <2>2 DEF Work
  <2> QED BY <2>3, <2>4
<1> QED BY <1>1, <1>2, <1>3

LEMMA QueueCallStep ==
  ASSUME SubmissionInv, NEW t \in AppThreads, NEW q \in Queues, NEW f \in Fences,
         NEW type \in {"Execute", "Signal", "Wait"}, NEW v \in Values \cup {0},
         type = "Signal" => v \in Values,
         QueueCall(t, q, type, f, v)
  PROVE  SubmissionInv'
<1>1. /\ TypeOK /\ StacksOK /\ FenceValues /\ FrameValues /\ FlightValues /\ FlightOK
      /\ SignalCoversWork /\ OrdersOK /\ WatchOK /\ \A r \in Queues : PendingOK(r)
  BY DEF SubmissionInv
<1>2. PICK c, op : c = calls + 1 /\
        op = [id |-> c, type |-> type, q |-> q, f |-> f, v |-> v,
              armed |-> FALSE, wait_completed |-> FALSE,
              serial |-> IF type = "Execute" THEN allocator.last + 1 ELSE 0]
  OBVIOUS
<1>3. /\ stack[t] = <<>> /\ calls < MaxOps /\ calls' = c
      /\ requested' = IF type = "Signal" THEN [requested EXCEPT ![f] = v] ELSE requested
      /\ allocator' = IF type = "Execute"
                      THEN [allocator EXCEPT !.last = @ + 1, !.pending = @ + 1]
                      ELSE allocator
      /\ info' = [info EXCEPT ![c] = op] /\ stack' = [stack EXCEPT ![t] = <<Lock(q, op, 0)>>]
      /\ UNCHANGED <<pending, mutex, batches, has_waited>>
      /\ UNCHANGED <<event, manual, completed, callbacks, fired, listening, notified>>
      /\ UNCHANGED <<recording, flight, gpu_done, ongoing>>
      /\ UNCHANGED <<order, submitted, executed, signaled>>
  BY <1>2 DEF QueueCall, queues, fences, pipeline, history
<1>4. calls \in Nat /\ c \in Ids /\ c \in Nat /\ c > calls
  BY <1>1, <1>2, <1>3, QueueAssumption, Numbers DEF Ids
<1>5. /\ op \in Op /\ op.id = c /\ op.type = type /\ op.q = q /\ op.f = f /\ op.v = v
      /\ ~op.armed /\ ~op.wait_completed
  <2>1. PICK s : s = IF type = "Execute" THEN allocator.last + 1 ELSE 0
    OBVIOUS
  <2>2. s \in Nat
    BY <1>1, <2>1 DEF TypeOK
  <2>3. op = [id |-> c, type |-> type, q |-> q, f |-> f, v |-> v,
              armed |-> FALSE, wait_completed |-> FALSE, serial |-> s]
    BY <1>2, <2>1
  <2> QED BY <1>4, <2>2, <2>3 DEF Op
<1>6. t \in Threads /\ t \notin Ids
  BY QueueAssumption DEF Threads, Ids
<1>7. PICK new : new = <<Lock(q, op, 0)>>
  OBVIOUS
<1>8. /\ new \in Seq(Frame) /\ new # <<>> /\ DOMAIN new = {1}
      /\ new[1].at = "lock" /\ new[1].q = q /\ new[1].op = op /\ new[1].cb = 0
  <2>1. Lock(q, op, 0) \in Frame
    <3>1. 0 \in 0 .. MaxOps
      BY QueueAssumption
    <3> QED BY <1>5, <3>1, FramesMade
  <2>2. new[1] = Lock(q, op, 0) /\ new \in Seq(Frame) /\ new # <<>> /\ DOMAIN new = {1}
    BY <1>7, <2>1
  <2> QED BY <2>2 DEF Lock
<1>9. Moved(t, new, 0) /\ stack' \in [Threads -> Seq(Frame)]
  BY <1>1, <1>3, <1>6, <1>7, <1>8, BeginMoves
<1>10. TypeOK'
  <2>1. calls' \in 0 .. MaxOps
    BY <1>2, <1>3, <1>4, QueueAssumption
  <2>2. requested' \in [Fences -> Values \cup {0}]
    BY <1>1, <1>3 DEF TypeOK
  <2>3. info' \in [Ids -> Op \cup {NoOp}]
    BY <1>1, <1>3, <1>4, <1>5 DEF TypeOK
  <2>4. allocator' \in [last : Nat, completed : Nat, pending : Nat]
    <3>1. allocator \in [last : Nat, completed : Nat, pending : Nat]
      BY <1>1 DEF TypeOK
    <3>2. [allocator EXCEPT !.last = @ + 1, !.pending = @ + 1]
            \in [last : Nat, completed : Nat, pending : Nat]
      <4>1. PICK x, y : x = allocator.last + 1 /\ y = allocator.pending + 1
        OBVIOUS
      <4>2. x \in Nat /\ y \in Nat
        BY <3>1, <4>1
      <4>3. [allocator EXCEPT !.last = x, !.pending = y] \in [last : Nat, completed : Nat, pending : Nat]
        BY <3>1, <4>2
      <4> QED BY <4>1, <4>3
    <3> QED BY <1>3, <3>1, <3>2
  <2> QED BY <1>1, <1>3, <1>9, <2>1, <2>2, <2>3, <2>4 DEF TypeOK
<1>11. StacksOK'
  <2>1. gpu_done' \in Int /\ gpu_done' >= gpu_done
    BY <1>1, <1>3, Numbers
  <2>2. /\ \A k \in DOMAIN new : k > 1 => new[k].at \in {"run", "retire"}
        /\ \A k \in DOMAIN new : ~Draining(new[k]) /\ new[k].at # "retire"
    BY <1>8 DEF Draining
  <2>3. new # <<>> /\ new[1].at # "commit" /\ t \notin listening' /\ listening' \subseteq Ids
        /\ \A i \in listening' : i \in listening
    BY <1>1, <1>3, <1>6, <1>8 DEF TypeOK
  <2> QED BY <1>1, <1>3, <1>6, <1>9, <2>1, <2>2, <2>3, StacksKept
<1>12. Grows
  BY <1>1, <1>3, StillGrows
<1>13. InfoKept /\ info'[c] = op /\ \A i \in Ids : i # c => info'[i] = info[i]
  <2>1. info[c] = NoOp
    BY <1>1, <1>4 DEF OrdersOK
  <2>2. info'[c] = op /\ \A i \in Ids : i # c => info'[i] = info[i]
    BY <1>1, <1>3, <1>4 DEF TypeOK
  <2> QED BY <2>1, <2>2 DEF InfoKept
<1>14. ArmsKept /\ WatchedKept /\ SeenKept
  BY <1>1, <1>3, <1>6, <1>8, <1>9, WatchersMoved
<1>15. CommitsKept
  <2>1. ~At(t, "commit")
    BY <1>3 DEF At
  <2> QED BY <1>1, <1>6, <1>8, <1>9, <2>1, CommitsMoved
<1>16. ASSUME NEW r \in Queues PROVE PendingOK(r)'
  <2>1. PendingOK(r)
    BY <1>1
  <2>2. \A k \in DOMAIN pending[r] : pending[r][k].id \notin submitted
    BY <2>1 DEF PendingOK
  <2>3. \A i \in Ids : info[i] \in Op => info'[i] = info[i]
    BY <1>13, OpFacts DEF InfoKept
  <2> QED BY <1>1, <1>3, <1>10, <1>12, <2>1, <2>2, <2>3, PendingKept
<1>17. FenceValues'
  BY <1>1, <1>3, <1>10, <1>12, <1>13, FencesKept DEF InfoKept
<1>18. FrameValues'
  <2>1. \A k \in DOMAIN new : FrameTrue(new[k])'
    BY <1>8 DEF FrameTrue
  <2> QED BY <1>1, <1>6, <1>9, <1>10, <1>12, <1>13, <2>1, FramesTrueKept DEF InfoKept
<1>19. FlightValues'
  BY <1>1, <1>3, <1>10, <1>12, FlightValuesKept
<1>20. /\ \A o \in Op : IsOp(o) => IsOp(o)'
       /\ \A r \in Queues : \A j \in DOMAIN order[r] :
            /\ info'[order[r][j]] = info[order[r][j]]
            /\ Work(r, j)' = Work(r, j) /\ Before(r, j)' = Before(r, j)
  BY <1>1, <1>3, <1>13, InfoExtended
<1>21. SignalCoversWork'
  <2>1. \A r \in Queues : \A j \in 1 .. Len(order[r]) : j \in DOMAIN order[r]
    BY <1>1, Numbers
  <2> SUFFICES ASSUME NEW r \in Queues, NEW j \in 1 .. Len(order[r]),
                      info'[order[r][j]].type = "Signal", order[r][j] \in executed,
                      NEW o \in Before(r, j)', o.type = "Execute"
               PROVE  o.id \in executed
    BY <1>3 DEF SignalCoversWork
  <2> QED BY <1>1, <1>20, <2>1 DEF SignalCoversWork
<1>22. FlightOK'
  <2>1. ASSUME NEW k \in DOMAIN flight
        PROVE  /\ flight[k].id \in submitted /\ IsOp(flight[k])'
               /\ k <= gpu_done => flight[k].id \in executed
    <3>1. flight[k] \in Op /\ IsOp(flight[k])
      BY <1>1, Numbers DEF FlightOK
    <3>2. PICK o : o = flight[k]
      OBVIOUS
    <3>3. IsOp(o)'
      BY <1>20, <3>1, <3>2
    <3>4. IsOp(flight[k])'
      BY <1>3, <3>2, <3>3 DEF IsOp
    <3> QED BY <1>1, <3>4 DEF FlightOK
  <2>2. ASSUME NEW u \in Threads, At(u, "commit")'
        PROVE  (stack[u][1].op.id \in submitted /\ IsOp(stack[u][1].op))'
    <3>1. At(u, "commit") /\ stack'[u][1] = stack[u][1]
      BY <1>15, <2>2 DEF CommitsKept
    <3>2. PICK o : o = stack[u][1].op
      OBVIOUS
    <3>3. o \in Op /\ IsOp(o) /\ o.id \in submitted
      BY <1>1, <3>1, <3>2, HeadFacts, FrameFacts DEF FlightOK
    <3>4. IsOp(o)'
      BY <1>20, <3>3
    <3>5. IsOp(stack[u][1].op)'
      BY <3>1, <3>2, <3>4 DEF IsOp
    <3> QED BY <1>3, <3>1, <3>2, <3>3, <3>5
  <2>3. ASSUME NEW i \in submitted \ executed
        PROVE  \/ \E k \in DOMAIN flight : k > gpu_done /\ flight[k].id = i
               \/ \E u \in Threads : At(u, "commit")' /\ stack'[u][1].op.id = i
    <3>1. CASE \E k \in DOMAIN flight : k > gpu_done /\ flight[k].id = i
      BY <3>1
    <3>2. CASE \E u \in Threads : At(u, "commit") /\ stack[u][1].op.id = i
      BY <1>15, <3>2 DEF CommitsKept
    <3> QED BY <1>1, <3>1, <3>2 DEF FlightOK
  <2>4. ASSUME NEW r \in Queues, NEW j \in DOMAIN order[r]
        PROVE  /\ order[r][j] \in submitted /\ info'[order[r][j]].type = "Execute" => batches[r]
               /\ \A k \in DOMAIN flight : flight[k].id = order[r][j] =>
                    Work(r, j)' \subseteq executed \cup {flight[m].id : m \in 1 .. k - 1}
    BY <1>1, <1>20 DEF FlightOK
  <2>5. executed \subseteq submitted
    BY <1>1 DEF FlightOK
  <2>6. /\ order' = order /\ flight' = flight /\ gpu_done' = gpu_done
        /\ submitted' = submitted /\ executed' = executed /\ batches' = batches
    BY <1>3
  <2>7. (/\ executed \subseteq submitted
         /\ \A k \in DOMAIN flight :
              /\ flight[k].id \in submitted /\ IsOp(flight[k])
              /\ k <= gpu_done => flight[k].id \in executed)'
    BY ONLY <2>1, <2>5, <2>6 DEF IsOp
  <2>8. (\A u \in Threads : At(u, "commit") => stack[u][1].op.id \in submitted /\ IsOp(stack[u][1].op))'
    BY ONLY <2>2 DEF At, IsOp
  <2>9. (\A i \in submitted \ executed :
           \/ \E k \in DOMAIN flight : k > gpu_done /\ flight[k].id = i
           \/ \E u \in Threads : At(u, "commit") /\ stack[u][1].op.id = i)'
    BY ONLY <2>3, <2>6 DEF At
  <2>10. (\A r \in Queues : \A j \in DOMAIN order[r] :
            /\ order[r][j] \in submitted /\ info[order[r][j]].type = "Execute" => batches[r]
            /\ \A k \in DOMAIN flight : flight[k].id = order[r][j] =>
                 Work(r, j) \subseteq executed \cup {flight[m].id : m \in 1 .. k - 1})'
    BY ONLY <2>4, <2>6
  <2> QED BY ONLY <2>7, <2>8, <2>9, <2>10 DEF FlightOK, IsOp, At
<1>23. OrdersOK'
  <2>1. (\A i \in Ids : i > calls => info[i] = NoOp)'
    <3>1. \A i \in Ids : i > c => i > calls /\ i # c
      BY <1>4 DEF Ids
    <3> QED BY <1>1, <1>3, <1>13, <3>1 DEF OrdersOK
  <2>2. (\A r \in Queues : \A j \in DOMAIN order[r] :
           /\ order[r][j] <= calls
           /\ info[order[r][j]] \in Op /\ info[order[r][j]].q = r
           /\ info[order[r][j]].id = order[r][j])'
    <3>1. \A r \in Queues : \A j \in DOMAIN order[r] : order[r][j] <= calls /\ order[r][j] \in Ids
      BY <1>1, Numbers DEF OrdersOK
    <3>2. \A r \in Queues : \A j \in DOMAIN order[r] : order[r][j] <= c
      BY <1>4, <3>1 DEF Ids
    <3> QED BY <1>1, <1>3, <1>20, <3>2 DEF OrdersOK
  <2>3. (\A r, s \in Queues : \A j \in DOMAIN order[r], k \in DOMAIN order[s] :
           order[r][j] = order[s][k] => r = s /\ j = k)'
    BY <1>1, <1>3 DEF OrdersOK
  <2>4. ASSUME NEW u \in Threads
        PROVE  /\ u # t => (Enqueuing(u)' <=> Enqueuing(u)) /\ stack'[u] = stack[u]
               /\ u = t => Enqueuing(u)' /\ stack'[u][1] = new[1]
    <3>1. /\ u # t => stack'[u] = stack[u] /\ (At(u, "lock")' <=> At(u, "lock"))
          /\ u = t => (At(u, "lock")' <=> new # <<>> /\ new[1].at = "lock")
          /\ u = t /\ new # <<>> => stack'[u][1] = new[1]
      BY <1>1, <1>6, <1>8, <1>9, MovedHeads
    <3> QED BY <1>8, <3>1 DEF Enqueuing
  <2>5. ASSUME NEW u \in Threads, Enqueuing(u) PROVE stack[u][1].op.id # c
    <3>1. stack[u][1].op.id <= calls /\ stack[u][1].op.id \in Ids
      BY <1>1, <2>5, OpFacts DEF OrdersOK
    <3> QED BY <1>4, <3>1 DEF Ids
  <2>6. ASSUME NEW u \in Threads, Enqueuing(u)', NEW o, o = stack'[u][1].op
        PROVE  /\ o \in Op /\ o.id <= c /\ IsOp(o)' /\ o.q = stack'[u][1].q
               /\ ~o.armed /\ ~o.wait_completed /\ o.id \notin submitted
               /\ \A r \in Queues : \A j \in DOMAIN order[r] : order[r][j] # o.id
               /\ \A w \in Threads : Enqueuing(w)' /\ stack'[w][1].op.id = o.id => w = u
    <3>1. CASE u = t
      <4>1. o = op /\ stack'[u][1].q = q
        BY <1>8, <2>4, <2>6, <3>1
      <4>2. IsOp(op)'
        BY <1>5, <1>13 DEF IsOp
      <4>3. op.id \notin submitted /\ \A r \in Queues : \A j \in DOMAIN order[r] : order[r][j] # op.id
        <5>1. \A i \in submitted : i <= calls /\ i \in Ids
          BY <1>1 DEF OrdersOK, TypeOK
        <5>2. \A r \in Queues : \A j \in DOMAIN order[r] : order[r][j] <= calls /\ order[r][j] \in Ids
          BY <1>1, Numbers DEF OrdersOK
        <5> QED BY <1>4, <1>5, <5>1, <5>2 DEF Ids
      <4>4. \A w \in Threads : Enqueuing(w)' /\ stack'[w][1].op.id = op.id => w = t
        BY <1>5, <2>4, <2>5
      <4>5. op.id <= c
        BY <1>4, <1>5
      <4> QED BY <1>5, <3>1, <4>1, <4>2, <4>3, <4>4, <4>5 DEF IsOp
    <3>2. CASE u # t
      <4>1. Enqueuing(u) /\ stack'[u] = stack[u]
        BY <2>4, <2>6, <3>2
      <4>2. /\ o \in Op /\ o.id <= calls /\ IsOp(o) /\ o.q = stack[u][1].q
            /\ ~o.armed /\ ~o.wait_completed /\ o.id \notin submitted
            /\ \A r \in Queues : \A j \in DOMAIN order[r] : order[r][j] # o.id
            /\ \A w \in Threads : Enqueuing(w) /\ stack[w][1].op.id = o.id => w = u
        BY <1>1, <2>6, <4>1 DEF OrdersOK
      <4>3. o.id <= c /\ o.id # c
        BY <1>4, <2>5, <2>6, <4>1, <4>2, OpFacts DEF Ids
      <4>4. IsOp(o)'
        BY <1>20, <4>2
      <4>5. \A w \in Threads : Enqueuing(w)' /\ stack'[w][1].op.id = o.id => w = u
        BY <1>5, <1>8, <2>4, <4>2, <4>3
      <4> QED BY <4>1, <4>2, <4>3, <4>4, <4>5
    <3> QED BY <3>1, <3>2
  <2>7. (\A u \in Threads : Enqueuing(u) =>
           LET o == stack[u][1].op IN
           /\ o \in Op /\ o.id <= calls /\ IsOp(o) /\ o.q = stack[u][1].q
           /\ ~o.armed /\ ~o.wait_completed /\ o.id \notin submitted
           /\ \A r \in Queues : \A j \in DOMAIN order[r] : order[r][j] # o.id
           /\ \A w \in Threads : Enqueuing(w) /\ stack[w][1].op.id = o.id => w = u)'
    <3>1. calls' = c /\ submitted' = submitted /\ order' = order
      BY <1>3
    <3> QED BY ONLY <2>6, <3>1 DEF IsOp, Enqueuing, At
  <2>8. (\A i \in submitted : i <= calls)'
    <3>1. \A i \in submitted : i <= calls /\ i \in Ids
      BY <1>1 DEF OrdersOK, TypeOK
    <3> QED BY <1>3, <1>4, <3>1 DEF Ids
  <2> QED BY <2>1, <2>2, <2>3, <2>7, <2>8 DEF OrdersOK
<1>24. WatchOK'
  BY <1>1, <1>3, <1>14, WatchesKept
<1> QED BY <1>10, <1>11, <1>16, <1>17, <1>18, <1>19, <1>21, <1>22, <1>23, <1>24 DEF SubmissionInv

-----------------------------------------------------------------------------
(* The queues.                                                             *)

LEMMA NotArming ==
  ASSUME TypeOK, StacksOK, NEW q \in Queues,
         mutex[q] = Nobody \/ \E t \in Threads : Busy(t, "drain", q)
  PROVE  ~Arming(q)
<1> SUFFICES ASSUME NEW u \in Threads, Busy(u, "arm", q) PROVE FALSE
  BY DEF Arming
<1>1. ASSUME NEW t \in Threads, NEW w \in {"drain", "arm"}, Busy(t, w, q)
      PROVE  mutex[q] = t /\ t # Nobody /\ stack[t][1].at = w
  <2>1. At(t, w) /\ stack[t][1].q = q
    BY <1>1 DEF Busy
  <2>2. stack[t][1].at = w /\ 1 \in DOMAIN stack[t]
    BY <2>1, HeadFacts
  <2>3. mutex[q] = t
    BY <2>1, <2>2 DEF StacksOK
  <2>4. t # Nobody
    BY QueueAssumption DEF Threads, Ids
  <2> QED BY <2>2, <2>3, <2>4
<1>2. mutex[q] = u /\ u # Nobody /\ stack[u][1].at = "arm"
  BY <1>1
<1>3. PICK t \in Threads : Busy(t, "drain", q)
  BY <1>2
<1>4. mutex[q] = t /\ stack[t][1].at = "drain"
  BY <1>1, <1>3
<1> QED BY <1>2, <1>4

LEMMA EnqueueStep ==
  ASSUME SubmissionInv, NEW t \in Threads, Enqueue(t)
  PROVE  SubmissionInv'
<1>1. /\ TypeOK /\ StacksOK /\ FenceValues /\ FrameValues /\ FlightValues /\ FlightOK
      /\ SignalCoversWork /\ OrdersOK /\ WatchOK /\ \A r \in Queues : PendingOK(r)
  BY DEF SubmissionInv
<1>2. At(t, "lock") /\ Head(stack[t]).cb = 0
  BY DEF Enqueue
<1>3. /\ stack[t] # <<>> /\ stack[t][1] \in Frame /\ Head(stack[t]) = stack[t][1]
      /\ stack[t][1].at = "lock" /\ 1 \in DOMAIN stack[t]
  BY <1>1, <1>2, HeadFacts
<1>4. PICK q, op, n, p : /\ q = stack[t][1].q /\ op = stack[t][1].op
                         /\ n = Len(order[q]) /\ p = Len(pending[q])
  OBVIOUS
<1>5. /\ mutex[q] = Nobody /\ mutex' = [mutex EXCEPT ![q] = t]
      /\ has_waited' = [has_waited EXCEPT ![q] = @ \/ op.type = "Wait"]
      /\ pending' = [pending EXCEPT ![q] = Append(@, op)]
      /\ order' = [order EXCEPT ![q] = Append(@, op.id)]
      /\ stack' = Goto(t, Drain(q))
      /\ UNCHANGED <<calls, requested, info, batches>>
      /\ UNCHANGED <<event, manual, completed, callbacks, fired, listening, notified>>
      /\ UNCHANGED <<recording, flight, gpu_done, ongoing, allocator>>
      /\ UNCHANGED <<submitted, executed, signaled>>
  BY <1>3, <1>4 DEF Enqueue, client, fences, pipeline
<1>6. Enqueuing(t) /\ q \in Queues
  BY <1>1, <1>2, <1>3, <1>4, FrameFacts DEF Enqueuing
<1>7. /\ op \in Op /\ op.id <= calls /\ IsOp(op) /\ op.q = q
      /\ ~op.armed /\ ~op.wait_completed /\ op.id \notin submitted
      /\ \A r \in Queues : \A j \in DOMAIN order[r] : order[r][j] # op.id
      /\ \A u \in Threads : Enqueuing(u) /\ stack[u][1].op.id = op.id => u = t
      /\ op.id \in Ids
  BY <1>1, <1>4, <1>6, OpFacts DEF OrdersOK
<1>8. PICK new : new = <<Drain(q)>>
  OBVIOUS
<1>9. /\ new # <<>> /\ DOMAIN new = {1} /\ new[1].at = "drain" /\ new[1].q = q
      /\ Moved(t, new, 1) /\ stack' \in [Threads -> Seq(Frame)]
  <2>1. Drain(q) \in Frame
    BY <1>6, FramesMade
  <2>2. Moved(t, new, 1) /\ stack' \in [Threads -> Seq(Frame)]
    BY <1>1, <1>3, <1>5, <1>8, <2>1, GotoMoves
  <2> QED BY <1>8, <2>2 DEF Drain
<1>10. /\ n \in Nat /\ p \in Nat /\ DOMAIN order[q] = 1 .. n /\ DOMAIN pending[q] = 1 .. p
       /\ order'[q] \in Seq(Ids) /\ Len(order'[q]) = n + 1 /\ DOMAIN order'[q] = 1 .. n + 1
       /\ order'[q][n + 1] = op.id /\ \A j \in 1 .. n : order'[q][j] = order[q][j]
       /\ pending'[q] \in Seq(Op) /\ Len(pending'[q]) = p + 1 /\ DOMAIN pending'[q] = 1 .. p + 1
       /\ pending'[q][p + 1] = op /\ \A k \in 1 .. p : pending'[q][k] = pending[q][k]
  <2>1. order[q] \in Seq(Ids) /\ pending[q] \in Seq(Op)
    BY <1>1, <1>6 DEF TypeOK
  <2>2. order'[q] = Append(order[q], op.id) /\ pending'[q] = Append(pending[q], op)
    BY <1>1, <1>5, <1>6 DEF TypeOK
  <2>3. /\ n \in Nat /\ DOMAIN order[q] = 1 .. n
        /\ order'[q] \in Seq(Ids) /\ Len(order'[q]) = n + 1 /\ DOMAIN order'[q] = 1 .. n + 1
        /\ order'[q][n + 1] = op.id /\ \A j \in 1 .. n : order'[q][j] = order[q][j]
    <3>1. order[q] \in Seq(Ids) /\ op.id \in Ids /\ n = Len(order[q])
      BY <1>4, <1>7, <2>1
    <3> QED BY ONLY <2>2, <3>1, AppendFacts
  <2>4. /\ p \in Nat /\ DOMAIN pending[q] = 1 .. p
        /\ pending'[q] \in Seq(Op) /\ Len(pending'[q]) = p + 1 /\ DOMAIN pending'[q] = 1 .. p + 1
        /\ pending'[q][p + 1] = op /\ \A k \in 1 .. p : pending'[q][k] = pending[q][k]
    <3>1. pending[q] \in Seq(Op) /\ op \in Op /\ p = Len(pending[q])
      BY <1>4, <1>7, <2>1
    <3> QED BY ONLY <2>2, <3>1, AppendFacts
  <2> QED BY <2>3, <2>4
<1>11. \A r \in Queues : r # q => order'[r] = order[r] /\ pending'[r] = pending[r] /\ mutex'[r] = mutex[r]
  BY <1>1, <1>5, <1>6 DEF TypeOK
<1>12. mutex'[q] = t /\ t # Nobody
  BY <1>1, <1>5, <1>6, QueueAssumption DEF TypeOK, Threads, Ids
<1>13. TypeOK'
  <2>1. order' \in [Queues -> Seq(Ids)] /\ pending' \in [Queues -> Seq(Op)]
    <3>1. order \in [Queues -> Seq(Ids)] /\ pending \in [Queues -> Seq(Op)]
      BY <1>1 DEF TypeOK
    <3>2. Append(order[q], op.id) \in Seq(Ids) /\ Append(pending[q], op) \in Seq(Op)
      BY <1>6, <1>7, <3>1
    <3> QED BY <1>5, <3>1, <3>2
  <2>2. mutex' \in [Queues -> Threads \cup {Nobody}]
    BY <1>1, <1>5 DEF TypeOK
  <2>3. has_waited' \in [Queues -> BOOLEAN]
    BY <1>1, <1>5 DEF TypeOK
  <2> QED BY <1>1, <1>5, <1>9, <2>1, <2>2, <2>3 DEF TypeOK
<1>14. ~At(t, "commit") /\ ~At(t, "arm") /\ ~At(t, "retire")
  BY <1>3 DEF At
<1>15. StacksOK'
  <2>1. gpu_done' \in Int /\ gpu_done' >= gpu_done
    BY <1>1, <1>5, Numbers
  <2>2. /\ \A k \in DOMAIN new : k > 1 => new[k].at \in {"run", "retire"}
        /\ \A k \in DOMAIN new : new[k].at # "retire" /\ new[k].q = q
    BY <1>9
  <2>3. /\ t \notin listening' /\ listening' \subseteq Ids /\ \A i \in listening' : i \in listening
    BY <1>1, <1>3, <1>5 DEF TypeOK, StacksOK
  <2>4. \A r \in Queues : mutex'[r] = mutex[r] \/ mutex[r] = Nobody
    BY <1>5, <1>11
  <2> QED BY <1>1, <1>5, <1>9, <1>12, <1>14, <2>1, <2>2, <2>3, <2>4, StacksKept
<1>16. Grows
  BY <1>1, <1>5, StillGrows
<1>17. ArmsKept /\ WatchedKept /\ SeenKept
  <2>1. TypeOK /\ StacksOK /\ t \in Threads /\ Moved(t, new, 1) /\ stack[t] # <<>>
    BY <1>1, <1>3, <1>9
  <2>2. /\ stack[t][1].at \notin {"run", "arm"}
        /\ stack[t][1].at = "lock" => stack[t][1].cb = 0
    BY <1>2, <1>3
  <2>3. /\ new # <<>> /\ new[1].at # "arm" /\ new[1].at # "lock"
        /\ \A k \in DOMAIN new : new[k].at # "run"
    BY <1>9
  <2>4. /\ fired' = fired /\ listening' = listening
        /\ \A f \in Fences : callbacks'[f] \subseteq callbacks[f]
    BY <1>5
  <2> QED BY ONLY <2>1, <2>2, <2>3, <2>4, WatchersMoved
<1>18. CommitsKept /\ EnqueuersKept
  BY <1>1, <1>9, <1>14, CommitsMoved, EnqueuersMoved
<1>19. ~Enqueuing(t)'
  <2>1. At(t, "lock")' <=> new # <<>> /\ new[1].at = "lock"
    BY <1>1, <1>9, MovedHeads
  <2> QED BY <1>9, <2>1 DEF Enqueuing
<1>20. PICK m : m = Popped(q)
  OBVIOUS
<1>21. m \in Nat /\ m + p = n /\ Popped(q)' = m
  <2>1. p <= n /\ m = n - p /\ n \in Nat /\ p \in Nat
    BY <1>1, <1>4, <1>6, <1>10, <1>20 DEF PendingOK, Popped
  <2>2. Len(order'[q]) = n + 1 /\ Len(pending'[q]) = p + 1
    BY <1>10
  <2>3. Popped(q)' = (n + 1) - (p + 1)
    BY ONLY <2>2 DEF Popped
  <2> QED BY ONLY <2>1, <2>3
<1>22. ASSUME NEW r \in Queues PROVE PendingOK(r)'
  <2>1. CASE r # q
    <3>1. PendingOK(r)
      BY <1>1
    <3>2. \A k \in DOMAIN pending[r] : pending[r][k].id \notin submitted
      BY <3>1 DEF PendingOK
    <3> QED BY <1>1, <1>5, <1>11, <1>13, <1>16, <2>1, <3>1, <3>2, PendingKept
  <2>2. CASE r = q
    <3>0. info' = info /\ submitted' = submitted /\ signaled' = signaled
      BY <1>5
    <3>1. PendingOK(q)
      BY <1>1, <1>6
    <3>2. ASSUME NEW k \in 1 .. p + 1
          PROVE  (/\ pending[q][k].id = order[q][m + k] /\ IsOp(pending[q][k])
                  /\ pending[q][k].id \notin submitted
                  /\ pending[q][k].wait_completed => Reached(pending[q][k].f, pending[q][k].v)
                  /\ pending[q][k].armed => k = 1 /\ pending[q][k].type = "Wait")'
      <4>1. CASE k \in 1 .. p
        <5>1. m + k \in 1 .. n /\ pending'[q][k] = pending[q][k]
          <6>0. n \in Nat /\ p \in Nat
            BY <1>10
          <6>1. m + k \in 1 .. n
            BY ONLY <1>21, <4>1, <6>0
          <6> QED BY ONLY <1>10, <4>1, <6>1
        <5>2. order'[q][m + k] = order[q][m + k]
          BY <1>10, <5>1
        <5>3. /\ pending[q][k].id = order[q][m + k] /\ IsOp(pending[q][k])
              /\ pending[q][k].id \notin submitted
              /\ pending[q][k].wait_completed => Reached(pending[q][k].f, pending[q][k].v)
              /\ pending[q][k].armed => k = 1 /\ pending[q][k].type = "Wait"
          BY <1>10, <1>20, <3>1, <4>1 DEF PendingOK
        <5> QED BY <3>0, <5>1, <5>2, <5>3 DEF IsOp, Reached
      <4>2. CASE k = p + 1
        <5>1. m + k = n + 1 /\ pending'[q][k] = op
          BY <1>10, <1>21, <4>2
        <5> QED BY <1>7, <1>10, <3>0, <5>1 DEF IsOp
      <4> QED BY <1>10, <4>1, <4>2
    <3>3. ASSUME NEW j \in 1 .. m
          PROVE  (LET o == info[order[q][j]] IN
                  IF o.type = "Wait" THEN Reached(o.f, o.v) ELSE order[q][j] \in submitted)'
      <4>1. j \in 1 .. n /\ order'[q][j] = order[q][j]
        BY <1>10, <1>21
      <4>2. LET o == info[order[q][j]] IN
            IF o.type = "Wait" THEN Reached(o.f, o.v) ELSE order[q][j] \in submitted
        BY <1>20, <3>1 DEF PendingOK
      <4> QED BY <3>0, <4>1, <4>2 DEF Reached
    <3>4. Len(pending'[q]) <= Len(order'[q]) /\ DOMAIN pending'[q] = 1 .. p + 1
      BY <1>10, <1>21
    <3>5. PendingOK(q)'
      BY <1>21, <3>2, <3>3, <3>4 DEF PendingOK, Reached
    <3> QED BY <2>2, <3>5
  <2> QED BY <2>1, <2>2
<1>23. info[op.id] \in Op /\ info[op.id].q = q /\ info[op.id].id = op.id
  <2>1. info[op.id].type = op.type /\ info[op.id].q = op.q /\ info[op.id].id = op.id
    BY <1>7 DEF IsOp
  <2>2. op.type # NoOp.type
    BY <1>7, OpFacts DEF NoOp
  <2> QED BY <1>1, <1>7, <2>1, <2>2 DEF TypeOK
<1>24. ASSUME NEW r \in Queues, NEW j \in DOMAIN order'[r]
       PROVE  \/ j \in DOMAIN order[r] /\ order'[r][j] = order[r][j]
              \/ r = q /\ j = n + 1 /\ order'[r][j] = op.id
  <2>1. CASE r # q
    BY <1>11, <2>1
  <2>2. CASE r = q /\ j \in 1 .. n
    BY <1>10, <2>2
  <2>3. CASE r = q /\ j = n + 1
    BY <1>10, <2>3
  <2> QED BY <1>10, <2>1, <2>2, <2>3
<1>25. OrdersOK'
  <2>1. (\A i \in Ids : i > calls => info[i] = NoOp)' /\ (\A i \in submitted : i <= calls)'
    BY <1>1, <1>5 DEF OrdersOK
  <2>2. ASSUME NEW r \in Queues, NEW j \in DOMAIN order'[r]
        PROVE  (/\ order[r][j] <= calls
                /\ info[order[r][j]] \in Op /\ info[order[r][j]].q = r
                /\ info[order[r][j]].id = order[r][j])'
    <3>1. CASE j \in DOMAIN order[r] /\ order'[r][j] = order[r][j]
      BY <1>1, <1>5, <3>1 DEF OrdersOK
    <3>2. CASE r = q /\ order'[r][j] = op.id
      BY <1>5, <1>7, <1>23, <3>2
    <3> QED BY <1>24, <3>1, <3>2
  <2>3. ASSUME NEW r \in Queues, NEW s \in Queues, NEW j \in DOMAIN order'[r], NEW k \in DOMAIN order'[s],
               order'[r][j] = order'[s][k]
        PROVE  r = s /\ j = k
    <3>1. \/ j \in DOMAIN order[r] /\ order'[r][j] = order[r][j]
          \/ r = q /\ j = n + 1 /\ order'[r][j] = op.id
      BY <1>24
    <3>2. \/ k \in DOMAIN order[s] /\ order'[s][k] = order[s][k]
          \/ s = q /\ k = n + 1 /\ order'[s][k] = op.id
      BY <1>24
    <3> QED BY <1>1, <1>7, <2>3, <3>1, <3>2 DEF OrdersOK
  <2>4. ASSUME NEW u \in Threads, Enqueuing(u)', NEW o, o = stack'[u][1].op
        PROVE  /\ o \in Op /\ o.id <= calls /\ IsOp(o)' /\ o.q = stack'[u][1].q
               /\ ~o.armed /\ ~o.wait_completed /\ o.id \notin submitted
               /\ \A r \in Queues : \A j \in DOMAIN order'[r] : order'[r][j] # o.id
               /\ \A w \in Threads : Enqueuing(w)' /\ stack'[w][1].op.id = o.id => w = u
    <3>1. Enqueuing(u) /\ stack'[u][1] = stack[u][1] /\ u # t
      BY <1>18, <1>19, <2>4 DEF EnqueuersKept
    <3>2. /\ o \in Op /\ o.id <= calls /\ IsOp(o) /\ o.q = stack[u][1].q
          /\ ~o.armed /\ ~o.wait_completed /\ o.id \notin submitted
          /\ \A r \in Queues : \A j \in DOMAIN order[r] : order[r][j] # o.id
          /\ \A w \in Threads : Enqueuing(w) /\ stack[w][1].op.id = o.id => w = u
      BY <1>1, <2>4, <3>1 DEF OrdersOK
    <3>3. o.id # op.id
      BY <1>7, <2>4, <3>1
    <3>4. \A r \in Queues : \A j \in DOMAIN order'[r] : order'[r][j] # o.id
      BY <1>24, <3>2, <3>3
    <3>5. \A w \in Threads : Enqueuing(w)' /\ stack'[w][1].op.id = o.id => w = u
      BY <1>18, <3>2 DEF EnqueuersKept
    <3>6. IsOp(o)'
      BY <1>5, <3>2 DEF IsOp
    <3> QED BY <3>1, <3>2, <3>4, <3>5, <3>6
  <2>5. (\A u \in Threads : Enqueuing(u) =>
           LET o == stack[u][1].op IN
           /\ o \in Op /\ o.id <= calls /\ IsOp(o) /\ o.q = stack[u][1].q
           /\ ~o.armed /\ ~o.wait_completed /\ o.id \notin submitted
           /\ \A r \in Queues : \A j \in DOMAIN order[r] : order[r][j] # o.id
           /\ \A w \in Threads : Enqueuing(w) /\ stack[w][1].op.id = o.id => w = u)'
    <3>1. calls' = calls /\ submitted' = submitted
      BY <1>5
    <3> QED BY ONLY <2>4, <3>1 DEF IsOp, Enqueuing, At
  <2> QED BY <2>1, <2>2, <2>3, <2>5 DEF OrdersOK
<1>26. FenceValues'
  BY <1>1, <1>5, <1>13, <1>16, FencesKept
<1>27. FrameValues'
  <2>1. \A k \in DOMAIN new : FrameTrue(new[k])'
    BY <1>9 DEF FrameTrue
  <2> QED BY <1>1, <1>5, <1>9, <1>13, <1>16, <2>1, FramesTrueKept
<1>28. FlightValues'
  BY <1>1, <1>5, <1>13, <1>16, FlightValuesKept
<1>29. ASSUME NEW r \in Queues, NEW j \in DOMAIN order[r]
       PROVE  Work(r, j)' = Work(r, j) /\ Before(r, j)' = Before(r, j)
  <2>1. \A i \in 1 .. j - 1 : order'[r][i] = order[r][i]
    <3>1. CASE r # q
      BY <1>11, <3>1
    <3>2. CASE r = q
      <4>1. \A i \in 1 .. j - 1 : i \in 1 .. n
        BY <1>10, <3>2
      <4> QED BY <1>10, <3>2, <4>1
    <3> QED BY <3>1, <3>2
  <2>2. Before(r, j)' = Before(r, j)
    BY <1>5, <2>1 DEF Before
  <2>3. \A w : w \in Work(r, j)' <=> w \in Work(r, j)
    BY <1>5, <2>1 DEF Work
  <2> QED BY <2>2, <2>3
<1>30. FlightOK'
  <2>1. (\A k \in DOMAIN flight :
           /\ flight[k].id \in submitted /\ IsOp(flight[k])
           /\ k <= gpu_done => flight[k].id \in executed)' /\ (executed \subseteq submitted)'
    BY <1>1, <1>5 DEF FlightOK, IsOp
  <2>2. ASSUME NEW u \in Threads, At(u, "commit")'
        PROVE  (stack[u][1].op.id \in submitted /\ IsOp(stack[u][1].op))'
    <3>1. At(u, "commit") /\ stack'[u][1] = stack[u][1]
      BY <1>18, <2>2 DEF CommitsKept
    <3>2. stack[u][1].op.id \in submitted /\ IsOp(stack[u][1].op)
      BY <1>1, <3>1, CommitEntry
    <3>3. info' = info /\ submitted' = submitted
      BY <1>5
    <3> QED BY ONLY <3>1, <3>2, <3>3 DEF IsOp
  <2>3. ASSUME NEW i \in submitted \ executed
        PROVE  \/ \E k \in DOMAIN flight : k > gpu_done /\ flight[k].id = i
               \/ \E u \in Threads : At(u, "commit")' /\ stack'[u][1].op.id = i
    <3>1. CASE \E k \in DOMAIN flight : k > gpu_done /\ flight[k].id = i
      BY <3>1
    <3>2. CASE \E u \in Threads : At(u, "commit") /\ stack[u][1].op.id = i
      BY <1>18, <3>2 DEF CommitsKept
    <3> QED BY <1>1, <3>1, <3>2 DEF FlightOK
  <2>4. ASSUME NEW r \in Queues, NEW j \in DOMAIN order'[r]
        PROVE  /\ order'[r][j] \in submitted /\ info[order'[r][j]].type = "Execute" => batches[r]
               /\ \A k \in DOMAIN flight : flight[k].id = order'[r][j] =>
                    Work(r, j)' \subseteq executed \cup {flight[i].id : i \in 1 .. k - 1}
    <3>1. CASE j \in DOMAIN order[r] /\ order'[r][j] = order[r][j]
      BY <1>1, <1>29, <3>1 DEF FlightOK
    <3>2. CASE order'[r][j] = op.id
      BY <1>1, <1>7, <3>2 DEF FlightOK
    <3> QED BY <1>24, <3>1, <3>2
  <2>6. /\ info' = info /\ flight' = flight /\ gpu_done' = gpu_done
        /\ submitted' = submitted /\ executed' = executed /\ batches' = batches
    BY <1>5
  <2>8. (\A u \in Threads : At(u, "commit") => stack[u][1].op.id \in submitted /\ IsOp(stack[u][1].op))'
    BY ONLY <2>2 DEF At, IsOp
  <2>9. (\A i \in submitted \ executed :
           \/ \E k \in DOMAIN flight : k > gpu_done /\ flight[k].id = i
           \/ \E u \in Threads : At(u, "commit") /\ stack[u][1].op.id = i)'
    BY ONLY <2>3, <2>6 DEF At
  <2>10. (\A r \in Queues : \A j \in DOMAIN order[r] :
            /\ order[r][j] \in submitted /\ info[order[r][j]].type = "Execute" => batches[r]
            /\ \A k \in DOMAIN flight : flight[k].id = order[r][j] =>
                 Work(r, j) \subseteq executed \cup {flight[e].id : e \in 1 .. k - 1})'
    BY ONLY <2>4, <2>6
  <2> QED BY ONLY <2>1, <2>8, <2>9, <2>10 DEF FlightOK, IsOp, At
<1>31. SignalCoversWork'
  <2> SUFFICES ASSUME NEW r \in Queues, NEW j \in 1 .. Len(order'[r]),
                      info[order'[r][j]].type = "Signal", order'[r][j] \in executed,
                      NEW o \in Before(r, j)', o.type = "Execute"
               PROVE  o.id \in executed
    BY <1>5 DEF SignalCoversWork
  <2>1. order'[r] \in Seq(Ids)
    BY <1>13 DEF TypeOK
  <2>2. j \in DOMAIN order'[r]
    BY <2>1
  <2>3. order'[r][j] # op.id
    BY <1>1, <1>7 DEF FlightOK
  <2>4. j \in DOMAIN order[r] /\ order'[r][j] = order[r][j]
    BY <1>24, <2>2, <2>3
  <2>5. j \in 1 .. Len(order[r]) /\ o \in Before(r, j)
    BY <1>1, <1>29, <2>4, Numbers
  <2> QED BY <1>1, <2>4, <2>5 DEF SignalCoversWork
<1>32. WatchOK'
  <2>1. ~Arming(q)
    BY <1>1, <1>5, <1>6, NotArming
  <2>2. ASSUME NEW r \in Queues PROVE FrontOK(r)'
    <3>1. (Arming(r)' <=> Arming(r)) /\ \A i \in Ids : Watched(i) => Watched(i)'
      BY <1>17 DEF ArmsKept, WatchedKept
    <3>2. CASE r # q
      <4>1. FrontOK(r) /\ pending'[r] = pending[r] /\ mutex'[r] = mutex[r]
        BY <1>1, <1>11, <3>2 DEF WatchOK
      <4> SUFFICES ASSUME pending[r] # <<>>, NEW o, o = pending[r][1]
                   PROVE  /\ mutex[r] = Nobody => o.armed /\ ~o.wait_completed
                          /\ Arming(r)' => o.armed /\ ~o.wait_completed
                          /\ o.armed /\ ~o.wait_completed /\ ~Arming(r)' => Watched(o.id)'
        BY <4>1 DEF FrontOK
      <4>2. pending[r] \in Seq(Op)
        BY <1>1 DEF TypeOK
      <4>3. o.id \in Ids
        BY <4>2, OpFacts
      <4> QED BY <3>1, <4>1, <4>3 DEF FrontOK
    <3>3. CASE r = q
      <4> SUFFICES ASSUME NEW o, o = pending'[q][1]
                   PROVE  o.armed /\ ~o.wait_completed => Watched(o.id)'
        BY <1>12, <2>1, <3>1, <3>3 DEF FrontOK
      <4>1. CASE p = 0
        BY <1>7, <1>10, <4>1
      <4>2. CASE p > 0
        <5>1. o = pending[q][1] /\ pending[q] # <<>> /\ 1 \in DOMAIN pending[q]
          BY <1>10, <4>2
        <5>2. o.id \in Ids
          BY <1>1, <1>6, <5>1, Numbers, OpFacts
        <5>3. Watched(o.id)
          BY <1>1, <1>5, <1>6, <2>1, <5>1 DEF WatchOK, FrontOK
        <5> QED BY <3>1, <5>2, <5>3
      <4> QED BY <1>10, <4>1, <4>2
    <3> QED BY <3>2, <3>3
  <2>3. \A r \in Queues : Arming(r)' => pending'[r] # <<>>
    BY <1>1, <1>11, <1>17, <2>1 DEF ArmsKept, WatchOK
  <2>4. ASSUME NEW i \in Ids, Seen(i)' PROVE Armed(i)'
    <3>1. Armed(i)
      BY <1>1, <1>17, <2>4 DEF SeenKept, WatchOK
    <3>2. PICK r \in Queues : \E j \in DOMAIN order[r] :
            /\ order[r][j] = i
            /\ \/ j <= Popped(r)
               \/ j = Popped(r) + 1 /\ pending[r][1].armed /\ ~Arming(r)
      BY <3>1 DEF Armed
    <3>3. PICK j \in DOMAIN order[r] :
            /\ order[r][j] = i
            /\ \/ j <= Popped(r)
               \/ j = Popped(r) + 1 /\ pending[r][1].armed /\ ~Arming(r)
      BY <3>2
    <3>4. Popped(r)' = Popped(r) /\ (Arming(r)' <=> Arming(r)) /\ j \in DOMAIN order'[r] /\ order'[r][j] = i
      <4>1. CASE r # q
        BY <1>11, <1>17, <3>3, <4>1 DEF ArmsKept, Popped
      <4>2. CASE r = q
        <5>1. Popped(q)' = Popped(q)
          BY <1>20, <1>21
        <5>2. j \in DOMAIN order'[q] /\ order'[q][j] = i
          BY <1>10, <3>3, <4>2
        <5> QED BY <1>17, <4>2, <5>1, <5>2 DEF ArmsKept
      <4> QED BY <4>1, <4>2
    <3>5. j = Popped(r) + 1 => pending'[r][1] = pending[r][1]
      <4>1. CASE r # q
        BY <1>11, <4>1
      <4>2. CASE r = q
        <5>1. j = m + 1 => 1 \in 1 .. p
          BY <1>10, <1>21, <3>3, <4>2
        <5> QED BY <1>10, <1>20, <4>2, <5>1
      <4> QED BY <4>1, <4>2
    <3> QED BY <3>3, <3>4, <3>5 DEF Armed
  <2> QED BY <2>2, <2>3, <2>4 DEF WatchOK
<1> QED BY <1>13, <1>15, <1>22, <1>25, <1>26, <1>27, <1>28, <1>30, <1>31, <1>32 DEF SubmissionInv

LEMMA FrontId ==
  ASSUME TypeOK, OrdersOK, NEW q \in Queues, PendingOK(q), pending[q] # <<>>, NEW op, op = pending[q][1]
  PROVE  /\ op \in Op /\ op.id \in Ids /\ IsOp(op) /\ op.id \notin submitted
         /\ 1 \in DOMAIN pending[q] /\ Head(pending[q]) = op
         /\ info[op.id] \in Op /\ info[op.id].q = q
         /\ Popped(q) \in Nat /\ Popped(q) + 1 \in DOMAIN order[q] /\ order[q][Popped(q) + 1] = op.id
         /\ Popped(q) + Len(pending[q]) = Len(order[q])
<1>1. /\ Len(pending[q]) \in Nat /\ DOMAIN pending[q] = 1 .. Len(pending[q])
      /\ Len(order[q]) \in Nat /\ DOMAIN order[q] = 1 .. Len(order[q])
      /\ \A k \in DOMAIN pending[q] : pending[q][k] \in Op
  BY Numbers
<1>2. 1 \in DOMAIN pending[q] /\ Head(pending[q]) = op
  <2>1. pending[q] \in Seq(Op)
    BY DEF TypeOK
  <2> QED BY <2>1
<1>3. op \in Op /\ op.id \in Ids
  BY <1>1, <1>2, OpFacts
<1>4. Popped(q) \in Nat /\ Popped(q) + Len(pending[q]) = Len(order[q])
  BY <1>1 DEF Popped, PendingOK
<1>5. Popped(q) + 1 \in DOMAIN order[q]
  BY <1>1, <1>2, <1>4
<1>6. op.id = order[q][Popped(q) + 1] /\ IsOp(op) /\ op.id \notin submitted
  BY <1>2 DEF PendingOK
<1>7. info[op.id] \in Op /\ info[op.id].q = q
  BY <1>5, <1>6 DEF OrdersOK
<1> QED BY <1>2, <1>3, <1>4, <1>5, <1>6, <1>7

(* The watches when only the queue q changes.                              *)
LEMMA WatchesElsewhere ==
  ASSUME TypeOK, OrdersOK, WatchOK, \A r \in Queues : PendingOK(r), NEW q \in Queues,
         order' = order,
         \A r \in Queues : r # q => /\ pending'[r] = pending[r]
                                    /\ mutex'[r] = Nobody => mutex[r] = Nobody
                                    /\ Arming(r)' <=> Arming(r),
         \A i \in Ids : Watched(i) => Watched(i)' \/ info[i].q = q,
         FrontOK(q)', Arming(q)' => pending'[q] # <<>>,
         \A i \in Ids : Seen(i)' => Seen(i) \/ Armed(i)',
         \A j \in DOMAIN order[q] :
           j <= Popped(q) \/ (j = Popped(q) + 1 /\ pending[q][1].armed /\ ~Arming(q)) =>
             \/ j <= Popped(q)'
             \/ j = Popped(q)' + 1 /\ pending'[q][1].armed /\ ~Arming(q)'
  PROVE  WatchOK'
<1>1. ASSUME NEW r \in Queues PROVE FrontOK(r)'
  <2>1. CASE r = q
    <3>1. FrontOK(q)'
      OBVIOUS
    <3> QED BY <2>1, <3>1
  <2>2. CASE r # q
    <3>1. FrontOK(r) /\ pending'[r] = pending[r]
      BY <2>2 DEF WatchOK
    <3> SUFFICES ASSUME pending[r] # <<>>, NEW o, o = pending[r][1]
                 PROVE  /\ mutex'[r] = Nobody => o.armed /\ ~o.wait_completed
                        /\ Arming(r)' => o.armed /\ ~o.wait_completed
                        /\ o.armed /\ ~o.wait_completed /\ ~Arming(r)' => Watched(o.id)'
      BY <3>1 DEF FrontOK
    <3>2. o.id \in Ids /\ info[o.id].q = r
      BY FrontId
    <3>3. /\ mutex[r] = Nobody => o.armed /\ ~o.wait_completed
          /\ Arming(r) => o.armed /\ ~o.wait_completed
          /\ o.armed /\ ~o.wait_completed /\ ~Arming(r) => Watched(o.id)
      BY <3>1 DEF FrontOK
    <3> QED BY <2>2, <3>2, <3>3
  <2> QED BY <2>1, <2>2
<1>2. ASSUME NEW r \in Queues, Arming(r)' PROVE pending'[r] # <<>>
  <2>1. CASE r = q
    BY <1>2, <2>1
  <2>2. CASE r # q
    BY <1>2, <2>2 DEF WatchOK
  <2> QED BY <2>1, <2>2
<1>3. ASSUME NEW i \in Ids, Armed(i) PROVE Armed(i)'
  <2>1. PICK r \in Queues : \E j \in DOMAIN order[r] :
          /\ order[r][j] = i
          /\ \/ j <= Popped(r)
             \/ j = Popped(r) + 1 /\ pending[r][1].armed /\ ~Arming(r)
    BY <1>3 DEF Armed
  <2>2. PICK j \in DOMAIN order[r] :
          /\ order[r][j] = i
          /\ \/ j <= Popped(r)
             \/ j = Popped(r) + 1 /\ pending[r][1].armed /\ ~Arming(r)
    BY <2>1
  <2>3. \/ j <= Popped(r)'
        \/ j = Popped(r)' + 1 /\ pending'[r][1].armed /\ ~Arming(r)'
    <3>1. CASE r = q
      BY <2>2, <3>1
    <3>2. CASE r # q
      <4>1. Popped(r)' = Popped(r)
        BY <3>2 DEF Popped
      <4> QED BY <2>2, <3>2, <4>1
    <3> QED BY <3>1, <3>2
  <2> QED BY <2>2, <2>3 DEF Armed
<1>4. \A i \in Ids : Seen(i)' => Armed(i)'
  BY <1>3 DEF WatchOK
<1> QED BY <1>1, <1>2, <1>4 DEF WatchOK

(* The operation at the front of a queue leaves it.                        *)
LEMMA PopPending ==
  ASSUME TypeOK, TypeOK', OrdersOK, \A r \in Queues : PendingOK(r),
         NEW q \in Queues, pending[q] # <<>>, NEW op, op = pending[q][1],
         pending' = [pending EXCEPT ![q] = Tail(pending[q])],
         UNCHANGED <<order, info>>, Grows,
         submitted \subseteq submitted', submitted' \subseteq submitted \cup {op.id},
         IF op.type = "Wait" THEN Reached(op.f, op.v)' ELSE op.id \in submitted'
  PROVE  /\ \A r \in Queues : PendingOK(r)'
         /\ Popped(q)' = Popped(q) + 1
         /\ \A r \in Queues : r # q => pending'[r] = pending[r]
         /\ pending'[q] # <<>> => ~pending'[q][1].armed
<1>1. PICK p, m : p = Len(pending[q]) /\ m = Popped(q)
  OBVIOUS
<1>2. /\ op \in Op /\ op.id \in Ids /\ IsOp(op) /\ op.id \notin submitted
      /\ m \in Nat /\ m + 1 \in DOMAIN order[q] /\ order[q][m + 1] = op.id
      /\ m + p = Len(order[q]) /\ p \in Nat /\ p >= 1 /\ DOMAIN pending[q] = 1 .. p
      /\ DOMAIN order[q] = 1 .. m + p
  <2>1. /\ op \in Op /\ op.id \in Ids /\ IsOp(op) /\ op.id \notin submitted
        /\ 1 \in DOMAIN pending[q]
        /\ m \in Nat /\ m + 1 \in DOMAIN order[q] /\ order[q][m + 1] = op.id
        /\ m + p = Len(order[q])
    BY <1>1, FrontId
  <2>2. p \in Nat /\ DOMAIN pending[q] = 1 .. p /\ DOMAIN order[q] = 1 .. Len(order[q])
    BY <1>1, Numbers
  <2> QED BY <2>1, <2>2
<1>3. /\ DOMAIN pending'[q] = 1 .. p - 1 /\ Len(pending'[q]) = p - 1
      /\ \A k \in 1 .. p - 1 : pending'[q][k] = pending[q][k + 1]
      /\ \A r \in Queues : r # q => pending'[r] = pending[r]
  <2>1. pending[q] \in Seq(Op) /\ pending'[q] = Tail(pending[q])
    BY DEF TypeOK
  <2>2. PICK s, u : s = pending[q] /\ u = pending'[q]
    OBVIOUS
  <2>3. s \in Seq(Op) /\ s # <<>> /\ u = Tail(s) /\ p = Len(s)
    BY <1>1, <2>1, <2>2
  <2>4. u \in Seq(Op) /\ Len(u) = p - 1 /\ DOMAIN u = 1 .. p - 1 /\ \A k \in 1 .. p - 1 : u[k] = s[k + 1]
    BY <2>3, TailFacts
  <2>5. \A r \in Queues : r # q => pending'[r] = pending[r]
    BY DEF TypeOK
  <2> QED BY <2>2, <2>4, <2>5
<1>4. Popped(q)' = m + 1
  <2>1. PICK x, y : x = Len(order'[q]) /\ y = Len(pending'[q])
    OBVIOUS
  <2>2. x = m + p /\ y = p - 1
    BY <1>2, <1>3, <2>1
  <2>3. x - y = m + 1
    BY <1>2, <2>2
  <2>4. Popped(q)' = x - y
    BY <2>1 DEF Popped
  <2> QED BY <2>3, <2>4, Zenon
<1>5. ASSUME NEW r \in Queues, NEW k \in DOMAIN pending[r], r # q \/ k # 1
      PROVE  pending[r][k].id \notin submitted'
  <2>1. /\ pending[r][k].id = order[r][Popped(r) + k] /\ pending[r][k].id \notin submitted
        /\ Len(pending[r]) <= Len(order[r])
    BY DEF PendingOK
  <2>2. Popped(r) + k \in DOMAIN order[r] /\ (r = q => Popped(r) + k # m + 1)
    <3>1. /\ Len(pending[r]) \in Nat /\ DOMAIN pending[r] = 1 .. Len(pending[r])
          /\ Len(order[r]) \in Nat /\ DOMAIN order[r] = 1 .. Len(order[r])
      BY Numbers
    <3>2. Popped(r) \in Nat /\ Popped(r) + Len(pending[r]) = Len(order[r])
      BY <2>1, <3>1 DEF Popped
    <3>3. Popped(r) + k \in DOMAIN order[r]
      BY <3>1, <3>2
    <3>4. r = q => Popped(r) + k # m + 1
      BY <1>1, <1>2, <1>5, <3>1
    <3> QED BY <3>3, <3>4
  <2>3. pending[r][k].id # op.id
    BY <1>2, <2>1, <2>2 DEF OrdersOK
  <2> QED BY <2>1, <2>3
<1>6. ASSUME NEW r \in Queues, r # q PROVE PendingOK(r)'
  <2>1. PendingOK(r) /\ \A i \in Ids : info[i] \in Op => info'[i] = info[i]
    OBVIOUS
  <2>2. \A k \in DOMAIN pending[r] : pending[r][k].id \notin submitted'
    BY <1>5, <1>6
  <2>3. pending'[r] = pending[r] /\ order'[r] = order[r]
    BY <1>3, <1>6
  <2> QED BY <2>1, <2>2, <2>3, PendingKept
<1>7. PendingOK(q)'
  <2>1. PendingOK(q)
    OBVIOUS
  <2>2. ASSUME NEW k \in 1 .. p - 1
        PROVE  /\ pending'[q][k].id = order[q][m + 1 + k] /\ IsOp(pending[q][k])'
               /\ pending'[q][k].id \notin submitted'
               /\ pending'[q][k].wait_completed => Reached(pending[q][k].f, pending[q][k].v)'
               /\ ~pending'[q][k].armed
    <3>1. PICK o, l : l = k + 1 /\ o = pending[q][l]
      OBVIOUS
    <3>2. l \in DOMAIN pending[q] /\ l # 1 /\ m + l = m + 1 + k /\ pending'[q][k] = o
      BY <1>2, <1>3, <3>1
    <3>3. /\ o.id = order[q][m + l] /\ IsOp(o)
          /\ o.wait_completed => Reached(o.f, o.v)
          /\ o.armed => l = 1
      BY <1>1, <2>1, <3>1, <3>2 DEF PendingOK
    <3>4. o.id \notin submitted'
      BY <1>5, <3>1, <3>2
    <3>5. o.f \in Fences /\ o.v \in Nat /\ o.armed \in BOOLEAN
      BY <3>1, <3>2, Numbers, OpFacts
    <3>6. o.wait_completed => Reached(o.f, o.v)'
      BY <3>3, <3>5, ReachedKept
    <3>7. IsOp(pending[q][k])'
      BY <3>2, <3>3 DEF IsOp
    <3>8. pending'[q][k].wait_completed => Reached(pending[q][k].f, pending[q][k].v)'
      BY <3>2, <3>6 DEF Reached
    <3> QED BY <3>2, <3>3, <3>4, <3>5, <3>7, <3>8
  <2>3. ASSUME NEW j \in 1 .. m + 1
        PROVE  (LET o == info[order[q][j]] IN
                IF o.type = "Wait" THEN Reached(o.f, o.v) ELSE order[q][j] \in submitted)'
    <3>1. CASE j = m + 1
      <4>1. /\ info[op.id].type = op.type /\ info[op.id].f = op.f /\ info[op.id].v = op.v
        BY <1>2 DEF IsOp
      <4> QED BY <1>2, <3>1, <4>1 DEF Reached
    <3>2. CASE j \in 1 .. m
      <4>1. PICK o : o = info[order[q][j]]
        OBVIOUS
      <4>2. IF o.type = "Wait" THEN Reached(o.f, o.v) ELSE order[q][j] \in submitted
        BY <1>1, <2>1, <3>2, <4>1 DEF PendingOK
      <4>3. j \in DOMAIN order[q]
        BY <1>2, <3>2
      <4>4. o.f \in Fences /\ o.v \in Nat
        BY <4>1, <4>3, OpFacts, Numbers DEF OrdersOK
      <4>5. IF o.type = "Wait" THEN Reached(o.f, o.v)' ELSE order[q][j] \in submitted'
        BY <4>2, <4>4, ReachedKept
      <4> QED BY <4>1, <4>5 DEF Reached
    <3> QED BY <1>2, <3>1, <3>2
  <2>4. Len(pending'[q]) <= Len(order'[q]) /\ order'[q] = order[q]
    BY <1>2, <1>3
  <2> QED BY <1>3, <1>4, <2>2, <2>3, <2>4 DEF PendingOK, Reached
<1>8. pending'[q] # <<>> => ~pending'[q][1].armed
  <2> SUFFICES ASSUME pending'[q] # <<>> PROVE ~pending'[q][1].armed
    OBVIOUS
  <2>1. pending'[q] \in Seq(Op)
    BY DEF TypeOK
  <2>2. 1 \in 1 .. p - 1
    BY <1>3, <2>1
  <2>3. pending'[q][1] = pending[q][2] /\ 2 \in DOMAIN pending[q]
    BY <1>2, <1>3, <2>2
  <2>4. pending[q][2].armed => 2 = 1
    BY <2>3 DEF PendingOK
  <2> QED BY <2>3, <2>4
<1> QED BY <1>1, <1>3, <1>4, <1>6, <1>7, <1>8

LEMMA PopStep ==
  ASSUME SubmissionInv, TypeOK', StacksOK', NEW t \in Threads,
         NEW q \in Queues, Busy(t, "drain", q), pending[q] # <<>>, NEW op, op = pending[q][1],
         pending' = [pending EXCEPT ![q] = Tail(pending[q])],
         UNCHANGED <<calls, order, info, mutex>>, Grows,
         submitted \subseteq submitted', submitted' \subseteq submitted \cup {op.id},
         IF op.type = "Wait" THEN Reached(op.f, op.v)' ELSE op.id \in submitted',
         EnqueuersKept, ArmsKept, WatchedKept, SeenKept,
         FenceValues', FrameValues', FlightValues', FlightOK', SignalCoversWork'
  PROVE  SubmissionInv'
<1>1. /\ TypeOK /\ StacksOK /\ OrdersOK /\ WatchOK /\ \A r \in Queues : PendingOK(r)
  BY DEF SubmissionInv
<1>2. /\ \A r \in Queues : PendingOK(r)'
      /\ Popped(q)' = Popped(q) + 1
      /\ \A r \in Queues : r # q => pending'[r] = pending[r]
      /\ pending'[q] # <<>> => ~pending'[q][1].armed
  BY <1>1, PopPending
<1>3. op.id \in Ids /\ Popped(q) \in Nat /\ Popped(q) + 1 \in DOMAIN order[q] /\ order[q][Popped(q) + 1] = op.id
  BY <1>1, FrontId
<1>4. OrdersOK'
  <2>1. calls' \in Nat /\ calls' >= calls
    BY <1>1, Numbers
  <2> QED BY <1>1, <1>3, <2>1, OrdersKept
<1>5. ~Arming(q)
  BY <1>1, NotArming
<1>6. mutex'[q] # Nobody
  <2>1. At(t, "drain") /\ stack[t][1].q = q
    BY DEF Busy
  <2>2. stack[t][1].at = "drain" /\ 1 \in DOMAIN stack[t]
    BY <1>1, <2>1, HeadFacts
  <2>3. mutex[q] = t
    BY <1>1, <2>1, <2>2 DEF StacksOK
  <2> QED BY <2>3, QueueAssumption DEF Threads, Ids
<1>7. WatchOK'
  <2>1. \A r \in Queues : Arming(r)' <=> Arming(r)
    BY DEF ArmsKept
  <2>2. FrontOK(q)'
    BY <1>2, <1>5, <1>6, <2>1 DEF FrontOK
  <2>3. \A j \in DOMAIN order[q] : j <= Popped(q) \/ j = Popped(q) + 1 => j <= Popped(q)'
    BY <1>1, <1>2, <1>3, Numbers
  <2>4. \A i \in Ids : (Watched(i) => Watched(i)') /\ (Seen(i)' => Seen(i))
    BY DEF WatchedKept, SeenKept
  <2> QED BY <1>1, <1>2, <1>5, <2>1, <2>2, <2>3, <2>4, WatchesElsewhere
<1> QED BY <1>2, <1>4, <1>7 DEF SubmissionInv

(* What a thread that drains a queue finds at its front.                   *)
LEMMA DrainFacts ==
  ASSUME SubmissionInv, NEW t \in Threads, At(t, "drain"), NEW q, q = stack[t][1].q
  PROVE  /\ stack[t] # <<>> /\ Head(stack[t]) = stack[t][1] /\ stack[t][1] \in Frame
         /\ stack[t][1].at = "drain" /\ 1 \in DOMAIN stack[t]
         /\ q \in Queues /\ Busy(t, "drain", q) /\ mutex[q] = t /\ t # Nobody
         /\ t \notin listening
         /\ \A w \in {"commit", "arm", "lock", "post", "retire"} : ~At(t, w)
<1>1. TypeOK /\ StacksOK
  BY DEF SubmissionInv
<1>2. /\ stack[t] # <<>> /\ Head(stack[t]) = stack[t][1] /\ stack[t][1] \in Frame
      /\ stack[t][1].at = "drain" /\ 1 \in DOMAIN stack[t]
  BY <1>1, HeadFacts
<1>3. q \in Queues /\ Busy(t, "drain", q) /\ mutex[q] = t
  BY <1>1, <1>2, FrameFacts DEF Busy, StacksOK
<1>4. t # Nobody
  BY QueueAssumption DEF Threads, Ids
<1>5. t \notin listening
  BY <1>1, <1>2 DEF StacksOK
<1> QED BY <1>2, <1>3, <1>4, <1>5 DEF At

LEMMA RecordingStep ==
  ASSUME SubmissionInv, NEW t \in Threads, At(t, "drain"), NEW q, q = stack[t][1].q,
         pending[q] # <<>>, NEW op, op = pending[q][1], op.type \in {"Execute", "Signal"},
         StartRecording(t, op), pending' = [pending EXCEPT ![q] = Tail(pending[q])],
         batches' \in [Queues -> BOOLEAN], \A r \in Queues : batches[r] => batches'[r],
         op.type = "Execute" => batches'[q],
         UNCHANGED <<calls, requested, info, mutex, has_waited>>,
         UNCHANGED <<event, manual, completed, callbacks, fired, listening, notified>>,
         UNCHANGED <<allocator, order, executed, signaled>>
  PROVE  SubmissionInv'
<1>1. /\ TypeOK /\ StacksOK /\ FenceValues /\ FrameValues /\ FlightValues /\ FlightOK
      /\ SignalCoversWork /\ OrdersOK /\ \A r \in Queues : PendingOK(r)
  BY DEF SubmissionInv
<1>2. /\ stack[t] # <<>> /\ stack[t][1].at = "drain" /\ 1 \in DOMAIN stack[t]
      /\ q \in Queues /\ Busy(t, "drain", q) /\ t \notin listening
      /\ \A w \in {"commit", "arm", "lock"} : ~At(t, w)
  BY DrainFacts, SMTT(20)
<1>3. /\ op \in Op /\ op.id \in Ids /\ IsOp(op) /\ op.id \notin submitted
      /\ Popped(q) + 1 \in DOMAIN order[q] /\ order[q][Popped(q) + 1] = op.id
  <2>1. TypeOK /\ OrdersOK /\ q \in Queues /\ PendingOK(q) /\ pending[q] # <<>> /\ op = pending[q][1]
    BY <1>1, <1>2
  <2> QED BY ONLY <2>1, FrontId
<1>4. /\ recording = {} /\ recording' = {t} /\ submitted' = submitted \cup {op.id}
      /\ stack' = Call(t, Commit(op)) /\ UNCHANGED <<flight, gpu_done, ongoing>>
  BY DEF StartRecording
<1>5. PICK new : new = <<Commit(op)>>
  OBVIOUS
<1>6. /\ new # <<>> /\ DOMAIN new = {1} /\ new[1].at = "commit" /\ new[1].op = op
      /\ Moved(t, new, 0) /\ stack' \in [Threads -> Seq(Frame)]
  <2>1. Commit(op) \in Frame
    BY <1>3, FramesMade
  <2>2. Moved(t, new, 0) /\ stack' \in [Threads -> Seq(Frame)]
    <3>1. TypeOK /\ t \in Threads /\ stack' = Call(t, Commit(op))
      BY <1>1, <1>4
    <3> QED BY ONLY <1>5, <2>1, <3>1, CallMoves
  <2>3. DOMAIN new = {1} /\ new # <<>> /\ new[1] = Commit(op)
    BY ONLY <1>5
  <2>4. Commit(op).at = "commit" /\ Commit(op).op = op
    BY DEF Commit
  <2> QED BY ONLY <2>2, <2>3, <2>4
<1>7. TypeOK'
  <2>1. pending' \in [Queues -> Seq(Op)]
    <3>1. pending \in [Queues -> Seq(Op)] /\ pending[q] \in Seq(Op)
      BY <1>1, <1>2 DEF TypeOK
    <3>2. Tail(pending[q]) \in Seq(Op)
      BY <3>1, TailFacts
    <3> QED BY <3>1, <3>2
  <2>2. submitted' \subseteq Ids /\ recording' \subseteq Threads
    BY <1>1, <1>3, <1>4 DEF TypeOK
  <2> QED BY <1>1, <1>4, <1>6, <2>1, <2>2 DEF TypeOK
<1>8. StacksOK'
  <2>1. gpu_done' \in Int /\ gpu_done' >= gpu_done
    <3>1. TypeOK /\ gpu_done' = gpu_done
      BY <1>1, <1>4
    <3> QED BY ONLY <3>1, Numbers
  <2>2. /\ \A k \in DOMAIN new : k > 1 => new[k].at \in {"run", "retire"}
        /\ \A k \in DOMAIN new : ~Draining(new[k]) /\ new[k].at # "retire"
    BY <1>6, SMTT(20) DEF Draining
  <2>3. /\ t \notin listening' /\ listening' \subseteq Ids /\ \A i \in listening' : i \in listening
    BY <1>1, <1>2 DEF TypeOK
  <2> QED BY <1>1, <1>4, <1>6, <2>1, <2>2, <2>3, StacksKept
<1>9. Grows
  BY <1>1, StillGrows
<1>10. ArmsKept /\ WatchedKept /\ SeenKept
  <2>1. /\ new[1].at # "arm" /\ new[1].at # "lock" /\ \A k \in DOMAIN new : new[k].at # "run"
    BY <1>6
  <2> QED BY <1>1, <1>2, <1>6, <2>1, WatchersMoved
<1>11. EnqueuersKept
  BY <1>1, <1>6, EnqueuersMoved
<1>12. FenceValues'
  BY <1>1, <1>7, <1>9, FencesKept
<1>13. FrameValues'
  <2>1. \A k \in DOMAIN new : FrameTrue(new[k])'
    BY <1>6 DEF FrameTrue
  <2> QED BY <1>1, <1>6, <1>7, <1>9, <2>1, FramesTrueKept
<1>14. FlightValues' /\ SignalCoversWork'
  BY <1>1, <1>4, <1>7, <1>9, FlightValuesKept, SignalsKept
<1>15. ASSUME NEW u \in Threads
       PROVE  ~At(u, "commit") /\ (At(u, "commit")' => u = t) /\ At(t, "commit")' /\ stack'[t][1] = new[1]
  <2>1. ~At(u, "commit")
    BY <1>1, <1>4 DEF StacksOK
  <2>2. /\ u # t => (At(u, "commit")' <=> At(u, "commit"))
    BY <1>1, <1>6, MovedHeads
  <2>3. At(t, "commit")' /\ stack'[t][1] = new[1]
    BY <1>1, <1>6, MovedHeads
  <2> QED BY <2>1, <2>2, <2>3
<1>16. FlightOK'
  <2>1. /\ executed \subseteq submitted'
        /\ \A k \in DOMAIN flight :
             /\ flight[k].id \in submitted' /\ IsOp(flight[k])
             /\ k <= gpu_done => flight[k].id \in executed
    BY <1>1, <1>4 DEF FlightOK
  <2>2. (\A u \in Threads : At(u, "commit") => stack[u][1].op.id \in submitted /\ IsOp(stack[u][1].op))'
    <3>1. stack'[t][1].op = op /\ op.id \in submitted'
      BY <1>4, <1>6, <1>15
    <3>2. IsOp(stack[t][1].op)'
      BY <1>3, <3>1 DEF IsOp
    <3> QED BY <1>15, <3>1, <3>2 DEF At, IsOp
  <2>3. ASSUME NEW i \in submitted' \ executed
        PROVE  \/ \E k \in DOMAIN flight : k > gpu_done /\ flight[k].id = i
               \/ \E u \in Threads : At(u, "commit")' /\ stack'[u][1].op.id = i
    <3>1. CASE i \in submitted
      BY <1>1, <1>15, <3>1 DEF FlightOK
    <3>2. CASE i = op.id
      BY <1>6, <1>15, <3>2
    <3> QED BY <1>4, <3>1, <3>2
  <2>4. ASSUME NEW r \in Queues, NEW j \in DOMAIN order[r]
        PROVE  /\ order[r][j] \in submitted' /\ info[order[r][j]].type = "Execute" => batches'[r]
               /\ \A k \in DOMAIN flight : flight[k].id = order[r][j] =>
                    Work(r, j) \subseteq executed \cup {flight[m].id : m \in 1 .. k - 1}
    <3>1. ASSUME order[r][j] \in submitted', info[order[r][j]].type = "Execute" PROVE batches'[r]
      <4>1. CASE order[r][j] \in submitted
        BY <1>1, <3>1, <4>1 DEF FlightOK
      <4>2. CASE order[r][j] = op.id
        <5>0. OrdersOK /\ q \in Queues /\ Popped(q) + 1 \in DOMAIN order[q]
              /\ order[q][Popped(q) + 1] = order[r][j]
          BY <1>1, <1>2, <1>3, <4>2
        <5>1. r = q
          BY <5>0, OrderPlaces
        <5>2. op.type = "Execute"
          BY <1>3, <3>1, <4>2 DEF IsOp
        <5> QED BY <5>1, <5>2
      <4> QED BY <1>4, <3>1, <4>1, <4>2
    <3> QED BY <1>1, <3>1 DEF FlightOK
  <2>5. (/\ executed \subseteq submitted
         /\ \A k \in DOMAIN flight :
              /\ flight[k].id \in submitted /\ IsOp(flight[k])
              /\ k <= gpu_done => flight[k].id \in executed)'
    BY <1>4, <2>1 DEF IsOp
  <2>6. (\A i \in submitted \ executed :
           \/ \E k \in DOMAIN flight : k > gpu_done /\ flight[k].id = i
           \/ \E u \in Threads : At(u, "commit") /\ stack[u][1].op.id = i)'
    <3>1. flight' = flight /\ gpu_done' = gpu_done /\ executed' = executed
      BY <1>4
    <3> QED BY <2>3, <3>1 DEF At
  <2>7. (\A r \in Queues : \A j \in DOMAIN order[r] :
            /\ order[r][j] \in submitted /\ info[order[r][j]].type = "Execute" => batches[r]
            /\ \A k \in DOMAIN flight : flight[k].id = order[r][j] =>
                 Work(r, j) \subseteq executed \cup {flight[m].id : m \in 1 .. k - 1})'
    <3>1. order' = order /\ info' = info /\ flight' = flight /\ executed' = executed
      BY <1>4
    <3> QED BY <2>4, <3>1, SMTT(20) DEF Work
  <2> QED BY <2>2, <2>5, <2>6, <2>7 DEF FlightOK, IsOp, At
<1> QED BY <1>2, <1>4, <1>7, <1>8, <1>9, <1>10, <1>11, <1>12, <1>13, <1>14, <1>16, PopStep

LEMMA DrainRecordingSteps ==
  ASSUME SubmissionInv, NEW t \in Threads, DrainExecute(t) \/ DrainSignal(t)
  PROVE  SubmissionInv'
<1>1. TypeOK
  BY DEF SubmissionInv
<1>2. At(t, "drain")
  BY DEF DrainExecute, DrainSignal, Front
<1>3. PICK q, op : q = stack[t][1].q /\ op = pending[q][1]
  OBVIOUS
<1>4. Head(stack[t]) = stack[t][1] /\ q \in Queues
  BY <1>2, <1>3, DrainFacts
<1>5. pending[q] # <<>> /\ Head(pending[q]).type \in {"Execute", "Signal"}
  BY <1>3, <1>4 DEF DrainExecute, DrainSignal, Front
<1>6. Head(pending[q]) = op
  <2>1. pending[q] \in Seq(Op)
    BY <1>1, <1>4 DEF TypeOK
  <2> QED BY <1>3, <1>5, <2>1
<1>7. /\ StartRecording(t, op) /\ pending' = [pending EXCEPT ![q] = Tail(pending[q])]
      /\ batches' = batches \/ batches' = [batches EXCEPT ![q] = TRUE]
      /\ op.type = "Execute" => batches' = [batches EXCEPT ![q] = TRUE]
      /\ UNCHANGED <<calls, requested, info, mutex, has_waited>>
      /\ UNCHANGED <<event, manual, completed, callbacks, fired, listening, notified>>
      /\ UNCHANGED <<allocator, order, executed, signaled>>
  <2>1. CASE DrainExecute(t)
    BY <1>3, <1>4, <1>6, <2>1 DEF DrainExecute, client, fences
  <2>2. CASE DrainSignal(t)
    BY <1>3, <1>4, <1>6, <2>2 DEF DrainSignal, Front, client, fences
  <2> QED BY <2>1, <2>2
<1>8. /\ batches' \in [Queues -> BOOLEAN] /\ \A r \in Queues : batches[r] => batches'[r]
      /\ op.type = "Execute" => batches'[q]
  BY <1>1, <1>4, <1>7 DEF TypeOK
<1> QED BY <1>2, <1>3, <1>5, <1>6, <1>7, <1>8, RecordingStep

LEMMA DrainSignalNowStep ==
  ASSUME SubmissionInv, NEW t \in Threads, DrainSignalNow(t)
  PROVE  SubmissionInv'
<1>1. /\ TypeOK /\ StacksOK /\ FenceValues /\ FrameValues /\ FlightValues /\ FlightOK
      /\ SignalCoversWork /\ OrdersOK /\ \A r \in Queues : PendingOK(r)
  BY DEF SubmissionInv
<1>2. At(t, "drain")
  BY DEF DrainSignalNow, Front
<1>3. PICK q, op, m : q = stack[t][1].q /\ op = pending[q][1] /\ m = Popped(q)
  OBVIOUS
<1>4. /\ stack[t] # <<>> /\ stack[t][1].at = "drain" /\ 1 \in DOMAIN stack[t]
      /\ Head(stack[t]) = stack[t][1] /\ q \in Queues /\ Busy(t, "drain", q) /\ t \notin listening
      /\ \A w \in {"commit", "arm", "lock"} : ~At(t, w)
  BY <1>2, <1>3, DrainFacts
<1>5. pending[q] # <<>> /\ Head(pending[q]).type = "Signal"
  BY <1>3, <1>4 DEF DrainSignalNow, Front
<1>6. /\ op \in Op /\ op.id \in Ids /\ IsOp(op) /\ op.id \notin submitted /\ Head(pending[q]) = op
      /\ m \in Nat /\ m + 1 \in DOMAIN order[q] /\ order[q][m + 1] = op.id
  BY <1>1, <1>3, <1>4, <1>5, FrontId
<1>7. PICK f, v, due, new : /\ f = op.f /\ v = op.v /\ due = Due(op.f, op.v)
                            /\ new = ThenRuns(Post(op.f, op.v), due)
  OBVIOUS
<1>8. /\ ~batches[q] /\ op.type = "Signal"
      /\ pending' = [pending EXCEPT ![q] = Tail(pending[q])]
      /\ Complete(f, v) /\ Signaled(f, v)
      /\ submitted' = submitted \cup {op.id} /\ executed' = executed \cup {op.id}
      /\ stack' = [stack EXCEPT ![t] = new \o stack[t]]
      /\ UNCHANGED <<calls, requested, info, mutex, batches, has_waited>>
      /\ UNCHANGED <<event, fired, listening, notified>>
      /\ UNCHANGED <<recording, flight, gpu_done, ongoing, allocator, order>>
  BY <1>3, <1>4, <1>5, <1>6, <1>7 DEF DrainSignalNow, client, pipeline, ThenRuns
<1>9. f \in Fences /\ v \in Values \cup {0}
  BY <1>6, <1>7, OpFacts
<1>10. /\ completed' \in [Fences -> Values \cup {0}] /\ manual' \in [Fences -> BOOLEAN]
       /\ callbacks' \in [Fences -> SUBSET Ids]
       /\ completed'[f] = v /\ \A g \in Fences : g # f => completed'[g] = completed[g]
       /\ \A g \in Fences : callbacks'[g] \subseteq callbacks[g]
       /\ Due(f, v) \in SUBSET Ids
  BY <1>1, <1>8, <1>9, CompleteFacts
<1>11. /\ signaled' \in [Fences -> [last : Values \cup {0}, max : Values \cup {0}]]
       /\ Grows /\ signaled'[f].max >= v
  BY <1>1, <1>8, <1>9, SignaledGrows
<1>12. /\ new \in Seq(Frame) /\ new # <<>> /\ DOMAIN new = 1 .. Len(new)
       /\ new[1] = Post(f, v) /\ \A k \in DOMAIN new : k > 1 => new[k] = RunFrame(due)
  <2>1. PICK fr : fr = Post(f, v)
    OBVIOUS
  <2>2. fr \in Frame /\ due \in SUBSET Ids
    BY <1>7, <1>9, <1>10, <2>1, FramesMade
  <2>3. new = ThenRuns(fr, due)
    BY <1>7, <2>1
  <2>4. /\ new \in Seq(Frame) /\ new # <<>> /\ DOMAIN new = 1 .. Len(new)
        /\ new[1] = fr /\ \A k \in DOMAIN new : k > 1 => new[k] = RunFrame(due)
    BY <2>2, <2>3, ThenRun
  <2> QED BY <2>1, <2>4
<1>13. Moved(t, new, 0) /\ stack' \in [Threads -> Seq(Frame)]
  BY <1>1, <1>8, <1>12, PushMoves
<1>14. /\ new[1].at = "post" /\ new[1].f = f /\ new[1].v = v
       /\ \A k \in DOMAIN new : \/ k = 1 /\ new[k] = new[1]
                                \/ k > 1 /\ new[k].at = "run" /\ new[k].cbs = due
  BY <1>12 DEF Post, RunFrame
<1>15. TypeOK'
  <2>1. pending' \in [Queues -> Seq(Op)]
    <3>1. pending \in [Queues -> Seq(Op)] /\ pending[q] \in Seq(Op)
      BY <1>1, <1>4 DEF TypeOK
    <3>2. Tail(pending[q]) \in Seq(Op)
      BY <1>5, <3>1, TailFacts
    <3> QED BY <1>8, <3>1, <3>2
  <2>2. submitted' \subseteq Ids /\ executed' \subseteq Ids
    BY <1>1, <1>6, <1>8 DEF TypeOK
  <2> QED BY <1>1, <1>8, <1>10, <1>11, <1>13, <2>1, <2>2 DEF TypeOK
<1>16. StacksOK'
  <2>1. gpu_done' \in Int /\ gpu_done' >= gpu_done
    BY <1>1, <1>8, Numbers
  <2>2. /\ \A k \in DOMAIN new : k > 1 => new[k].at \in {"run", "retire"}
        /\ \A k \in DOMAIN new : ~Draining(new[k]) /\ new[k].at # "retire"
    BY <1>14 DEF Draining
  <2>3. /\ t \notin listening' /\ listening' \subseteq Ids /\ \A i \in listening' : i \in listening
        /\ new # <<>> /\ new[1].at # "commit"
    BY <1>1, <1>4, <1>8, <1>12, <1>14 DEF TypeOK
  <2> QED BY <1>1, <1>2, <1>8, <1>13, <2>1, <2>2, <2>3, StacksKept
<1>17. \A i \in due : WaitReached(i)' /\ Seen(i)
  BY <1>1, <1>7, <1>8, <1>9, <1>11, <1>15, DueReached
<1>18. ArmsKept /\ WatchedKept /\ SeenKept
  <2>1. /\ new # <<>> /\ new[1].at \notin {"arm", "lock"}
        /\ \A k \in DOMAIN new : new[k].at = "run" => \A i \in new[k].cbs : Seen(i)
    BY <1>12, <1>14, <1>17
  <2> QED BY <1>1, <1>2, <1>4, <1>8, <1>10, <1>13, <2>1, WatchersMoved
<1>19. EnqueuersKept /\ CommitsKept
  BY <1>1, <1>4, <1>12, <1>13, <1>14, EnqueuersMoved, CommitsMoved
<1>20. FenceValues'
  <2>1. \A g \in Fences : completed'[g] = completed[g] \/ signaled'[g].max >= completed'[g]
    BY <1>10, <1>11
  <2> QED BY <1>1, <1>8, <1>10, <1>11, <1>15, <2>1, FencesKept
<1>21. FrameValues'
  <2>1. \A k \in DOMAIN new : FrameTrue(new[k])'
    <3> SUFFICES ASSUME NEW k \in DOMAIN new PROVE FrameTrue(new[k])'
      BY DEF FrameTrue, WaitReached, Reached
    <3>1. CASE new[k] = new[1]
      BY <1>11, <1>14, <3>1 DEF FrameTrue, Reached
    <3>2. CASE new[k].at = "run" /\ new[k].cbs = due
      BY <1>17, <3>2 DEF FrameTrue
    <3> QED BY <1>14, <3>1, <3>2
  <2> QED BY <1>1, <1>8, <1>11, <1>13, <1>15, <2>1, FramesTrueKept
<1>22. FlightValues'
  BY <1>1, <1>8, <1>11, <1>15, FlightValuesKept
<1>23. FlightOK'
  <2>1. (/\ executed \subseteq submitted
         /\ \A k \in DOMAIN flight :
              /\ flight[k].id \in submitted /\ IsOp(flight[k])
              /\ k <= gpu_done => flight[k].id \in executed)'
    BY <1>1, <1>8 DEF FlightOK, IsOp
  <2>2. ASSUME NEW u \in Threads, At(u, "commit")'
        PROVE  (stack[u][1].op.id \in submitted /\ IsOp(stack[u][1].op))'
    <3>1. At(u, "commit") /\ stack'[u][1] = stack[u][1]
      BY <1>19, <2>2 DEF CommitsKept
    <3>2. info' = info /\ submitted \subseteq submitted'
      BY <1>8
    <3> QED BY <1>1, <3>1, <3>2, SMTT(20) DEF FlightOK, IsOp
  <2>3. ASSUME NEW i \in submitted' \ executed'
        PROVE  \/ \E k \in DOMAIN flight : k > gpu_done /\ flight[k].id = i
               \/ \E u \in Threads : At(u, "commit")' /\ stack'[u][1].op.id = i
    <3>1. i \in submitted \ executed
      BY <1>8
    <3>2. CASE \E k \in DOMAIN flight : k > gpu_done /\ flight[k].id = i
      BY <3>2
    <3>3. CASE \E u \in Threads : At(u, "commit") /\ stack[u][1].op.id = i
      BY <1>19, <3>3 DEF CommitsKept
    <3> QED BY <1>1, <3>1, <3>2, <3>3 DEF FlightOK
  <2>4. ASSUME NEW r \in Queues, NEW j \in DOMAIN order[r]
        PROVE  /\ order[r][j] \in submitted' /\ info[order[r][j]].type = "Execute" => batches[r]
               /\ \A k \in DOMAIN flight : flight[k].id = order[r][j] =>
                    Work(r, j) \subseteq executed' \cup {flight[i].id : i \in 1 .. k - 1}
    <3>1. info[op.id].type = "Signal" /\ executed \subseteq executed'
      BY <1>6, <1>8 DEF IsOp
    <3>2. order[r][j] \in submitted' /\ info[order[r][j]].type = "Execute" => batches[r]
      BY <1>1, <1>8, <3>1 DEF FlightOK
    <3> QED BY <1>1, <3>1, <3>2 DEF FlightOK
  <2>5. (\A i \in submitted \ executed :
           \/ \E k \in DOMAIN flight : k > gpu_done /\ flight[k].id = i
           \/ \E u \in Threads : At(u, "commit") /\ stack[u][1].op.id = i)'
    BY <1>8, <2>3 DEF At
  <2>6. (\A r \in Queues : \A j \in DOMAIN order[r] :
            /\ order[r][j] \in submitted /\ info[order[r][j]].type = "Execute" => batches[r]
            /\ \A k \in DOMAIN flight : flight[k].id = order[r][j] =>
                 Work(r, j) \subseteq executed \cup {flight[i].id : i \in 1 .. k - 1})'
    <3>1. order' = order /\ info' = info /\ flight' = flight /\ batches' = batches
      BY <1>8
    <3> QED BY <2>4, <3>1 DEF Work
  <2> QED BY <2>1, <2>2, <2>5, <2>6 DEF FlightOK, IsOp, At
<1>24. SignalCoversWork'
  <2> SUFFICES ASSUME NEW r \in Queues, NEW j \in 1 .. Len(order[r]),
                      info[order[r][j]].type = "Signal", order[r][j] \in executed',
                      NEW i \in 1 .. j - 1, info[order[r][i]].type = "Execute"
               PROVE  info[order[r][i]].id \in executed'
    BY <1>8 DEF SignalCoversWork, Before
  <2>1. CASE order[r][j] \in executed
    BY <1>1, <1>8, <2>1 DEF SignalCoversWork, Before
  <2>2. CASE order[r][j] = op.id
    <3>1. j \in DOMAIN order[r] /\ i \in DOMAIN order[r] /\ j \in Nat
      BY <1>1, Numbers
    <3>2. r = q /\ j = m + 1
      BY <1>1, <1>4, <1>6, <2>2, <3>1 DEF OrdersOK
    <3>3. i \in 1 .. m
      BY <1>6, <3>2
    <3>4. order[q][i] \in submitted
      BY <1>1, <1>3, <1>4, <3>2, <3>3 DEF PendingOK
    <3>5. batches[q]
      BY <1>1, <1>4, <3>1, <3>2, <3>4 DEF FlightOK
    <3> QED BY <1>8, <3>5
  <2> QED BY <1>8, <2>1, <2>2
<1>25. submitted \subseteq submitted' /\ submitted' \subseteq submitted \cup {op.id} /\ op.id \in submitted'
  BY <1>8
<1> QED BY <1>3, <1>4, <1>5, <1>8, <1>11, <1>15, <1>16, <1>18, <1>19, <1>20, <1>21, <1>22, <1>23,
           <1>24, <1>25, PopStep

(* A step of t that, of the parts of the queues, changes the flags of a    *)
(* wait at a front, a mutex_ and who is watching.                          *)
LEMMA FrontStep ==
  ASSUME SubmissionInv, TypeOK', StacksOK',
         NEW t \in Threads, NEW new, NEW d, Moved(t, new, d),
         new = <<>> => d = 1, ~At(t, "commit"),
         new # <<>> => new[1].at \notin {"commit", "lock"},
         \A k \in DOMAIN new : FrameTrue(new[k]),
         UNCHANGED <<calls, info, batches, flight, gpu_done>>,
         UNCHANGED <<order, submitted, executed, signaled>>,
         \A r \in Queues : PendingOK(r)', FenceValues', WatchOK'
  PROVE  SubmissionInv'
<1>1. /\ TypeOK /\ StacksOK /\ OrdersOK /\ FrameValues /\ FlightValues /\ FlightOK
      /\ SignalCoversWork
  BY DEF SubmissionInv
<1>2. Grows
  BY <1>1, StillGrows
<1>3. EnqueuersKept /\ CommitsKept
  BY <1>1, EnqueuersMoved, CommitsMoved
<1>4. OrdersOK'
  <2>1. calls' \in Nat /\ calls' >= calls
    BY <1>1, Numbers
  <2> QED BY <1>1, <1>3, <2>1, OrdersKept
<1>5. FrameValues'
  <2>1. \A k \in DOMAIN new : FrameTrue(new[k])'
    BY DEF FrameTrue, WaitReached, Reached
  <2> QED BY <1>1, <1>2, <2>1, FramesTrueKept
<1>6. FlightValues' /\ FlightOK' /\ SignalCoversWork'
  BY <1>1, <1>2, <1>3, FlightValuesKept, FlightKept, SignalsKept
<1> QED BY <1>4, <1>5, <1>6 DEF SubmissionInv

(* The operation at the front of a queue changes its flags.                *)
LEMMA FrontChanged ==
  ASSUME TypeOK, OrdersOK, \A r \in Queues : PendingOK(r),
         NEW q \in Queues, pending[q] # <<>>,
         NEW o \in Op, o.id = pending[q][1].id, IsOp(o), o.wait_completed => Reached(o.f, o.v),
         o.armed => o.type = "Wait",
         NEW u, u = [pending[q] EXCEPT ![1] = o], pending' = [pending EXCEPT ![q] = u],
         UNCHANGED <<order, info, submitted, signaled>>
  PROVE  /\ \A r \in Queues : PendingOK(r)' /\ Popped(r)' = Popped(r)
         /\ \A r \in Queues : r # q => pending'[r] = pending[r]
         /\ pending'[q] # <<>> /\ pending'[q][1] = o
         /\ pending' \in [Queues -> Seq(Op)]
<1>1. PICK s, p : s = pending[q] /\ p = Len(pending[q])
  OBVIOUS
<1>2. s \in Seq(Op) /\ DOMAIN s = 1 .. p /\ p \in Nat /\ 1 \in 1 .. p
  <2>1. 1 \in DOMAIN pending[q] /\ pending[q] \in Seq(Op)
    BY FrontId DEF TypeOK
  <2> QED BY <1>1, <2>1
<1>3. /\ u \in Seq(Op) /\ Len(u) = p /\ DOMAIN u = 1 .. p /\ u[1] = o
      /\ \A k \in 1 .. p : k # 1 => u[k] = s[k]
  <2>1. u = [s EXCEPT ![1] = o] /\ o \in Op
    BY <1>1
  <2>2. u \in Seq(Op) /\ DOMAIN u = 1 .. p /\ u[1] = o /\ \A k \in 1 .. p : k # 1 => u[k] = s[k]
    BY ONLY <1>2, <2>1
  <2>3. Len(u) = p
    BY <1>2, <2>2
  <2> QED BY <2>2, <2>3
<1>4. pending'[q] = u /\ \A r \in Queues : r # q => pending'[r] = pending[r]
  BY DEF TypeOK
<1>5. pending' \in [Queues -> Seq(Op)]
  <2>1. pending \in [Queues -> Seq(Op)] /\ pending' = [pending EXCEPT ![q] = u]
    BY DEF TypeOK
  <2> QED BY <1>3, <2>1
<1>6. pending'[q] # <<>>
  BY <1>2, <1>3, <1>4
<1>7. ASSUME NEW r \in Queues PROVE Popped(r)' = Popped(r)
  <2>1. Len(pending'[r]) = Len(pending[r])
    <3>1. CASE r = q
      BY <1>1, <1>3, <1>4, <3>1
    <3>2. CASE r # q
      BY <1>4, <3>2
    <3> QED BY <3>1, <3>2
  <2> QED BY <2>1 DEF Popped
<1>8. ASSUME NEW r \in Queues PROVE PendingOK(r)'
  <2>0. PendingOK(r) /\ info' = info /\ submitted' = submitted /\ signaled' = signaled /\ order' = order
    OBVIOUS
  <2>1. CASE r # q
    <3>1. pending'[r] = pending[r]
      BY <1>4, <2>1
    <3>2. Popped(r)' = Popped(r)
      BY <1>7
    <3>3. ASSUME NEW k \in DOMAIN pending[r]
          PROVE  (/\ pending[r][k].id = order[r][Popped(r) + k] /\ IsOp(pending[r][k])
                  /\ pending[r][k].id \notin submitted
                  /\ pending[r][k].wait_completed => Reached(pending[r][k].f, pending[r][k].v)
                  /\ pending[r][k].armed => k = 1 /\ pending[r][k].type = "Wait")'
      <4>1. /\ pending[r][k].id = order[r][Popped(r) + k] /\ IsOp(pending[r][k])
            /\ pending[r][k].id \notin submitted
            /\ pending[r][k].wait_completed => Reached(pending[r][k].f, pending[r][k].v)
            /\ pending[r][k].armed => k = 1 /\ pending[r][k].type = "Wait"
        BY <2>0 DEF PendingOK
      <4> QED BY <2>0, <3>1, <3>2, <4>1 DEF IsOp, Reached
    <3>4. ASSUME NEW j \in 1 .. Popped(r)
          PROVE  (LET i == info[order[r][j]] IN
                  IF i.type = "Wait" THEN Reached(i.f, i.v) ELSE order[r][j] \in submitted)'
      <4>1. LET i == info[order[r][j]] IN
            IF i.type = "Wait" THEN Reached(i.f, i.v) ELSE order[r][j] \in submitted
        BY <2>0 DEF PendingOK
      <4> QED BY <2>0, <4>1 DEF Reached
    <3>5. Len(pending'[r]) <= Len(order'[r])
      BY <2>0, <3>1 DEF PendingOK
    <3> QED BY <3>1, <3>2, <3>3, <3>4, <3>5 DEF PendingOK, Reached
  <2>2. CASE r = q
    <3>1. PendingOK(q)
      BY <2>0, <2>2
    <3>2. ASSUME NEW k \in 1 .. p
          PROVE  /\ u[k].id = order[q][Popped(q) + k] /\ IsOp(u[k])
                 /\ u[k].id \notin submitted
                 /\ u[k].wait_completed => Reached(u[k].f, u[k].v)
                 /\ u[k].armed => k = 1 /\ u[k].type = "Wait"
      <4>1. /\ s[k].id = order[q][Popped(q) + k] /\ IsOp(s[k])
            /\ s[k].id \notin submitted
            /\ s[k].wait_completed => Reached(s[k].f, s[k].v)
            /\ s[k].armed => k = 1 /\ s[k].type = "Wait"
        BY <1>1, <1>2, <3>1 DEF PendingOK
      <4>2. CASE k = 1
        BY <1>1, <1>3, <4>1, <4>2
      <4>3. CASE k # 1
        <5>1. u[k] = s[k]
          BY <1>3, <4>3
        <5> QED BY <4>1, <5>1
      <4> QED BY <4>2, <4>3
    <3>3. /\ Len(pending[q]) <= Len(order[q])
          /\ \A j \in 1 .. Popped(q) :
               LET i == info[order[q][j]] IN
               IF i.type = "Wait" THEN Reached(i.f, i.v) ELSE order[q][j] \in submitted
      BY <3>1 DEF PendingOK
    <3>4. Len(pending'[q]) = Len(pending[q]) /\ DOMAIN pending'[q] = 1 .. p /\ Popped(q)' = Popped(q)
      BY <1>1, <1>3, <1>4, <1>7
    <3>5. ASSUME NEW k \in 1 .. p
          PROVE  (/\ pending[q][k].id = order[q][Popped(q) + k] /\ IsOp(pending[q][k])
                  /\ pending[q][k].id \notin submitted
                  /\ pending[q][k].wait_completed => Reached(pending[q][k].f, pending[q][k].v)
                  /\ pending[q][k].armed => k = 1 /\ pending[q][k].type = "Wait")'
      <4>1. PICK x : x = u[k]
        OBVIOUS
      <4>2. pending'[q][k] = x
        BY <1>4, <4>1
      <4>3. /\ x.id = order[q][Popped(q) + k] /\ IsOp(x)
            /\ x.id \notin submitted
            /\ x.wait_completed => Reached(x.f, x.v)
            /\ x.armed => k = 1 /\ x.type = "Wait"
        BY <3>2, <4>1
      <4> QED BY <2>0, <3>4, <4>2, <4>3 DEF IsOp, Reached
    <3>6. ASSUME NEW j \in 1 .. Popped(q)
          PROVE  (LET i == info[order[q][j]] IN
                  IF i.type = "Wait" THEN Reached(i.f, i.v) ELSE order[q][j] \in submitted)'
      BY <2>0, <3>3 DEF Reached
    <3>7. Len(pending'[q]) <= Len(order'[q])
      BY <2>0, <3>3, <3>4
    <3>8. PendingOK(q)'
      BY <3>4, <3>5, <3>6, <3>7 DEF PendingOK, Reached
    <3> QED BY <2>2, <3>8
  <2> QED BY <2>1, <2>2
<1> QED BY <1>3, <1>4, <1>5, <1>6, <1>7, <1>8

(* Who watches a wait, and what has been seen of it, after a step in which *)
(* t neither takes a callback from those it runs nor is about to lock.     *)
LEMMA WatchesMoved ==
  ASSUME TypeOK, StacksOK, NEW t \in Threads, NEW new, Moved(t, new, 1),
         stack[t] # <<>>, stack[t][1].at # "run", new # <<>> => new[1].at # "lock",
         fired' = fired, listening \subseteq listening', NEW i \in Ids
  PROVE  /\ Watched(i) => Watched(i)' \/ Resuming(t, i)
         /\ Seen(i)' => \/ Seen(i) \/ RunIn(new, i) \/ i \in listening'
                        \/ \E f \in Fences : i \in callbacks'[f]
<1>1. (InRun(i)' => InRun(i) \/ RunIn(new, i)) /\ (InRun(i) => InRun(i)')
  BY RunsMoved
<1>2. ASSUME NEW u \in Threads
      PROVE  /\ u # t => (Resuming(u, i)' <=> Resuming(u, i))
             /\ ~Resuming(t, i)'
  BY ResumesMoved
<1>3. Watched(i) => Watched(i)' \/ Resuming(t, i)
  <2>1. CASE i \in fired
    BY <1>2, <2>1 DEF Watched
  <2>2. CASE i \notin fired
    BY <1>1, <2>2 DEF Watched
  <2> QED BY <2>1, <2>2
<1>4. stack'[i] # <<>> => Seen(i)
  <2>1. i \in Threads
    BY DEF Threads
  <2>2. i # t => stack'[i] = stack[i]
    BY <2>1 DEF Moved
  <2> QED BY <2>2 DEF Seen
<1>5. (\E u \in Threads : Resuming(u, i)') => Seen(i)
  BY <1>2 DEF Seen
<1>6. (i \in fired' => Seen(i)) /\ (InRun(i) => Seen(i))
  BY DEF Seen
<1>7. Seen(i)' => \/ Seen(i) \/ RunIn(new, i) \/ i \in listening'
                  \/ \E f \in Fences : i \in callbacks'[f]
  BY <1>1, <1>4, <1>5, <1>6 DEF Seen, Resuming, At
<1> QED BY <1>3, <1>7

(* Only the queue that t drains can change its arming.                     *)
LEMMA ArmsElsewhere ==
  ASSUME TypeOK, StacksOK, NEW t \in Threads, NEW new, Moved(t, new, 1),
         NEW q \in Queues, NEW w \in {"drain", "arm"}, Busy(t, w, q),
         new # <<>> /\ new[1].at = "arm" => new[1].q = q
  PROVE  /\ \A r \in Queues : r # q => (Arming(r)' <=> Arming(r))
         /\ Arming(q)' <=> new # <<>> /\ new[1].at = "arm"
<1>1. /\ stack[t] # <<>> /\ stack[t][1].at = w /\ stack[t][1].q = q /\ mutex[q] = t
  <2>1. At(t, w) /\ stack[t][1].q = q
    BY DEF Busy
  <2>2. stack[t] # <<>> /\ stack[t][1].at = w /\ 1 \in DOMAIN stack[t]
    BY <2>1, HeadFacts
  <2> QED BY <2>1, <2>2 DEF StacksOK
<1>2. ASSUME NEW u \in Threads, NEW r \in Queues
      PROVE  /\ u # t => (Busy(u, "arm", r)' <=> Busy(u, "arm", r))
             /\ Busy(t, "arm", r)' <=> new # <<>> /\ new[1].at = "arm" /\ r = q
  <2>1. /\ u # t => stack'[u] = stack[u] /\ (At(u, "arm")' <=> At(u, "arm"))
    BY MovedHeads
  <2>2. /\ At(t, "arm")' <=> new # <<>> /\ new[1].at = "arm"
        /\ new # <<>> => stack'[t][1] = new[1]
    BY MovedHeads
  <2> QED BY <2>1, <2>2 DEF Busy
<1>3. ASSUME NEW u \in Threads, Busy(u, "arm", q) PROVE u = t
  <2>1. At(u, "arm") /\ stack[u][1].q = q
    BY <1>3 DEF Busy
  <2>2. stack[u][1].at = "arm" /\ 1 \in DOMAIN stack[u]
    BY <2>1, HeadFacts
  <2> QED BY <1>1, <2>1, <2>2 DEF StacksOK
<1>4. \A r \in Queues : r # q => ~Busy(t, "arm", r)
  BY <1>1 DEF Busy
<1>5. ASSUME NEW r \in Queues, r # q PROVE Arming(r)' <=> Arming(r)
  BY <1>2, <1>4, <1>5 DEF Arming
<1>6. Arming(q)' <=> new # <<>> /\ new[1].at = "arm"
  BY <1>2, <1>3 DEF Arming
<1> QED BY <1>5, <1>6

(* What a thread finds at the front when it registers a callback: a wait   *)
(* of which nobody has seen anything.                                      *)
ArmingThread(t, q) ==
  /\ stack[t] # <<>> /\ Head(stack[t]) = stack[t][1]
  /\ stack[t][1].at = "arm" /\ 1 \in DOMAIN stack[t]
  /\ q \in Queues /\ Busy(t, "arm", q) /\ Arming(q) /\ mutex[q] = t /\ t # Nobody
  /\ t \notin listening
  /\ \A w \in {"commit", "drain", "lock", "post", "retire"} : ~At(t, w)
ArmedWait(q, op) ==
  /\ pending[q] # <<>> /\ Head(pending[q]) = op /\ op \in Op /\ op.id \in Ids
  /\ op.armed /\ ~op.wait_completed /\ op.type = "Wait"
  /\ info[op.id].type = "Wait" /\ info[op.id].f = op.f /\ info[op.id].v = op.v
  /\ ~Seen(op.id)

LEMMA ArmFacts ==
  ASSUME SubmissionInv, NEW t \in Threads, At(t, "arm"), NEW q, q = stack[t][1].q,
         NEW op, op = pending[q][1]
  PROVE  ArmingThread(t, q) /\ ArmedWait(q, op)
<1>1. TypeOK /\ StacksOK /\ OrdersOK /\ WatchOK /\ \A r \in Queues : PendingOK(r)
  BY DEF SubmissionInv
<1>2. /\ stack[t] # <<>> /\ Head(stack[t]) = stack[t][1] /\ stack[t][1] \in Frame
      /\ stack[t][1].at = "arm" /\ 1 \in DOMAIN stack[t]
  BY <1>1, HeadFacts
<1>3. q \in Queues /\ Busy(t, "arm", q) /\ mutex[q] = t
  BY <1>1, <1>2, FrameFacts DEF Busy, StacksOK
<1>4. t # Nobody
  BY QueueAssumption DEF Threads, Ids
<1>5. t \notin listening
  BY <1>1, <1>2 DEF StacksOK
<1>6. Arming(q)
  BY <1>3 DEF Arming
<1>7. pending[q] # <<>>
  BY <1>1, <1>3, <1>6 DEF WatchOK
<1>8. PICK m : m = Popped(q)
  OBVIOUS
<1>9. /\ op \in Op /\ op.id \in Ids /\ IsOp(op) /\ 1 \in DOMAIN pending[q] /\ Head(pending[q]) = op
      /\ m \in Nat /\ m + 1 \in DOMAIN order[q] /\ order[q][m + 1] = op.id
  BY <1>1, <1>3, <1>7, <1>8, FrontId
<1>10. op.armed /\ ~op.wait_completed
  BY <1>1, <1>3, <1>6, <1>7 DEF WatchOK, FrontOK
<1>11. op.type = "Wait"
  <2>1. PendingOK(q)
    BY <1>1, <1>3
  <2>2. pending[q][1].armed => pending[q][1].type = "Wait"
    BY <1>9, <2>1 DEF PendingOK
  <2> QED BY <1>10, <2>2
<1>12. info[op.id].type = "Wait" /\ info[op.id].f = op.f /\ info[op.id].v = op.v
  BY <1>9, <1>11 DEF IsOp
<1>13. ~Seen(op.id)
  <2> SUFFICES ASSUME Armed(op.id) PROVE FALSE
    BY <1>1, <1>9 DEF WatchOK
  <2>1. PICK r \in Queues : \E j \in DOMAIN order[r] :
          /\ order[r][j] = op.id
          /\ \/ j <= Popped(r)
             \/ j = Popped(r) + 1 /\ pending[r][1].armed /\ ~Arming(r)
    BY DEF Armed
  <2>3. PICK j \in DOMAIN order[r] :
          /\ order[r][j] = op.id
          /\ \/ j <= Popped(r)
             \/ j = Popped(r) + 1 /\ pending[r][1].armed /\ ~Arming(r)
    BY <2>1
  <2>2. r = q /\ j = m + 1
    <3>1. /\ OrdersOK /\ q \in Queues /\ m + 1 \in DOMAIN order[q]
          /\ r \in Queues /\ j \in DOMAIN order[r] /\ order[r][j] = order[q][m + 1]
      BY <1>1, <1>3, <1>9, <2>3
    <3> QED BY ONLY <3>1, OrderPlaces
  <2>4. ~(m + 1 <= m)
    <3>1. m \in Nat
      BY <1>9
    <3> QED BY ONLY <3>1
  <2> QED BY <1>6, <1>8, <2>2, <2>3, <2>4
<1>14. \A w \in {"commit", "drain", "lock", "post", "retire"} : ~At(t, w)
  BY <1>2 DEF At
<1> QED BY <1>2, <1>3, <1>4, <1>5, <1>6, <1>7, <1>9, <1>10, <1>11, <1>12, <1>13, <1>14
        DEF ArmingThread, ArmedWait

(* A thread that has nothing more to drain lets go of the queue.           *)
LEMMA UnlockStep ==
  ASSUME SubmissionInv, NEW t \in Threads, At(t, "drain"), NEW q, q = stack[t][1].q,
         Unlock(t, q),
         pending[q] # <<>> => pending[q][1].armed /\ ~pending[q][1].wait_completed,
         UNCHANGED <<calls, requested, info, pending, batches, has_waited>>,
         UNCHANGED <<event, manual, completed, callbacks, fired, listening, notified>>,
         UNCHANGED <<recording, flight, gpu_done, ongoing, allocator>>,
         UNCHANGED <<order, submitted, executed, signaled>>
  PROVE  SubmissionInv'
<1>1. /\ TypeOK /\ StacksOK /\ FenceValues /\ OrdersOK /\ WatchOK
      /\ \A r \in Queues : PendingOK(r)
  BY DEF SubmissionInv
<1>2. /\ stack[t] # <<>> /\ stack[t][1].at = "drain" /\ stack[t][1].q = q /\ q \in Queues
      /\ Busy(t, "drain", q) /\ t \notin listening /\ mutex[q] = t
      /\ ~At(t, "commit") /\ ~At(t, "arm") /\ ~At(t, "retire")
  BY DrainFacts
<1>3. PICK new : new = <<>>
  OBVIOUS
<1>4. Moved(t, new, 1) /\ stack' \in [Threads -> Seq(Frame)] /\ DOMAIN new = {}
  <2>1. stack' = Return(t)
    BY DEF Unlock
  <2>2. Moved(t, <<>>, 1) /\ stack' \in [Threads -> Seq(Frame)]
    BY <1>1, <1>2, <2>1, ReturnMoves
  <2> QED BY <1>3, <2>2
<1>5. mutex' = [mutex EXCEPT ![q] = Nobody]
  BY DEF Unlock
<1>6. \A r \in Queues : r # q => mutex'[r] = mutex[r]
  BY <1>1, <1>5 DEF TypeOK
<1>7. TypeOK'
  <2>1. mutex' \in [Queues -> Threads \cup {Nobody}]
    BY <1>1, <1>5 DEF TypeOK
  <2> QED BY <1>1, <1>4, <2>1 DEF TypeOK
<1>8. StacksOK'
  <2>1. gpu_done' \in Int /\ gpu_done' >= gpu_done
    BY <1>1, Numbers
  <2>2. /\ t \notin listening' /\ listening' \subseteq Ids /\ \A i \in listening' : i \in listening
    BY <1>1, <1>2 DEF TypeOK
  <2>3. \A r \in Queues : mutex'[r] = mutex[r] \/ (Draining(stack[t][1]) /\ stack[t][1].q = r)
    BY <1>2, <1>6 DEF Draining
  <2> QED BY <1>1, <1>2, <1>3, <1>4, <2>1, <2>2, <2>3, StacksKept
<1>9. ~Arming(q)
  BY <1>1, <1>2, NotArming
<1>10. /\ \A r \in Queues : Arming(r)' <=> Arming(r)
       /\ \A i \in Ids : (Watched(i) => Watched(i)') /\ (Seen(i)' => Seen(i))
  <2>1. ArmsKept /\ WatchedKept /\ SeenKept
    BY <1>1, <1>2, <1>3, <1>4, WatchersMoved
  <2> QED BY <2>1 DEF ArmsKept, WatchedKept, SeenKept
<1>11. \A r \in Queues : PendingOK(r)' /\ Popped(r)' = Popped(r)
  <2>1. ASSUME NEW r \in Queues PROVE Popped(r)' = Popped(r)
    BY DEF Popped
  <2>2. Grows /\ \A i \in Ids : info[i] \in Op => info'[i] = info[i]
    BY <1>1, StillGrows
  <2>3. ASSUME NEW r \in Queues PROVE PendingOK(r)'
    <3>1. PendingOK(r)
      BY <1>1
    <3>2. \A k \in DOMAIN pending[r] : pending[r][k].id \notin submitted'
      BY <3>1 DEF PendingOK
    <3> QED BY <1>1, <1>7, <2>2, <3>1, <3>2, PendingKept
  <2> QED BY <2>1, <2>3
<1>12. FenceValues'
  <2>1. Grows
    BY <1>1, StillGrows
  <2> QED BY <1>1, <1>7, <2>1, FencesKept
<1>13. WatchOK'
  <2>1. FrontOK(q)'
    <3>1. CASE pending[q] = <<>>
      BY <3>1 DEF FrontOK
    <3>2. CASE pending[q] # <<>>
      <4>1. PICK op : op = pending[q][1]
        OBVIOUS
      <4>2. op.id \in Ids /\ op.armed /\ ~op.wait_completed
        BY <1>1, <1>2, <3>2, <4>1, FrontId
      <4>3. Watched(op.id)
        BY <1>1, <1>2, <1>9, <3>2, <4>1, <4>2 DEF WatchOK, FrontOK
      <4>4. Watched(op.id)' /\ pending' = pending
        BY <1>10, <4>2, <4>3
      <4> QED BY <4>1, <4>2, <4>4 DEF FrontOK
    <3> QED BY <3>1, <3>2
  <2> QED BY <1>1, <1>2, <1>6, <1>9, <1>10, <1>11, <2>1, WatchesElsewhere
<1> QED BY <1>2, <1>3, <1>4, <1>7, <1>8, <1>11, <1>12, <1>13, FrontStep

LEMMA DrainEmptyStep ==
  ASSUME SubmissionInv, NEW t \in Threads, DrainEmpty(t)
  PROVE  SubmissionInv'
<1>1. At(t, "drain")
  BY DEF DrainEmpty
<1>2. PICK q : q = stack[t][1].q
  OBVIOUS
<1>3. Head(stack[t]) = stack[t][1]
  BY <1>1, <1>2, DrainFacts
<1>4. /\ pending[q] = <<>> /\ Unlock(t, q)
      /\ UNCHANGED <<calls, requested, info, pending, batches, has_waited>>
      /\ UNCHANGED <<event, manual, completed, callbacks, fired, listening, notified>>
      /\ UNCHANGED <<recording, flight, gpu_done, ongoing, allocator>>
      /\ UNCHANGED <<order, submitted, executed, signaled>>
  BY <1>2, <1>3 DEF DrainEmpty, client, fences, pipeline, history
<1> QED BY <1>1, <1>2, <1>4, UnlockStep

(* A wait that is satisfied leaves the queue.                              *)
LEMMA WaitPassedStep ==
  ASSUME SubmissionInv, NEW t \in Threads, At(t, "drain"), NEW q, q = stack[t][1].q,
         pending[q] # <<>>, NEW op, op = pending[q][1], op.type = "Wait", Satisfied(op),
         pending' = [pending EXCEPT ![q] = Tail(pending[q])],
         UNCHANGED <<mutex, stack, calls, requested, info, batches, has_waited>>,
         UNCHANGED <<event, manual, completed, callbacks, fired, listening, notified>>,
         UNCHANGED <<recording, flight, gpu_done, ongoing, allocator>>,
         UNCHANGED <<order, submitted, executed, signaled>>
  PROVE  SubmissionInv'
<1>1. /\ TypeOK /\ StacksOK /\ FenceValues /\ OrdersOK /\ FrameValues /\ FlightValues /\ FlightOK
      /\ SignalCoversWork /\ \A r \in Queues : PendingOK(r)
  BY DEF SubmissionInv
<1>2. q \in Queues /\ Busy(t, "drain", q)
  BY DrainFacts
<1>3. op \in Op /\ op.f \in Fences /\ op.v \in Nat /\ 1 \in DOMAIN pending[q]
  <2>1. op \in Op /\ 1 \in DOMAIN pending[q]
    BY <1>1, <1>2, FrontId
  <2> QED BY <1>1, <2>1, OpFacts, Numbers
<1>4. Reached(op.f, op.v)
  <2>1. CASE op.wait_completed
    BY <1>1, <1>2, <1>3, <2>1 DEF PendingOK
  <2>2. CASE CompletedValue(op.f) >= op.v
    <3>1. PICK x, y, z : x = event[op.f] /\ y = completed[op.f] /\ z = signaled[op.f].max
      OBVIOUS
    <3>2. x \in Nat /\ y \in Nat /\ z \in Nat /\ z >= x /\ z >= y
      BY <1>1, <1>3, <3>1, Numbers DEF FenceValues, Reached
    <3>3. x >= op.v \/ y >= op.v
      BY <2>2, <3>1 DEF CompletedValue
    <3>4. z >= op.v
      <4>1. PICK v : v = op.v
        OBVIOUS
      <4>2. v \in Nat /\ (x >= v \/ y >= v)
        BY <1>3, <3>3, <4>1
      <4>3. z >= v
        BY ONLY <3>2, <4>2
      <4> QED BY <4>1, <4>3
    <3> QED BY <3>1, <3>4 DEF Reached
  <2> QED BY <2>1, <2>2 DEF Satisfied
<1>5. TypeOK'
  <2>1. pending' \in [Queues -> Seq(Op)]
    <3>1. pending \in [Queues -> Seq(Op)] /\ pending[q] \in Seq(Op)
      BY <1>1, <1>2 DEF TypeOK
    <3>2. Tail(pending[q]) \in Seq(Op)
      BY <3>1, TailFacts
    <3> QED BY <3>1, <3>2
  <2> QED BY <1>1, <2>1 DEF TypeOK
<1>6. StacksOK'
  BY <1>1 DEF StacksOK, At
<1>7. EnqueuersKept /\ CommitsKept /\ ArmsKept /\ WatchedKept /\ SeenKept
  BY StillStack
<1>8. Grows
  BY <1>1, StillGrows
<1>9. FenceValues' /\ FlightValues' /\ FlightOK' /\ SignalCoversWork'
  BY <1>1, <1>5, <1>7, <1>8, FencesKept, FlightValuesKept, FlightKept, SignalsKept
<1>10. FrameValues'
  <2>1. FrameValues /\ stack' = stack /\ info' = info /\ signaled' = signaled
    BY <1>1
  <2> QED BY ONLY <2>1, SMTT(20) DEF FrameValues, FrameTrue, WaitReached, Reached
<1>11. Reached(op.f, op.v)'
  BY <1>4 DEF Reached
<1> QED BY <1>2, <1>5, <1>6, <1>7, <1>8, <1>9, <1>10, <1>11, PopStep

(* A wait that is not satisfied is armed, once.                            *)
LEMMA WaitArmedStep ==
  ASSUME SubmissionInv, NEW t \in Threads, At(t, "drain"), NEW q, q = stack[t][1].q,
         pending[q] # <<>>, NEW op, op = pending[q][1], op.type = "Wait",
         ~op.wait_completed, ~op.armed,
         pending' = [pending EXCEPT ![q][1].armed = TRUE],
         stack' = Goto(t, Arm(q)),
         UNCHANGED <<mutex, calls, requested, info, batches, has_waited>>,
         UNCHANGED <<event, manual, completed, callbacks, fired, listening, notified>>,
         UNCHANGED <<recording, flight, gpu_done, ongoing, allocator>>,
         UNCHANGED <<order, submitted, executed, signaled>>
  PROVE  SubmissionInv'
<1>1. /\ TypeOK /\ StacksOK /\ FenceValues /\ OrdersOK /\ WatchOK
      /\ \A r \in Queues : PendingOK(r)
  BY DEF SubmissionInv
<1>2. /\ stack[t] # <<>> /\ stack[t][1].at = "drain" /\ stack[t][1].q = q /\ q \in Queues
      /\ Busy(t, "drain", q) /\ t \notin listening /\ mutex[q] = t /\ t # Nobody
      /\ ~At(t, "commit") /\ ~At(t, "arm") /\ ~At(t, "retire")
  BY DrainFacts
<1>3. PICK new, o, s : /\ new = <<Arm(q)>> /\ o = [op EXCEPT !.armed = TRUE]
                       /\ s = [pending[q] EXCEPT ![1] = o]
  OBVIOUS
<1>4. /\ new # <<>> /\ DOMAIN new = {1} /\ new[1].at = "arm" /\ new[1].q = q
      /\ Moved(t, new, 1) /\ stack' \in [Threads -> Seq(Frame)]
  <2>1. Arm(q) \in Frame
    BY <1>2, FramesMade
  <2>2. Moved(t, new, 1) /\ stack' \in [Threads -> Seq(Frame)]
    BY <1>1, <1>2, <1>3, <2>1, GotoMoves
  <2>3. DOMAIN new = {1} /\ new # <<>> /\ new[1] = Arm(q)
    BY ONLY <1>3
  <2>4. Arm(q).at = "arm" /\ Arm(q).q = q
    BY DEF Arm
  <2> QED BY ONLY <2>2, <2>3, <2>4
<1>5. op \in Op /\ op.id \in Ids /\ IsOp(op)
  BY <1>1, <1>2, FrontId
<1>6. /\ o \in Op /\ o.id = op.id /\ IsOp(o) /\ ~o.wait_completed /\ o.armed /\ o.type = "Wait"
  BY <1>3, <1>5 DEF Op, IsOp
<1>7. pending' = [pending EXCEPT ![q] = s]
  BY <1>3
<1>8. /\ \A r \in Queues : PendingOK(r)' /\ Popped(r)' = Popped(r)
      /\ \A r \in Queues : r # q => pending'[r] = pending[r]
      /\ pending'[q] # <<>> /\ pending'[q][1] = o
      /\ pending' \in [Queues -> Seq(Op)]
  <2>1. pending[q] # <<>> /\ o.id = pending[q][1].id /\ UNCHANGED <<order, info, submitted, signaled>>
    BY <1>6
  <2>2. o.wait_completed => Reached(o.f, o.v)
    BY <1>6
  <2>3. s = [pending[q] EXCEPT ![1] = o]
    BY <1>3
  <2> QED BY ONLY <1>1, <1>2, <1>6, <1>7, <2>1, <2>2, <2>3, FrontChanged
<1>9. TypeOK'
  BY <1>1, <1>4, <1>8 DEF TypeOK
<1>10. StacksOK'
  <2>1. gpu_done' \in Int /\ gpu_done' >= gpu_done
    BY <1>1, Numbers, SMTT(20)
  <2>2. /\ \A k \in DOMAIN new : k > 1 => new[k].at \in {"run", "retire"}
        /\ \A k \in DOMAIN new : new[k].at # "retire" /\ new[k].q = q
        /\ new[1].at # "commit"
    BY ONLY <1>4
  <2>3. /\ t \notin listening' /\ listening' \subseteq Ids /\ \A i \in listening' : i \in listening
        /\ mutex'[q] = t
    BY <1>1, <1>2 DEF TypeOK
  <2> QED BY <1>1, <1>2, <1>4, <2>1, <2>2, <2>3, StacksKept
<1>11. FenceValues'
  <2>1. Grows
    BY <1>1, StillGrows
  <2> QED BY <1>1, <1>9, <2>1, FencesKept
<1>12. ~Arming(q)
  BY <1>1, <1>2, NotArming
<1>13. (\A r \in Queues : r # q => (Arming(r)' <=> Arming(r))) /\ Arming(q)'
  <2>1. /\ TypeOK /\ StacksOK /\ t \in Threads /\ q \in Queues /\ Busy(t, "drain", q)
        /\ Moved(t, new, 1) /\ new # <<>> /\ new[1].at = "arm" /\ new[1].q = q
    BY <1>1, <1>2, <1>4
  <2> QED BY ONLY <2>1, ArmsElsewhere
<1>14. ASSUME NEW i \in Ids
       PROVE  (Watched(i) => Watched(i)') /\ (Seen(i)' => Seen(i))
  <2>1. ~Resuming(t, i)
    BY <1>2 DEF Resuming, At
  <2>2. ~RunIn(new, i)
    BY <1>4 DEF RunIn
  <2>3. /\ Watched(i) => Watched(i)' \/ Resuming(t, i)
        /\ Seen(i)' => \/ Seen(i) \/ RunIn(new, i) \/ i \in listening'
                       \/ \E f \in Fences : i \in callbacks'[f]
    BY <1>1, <1>2, <1>4, WatchesMoved
  <2> QED BY <2>1, <2>2, <2>3 DEF Seen
<1>15. WatchOK'
  <2>1. FrontOK(q)'
    BY <1>2, <1>6, <1>8, <1>13 DEF FrontOK
  <2>2. ASSUME NEW j \in DOMAIN order[q],
               j <= Popped(q) \/ (j = Popped(q) + 1 /\ pending[q][1].armed /\ ~Arming(q))
        PROVE  j <= Popped(q)'
    BY <1>2, <1>8, <2>2
  <2>3. \A r \in Queues : mutex'[r] = Nobody => mutex[r] = Nobody
    OBVIOUS
  <2> QED BY <1>1, <1>2, <1>8, <1>13, <1>14, <2>1, <2>2, <2>3, WatchesElsewhere
<1> QED BY <1>2, <1>4, <1>8, <1>9, <1>10, <1>11, <1>15, FrontStep DEF FrameTrue

LEMMA DrainWaitStep ==
  ASSUME SubmissionInv, NEW t \in Threads, DrainWait(t)
  PROVE  SubmissionInv'
<1>1. TypeOK
  BY DEF SubmissionInv
<1>2. At(t, "drain")
  BY DEF DrainWait, Front
<1>3. PICK q, op : q = stack[t][1].q /\ op = pending[q][1]
  OBVIOUS
<1>4. Head(stack[t]) = stack[t][1] /\ q \in Queues
  BY <1>2, <1>3, DrainFacts
<1>5. pending[q] # <<>> /\ Head(pending[q]).type = "Wait"
  BY <1>3, <1>4 DEF DrainWait, Front
<1>6. Head(pending[q]) = op
  <2>1. pending[q] \in Seq(Op)
    BY <1>1, <1>4 DEF TypeOK
  <2> QED BY <1>3, <1>5, <2>1
<1>7. op.type = "Wait"
  BY <1>5, <1>6
<1>8. /\ UNCHANGED <<calls, requested, info, batches, has_waited>>
      /\ UNCHANGED <<event, manual, completed, callbacks, fired, listening, notified>>
      /\ UNCHANGED <<recording, flight, gpu_done, ongoing, allocator>>
      /\ UNCHANGED <<order, submitted, executed, signaled>>
  BY DEF DrainWait, client, fences, pipeline, history
<1>9. \/ /\ Satisfied(op)
         /\ pending' = [pending EXCEPT ![q] = Tail(pending[q])]
         /\ UNCHANGED <<mutex, stack>>
      \/ /\ ~Satisfied(op) /\ op.armed
         /\ Unlock(t, q)
         /\ UNCHANGED pending
      \/ /\ ~Satisfied(op) /\ ~op.armed
         /\ pending' = [pending EXCEPT ![q][1].armed = TRUE]
         /\ stack' = Goto(t, Arm(q))
         /\ UNCHANGED mutex
  BY <1>3, <1>4, <1>6 DEF DrainWait
<1>10. CASE Satisfied(op) /\ pending' = [pending EXCEPT ![q] = Tail(pending[q])] /\ UNCHANGED <<mutex, stack>>
  BY <1>2, <1>3, <1>5, <1>7, <1>8, <1>10, WaitPassedStep
<1>11. CASE ~Satisfied(op) /\ op.armed /\ Unlock(t, q) /\ UNCHANGED pending
  <2>1. pending[q][1].armed /\ ~pending[q][1].wait_completed
    BY <1>3, <1>11 DEF Satisfied
  <2> QED BY <1>2, <1>3, <1>8, <1>11, <2>1, UnlockStep
<1>12. CASE /\ ~Satisfied(op) /\ ~op.armed /\ UNCHANGED mutex
            /\ pending' = [pending EXCEPT ![q][1].armed = TRUE]
            /\ stack' = Goto(t, Arm(q))
  <2>1. ~op.wait_completed
    BY <1>12 DEF Satisfied
  <2> QED BY <1>2, <1>3, <1>5, <1>7, <1>8, <1>12, <2>1, WaitArmedStep
<1> QED BY <1>9, <1>10, <1>11, <1>12

LEMMA ResumeStep ==
  ASSUME SubmissionInv, NEW t \in Threads, Resume(t)
  PROVE  SubmissionInv'
<1>1. /\ TypeOK /\ StacksOK /\ FenceValues /\ OrdersOK /\ WatchOK /\ FrameValues
      /\ \A r \in Queues : PendingOK(r)
  BY DEF SubmissionInv
<1>2. At(t, "lock") /\ Head(stack[t]).cb # 0
  BY DEF Resume
<1>3. /\ stack[t] # <<>> /\ stack[t][1] \in Frame /\ Head(stack[t]) = stack[t][1]
      /\ stack[t][1].at = "lock" /\ 1 \in DOMAIN stack[t]
  BY <1>1, <1>2, HeadFacts
<1>4. PICK q, c, new : q = stack[t][1].q /\ c = stack[t][1].cb /\ new = <<Drain(q)>>
  OBVIOUS
<1>5. /\ mutex[q] = Nobody /\ mutex' = [mutex EXCEPT ![q] = t]
      /\ pending' = IF pending[q] # <<>> /\ Marks(Head(pending[q]), c)
                    THEN [pending EXCEPT ![q][1].wait_completed = TRUE]
                    ELSE pending
      /\ stack' = Goto(t, Drain(q))
      /\ UNCHANGED <<calls, requested, info, batches, has_waited>>
      /\ UNCHANGED <<event, manual, completed, callbacks, fired, listening, notified>>
      /\ UNCHANGED <<recording, flight, gpu_done, ongoing, allocator>>
      /\ UNCHANGED <<order, submitted, executed, signaled>>
  BY <1>3, <1>4 DEF Resume, client, fences, pipeline, history
<1>6. /\ calls' = calls /\ info' = info /\ batches' = batches /\ flight' = flight /\ gpu_done' = gpu_done
      /\ order' = order /\ submitted' = submitted /\ executed' = executed /\ signaled' = signaled
      /\ recording' = recording /\ fired' = fired /\ listening' = listening /\ callbacks' = callbacks
  BY <1>5
<1>7. /\ q \in Queues /\ c \in Ids /\ WaitReached(c) /\ info[c].q = q
  <2>1. q \in Queues /\ c \in 0 .. MaxOps /\ c # 0
    BY <1>2, <1>3, <1>4, FrameFacts
  <2>2. c \in Ids
    BY <2>1, QueueAssumption DEF Ids
  <2>3. WaitReached(c) /\ info[c].q = q
    BY <1>1, <1>3, <1>4, <2>1 DEF FrameValues, FrameTrue
  <2> QED BY <2>1, <2>2, <2>3
<1>8. /\ new # <<>> /\ DOMAIN new = {1} /\ new[1].at = "drain" /\ new[1].q = q
      /\ Moved(t, new, 1) /\ stack' \in [Threads -> Seq(Frame)]
  <2>1. Drain(q) \in Frame
    BY <1>7, FramesMade
  <2>2. Moved(t, new, 1) /\ stack' \in [Threads -> Seq(Frame)]
    BY <1>1, <1>3, <1>4, <1>5, <2>1, GotoMoves
  <2> QED BY <1>4, <2>2 DEF Drain
<1>9. \A r \in Queues : r # q => mutex'[r] = mutex[r]
  BY <1>1, <1>5, <1>7 DEF TypeOK
<1>10. mutex'[q] = t /\ t # Nobody /\ mutex' \in [Queues -> Threads \cup {Nobody}]
  BY <1>1, <1>5, <1>7, QueueAssumption DEF TypeOK, Threads, Ids
<1>11. /\ \A r \in Queues : PendingOK(r)' /\ Popped(r)' = Popped(r)
       /\ \A r \in Queues : r # q => pending'[r] = pending[r]
       /\ pending'[q] # <<>> => /\ pending[q] # <<>>
                                /\ pending'[q][1].armed = pending[q][1].armed
                                /\ \/ pending'[q][1].wait_completed
                                   \/ /\ pending'[q][1] = pending[q][1]
                                      /\ ~Marks(pending[q][1], c)
       /\ pending' \in [Queues -> Seq(Op)]
       /\ pending[q] # <<>> => pending'[q] # <<>>
  <2>1. CASE pending[q] # <<>> /\ Marks(Head(pending[q]), c)
    <3>1. PICK op, o, s : /\ op = pending[q][1] /\ o = [op EXCEPT !.wait_completed = TRUE]
                          /\ s = [pending[q] EXCEPT ![1] = o]
      OBVIOUS
    <3>2. op \in Op /\ op.id \in Ids /\ IsOp(op) /\ Head(pending[q]) = op
      BY <1>1, <1>7, <2>1, <3>1, FrontId
    <3>3. op.type = "Wait" /\ op.f = info[c].f /\ op.v = info[c].v
      BY <2>1, <3>2 DEF Marks
    <3>4. /\ o \in Op /\ o.id = op.id /\ IsOp(o) /\ o.wait_completed /\ o.armed = op.armed /\ o.type = "Wait"
          /\ o.f = info[c].f /\ o.v = info[c].v
      BY <3>1, <3>2, <3>3 DEF Op, IsOp
    <3>5. Reached(o.f, o.v)
      BY <1>7, <3>4 DEF WaitReached
    <3>6. pending' = [pending EXCEPT ![q] = s]
      BY <1>5, <2>1, <3>1
    <3>7. pending[q] # <<>> /\ o.id = pending[q][1].id /\ s = [pending[q] EXCEPT ![1] = o]
      BY <2>1, <3>1, <3>4
    <3>8. /\ \A r \in Queues : PendingOK(r)' /\ Popped(r)' = Popped(r)
          /\ \A r \in Queues : r # q => pending'[r] = pending[r]
          /\ pending'[q] # <<>> /\ pending'[q][1] = o
          /\ pending' \in [Queues -> Seq(Op)]
      BY ONLY <1>1, <1>6, <1>7, <3>4, <3>5, <3>6, <3>7, FrontChanged
    <3> QED BY <2>1, <3>1, <3>4, <3>8
  <2>2. CASE ~(pending[q] # <<>> /\ Marks(Head(pending[q]), c))
    <3>1. pending' = pending
      BY <1>5, <2>2
    <3>2. ASSUME NEW r \in Queues PROVE PendingOK(r)' /\ Popped(r)' = Popped(r)
      <4>1. Popped(r)' = Popped(r)
        BY <1>6, <3>1 DEF Popped
      <4>2. PendingOK(r)
        BY <1>1
      <4>3. PendingOK(r)'
        BY ONLY <1>6, <3>1, <4>1, <4>2 DEF PendingOK, IsOp, Reached, Popped
      <4> QED BY <4>1, <4>3
    <3>3. pending[q] # <<>> => Head(pending[q]) = pending[q][1]
      BY <1>1, <1>7, FrontId
    <3>4. pending \in [Queues -> Seq(Op)]
      BY <1>1 DEF TypeOK
    <3> QED BY <2>2, <3>1, <3>2, <3>3, <3>4
  <2> QED BY <2>1, <2>2
<1>12. TypeOK'
  BY <1>1, <1>5, <1>8, <1>10, <1>11 DEF TypeOK
<1>13. ~At(t, "commit") /\ ~At(t, "arm") /\ ~At(t, "retire")
  BY <1>3 DEF At
<1>14. StacksOK'
  <2>1. gpu_done' \in Int /\ gpu_done' >= gpu_done
    BY <1>1, <1>6, Numbers
  <2>2. /\ \A k \in DOMAIN new : k > 1 => new[k].at \in {"run", "retire"}
        /\ \A k \in DOMAIN new : new[k].at # "retire" /\ new[k].q = q
        /\ new[1].at # "commit"
    BY <1>8
  <2>3. /\ t \notin listening' /\ listening' \subseteq Ids /\ \A i \in listening' : i \in listening
    BY <1>1, <1>3, <1>6 DEF TypeOK, StacksOK
  <2>4. \A r \in Queues : mutex'[r] = mutex[r] \/ mutex[r] = Nobody
    BY <1>5, <1>9
  <2> QED BY <1>1, <1>5, <1>6, <1>8, <1>10, <1>13, <2>1, <2>2, <2>3, <2>4, StacksKept
<1>15. FenceValues'
  <2>1. Grows
    BY <1>1, <1>6, StillGrows
  <2> QED BY <1>1, <1>5, <1>12, <2>1, FencesKept
<1>16. ~Arming(q)
  BY <1>1, <1>5, <1>7, NotArming
<1>17. \A r \in Queues : Arming(r)' <=> Arming(r)
  <2>1. ArmsKept
    BY <1>1, <1>8, <1>13, ArmsMoved
  <2> QED BY <2>1 DEF ArmsKept
<1>18. ASSUME NEW i \in Ids
       PROVE  (Watched(i) => Watched(i)' \/ i = c) /\ (Seen(i)' => Seen(i))
  <2>1. Resuming(t, i) => i = c
    BY <1>4 DEF Resuming
  <2>2. ~RunIn(new, i)
    BY <1>8 DEF RunIn
  <2>3. stack[t][1].at # "run" /\ new[1].at # "lock" /\ listening \subseteq listening'
    BY <1>3, <1>6, <1>8
  <2>4. /\ Watched(i) => Watched(i)' \/ Resuming(t, i)
        /\ Seen(i)' => \/ Seen(i) \/ RunIn(new, i) \/ i \in listening'
                       \/ \E f \in Fences : i \in callbacks'[f]
    BY <1>1, <1>3, <1>6, <1>8, <2>3, WatchesMoved
  <2> QED BY <1>6, <2>1, <2>2, <2>4 DEF Seen
<1>19. FrontOK(q)'
  <2> SUFFICES ASSUME pending'[q] # <<>>, NEW o, o = pending'[q][1], o.armed, ~o.wait_completed
               PROVE  Watched(o.id)'
    BY <1>7, <1>10, <1>16, <1>17 DEF FrontOK
  <2>1. pending[q] # <<>> /\ o = pending[q][1] /\ ~Marks(o, c)
    BY <1>11
  <2>2. o.id \in Ids /\ IsOp(o)
    BY <1>1, <1>7, <2>1, FrontId
  <2>3. Watched(o.id)
    BY <1>1, <1>7, <1>16, <2>1 DEF WatchOK, FrontOK
  <2>4. o.id # c
    <3> SUFFICES ASSUME o.id = c PROVE FALSE
      OBVIOUS
    <3>1. o.type = info[c].type /\ o.f = info[c].f /\ o.v = info[c].v
      BY <2>2 DEF IsOp
    <3> QED BY <1>7, <2>1, <3>1 DEF Marks, WaitReached
  <2> QED BY <1>18, <2>2, <2>3, <2>4
<1>20. WatchOK'
  <2>1. \A i \in Ids : /\ Watched(i) => Watched(i)' \/ info[i].q = q
                       /\ Seen(i)' => Seen(i)
    BY <1>7, <1>18
  <2>2. ASSUME NEW j \in DOMAIN order[q],
               j <= Popped(q) \/ (j = Popped(q) + 1 /\ pending[q][1].armed /\ ~Arming(q))
        PROVE  j <= Popped(q)' \/ (j = Popped(q)' + 1 /\ pending'[q][1].armed /\ ~Arming(q)')
    <3>1. Popped(q)' = Popped(q) /\ Popped(q) \in Int
      <4>1. Popped(q)' = Popped(q)
        BY <1>7, <1>11
      <4>2. Len(order[q]) \in Nat /\ Len(pending[q]) \in Nat
        BY <1>1, <1>7, Numbers
      <4>3. Popped(q) \in Int
        BY <4>2 DEF Popped
      <4> QED BY <4>1, <4>3
    <3>2. CASE pending[q] # <<>>
      BY <1>7, <1>11, <1>17, <2>2, <3>1, <3>2
    <3>3. CASE pending[q] = <<>>
      <4>1. Popped(q) = Len(order[q])
        BY <1>1, <1>7, <3>3, Numbers DEF Popped
      <4>2. j <= Len(order[q])
        BY <1>1, <1>7, Numbers
      <4> QED BY <3>1, <4>1, <4>2
    <3> QED BY <3>2, <3>3
  <2>3. \A r \in Queues : r # q => /\ pending'[r] = pending[r]
                                   /\ mutex'[r] = Nobody => mutex[r] = Nobody
                                   /\ Arming(r)' <=> Arming(r)
    BY <1>9, <1>11, <1>17
  <2>4. Arming(q)' => pending'[q] # <<>>
    BY <1>7, <1>16, <1>17
  <2> QED BY <1>1, <1>6, <1>7, <1>19, <2>1, <2>2, <2>3, <2>4, WatchesElsewhere
<1>21. \A k \in DOMAIN new : FrameTrue(new[k])
  BY <1>8 DEF FrameTrue
<1>22. new[1].at \notin {"commit", "lock"}
  BY <1>8
<1> QED BY <1>6, <1>8, <1>11, <1>12, <1>13, <1>14, <1>15, <1>20, <1>21, <1>22, FrontStep

(* The value has been reached meanwhile: the callback runs at once.        *)
LEMMA CallbackAtOnceStep ==
  ASSUME SubmissionInv, NEW t \in Threads, At(t, "arm"), NEW q, q = stack[t][1].q,
         NEW op, op = pending[q][1], CompletedValue(op.f) >= op.v,
         NEW new, new = Run({op.id}), stack' = [stack EXCEPT ![t] = new \o Tail(stack[t])],
         UNCHANGED <<mutex, pending, calls, requested, info, batches, has_waited>>,
         UNCHANGED <<event, manual, completed, callbacks, fired, listening, notified>>,
         UNCHANGED <<recording, flight, gpu_done, ongoing, allocator>>,
         UNCHANGED <<order, submitted, executed, signaled>>
  PROVE  SubmissionInv'
<1>1. /\ TypeOK /\ StacksOK /\ FenceValues /\ OrdersOK /\ WatchOK
      /\ \A r \in Queues : PendingOK(r)
  BY DEF SubmissionInv
<1>0. SubmissionInv /\ t \in Threads /\ At(t, "arm") /\ q = stack[t][1].q /\ op = pending[q][1]
  OBVIOUS
<1>2. /\ stack[t] # <<>> /\ stack[t][1].at = "arm" /\ stack[t][1].q = q
      /\ q \in Queues /\ Busy(t, "arm", q) /\ Arming(q) /\ mutex[q] = t /\ t # Nobody
      /\ t \notin listening
      /\ ~At(t, "commit") /\ ~At(t, "retire")
  <2>1. ArmingThread(t, q)
    BY ONLY <1>0, ArmFacts
  <2> QED BY ONLY <1>0, <2>1, ZenonT(30) DEF ArmingThread
<1>3. /\ pending[q] # <<>> /\ op \in Op /\ op.id \in Ids
      /\ op.armed /\ ~op.wait_completed /\ op.type = "Wait"
      /\ info[op.id].type = "Wait" /\ info[op.id].f = op.f /\ info[op.id].v = op.v
      /\ ~Seen(op.id)
  <2>1. ArmedWait(q, op)
    BY ONLY <1>0, ArmFacts
  <2> QED BY ONLY <2>1 DEF ArmedWait
<1>4. /\ new # <<>> /\ DOMAIN new = {1} /\ new[1].at = "run" /\ new[1].cbs = {op.id}
      /\ new \in Seq(Frame)
  <2>1. new = <<RunFrame({op.id})>>
    BY DEF Run, RunFrame
  <2>2. new \in Seq(Frame)
    <3>1. PICK ids : ids = {op.id}
      OBVIOUS
    <3>2. ids \in SUBSET Ids /\ new = Run(ids)
      BY <1>3, <3>1
    <3> QED BY ONLY <3>2, RunSequence
  <2> QED BY ONLY <2>1, <2>2 DEF RunFrame
<1>5. Moved(t, new, 1) /\ stack' \in [Threads -> Seq(Frame)]
  BY <1>1, <1>2, <1>4, ReplaceMoves
<1>6. TypeOK'
  BY <1>1, <1>5 DEF TypeOK
<1>7. StacksOK'
  <2>0. /\ gpu_done' = gpu_done /\ mutex' = mutex /\ recording' = recording /\ listening' = listening
        /\ t \in Threads
    OBVIOUS
  <2>1. gpu_done' \in Int /\ gpu_done' >= gpu_done
    BY ONLY <1>1, <2>0, Numbers
  <2>2. /\ \A k \in DOMAIN new : k > 1 => new[k].at \in {"run", "retire"}
        /\ \A k \in DOMAIN new : ~Draining(new[k]) /\ new[k].at # "retire"
        /\ new[1].at # "commit"
    BY <1>4 DEF Draining
  <2>3. /\ t \notin listening' /\ listening' \subseteq Ids /\ \A i \in listening' : i \in listening
    BY <1>1, <1>2 DEF TypeOK
  <2> QED BY ONLY <1>1, <1>2, <1>4, <1>5, <2>0, <2>1, <2>2, <2>3, StacksKept
<1>8. Grows
  BY <1>1, StillGrows
<1>9. FenceValues'
  BY <1>1, <1>6, <1>8, FencesKept
<1>10. \A r \in Queues : PendingOK(r)' /\ Popped(r)' = Popped(r)
  <2>1. ASSUME NEW r \in Queues PROVE Popped(r)' = Popped(r)
    BY DEF Popped
  <2>2. \A i \in Ids : info[i] \in Op => info'[i] = info[i]
    OBVIOUS
  <2>3. ASSUME NEW r \in Queues PROVE PendingOK(r)'
    <3>1. PendingOK(r)
      BY <1>1
    <3>2. \A k \in DOMAIN pending[r] : pending[r][k].id \notin submitted'
      BY <3>1 DEF PendingOK
    <3> QED BY <1>1, <1>6, <1>8, <2>2, <3>1, <3>2, PendingKept
  <2> QED BY <2>1, <2>3
<1>11. WaitReached(op.id)
  <2>1. op.f \in Fences /\ op.v \in Nat
    BY <1>1, <1>3, OpFacts, Numbers
  <2>2. PICK x, y, z : x = event[op.f] /\ y = completed[op.f] /\ z = signaled[op.f].max
    OBVIOUS
  <2>3. x \in Nat /\ y \in Nat /\ z \in Nat /\ z >= x /\ z >= y
    BY <1>1, <2>1, <2>2, Numbers DEF FenceValues, Reached
  <2>4. PICK v : v = op.v
    OBVIOUS
  <2>5. v \in Nat /\ (x >= v \/ y >= v)
    BY <2>1, <2>2, <2>4 DEF CompletedValue
  <2>6. z >= v
    BY ONLY <2>3, <2>5
  <2> QED BY <1>3, <2>2, <2>4, <2>6 DEF WaitReached, Reached
<1>12. \A k \in DOMAIN new : FrameTrue(new[k])
  BY <1>4, <1>11 DEF FrameTrue
<1>13. (\A r \in Queues : r # q => (Arming(r)' <=> Arming(r))) /\ ~Arming(q)'
  <2>1. new[1].at # "arm"
    BY <1>4
  <2> QED BY <1>1, <1>2, <1>5, <2>1, ArmsElsewhere
<1>14. ASSUME NEW i \in Ids
       PROVE  (Watched(i) => Watched(i)') /\ (Seen(i)' => Seen(i) \/ i = op.id)
  <2>1. ~Resuming(t, i)
    BY <1>2 DEF Resuming, At
  <2>2. RunIn(new, i) => i = op.id
    BY <1>4 DEF RunIn
  <2>3. stack[t][1].at # "run" /\ new[1].at # "lock"
    BY <1>2, <1>4
  <2>4. /\ Watched(i) => Watched(i)' \/ Resuming(t, i)
        /\ Seen(i)' => \/ Seen(i) \/ RunIn(new, i) \/ i \in listening'
                       \/ \E f \in Fences : i \in callbacks'[f]
    BY <1>1, <1>2, <1>5, <2>3, WatchesMoved
  <2> QED BY <2>1, <2>2, <2>4 DEF Seen
<1>15. FrontOK(q)'
  <2>1. op.id \notin fired
    BY <1>3 DEF Seen
  <2>2. RunIn(new, op.id)
    BY <1>4 DEF RunIn
  <2>3. InRun(op.id)'
    BY <1>1, <1>3, <1>5, <2>2, RunsMoved
  <2>4. Watched(op.id)'
    BY <2>1, <2>3 DEF Watched
  <2> QED BY <1>2, <1>13, <2>4 DEF FrontOK
<1>16. Armed(op.id)'
  <2>1. PICK m : m = Popped(q)
    OBVIOUS
  <2>2. m + 1 \in DOMAIN order[q] /\ order[q][m + 1] = op.id /\ Popped(q)' = m
    BY <1>1, <1>2, <1>3, <1>10, <2>1, FrontId
  <2> QED BY <1>2, <1>3, <1>13, <2>2 DEF Armed
<1>17. WatchOK'
  <2>1. \A j \in DOMAIN order[q] :
          j <= Popped(q) \/ (j = Popped(q) + 1 /\ pending[q][1].armed /\ ~Arming(q)) => j <= Popped(q)'
    BY <1>2, <1>10
  <2>2. \A i \in Ids : (Watched(i) => Watched(i)') /\ (Seen(i)' => Seen(i) \/ Armed(i)')
    BY <1>14, <1>16
  <2>3. \A r \in Queues : mutex'[r] = Nobody => mutex[r] = Nobody
    OBVIOUS
  <2> QED BY <1>1, <1>2, <1>13, <1>15, <2>1, <2>2, <2>3, WatchesElsewhere
<1>18. new[1].at \notin {"commit", "lock"}
  BY <1>4
<1> QED BY <1>2, <1>4, <1>5, <1>6, <1>7, <1>9, <1>10, <1>12, <1>17, <1>18, FrontStep

(* Otherwise the fence and a new listener keep it.                         *)
LEMMA RegisterStep ==
  ASSUME SubmissionInv, NEW t \in Threads, At(t, "arm"), NEW q, q = stack[t][1].q,
         NEW op, op = pending[q][1], Register(op), Unlock(t, q),
         UNCHANGED <<pending, calls, requested, info, batches, has_waited>>,
         UNCHANGED <<event, manual, completed, fired>>,
         UNCHANGED <<recording, flight, gpu_done, ongoing, allocator>>,
         UNCHANGED <<order, submitted, executed, signaled>>
  PROVE  SubmissionInv'
<1>1. /\ TypeOK /\ StacksOK /\ FenceValues /\ OrdersOK /\ WatchOK
      /\ \A r \in Queues : PendingOK(r)
  BY DEF SubmissionInv
<1>0. SubmissionInv /\ t \in Threads /\ At(t, "arm") /\ q = stack[t][1].q /\ op = pending[q][1]
  OBVIOUS
<1>2. /\ stack[t] # <<>> /\ stack[t][1].at = "arm" /\ stack[t][1].q = q
      /\ q \in Queues /\ Busy(t, "arm", q) /\ Arming(q) /\ mutex[q] = t /\ t # Nobody
      /\ t \notin listening
      /\ ~At(t, "commit") /\ ~At(t, "retire")
  <2>1. ArmingThread(t, q)
    BY ONLY <1>0, ArmFacts
  <2> QED BY ONLY <1>0, <2>1, ZenonT(30) DEF ArmingThread
<1>3. /\ pending[q] # <<>> /\ op \in Op /\ op.id \in Ids
      /\ op.armed /\ ~op.wait_completed /\ op.type = "Wait"
      /\ info[op.id].type = "Wait" /\ info[op.id].f = op.f /\ info[op.id].v = op.v
      /\ ~Seen(op.id)
  <2>1. ArmedWait(q, op)
    BY ONLY <1>0, ArmFacts
  <2> QED BY ONLY <2>1 DEF ArmedWait
<1>4. PICK new : new = <<>>
  OBVIOUS
<1>5. Moved(t, new, 1) /\ stack' \in [Threads -> Seq(Frame)] /\ DOMAIN new = {}
  <2>1. stack' = Return(t)
    BY DEF Unlock
  <2>2. Moved(t, <<>>, 1) /\ stack' \in [Threads -> Seq(Frame)]
    BY <1>1, <1>2, <2>1, ReturnMoves
  <2> QED BY <1>4, <2>2
<1>6. mutex' = [mutex EXCEPT ![q] = Nobody]
  BY DEF Unlock
<1>7. \A r \in Queues : r # q => mutex'[r] = mutex[r]
  BY <1>1, <1>6 DEF TypeOK
<1>8. /\ callbacks' = [callbacks EXCEPT ![op.f] = @ \cup {op.id}]
      /\ listening' = listening \cup {op.id}
      /\ notified' = IF event[op.f] >= op.v THEN notified \cup {op.id} ELSE notified
  BY DEF Register
<1>9. op.f \in Fences /\ op.v \in Nat
  BY <1>1, <1>3, OpFacts, Numbers
<1>10. TypeOK'
  <2>1. mutex' \in [Queues -> Threads \cup {Nobody}]
    BY <1>1, <1>6 DEF TypeOK
  <2>2. callbacks' \in [Fences -> SUBSET Ids]
    BY <1>1, <1>3, <1>8, <1>9, ZenonT(40) DEF TypeOK
  <2>3. listening' \subseteq Ids /\ notified' \subseteq listening'
    BY <1>1, <1>3, <1>8 DEF TypeOK
  <2> QED BY <1>1, <1>5, <2>1, <2>2, <2>3 DEF TypeOK
<1>11. StacksOK'
  <2>1. gpu_done' \in Int /\ gpu_done' >= gpu_done
    BY <1>1, Numbers
  <2>2. stack[op.id] = <<>>
    BY <1>3 DEF Seen
  <2>3. /\ t \notin listening' /\ listening' \subseteq Ids
        /\ \A i \in listening' : i \in listening \/ stack[i] = <<>>
    BY <1>2, <1>8, <1>10, <2>2 DEF TypeOK
  <2>4. \A r \in Queues : mutex'[r] = mutex[r] \/ (Draining(stack[t][1]) /\ stack[t][1].q = r)
    BY <1>2, <1>7 DEF Draining
  <2> QED BY <1>1, <1>2, <1>4, <1>5, <2>1, <2>3, <2>4, StacksKept
<1>12. Grows
  BY <1>1, StillGrows
<1>13. FenceValues'
  <2>1. \A f \in Fences : \A i \in callbacks'[f] :
          i \in callbacks[f] \/ (info[i].type = "Wait" /\ info[i].f = f)
    BY <1>1, <1>3, <1>8, <1>9 DEF TypeOK
  <2>2. \A i \in listening' : i \in listening \/ info[i].type = "Wait"
    BY <1>3, <1>8
  <2>3. ASSUME NEW i \in notified'
        PROVE  i \in notified \/ (info[i].type = "Wait" /\ signaled'[info[i].f].max >= info[i].v)
    <3>1. i \in notified \/ (i = op.id /\ event[op.f] >= op.v)
      BY <1>8
    <3>2. PICK x, z : x = event[op.f] /\ z = signaled[op.f].max
      OBVIOUS
    <3>3. x \in Nat /\ z \in Nat /\ z >= x
      BY <1>1, <1>9, <3>2, Numbers DEF FenceValues, Reached
    <3>4. x >= op.v => z >= op.v
      BY <1>9, <3>3, SMTT(20)
    <3> QED BY <1>3, <3>1, <3>2, <3>4
  <2> QED BY <1>1, <1>10, <1>12, <2>1, <2>2, <2>3, FencesKept
<1>14. \A r \in Queues : PendingOK(r)' /\ Popped(r)' = Popped(r)
  <2>1. ASSUME NEW r \in Queues PROVE Popped(r)' = Popped(r)
    BY DEF Popped
  <2>2. \A i \in Ids : info[i] \in Op => info'[i] = info[i]
    OBVIOUS
  <2>3. ASSUME NEW r \in Queues PROVE PendingOK(r)'
    <3>1. PendingOK(r)
      BY <1>1
    <3>2. \A k \in DOMAIN pending[r] : pending[r][k].id \notin submitted'
      BY <3>1 DEF PendingOK
    <3> QED BY <1>1, <1>10, <1>12, <2>2, <3>1, <3>2, PendingKept
  <2> QED BY <2>1, <2>3
<1>15. (\A r \in Queues : r # q => (Arming(r)' <=> Arming(r))) /\ ~Arming(q)'
  BY <1>1, <1>2, <1>4, <1>5, ArmsElsewhere
<1>16. ASSUME NEW i \in Ids
       PROVE  (Watched(i) => Watched(i)') /\ (Seen(i)' => Seen(i) \/ i = op.id)
  <2>1. ~Resuming(t, i)
    BY <1>2 DEF Resuming, At
  <2>2. ~RunIn(new, i)
    BY <1>5 DEF RunIn
  <2>3. stack[t][1].at # "run" /\ listening \subseteq listening'
    BY <1>2, <1>8
  <2>4. /\ Watched(i) => Watched(i)' \/ Resuming(t, i)
        /\ Seen(i)' => \/ Seen(i) \/ RunIn(new, i) \/ i \in listening'
                       \/ \E f \in Fences : i \in callbacks'[f]
    BY <1>1, <1>2, <1>4, <1>5, <2>3, WatchesMoved
  <2>5. i \in listening' => i \in listening \/ i = op.id
    BY <1>8
  <2>6. \A f \in Fences : i \in callbacks'[f] => i \in callbacks[f] \/ i = op.id
    BY <1>1, <1>8, <1>9 DEF TypeOK
  <2> QED BY <2>1, <2>2, <2>4, <2>5, <2>6 DEF Seen
<1>17. FrontOK(q)'
  <2>1. op.id \notin fired /\ fired' = fired
    BY <1>3 DEF Seen
  <2>2. Watched(op.id)'
    BY <1>8, <2>1 DEF Watched
  <2>3. pending' = pending
    OBVIOUS
  <2> QED BY <1>3, <2>2, <2>3 DEF FrontOK
<1>18. Armed(op.id)'
  <2>1. PICK m : m = Popped(q)
    OBVIOUS
  <2>2. m + 1 \in DOMAIN order[q] /\ order[q][m + 1] = op.id /\ Popped(q)' = m
    BY <1>1, <1>2, <1>3, <1>14, <2>1, FrontId
  <2> QED BY <1>2, <1>3, <1>15, <2>2 DEF Armed
<1>19. WatchOK'
  <2>1. \A j \in DOMAIN order[q] :
          j <= Popped(q) \/ (j = Popped(q) + 1 /\ pending[q][1].armed /\ ~Arming(q)) => j <= Popped(q)'
    BY <1>2, <1>14
  <2>2. \A i \in Ids : (Watched(i) => Watched(i)') /\ (Seen(i)' => Seen(i) \/ Armed(i)')
    BY <1>16, <1>18
  <2>3. \A r \in Queues : r # q => (mutex'[r] = Nobody => mutex[r] = Nobody)
    BY <1>7
  <2> QED BY <1>1, <1>2, <1>15, <1>17, <2>1, <2>2, <2>3, WatchesElsewhere
<1> QED BY <1>2, <1>4, <1>5, <1>10, <1>11, <1>13, <1>14, <1>19, FrontStep

LEMMA AddCompletionCallbackStep ==
  ASSUME SubmissionInv, NEW t \in Threads, AddCompletionCallback(t)
  PROVE  SubmissionInv'
<1>1. At(t, "arm")
  BY DEF AddCompletionCallback
<1>2. PICK q, op, new : q = stack[t][1].q /\ op = pending[q][1] /\ new = Run({op.id})
  OBVIOUS
<1>3. Head(stack[t]) = stack[t][1] /\ Head(pending[q]) = op
  BY <1>1, <1>2, ArmFacts DEF ArmingThread, ArmedWait
<1>4. /\ UNCHANGED <<calls, requested, info, pending, batches, has_waited>>
      /\ UNCHANGED <<event, manual, completed, fired>>
      /\ UNCHANGED <<recording, flight, gpu_done, ongoing, allocator>>
      /\ UNCHANGED <<order, submitted, executed, signaled>>
  BY DEF AddCompletionCallback, client, pipeline, history
<1>5. \/ /\ CompletedValue(op.f) >= op.v
         /\ stack' = [stack EXCEPT ![t] = new \o Tail(stack[t])]
         /\ UNCHANGED <<mutex, callbacks, listening, notified>>
      \/ Register(op) /\ Unlock(t, q)
  BY <1>2, <1>3 DEF AddCompletionCallback
<1>6. CASE /\ CompletedValue(op.f) >= op.v /\ UNCHANGED <<mutex, callbacks, listening, notified>>
           /\ stack' = [stack EXCEPT ![t] = new \o Tail(stack[t])]
  BY <1>1, <1>2, <1>4, <1>6, CallbackAtOnceStep
<1>7. CASE Register(op) /\ Unlock(t, q)
  BY <1>1, <1>2, <1>4, <1>7, RegisterStep
<1> QED BY <1>5, <1>6, <1>7

-----------------------------------------------------------------------------
(* The invariant.                                                          *)

LEMMA InitOK ==
  ASSUME Init
  PROVE  SubmissionInv
<1>1. \A t \in Threads : stack[t] = <<>>
  BY DEF Init
<1>2. \A t \in Threads : ~Enqueuing(t) /\ \A w : ~At(t, w)
  BY <1>1 DEF Enqueuing, At
<1>3. TypeOK
  <2>1. calls \in 0 .. MaxOps /\ ongoing \in Int
    BY QueueAssumption DEF Init
  <2>2. /\ requested \in [Fences -> Values \cup {0}] /\ info \in [Ids -> Op \cup {NoOp}]
        /\ mutex \in [Queues -> Threads \cup {Nobody}]
        /\ batches \in [Queues -> BOOLEAN] /\ has_waited \in [Queues -> BOOLEAN]
        /\ event \in [Fences -> Values \cup {0}] /\ manual \in [Fences -> BOOLEAN]
        /\ completed \in [Fences -> Values \cup {0}] /\ callbacks \in [Fences -> SUBSET Ids]
    BY DEF Init
  <2>3. /\ pending \in [Queues -> Seq(Op)] /\ order \in [Queues -> Seq(Ids)]
        /\ stack \in [Threads -> Seq(Frame)] /\ flight \in Seq(Op) /\ gpu_done \in 0 .. Len(flight)
    BY DEF Init
  <2>4. /\ fired \subseteq Ids /\ listening \subseteq Ids /\ notified \subseteq listening
        /\ recording \subseteq Threads /\ submitted \subseteq Ids /\ executed \subseteq Ids
        /\ allocator \in [last : Nat, completed : Nat, pending : Nat]
        /\ signaled \in [Fences -> [last : Values \cup {0}, max : Values \cup {0}]]
    BY DEF Init
  <2> QED BY <2>1, <2>2, <2>3, <2>4 DEF TypeOK
<1>4. StacksOK
  <2>1. recording = {} /\ listening = {}
    BY DEF Init
  <2> QED BY <1>1, <1>2, <2>1 DEF StacksOK
<1>5. ASSUME NEW q \in Queues
      PROVE  /\ pending[q] = <<>> /\ order[q] = <<>> /\ Len(pending[q]) = 0 /\ Len(order[q]) = 0
             /\ DOMAIN pending[q] = {} /\ DOMAIN order[q] = {} /\ Popped(q) = 0
  <2>1. pending[q] = <<>> /\ order[q] = <<>>
    BY DEF Init
  <2> QED BY <2>1 DEF Popped
<1>6. \A q \in Queues : PendingOK(q)
  BY <1>5 DEF PendingOK
<1>7. OrdersOK
  <2>1. submitted = {} /\ \A i \in Ids : info[i] = NoOp
    BY DEF Init
  <2> QED BY <1>2, <1>5, <2>1 DEF OrdersOK
<1>8. FenceValues
  BY DEF Init, FenceValues, Reached
<1>9. FrameValues
  BY <1>1 DEF FrameValues
<1>10. flight = <<>> /\ gpu_done = 0 /\ executed = {} /\ submitted = {}
  BY DEF Init
<1>11. FlightValues /\ SignalCoversWork
  BY <1>5, <1>10 DEF FlightValues, SignalCoversWork
<1>12. FlightOK
  BY <1>2, <1>5, <1>10 DEF FlightOK
<1>13. WatchOK
  <2>1. \A q \in Queues : ~Arming(q)
    BY <1>2 DEF Arming, Busy
  <2>2. ASSUME NEW i \in Ids PROVE ~Seen(i)
    <3>1. ~InRun(i)
      BY <1>1 DEF InRun
    <3>2. i \in Threads /\ \A t \in Threads : ~Resuming(t, i)
      BY <1>2 DEF Resuming, Threads
    <3>3. listening = {} /\ fired = {} /\ \A f \in Fences : callbacks[f] = {}
      BY DEF Init
    <3> QED BY <1>1, <3>1, <3>2, <3>3 DEF Seen
  <2> QED BY <1>5, <2>1, <2>2 DEF WatchOK, FrontOK
<1> QED BY <1>3, <1>4, <1>6, <1>7, <1>8, <1>9, <1>11, <1>12, <1>13 DEF SubmissionInv

LEMMA StutterStep ==
  ASSUME SubmissionInv, UNCHANGED vars
  PROVE  SubmissionInv'
<1>1. /\ UNCHANGED <<calls, requested, info, pending, mutex, batches, has_waited, stack, allocator>>
      /\ UNCHANGED <<event, manual, completed, callbacks, fired, listening, notified>>
      /\ UNCHANGED <<recording, flight, gpu_done, ongoing>>
      /\ UNCHANGED <<order, submitted, executed, signaled>>
  BY DEF vars, client, queues, fences, pipeline, history
<1>2. TypeOK' /\ StacksOK'
  <2>1. TypeOK /\ StacksOK
    BY DEF SubmissionInv
  <2>2. TypeOK'
    BY ONLY <1>1, <2>1 DEF TypeOK
  <2>3. StacksOK'
    BY ONLY <1>1, <2>1 DEF StacksOK, At
  <2> QED BY <2>2, <2>3
<1>3. OrdersOK' /\ \A q \in Queues : PendingOK(q)'
  <2>1. OrdersOK /\ \A q \in Queues : PendingOK(q)
    BY DEF SubmissionInv
  <2>2. /\ calls' = calls /\ info' = info /\ order' = order /\ pending' = pending
        /\ submitted' = submitted /\ stack' = stack /\ signaled' = signaled
    BY <1>1
  <2>3. OrdersOK'
    <3>1. TypeOK /\ EnqueuersKept /\ calls' \in Nat /\ calls' >= calls
      <4>1. TypeOK /\ calls \in Nat
        BY Numbers DEF SubmissionInv
      <4>2. EnqueuersKept
        BY <1>1, StillStack
      <4> QED BY <2>2, <4>1, <4>2
    <3> QED BY ONLY <2>1, <2>2, <3>1, OrdersKept
  <2>4. \A q \in Queues : PendingOK(q)'
    BY ONLY <2>1, <2>2 DEF PendingOK, Popped, IsOp, Reached
  <2> QED BY <2>3, <2>4
<1>4. FenceValues' /\ FrameValues' /\ FlightValues'
  <2>1. FenceValues /\ FrameValues /\ FlightValues
    BY DEF SubmissionInv
  <2>2. /\ event' = event /\ completed' = completed /\ callbacks' = callbacks
        /\ listening' = listening /\ notified' = notified
        /\ info' = info /\ signaled' = signaled /\ stack' = stack
        /\ flight' = flight /\ gpu_done' = gpu_done
    BY <1>1
  <2>3. FenceValues'
    BY ONLY <2>1, <2>2 DEF FenceValues, WaitReached, Reached
  <2>4. FrameValues'
    BY ONLY <2>1, <2>2, SMTT(20) DEF FrameValues, FrameTrue, WaitReached, Reached
  <2>5. FlightValues'
    BY ONLY <2>1, <2>2 DEF FlightValues, Reached
  <2> QED BY <2>3, <2>4, <2>5
<1>5. FlightOK' /\ SignalCoversWork'
  <2>1. FlightOK /\ SignalCoversWork
    BY DEF SubmissionInv
  <2>2. /\ info' = info /\ order' = order /\ submitted' = submitted /\ executed' = executed
        /\ batches' = batches /\ stack' = stack /\ flight' = flight /\ gpu_done' = gpu_done
    BY <1>1
  <2>3. FlightOK'
    BY ONLY <2>1, <2>2, SMTT(20) DEF FlightOK, Work, IsOp, At
  <2>4. SignalCoversWork'
    BY ONLY <2>1, <2>2 DEF SignalCoversWork, Before
  <2> QED BY <2>3, <2>4
<1>6. WatchOK'
  <2>1. EnqueuersKept /\ CommitsKept /\ ArmsKept /\ WatchedKept /\ SeenKept
    BY <1>1, StillStack
  <2> QED BY <1>1, <2>1, WatchesKept DEF SubmissionInv
<1> QED BY <1>2, <1>3, <1>4, <1>5, <1>6 DEF SubmissionInv

(* Each step of the program preserves the invariant.                       *)
LEMMA StepOK ==
  ASSUME SubmissionInv, [Next]_vars
  PROVE  SubmissionInv'
<1>1. CASE \E t \in AppThreads \ Inside : AppCall(t)
  <2>1. PICK t \in AppThreads : AppCall(t)
    BY <1>1
  <2>2. CASE \E f \in Fences, v \in Values : FenceSignal(t, f, v)
    BY <2>2, FenceSignalStep
  <2>3. CASE \E q \in Queues, f \in Fences, v \in Values :
               QueueCall(t, q, "Signal", f, v) \/ QueueCall(t, q, "Wait", f, v)
    BY <2>3, QueueCallStep
  <2>4. CASE \E q \in Queues, f \in Fences : QueueCall(t, q, "Execute", f, 0)
    BY <2>4, QueueCallStep
  <2> QED BY <2>1, <2>2, <2>3, <2>4 DEF AppCall
<1>2. CASE \E t \in Inside : Step(t)
  <2>1. PICK t \in Threads : Step(t)
    BY <1>2 DEF Inside
  <2>2. CASE PostValue(t)
    BY <2>2, PostValueStep
  <2>3. CASE RunCallback(t)
    BY <2>3, RunCallbackStep
  <2>4. CASE Enqueue(t)
    BY <2>4, EnqueueStep
  <2>5. CASE Resume(t)
    BY <2>5, ResumeStep
  <2>6. CASE DrainEmpty(t)
    BY <2>6, DrainEmptyStep
  <2>7. CASE DrainExecute(t) \/ DrainSignal(t)
    BY <2>7, DrainRecordingSteps
  <2>8. CASE DrainSignalNow(t)
    BY <2>8, DrainSignalNowStep
  <2>9. CASE DrainWait(t)
    BY <2>9, DrainWaitStep
  <2>10. CASE AddCompletionCallback(t)
    BY <2>10, AddCompletionCallbackStep
  <2>11. CASE Publish(t)
    BY <2>11, PublishStep
  <2>12. CASE Throttle(t) \/ CountOngoing(t)
    BY <2>12, ThrottleSteps
  <2> QED BY <2>1, <2>2, <2>3, <2>4, <2>5, <2>6, <2>7, <2>8, <2>9, <2>10, <2>11, <2>12 DEF Step
<1>3. CASE \E i \in Ids : Listen(i)
  BY <1>3, ListenStep
<1>4. CASE GpuComplete
  BY <1>4, GpuCompleteStep
<1>5. CASE FinishReadback
  BY <1>5, FinishReadbackStep
<1>6. CASE FinishRetire
  BY <1>6, FinishRetireStep
<1>7. CASE UNCHANGED vars
  BY <1>7, StutterStep
<1> QED BY <1>1, <1>2, <1>3, <1>4, <1>5, <1>6, <1>7 DEF Next

(* The order of the operations and the truth of every report of a fence:   *)
(* what was popped from pending_operations_ was handed over or waited for, *)
(* the rest is a suffix of the order, and callbacks, events and readbacks  *)
(* only tell of values that were reached.                                  *)
THEOREM SubmissionInvariance == Spec => []SubmissionInv
<1>1. Init => SubmissionInv
  BY InitOK
<1>2. SubmissionInv /\ [Next]_vars => SubmissionInv'
  BY StepOK
<1> QED BY <1>1, <1>2, PTL DEF Spec

(* Whoever drains a queue, ExecuteCommandLists, Signal and Wait take       *)
(* effect in the order of the calls, and nothing passes a wait whose value *)
(* has not been reached.                                                   *)
THEOREM QueueOrderKept == Spec => []QueueOrder
<1>1. SubmissionInv => QueueOrder
  <2> SUFFICES ASSUME SubmissionInv, NEW q \in Queues, NEW j \in 1 .. Len(order[q]),
                      order[q][j] \in submitted, NEW op \in Before(q, j)
               PROVE  IF op.type = "Wait" THEN signaled[op.f].max >= op.v ELSE op.id \in submitted
    BY DEF QueueOrder
  <2>1. TypeOK /\ OrdersOK /\ PendingOK(q)
    BY DEF SubmissionInv
  <2>2. PICK i \in 1 .. j - 1 : op = info[order[q][i]]
    BY DEF Before
  <2>3. PICK m : m = Popped(q)
    OBVIOUS
  <2>4. j \in DOMAIN order[q] /\ i \in DOMAIN order[q]
    BY <2>1, Numbers
  <2>5. j \in 1 .. m
    BY <2>1, <2>3, <2>4, SubmittedPopped
  <2>6. m \in Int
    <3>1. Len(order[q]) \in Nat /\ Len(pending[q]) \in Nat
      BY <2>1, Numbers
    <3> QED BY <2>3, <3>1 DEF Popped
  <2>7. i \in 1 .. m
    BY <2>5, <2>6
  <2>8. IF op.type = "Wait" THEN Reached(op.f, op.v) ELSE order[q][i] \in submitted
    BY <2>1, <2>2, <2>3, <2>7 DEF PendingOK
  <2>9. op.id = order[q][i]
    BY <2>1, <2>2, <2>4 DEF OrdersOK
  <2> QED BY <2>8, <2>9 DEF Reached
<1> QED BY <1>1, SubmissionInvariance, PTL

(* SubmitFenceSignal: a fence that a queue has signaled tells that the     *)
(* work ahead of the signal is done, also past the pipeline.               *)
THEOREM SignalsCoverWork == Spec => []SignalCoversWork
<1>1. SubmissionInv => SignalCoversWork
  BY DEF SubmissionInv
<1> QED BY <1>1, SubmissionInvariance, PTL

(* AddCompletionCallback: a wait that blocks a queue nobody drains has a   *)
(* listener, or a callback under way.                                      *)
THEOREM WaitsWatched == Spec => []WaitIsWatched
<1>1. SubmissionInv => WaitIsWatched
  <2> SUFFICES ASSUME SubmissionInv, NEW q \in Queues, mutex[q] = Nobody, pending[q] # <<>>,
                      NEW i, i = Head(pending[q]).id
               PROVE  \/ i \in listening
                      \/ \E t \in Threads : \E k \in 1 .. Len(stack[t]) :
                           \/ stack[t][k].at = "run" /\ i \in stack[t][k].cbs
                           \/ stack[t][k].at = "lock" /\ stack[t][k].cb = i
    BY DEF WaitIsWatched
  <2>1. TypeOK /\ StacksOK /\ OrdersOK /\ WatchOK /\ PendingOK(q)
    BY DEF SubmissionInv
  <2>2. Head(pending[q]) = pending[q][1]
    BY <2>1, FrontId
  <2>3. ~Arming(q)
    BY <2>1, NotArming
  <2>4. Watched(i)
    BY <2>1, <2>2, <2>3 DEF WatchOK, FrontOK
  <2>5. \A t \in Threads : DOMAIN stack[t] = 1 .. Len(stack[t])
    BY <2>1, StackTyped
  <2>6. CASE \E t \in Threads : Resuming(t, i)
    <3>1. PICK t \in Threads : Resuming(t, i)
      BY <2>6
    <3>2. /\ 1 \in DOMAIN stack[t] /\ stack[t][1].at = "lock" /\ stack[t][1].cb = i
      BY <2>1, <3>1, HeadFacts DEF Resuming
    <3> QED BY <2>5, <3>2
  <2>7. CASE i \in listening
    BY <2>7
  <2>8. CASE InRun(i)
    BY <2>5, <2>8 DEF InRun
  <2> QED BY <2>4, <2>6, <2>7, <2>8 DEF Watched
<1> QED BY <1>1, SubmissionInvariance, PTL

=============================================================================
