-------------------------- MODULE CpuFence_proofs --------------------------
(***************************************************************************)
(* CpuFence implements Fence, for every number of threads and every value. *)
(***************************************************************************)
EXTENDS CpuFence, TLAPS

(* A step of one signaling thread leaves the others alone.                 *)
LEMMA SignalStepInv ==
  ASSUME IInv, NEW s \in Signalers, CallSignal(s) \/ SignalStep(s)
  PROVE  IInv'
<1> USE FenceAssumption DEF IInv, TypeOK, Thread, SignalPcs, WaitPcs
<1>1. CASE CallSignal(s)
  <2>1. PICK v \in Values : sig' = [sig EXCEPT ![s].pc = "load", ![s].arg = v]
    BY <1>1 DEF CallSignal
  <2>2. v \in Nat /\ UNCHANGED <<value, wtr>>
    BY <1>1 DEF CallSignal
  <2>3. TypeOK'
    <3>1. sig'[s] = [sig[s] EXCEPT !.pc = "load", !.arg = v]
      BY <2>1
    <3>2. sig'[s] \in Thread(SignalPcs)
      BY <2>2, <3>1
    <3>3. sig' \in [Signalers -> Thread(SignalPcs)]
      <4>1. DOMAIN sig' = Signalers /\ \A u \in Signalers : u # s => sig'[u] = sig[u]
        BY <2>1
      <4>2. sig \in [Signalers -> Thread(SignalPcs)] /\ sig' = [u \in Signalers |-> sig'[u]]
        BY <2>1
      <4>3. ASSUME NEW u \in Signalers PROVE sig'[u] \in Thread(SignalPcs)
        BY ONLY <3>2, <4>1, <4>2, <4>3
      <4> QED BY ONLY <4>2, <4>3
    <3> QED BY <2>2, <3>3
  <2>4. ArgsOK'
    BY <2>1, <2>2 DEF ArgsOK
  <2>5. ExchangeRaises' /\ ReadIsOld'
    BY <2>1, <2>2 DEF ExchangeRaises, ReadIsOld
  <2> QED BY <2>3, <2>4, <2>5
<1>2. CASE SignalLoad(s)
  BY <1>2 DEF SignalLoad, ArgsOK, ExchangeRaises, ReadIsOld
<1>3. CASE SignalTest(s)
  BY <1>3 DEF SignalTest, ArgsOK, ExchangeRaises, ReadIsOld
<1>4. CASE Exchange(s)
  BY <1>4 DEF Exchange, ArgsOK, ExchangeRaises, ReadIsOld
<1>5. CASE ExchangeFails(s)
  BY <1>5 DEF ExchangeFails, ArgsOK, ExchangeRaises, ReadIsOld
<1>6. CASE NotifyAll(s)
  BY <1>6 DEF NotifyAll, ArgsOK, ExchangeRaises, ReadIsOld
<1> QED BY <1>1, <1>2, <1>3, <1>4, <1>5, <1>6 DEF SignalStep

LEMMA WaitStepInv ==
  ASSUME IInv, NEW w \in Waiters, CallWait(w) \/ WaitStep(w)
  PROVE  IInv'
<1> USE FenceAssumption DEF IInv, TypeOK, Thread, SignalPcs, WaitPcs
<1>1. CASE CallWait(w)
  <2>1. PICK v \in Values : wtr' = [wtr EXCEPT ![w].pc = "load", ![w].arg = v]
    BY <1>1 DEF CallWait
  <2>2. v \in Nat /\ UNCHANGED <<value, sig>>
    BY <1>1 DEF CallWait
  <2>3. TypeOK'
    <3>1. wtr'[w] = [wtr[w] EXCEPT !.pc = "load", !.arg = v]
      BY <2>1
    <3>2. wtr'[w] \in Thread(WaitPcs)
      BY <2>2, <3>1
    <3>3. wtr' \in [Waiters -> Thread(WaitPcs)]
      <4>1. DOMAIN wtr' = Waiters /\ \A u \in Waiters : u # w => wtr'[u] = wtr[u]
        BY <2>1
      <4>2. wtr \in [Waiters -> Thread(WaitPcs)] /\ wtr' = [u \in Waiters |-> wtr'[u]]
        BY <2>1
      <4>3. ASSUME NEW u \in Waiters PROVE wtr'[u] \in Thread(WaitPcs)
        BY ONLY <3>2, <4>1, <4>2, <4>3
      <4> QED BY ONLY <4>2, <4>3
    <3> QED BY <2>2, <3>3
  <2>4. ArgsOK'
    BY <2>1, <2>2 DEF ArgsOK
  <2>5. ExchangeRaises' /\ ReadIsOld'
    BY <2>1, <2>2 DEF ExchangeRaises, ReadIsOld
  <2> QED BY <2>3, <2>4, <2>5
<1>2. CASE WaitLoad(w)
  <2>1. TypeOK'
    BY <1>2, ZenonT(40) DEF WaitLoad
  <2>2. ArgsOK' /\ ExchangeRaises'
    BY <1>2 DEF WaitLoad, ArgsOK, ExchangeRaises
  <2>3. ReadIsOld'
    BY <1>2 DEF WaitLoad, ReadIsOld
  <2> QED BY <2>1, <2>2, <2>3
<1>3. CASE WaitTest(w)
  BY <1>3 DEF WaitTest, ArgsOK, ExchangeRaises, ReadIsOld
<1>4. CASE AtomicWait(w)
  BY <1>4 DEF AtomicWait, ArgsOK, ExchangeRaises, ReadIsOld
<1> QED BY <1>1, <1>2, <1>3, <1>4 DEF WaitStep

(* What signal and wait know about the value between two accesses to the   *)
(* atomic: the exchange raises it, a waiter's copy is not above it.        *)
THEOREM Invariance == Spec => []IInv
<1>1. Init => IInv
  BY FenceAssumption DEF Init, IInv, TypeOK, Thread, SignalPcs, WaitPcs, ArgsOK,
                         ExchangeRaises, ReadIsOld
<1>2. IInv /\ [Next]_vars => IInv'
  <2> SUFFICES ASSUME IInv, [Next]_vars PROVE IInv'
    OBVIOUS
  <2>1. CASE UNCHANGED vars
    BY <2>1 DEF vars, IInv, TypeOK, ArgsOK, ExchangeRaises, ReadIsOld
  <2> QED BY <2>1, SignalStepInv, WaitStepInv DEF Next
<1> QED BY <1>1, <1>2, PTL DEF Spec

(* A step that leaves every waiter's program counter class and argument    *)
(* alone leaves the abstract waiting function alone.                       *)
LEMMA WaitingSame ==
  ASSUME \A w \in Waiters : /\ (wtr'[w].pc = "idle") <=> (wtr[w].pc = "idle")
                            /\ wtr'[w].arg = wtr[w].arg
  PROVE  Waiting' = Waiting
BY DEF Waiting, NotWaiting

LEMMA WaitingOne ==
  ASSUME NEW w \in Waiters, NEW v,
         \A x \in Waiters \ {w} : wtr'[x] = wtr[x],
         v = IF wtr'[w].pc = "idle" THEN NotWaiting ELSE wtr'[w].arg
  PROVE  Waiting' = [Waiting EXCEPT ![w] = v]
BY DEF Waiting, NotWaiting

(* Every step of CpuFence is a step of Fence or leaves Fence alone.        *)
LEMMA StepSimulation ==
  ASSUME IInv, [Next]_vars
  PROVE  [F!Next]_<<value, Waiting>>
<1> USE FenceAssumption
<1>t. /\ value \in Nat /\ sig \in [Signalers -> Thread(SignalPcs)]
      /\ wtr \in [Waiters -> Thread(WaitPcs)]
  BY DEF IInv, TypeOK
<1>1. CASE UNCHANGED vars
  BY <1>1 DEF vars, Waiting
<1>2. ASSUME NEW s \in Signalers, CallSignal(s) \/ SignalStep(s)
      PROVE  [F!Next]_<<value, Waiting>>
  <2>1. CASE CallSignal(s) \/ SignalLoad(s) \/ SignalTest(s) \/ ExchangeFails(s)
    BY <2>1 DEF CallSignal, SignalLoad, SignalTest, ExchangeFails, Waiting
  <2>2. CASE Exchange(s)
    <3>1. Waiting' = Waiting
      BY <2>2 DEF Exchange, Waiting
    <3>2. value' \in Values /\ value' > value
      BY <2>2, <1>t DEF Exchange, IInv, ArgsOK, ExchangeRaises, Thread
    <3> QED BY <3>1, <3>2 DEF F!Next, F!Signal
  <2>3. CASE NotifyAll(s)
    <3>1. \A w \in Waiters : /\ (wtr'[w].pc = "idle") <=> (wtr[w].pc = "idle")
                             /\ wtr'[w].arg = wtr[w].arg
      BY <2>3, <1>t DEF NotifyAll, Thread
    <3>2. Waiting' = Waiting
      BY <3>1, WaitingSame
    <3> QED BY <2>3, <3>2 DEF NotifyAll
  <2> QED BY <1>2, <2>1, <2>2, <2>3 DEF SignalStep
<1>3. ASSUME NEW w \in Waiters, CallWait(w) \/ WaitStep(w)
      PROVE  [F!Next]_<<value, Waiting>>
  <2>1. CASE CallWait(w)
    <3>1. PICK v \in Values : wtr' = [wtr EXCEPT ![w].pc = "load", ![w].arg = v]
      BY <2>1 DEF CallWait
    <3>2. Waiting' = [Waiting EXCEPT ![w] = v]
      <4>1. wtr'[w].pc = "load" /\ wtr'[w].arg = v
        BY <3>1, <1>t DEF Thread
      <4>2. \A x \in Waiters \ {w} : wtr'[x] = wtr[x]
        BY <3>1, <1>t
      <4> QED BY <4>1, <4>2, WaitingOne
    <3>3. Waiting[w] = NotWaiting /\ value' = value
      BY <2>1 DEF CallWait, Waiting
    <3> QED BY <3>2, <3>3 DEF F!Next, F!Wait
  <2>2. CASE WaitLoad(w) \/ AtomicWait(w)
    <3>1. \A x \in Waiters : /\ (wtr'[x].pc = "idle") <=> (wtr[x].pc = "idle")
                             /\ wtr'[x].arg = wtr[x].arg
      BY <2>2, <1>t DEF WaitLoad, AtomicWait, Thread
    <3>2. Waiting' = Waiting
      BY <3>1, WaitingSame
    <3> QED BY <2>2, <3>2 DEF WaitLoad, AtomicWait
  <2>3. CASE WaitTest(w) /\ wtr[w].current < wtr[w].arg
    <3>1. \A x \in Waiters : /\ (wtr'[x].pc = "idle") <=> (wtr[x].pc = "idle")
                             /\ wtr'[x].arg = wtr[x].arg
      BY <2>3, <1>t DEF WaitTest, Thread
    <3>2. Waiting' = Waiting
      BY <3>1, WaitingSame
    <3> QED BY <2>3, <3>2 DEF WaitTest
  <2>4. CASE WaitTest(w) /\ ~(wtr[w].current < wtr[w].arg)
    <3>1. /\ wtr' = [wtr EXCEPT ![w].pc = "idle"] /\ wtr[w].pc = "test" /\ value' = value
      BY <2>4 DEF WaitTest
    <3>2. /\ wtr'[w].pc = "idle"
          /\ \A x \in Waiters \ {w} : wtr'[x] = wtr[x]
      BY <3>1, <1>t DEF Thread
    <3>3. Waiting' = [Waiting EXCEPT ![w] = NotWaiting]
      BY <3>2, WaitingOne
    <3>4. Waiting[w] = wtr[w].arg
      BY <3>1 DEF Waiting
    <3>5. wtr[w].arg <= value /\ wtr[w].arg # NotWaiting
      BY <2>4, <3>1, <1>t DEF IInv, ReadIsOld, Thread, NotWaiting
    <3> QED BY <3>1, <3>3, <3>4, <3>5 DEF F!Next, F!Return
  <2> QED BY <1>3, <2>1, <2>2, <2>3, <2>4 DEF WaitStep
<1> QED BY <1>1, <1>2, <1>3 DEF Next

(* CpuFence::signal and CpuFence::wait implement the atomic fence that the *)
(* other components are written against.                                   *)
THEOREM Refinement == Spec => ImplementsFence
<1>1. Init => F!Init
  BY DEF Init, F!Init, Waiting
<1> QED BY <1>1, StepSimulation, Invariance, PTL DEF Spec, ImplementsFence, F!Spec

=============================================================================
