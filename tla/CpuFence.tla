------------------------------ MODULE CpuFence ------------------------------
(***************************************************************************)
(* dxmt::CpuFence: a monotone 64-bit value on top of std::atomic.  signal  *)
(* raises the value with a compare-exchange loop and wakes the sleepers;   *)
(* wait sleeps in std::atomic::wait until the value has reached its        *)
(* argument.  Every access to the atomic is a step of its own.             *)
(*                                                                         *)
(* std::atomic::wait(old) is external: it compares and falls asleep in one *)
(* step, and a sleeper that is notified compares again.                    *)
(***************************************************************************)
EXTENDS Integers

CONSTANTS
  Signalers, Waiters,  \* the threads that call signal, and wait
  Values,              \* the values they pass
  Initial              \* the constructor's argument

ASSUME FenceAssumption == Values \subseteq Nat /\ Initial \in Nat

VARIABLES
  value,   \* value_
  sig,     \* per signaling thread: program counter, argument, `current'
  wtr      \* the same per waiting thread

vars == <<value, sig, wtr>>

Thread(pcs) == [pc : pcs, arg : Nat, current : Nat]
SignalPcs == {"idle", "load", "test", "cas", "notify"}
WaitPcs == {"idle", "load", "test", "wait", "asleep"}

Init ==
  /\ value = Initial
  /\ sig = [s \in Signalers |-> [pc |-> "idle", arg |-> 0, current |-> 0]]
  /\ wtr = [w \in Waiters |-> [pc |-> "idle", arg |-> 0, current |-> 0]]

-----------------------------------------------------------------------------
(* signal(value)                                                           *)

CallSignal(s) ==
  /\ sig[s].pc = "idle"
  /\ \E v \in Values : sig' = [sig EXCEPT ![s].pc = "load", ![s].arg = v]
  /\ UNCHANGED <<value, wtr>>

SignalLoad(s) ==
  /\ sig[s].pc = "load"
  /\ sig' = [sig EXCEPT ![s].pc = "test", ![s].current = value]
  /\ UNCHANGED <<value, wtr>>

(* Fault: the test of the loop is missing, as with a plain exchange.       *)
SignalTestMissing(s) ==
  /\ sig[s].pc = "test"
  /\ sig' = [sig EXCEPT ![s].pc = "cas"]
  /\ UNCHANGED <<value, wtr>>

SignalTest(s) ==
  /\ sig[s].pc = "test"
  /\ sig' = [sig EXCEPT ![s].pc = IF sig[s].arg <= sig[s].current THEN "idle" ELSE "cas"]
  /\ UNCHANGED <<value, wtr>>

(* Fault: the sleepers are not notified.                                   *)
ExchangeWithoutNotify(s) ==
  /\ sig[s].pc = "cas" /\ value = sig[s].current
  /\ value' = sig[s].arg
  /\ sig' = [sig EXCEPT ![s].pc = "idle"]
  /\ UNCHANGED wtr

(* compare_exchange_weak succeeds                                          *)
Exchange(s) ==
  /\ sig[s].pc = "cas" /\ value = sig[s].current
  /\ value' = sig[s].arg
  /\ sig' = [sig EXCEPT ![s].pc = "notify"]
  /\ UNCHANGED wtr

(* compare_exchange_weak fails, perhaps spuriously, and reloads `current'. *)
ExchangeFails(s) ==
  /\ sig[s].pc = "cas"
  /\ sig' = [sig EXCEPT ![s].pc = "test", ![s].current = value]
  /\ UNCHANGED <<value, wtr>>

NotifyAll(s) ==
  /\ sig[s].pc = "notify"
  /\ sig' = [sig EXCEPT ![s].pc = "idle"]
  /\ wtr' = [w \in Waiters |->
               IF wtr[w].pc = "asleep" THEN [wtr[w] EXCEPT !.pc = "wait"] ELSE wtr[w]]
  /\ UNCHANGED value

-----------------------------------------------------------------------------
(* wait(value)                                                             *)

CallWait(w) ==
  /\ wtr[w].pc = "idle"
  /\ \E v \in Values : wtr' = [wtr EXCEPT ![w].pc = "load", ![w].arg = v]
  /\ UNCHANGED <<value, sig>>

WaitLoad(w) ==
  /\ wtr[w].pc = "load"
  /\ wtr' = [wtr EXCEPT ![w].pc = "test", ![w].current = value]
  /\ UNCHANGED <<value, sig>>

WaitTest(w) ==
  /\ wtr[w].pc = "test"
  /\ wtr' = [wtr EXCEPT ![w].pc = IF wtr[w].current < wtr[w].arg THEN "wait" ELSE "idle"]
  /\ UNCHANGED <<value, sig>>

(* value_.wait(current)                                                    *)
AtomicWait(w) ==
  /\ wtr[w].pc = "wait"
  /\ wtr' = [wtr EXCEPT ![w].pc = IF value = wtr[w].current THEN "asleep" ELSE "load"]
  /\ UNCHANGED <<value, sig>>

SignalStep(s) ==
  SignalLoad(s) \/ SignalTest(s) \/ Exchange(s) \/ ExchangeFails(s) \/ NotifyAll(s)
WaitStep(w) == WaitLoad(w) \/ WaitTest(w) \/ AtomicWait(w)

Next ==
  \/ \E s \in Signalers : CallSignal(s) \/ SignalStep(s)
  \/ \E w \in Waiters : CallWait(w) \/ WaitStep(w)

Spec == Init /\ [][Next]_vars

(* The operating system runs every thread that can run.                    *)
Fairness ==
  /\ \A s \in Signalers : WF_vars(SignalStep(s))
  /\ \A w \in Waiters : WF_vars(WaitStep(w))

FairSpec == Spec /\ Fairness

-----------------------------------------------------------------------------
TypeOK ==
  /\ value \in Nat
  /\ sig \in [Signalers -> Thread(SignalPcs)]
  /\ wtr \in [Waiters -> Thread(WaitPcs)]

(* The inductive invariant: an exchange only raises the value, and what a  *)
(* waiter has read is never above it.                                      *)
ExchangeRaises == \A s \in Signalers : sig[s].pc = "cas" => sig[s].current < sig[s].arg
ArgsOK ==
  /\ \A s \in Signalers : sig[s].pc # "idle" => sig[s].arg \in Values
  /\ \A w \in Waiters : wtr[w].pc # "idle" => wtr[w].arg \in Values
ReadIsOld == \A w \in Waiters : wtr[w].pc = "test" => wtr[w].current <= value

IInv == TypeOK /\ ArgsOK /\ ExchangeRaises /\ ReadIsOld

NotWaiting == -1
Waiting == [w \in Waiters |-> IF wtr[w].pc = "idle" THEN NotWaiting ELSE wtr[w].arg]
F == INSTANCE Fence WITH waiting <- Waiting

(* signal and wait, with their races between load, compare-exchange and    *)
(* sleep, behave as the atomic operations of Fence: concurrent signals     *)
(* never lower the value and no wait returns early.                        *)
ImplementsFence == F!Spec

(* A thread that waits for a value already reached returns: no wake-up is  *)
(* lost between the load, the sleep and the notification.                  *)
WaitReturns ==
  \A w \in Waiters :
    (wtr[w].pc # "idle" /\ wtr[w].arg <= value) ~> (wtr[w].pc = "idle")

=============================================================================
