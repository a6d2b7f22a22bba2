------------------------------- MODULE Fence -------------------------------
(***************************************************************************)
(* What users of a fence rely on: its value never decreases, signal(v)     *)
(* raises it to at least v in one step, and wait(v) returns only when the  *)
(* value has reached v.  CommandQueue uses cpu_coherent and                *)
(* frame_latency_fence_ in this way.                                       *)
(***************************************************************************)
EXTENDS Integers

CONSTANTS Waiters, Values, Initial, NotWaiting

VARIABLES value,    \* the value of the fence
          waiting   \* what each thread waits for, or NotWaiting

Init == value = Initial /\ waiting = [w \in Waiters |-> NotWaiting]

Signal ==
  /\ value' \in Values /\ value' > value
  /\ UNCHANGED waiting

Wait(w) ==
  /\ waiting[w] = NotWaiting
  /\ \E v \in Values : waiting' = [waiting EXCEPT ![w] = v]
  /\ UNCHANGED value

Return(w) ==
  /\ waiting[w] # NotWaiting
  /\ waiting[w] <= value
  /\ waiting' = [waiting EXCEPT ![w] = NotWaiting]
  /\ UNCHANGED value

Next == Signal \/ \E w \in Waiters : Wait(w) \/ Return(w)

Spec == Init /\ [][Next]_<<value, waiting>>

=============================================================================
