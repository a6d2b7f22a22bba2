------------------------------ MODULE Timeline ------------------------------
(***************************************************************************)
(* The command queue as the renaming code sees it: the sequence number of  *)
(* the chunk being recorded and that of the last finished chunk.  Module   *)
(* CommandQueue models the queue in full; here a committed chunk is        *)
(* completed by the GPU and then retired by the finishing thread, which    *)
(* destroys the chunk's commands BEFORE it signals cpu_coherent.           *)
(***************************************************************************)
EXTENDS Integers

CONSTANT
    MaxSeq              \* bound: the largest sequence number recorded into

ASSUME TimelineAssumption == MaxSeq \in Nat \ {0}

VARIABLES
    ready_for_encode,   \* CurrentSeqId(): the chunk being recorded
    cpu_coherent,       \* CoherentSeqId(): chunks up to this one are retired
    finishing           \* the chunk whose commands the finishing thread is
                        \*   destroying, 0 for none

timeVars == <<ready_for_encode, cpu_coherent, finishing>>

TimelineTypeOK ==
    /\ ready_for_encode \in 1 .. MaxSeq
    /\ cpu_coherent \in 0 .. MaxSeq - 1
    /\ finishing \in {0, cpu_coherent + 1}
    /\ cpu_coherent < ready_for_encode /\ finishing < ready_for_encode

TimelineInit ==
    /\ ready_for_encode = 1
    /\ cpu_coherent = 0
    /\ finishing = 0

CurrentSeqId == ready_for_encode
CoherentSeqId == cpu_coherent

CommitCurrentChunk ==
    /\ ready_for_encode < MaxSeq
    /\ ready_for_encode' = ready_for_encode + 1
    /\ UNCHANGED <<cpu_coherent, finishing>>

(* The GPU has completed the oldest committed chunk.                       *)
BeginFinish ==
    /\ finishing = 0
    /\ cpu_coherent + 1 < ready_for_encode
    /\ finishing' = cpu_coherent + 1
    /\ UNCHANGED <<ready_for_encode, cpu_coherent>>

(* cpu_coherent.signal(internal_seq), after chunk.reset().                 *)
SignalCoherent ==
    /\ finishing # 0
    /\ cpu_coherent' = finishing
    /\ finishing' = 0
    /\ UNCHANGED ready_for_encode

=============================================================================
