------------------------------ MODULE MCRenaming ------------------------------
(***************************************************************************)
(* Three applications over the same command queue: one renames a dynamic   *)
(* resource with a single command list, one with all the lists but fewer   *)
(* writes and chunks, and one copies and maps a staging resource.  The two *)
(* kinds of resource share nothing but the sequence numbers.               *)
(***************************************************************************)
EXTENDS Dynamic, Staging

CONSTANTS
    FewWrites,  \* bound: writes of the application with several lists
    FewSeq      \* bound: chunks it records

VARIABLE app    \* which application this is

mcVars == <<app, timeVars, dynamicVars, stagingVars>>

TheList == CHOOSE l \in Lists : TRUE

MCInit ==
    /\ app \in {"one list", "lists", "staging"}
    /\ TimelineInit
    /\ DynamicInit
    /\ StagingInit
    /\ app = "staging" => kind = "linear"

(* The steps within the bounds of the application.                         *)
OneList == \A l \in Lists \ {TheList} : cmdlist'[l].state = "pool"
FewerSteps == writes' <= FewWrites /\ ready_for_encode' <= FewSeq

MCNext ==
    /\ \/ app = "one list" /\ DynamicNext /\ OneList /\ UNCHANGED stagingVars
       \/ app = "lists" /\ DynamicNext /\ FewerSteps /\ UNCHANGED stagingVars
       \/ app = "staging" /\ StagingNext /\ UNCHANGED dynamicVars
    /\ UNCHANGED app

(* What always holds of both kinds of resource: types, that every          *)
(* allocation is in the fifo, in one command list or is the name, whoever  *)
(* pushes it back, and the rest of the inductive invariants.               *)
RenamingInv == DynamicInv /\ StagingInv

MCSpec == MCInit /\ [][MCNext]_mcVars /\ StagingFairness

=============================================================================
