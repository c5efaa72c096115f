--------------------------- MODULE AtomicCheckpoint ---------------------------
(***************************************************************************)
(* What a saved policy is to the trainer: as if save_ckpt (src/molt/       *)
(* trainer/fsdp/checkpoint.py) wrote everything at once.  A save replaces  *)
(* the one before, never by an earlier step; that it is there is known     *)
(* when the call returns; and a job that is killed goes on from it, with   *)
(* all parts of that save and of no other.  Before the first save anything *)
(* may be found, a best checkpoint or one cut short.                       *)
(*                                                                         *)
(* The module Checkpoint, in which every file is written and removed in    *)
(* steps and the job is killed between any two, is shown to implement it.  *)
(***************************************************************************)
EXTENDS Naturals

VARIABLES
    saved,          \* the save that counts: its run and step, or Nothing
    acknowledged,   \* the step of the last save that returned, 0 for none
    resumed         \* the saves that the parts loaded by this run are of

Saves == Nat \X Nat
Nothing == <<0, 0>>

Init == saved = Nothing /\ acknowledged = 0 /\ resumed = {Nothing}

Commit ==
    /\ saved' \in Saves \ {Nothing}
    /\ saved # Nothing => saved'[2] > saved[2]
    /\ UNCHANGED <<acknowledged, resumed>>

Acknowledge ==
    /\ acknowledged' = saved[2]
    /\ UNCHANGED <<saved, resumed>>

Restart ==
    /\ resumed' \in IF saved = Nothing THEN SUBSET Saves ELSE {{saved}}
    /\ UNCHANGED <<saved, acknowledged>>

Next == Commit \/ Acknowledge \/ Restart

Spec == Init /\ [][Next]_<<saved, acknowledged, resumed>>
=============================================================================
