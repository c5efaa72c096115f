--------------------------- MODULE MCRolloutPipeline ---------------------------
(* The constants of RolloutPipeline for TLC. *)
EXTENDS RolloutPipeline

EveryFault == {"post_lost", "post_late", "ack_lost", "confirm_lost", "poll_lost",
               "callback_lost", "callback_ack_lost", "delete_lost", "disk", "crash"}
=============================================================================
