---------------------------- MODULE GatewayContract ----------------------------
(***************************************************************************)
(* What the rollout server relies on at a gateway, for one session: the    *)
(* entry of the session registry that a poll reads (src/polar/gateway/     *)
(* session.py), the result kept in it, and how far the gateway has got.    *)
(* The status goes forward only; a final one comes with the result, which  *)
(* is kept until the server has it, the session is deleted, or the gateway *)
(* restarts; and the work comes to its end also after a DELETE.            *)
(*                                                                         *)
(* GatewayNode, which has the handlers of the gateway, is shown to keep    *)
(* this contract, and so are the gateways in RolloutPipeline, which has    *)
(* the server: its actions GatewayStarts, GatewayFinishes, CallbackServed, *)
(* PushEnds and Crash, and the parts of the others that a gateway does,    *)
(* are the actions below, one for one.                                     *)
(***************************************************************************)

VARIABLES
    entry,    \* "absent" | "registered" | "active" | "terminal"
    held,     \* the entry has the result
    work      \* "none" | "working" | "pushing" | "pushed", once the server has the result

Init == entry = "absent" /\ held = FALSE /\ work = "none"

\* POST /sessions, at a gateway that does not have the session.
Accept ==
    /\ entry = "absent"
    /\ entry' = "registered" /\ work' = "working" /\ UNCHANGED held

\* A worker takes the session up.
Begin ==
    /\ work = "working" /\ entry = "registered"
    /\ entry' = "active" /\ UNCHANGED <<held, work>>

\* There is a result, or what stands for one.  A session that was deleted has no entry.
Finish ==
    /\ work = "working" /\ entry \in {"absent", "active"}
    /\ entry' = IF entry = "absent" THEN "absent" ELSE "terminal"
    /\ held' = (entry # "absent")
    /\ work' = "pushing"

\* The result callback arrives.
Receive ==
    /\ work = "pushing" /\ work' = "pushed"
    /\ held' \in {held, FALSE} /\ UNCHANGED entry

\* The session leaves the gateway, which keeps a result that the server may not have.
Leave ==
    /\ work \in {"pushing", "pushed"} /\ work' = "none"
    /\ held' \in IF work = "pushed" THEN {held, FALSE} ELSE {held}
    /\ UNCHANGED entry

\* DELETE /sessions/{id}.
Forget ==
    /\ entry' = "absent" /\ held' = FALSE /\ UNCHANGED work

\* The gateway process restarts.
Restart ==
    /\ entry' = "absent" /\ held' = FALSE /\ work' = "none"

Next == Accept \/ Begin \/ Finish \/ Receive \/ Leave \/ Forget \/ Restart

Spec == Init /\ [][Next]_<<entry, held, work>>
=============================================================================
