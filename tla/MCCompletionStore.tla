--------------------------- MODULE MCCompletionStore ---------------------------
(* A request with the session's id as API key, and one that names the session. *)
EXTENDS CompletionStore

CONSTANTS r1, r2
AllRequests == {r1, r2}
NamingRequests == {r2}
=============================================================================
