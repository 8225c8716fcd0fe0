---------------------------- MODULE MCAsyncMutex ----------------------------
(***************************************************************************)
(* Three lock futures and two tasks: a holder and two queued waiters, and   *)
(* a second task for a future to move to.                                   *)
(***************************************************************************)
EXTENDS AsyncMutex
=============================================================================
