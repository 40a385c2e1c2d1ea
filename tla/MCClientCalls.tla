--------------------------- MODULE MCClientCalls ---------------------------
(***************************************************************************)
(* An instance of ClientCalls for TLC: two clients of a process that is     *)
(* started, told to stop, and started again.                                *)
(***************************************************************************)
EXTENDS ClientCalls, TLC

CONSTANTS c1, c2, key, otherKey

\* One client makes every call; the other competes with its panics and errors.
MCCalls == c1 :> Routes @@ c2 :> {"create_user"}

=============================================================================
