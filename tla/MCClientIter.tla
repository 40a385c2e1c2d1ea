---------------------------- MODULE MCClientIter ----------------------------
(***************************************************************************)
(* Instances of ClientIter for TLC.                                         *)
(***************************************************************************)
EXTENDS ClientIter, TLC

CONSTANTS default, borg, young

MCBuiltinMoods == <<default, borg, young>>

=============================================================================
