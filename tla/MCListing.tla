----------------------------- MODULE MCListing -----------------------------
(***************************************************************************)
(* An instance of Listing for TLC: three built-in moods, and as many names  *)
(* for the user's.                                                          *)
(***************************************************************************)
EXTENDS Listing, TLC

CONSTANTS default, borg, young

MCBuiltinMoods == <<default, borg, young>>

\* The response last sent takes no part in what happens next.
Situation == <<kind, rows, serial, pending, walk>>

=============================================================================
