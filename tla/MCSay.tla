------------------------------- MODULE MCSay -------------------------------
(***************************************************************************)
(* Instances of Say for TLC.  "borg" stands for the built-in moods and      *)
(* "cross" for a name users may take; each has a second spelling.           *)
(***************************************************************************)
EXTENDS Say, TLC

MCNames == {"borg", "Borg", "cross", "Cross"}
MCBuiltins == {"borg"}
MCLower == [n \in MCNames |->
              IF n \in {"borg", "Borg"} THEN "borg" ELSE "cross"]

\* One spelling of each, where the runs are about something else.
MCPlainNames == {"borg", "cross"}
MCPlainLower == [n \in MCPlainNames |-> n]

\* Handlers are interchangeable, and so are users, public ids and looks.
Symmetric == Permutations(Handlers) \cup Permutations(Users)
               \cup Permutations(ConvoIds) \cup Permutations(Looks)

\* The response last sent takes no part in what happens next: states that only
\* differ in it are explored once, and its steps are checked all the same.
Situation == <<tables, task>>

=============================================================================
