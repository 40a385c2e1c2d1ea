------------------------------- MODULE MCText -------------------------------
(***************************************************************************)
(* An instance of SplitStatements and Cow for TLC: two algorithms on text   *)
(* that have nothing to do with each other, one job at a time.              *)
(***************************************************************************)
EXTENDS SplitStatements, Cow

\* Every file of at most four runes.
MCFiles == BoundedSeq(Runes, 4)

\* The kinds of places where the pictures that come with the service have
\* placeholders and escapes.
MCTemplates ==
  {<<"comment", "the_cow", "o", "$thoughts", " ", "\\", " ", "EOC">>,
   <<"o", "$eyes", "o", "\\", "\\", "o">>,
   <<" ", "$eyes", "\\", "\\", " ">>,
   <<" ", "$tongue", "\\", "\\", " ", "\\", "\\", "\\", "\\">>,
   <<"$thoughts", " ", "\\", "@", "\\", "@", "o">>}

\* Eyes or a tongue of any two characters, beside the default of the other.
MCLooks ==
  LET Parts == {<<>>} \cup (Characters \X Characters) IN
    [eyes : Parts, tongue : {<<>>}] \cup [eyes : {<<>>}, tongue : Parts]

TextInit == SplitInit /\ CowInit

TextNext ==
  \/ Idle /\ SplitNext /\ UNCHANGED cowVars
  \/ reading = "idle" /\ CowNext /\ UNCHANGED splitVars

TextSpec == TextInit /\ [][TextNext]_<<splitVars, cowVars>>

=============================================================================
