-------------------------------- MODULE Cow --------------------------------
(***************************************************************************)
(* cowText (say/cowsay.go): a template is turned into a picture by          *)
(* replacing one placeholder after the other, everywhere it occurs, in the  *)
(* order in which Go ranges over a map: any order, another one each time.   *)
(*                                                                          *)
(* Text is a sequence of symbols: a backslash, an @, the placeholders, the  *)
(* lines of Perl around a picture, and "o" for any other character.         *)
(***************************************************************************)
EXTENDS Naturals, Sequences

CONSTANTS
  Templates,  \* pictures, sequences of symbols
  Looks       \* the eyes and tongue of a mood, each empty or two characters

Plain == {"o", " "}
Characters == Plain \cup {"\\", "@"}
Placeholders == {"$eyes", "$tongue", "$thoughts"}
Symbols == Characters \cup Placeholders \cup {"comment", "the_cow", "EOC"}

ASSUME CowAssumption ==
  /\ Templates \subseteq Seq(Symbols)
  /\ \A look \in Looks : \A part \in {look.eyes, look.tongue} :
       part \in Seq(Characters) /\ Len(part) \in {0, 2}

VARIABLES
  job,     \* what is rendered, or {} when nothing is
  output,  \* the text so far
  todo     \* the placeholders that have not been replaced

cowVars == <<job, output, todo>>

\* Say: the defaults, and what thoughts look like.
Eyes(j) == IF j.look.eyes = <<>> THEN <<"o", "o">> ELSE j.look.eyes
Tongue(j) == IF j.look.tongue = <<>> THEN <<" ", " ">> ELSE j.look.tongue
Thoughts(j) == IF j.think THEN <<"o">> ELSE <<"\\">>

\* The map: what is replaced, and what by.  Its two spellings of the line that opens
\* a picture are one symbol here.
Replacements(j) ==
  {<<<<"the_cow">>, <<>>>>, <<<<"EOC">>, <<>>>>,
   <<<<"\\", "\\">>, <<"\\">>>>, <<<<"\\", "@">>, <<"@">>>>,
   <<<<"$eyes">>, Eyes(j)>>, <<<<"$tongue">>, Tongue(j)>>, <<<<"$thoughts">>, Thoughts(j)>>}

Occurs(before, text, i) ==
  i + Len(before) - 1 <= Len(text) /\ SubSeq(text, i, i + Len(before) - 1) = before

\* Variant: strings.Replace with a count of 1.
ReplaceOnce(text, before, after) ==
  LET from[i \in 1 .. Len(text) + 2] ==
        IF i > Len(text) THEN <<>>
        ELSE IF Occurs(before, text, i)
          THEN after \o SubSeq(text, i + Len(before), Len(text))
        ELSE <<text[i]>> \o from[i + 1]
  IN from[1]

\* strings.Replace with a count of -1: from left to right, without overlaps.
Replace(text, before, after) ==
  LET from[i \in 1 .. Len(text) + 2] ==
        IF i > Len(text) THEN <<>>
        ELSE IF Occurs(before, text, i) THEN after \o from[i + Len(before)]
        ELSE <<text[i]>> \o from[i + 1]
  IN from[1]

\* A picture without its comments, the lines that commentRE matches.
Uncommented(t) == Replace(t, <<"comment">>, <<>>)

PlainAt(text, i) == i <= Len(text) => text[i] \in Plain

\* Where the escapes and placeholders of the pictures stand (say/internal/cows): a
\* backslash is one of several, or escapes an @ on its own, or means nothing; after a
\* placeholder there is something plain, or there is after one escaped backslash.
Legible(text) ==
  \A i \in DOMAIN text :
    /\ text[i] = "\\" =>
         \/ PlainAt(text, i + 1) \/ text[i + 1] = "\\"
         \/ text[i + 1] = "@" /\ (i > 1 => text[i - 1] # "\\")
    /\ text[i] \in Placeholders =>
         \/ PlainAt(text, i + 1)
         \/ Occurs(<<"\\", "\\">>, text, i + 1) /\ PlainAt(text, i + 3)

ASSUME PicturesAssumption == \A t \in Templates : Legible(Uncommented(t))

-----------------------------------------------------------------------------

Idle == job = {}

CowInit == Idle /\ output = <<>> /\ todo = {}

\* cowText is called: the comments are gone, the replacements are to come.
Render ==
  /\ Idle
  /\ \E t \in Templates, look \in Looks, think \in BOOLEAN :
       LET j == [template |-> t, look |-> look, think |-> think] IN
         /\ job' = {j}
         /\ output' = Uncommented(t)
         /\ todo' = Replacements(j)

\* One round of the loop.
ReplaceNext ==
  \E r \in todo :
    /\ output' = Replace(output, r[1], r[2])
    /\ todo' = todo \ {r}
    /\ UNCHANGED job

\* The picture is returned.
Rendered ==
  /\ ~Idle /\ todo = {}
  /\ job' = {} /\ output' = <<>>
  /\ UNCHANGED todo

CowNext == Render \/ ReplaceNext \/ Rendered

CowSpec == CowInit /\ [][CowNext]_cowVars

-----------------------------------------------------------------------------
(* Property *)

\* The picture one meant: each placeholder of the template is replaced in place, and
\* what it is replaced by is left alone.
Picture(j) ==
  LET text == Uncommented(j.template)
      from[i \in 1 .. Len(text) + 2] ==
        IF i > Len(text) THEN <<>>
        ELSE LET here == {r \in Replacements(j) : Occurs(r[1], text, i)}
             IN IF here = {} THEN <<text[i]>> \o from[i + 1]
                ELSE LET r == CHOOSE r \in here : TRUE IN r[2] \o from[i + Len(r[1])]
  IN from[1]

\* A look that is itself a placeholder for one character.
IsEscape(part) == part \in {<<"\\", "\\">>, <<"\\", "@">>}

\* Every order of the map gives the same picture, the one that was meant, for the
\* looks of every mood but those whose eyes or tongue spell an escape: these come
\* out whole or as one character, from one answer to the next.
DrawnAlike ==
  \A j \in job :
    todo = {} /\ ~IsEscape(j.look.eyes) /\ ~IsEscape(j.look.tongue) => output = Picture(j)

=============================================================================
