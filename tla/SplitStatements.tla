-------------------------- MODULE SplitStatements --------------------------
(***************************************************************************)
(* readSQL (dbutil/schema.go): a file of SQL is read through a scanner,     *)
(* which hands what it has buffered to scanStmts until that finds a         *)
(* statement.  How much each read returns is up to the operating system.    *)
(*                                                                          *)
(* A file is a sequence of runes: a letter and a space of one byte each, a  *)
(* semicolon, and a letter and a space of two bytes, which a read can part. *)
(***************************************************************************)
EXTENDS Naturals, Sequences, SequencesExt, FiniteSetsExt

CONSTANTS
  Files,    \* the contents a file may have, sequences of runes
  MaxToken  \* the size of a scanner's buffer in bytes, bufio.MaxScanTokenSize

Runes == {"a", " ", "semicolon", "wide", "nbsp"}

ASSUME SplitAssumption == Files \subseteq Seq(Runes) /\ MaxToken \in Nat \ {0}

VARIABLES
  file,     \* the file being read
  unread,   \* its bytes that have not been read
  buffer,   \* the bytes read that no statement has taken
  eof,      \* a read has returned io.EOF
  stmts,    \* the statements found
  reading   \* "idle", "scanning", "done", "failed" with bufio.ErrTooLong, or
            \* "unreadable"

splitVars == <<file, unread, buffer, eof, stmts, reading>>

\* UTF-8: the wide runes share their second byte.
Bytes(rune) ==
  CASE rune = "wide" -> <<"C3", "A0">> [] rune = "nbsp" -> <<"C2", "A0">> [] OTHER -> <<rune>>

Encode(runes) == FlattenSeq([i \in DOMAIN runes |-> Bytes(runes[i])])

\* Positions where utf8.DecodeRune is applied, and what unicode.IsSpace says of the
\* rune there: half a rune decodes as RuneError, which is none.
RuneStarts(data) == {i \in DOMAIN data : data[i] # "A0"}
IsSpace(data, i) == data[i] = " " \/ (data[i] = "C2" /\ i < Len(data))

Words(data) == {i \in RuneStarts(data) : ~IsSpace(data, i)}
Semicolons(data) == {i \in DOMAIN data : data[i] = "semicolon"}

MoreData == [advance |-> 0, token |-> <<>>]

\* Variant: what is left of a chunk is a statement before the end of the file, too.
scanStmtsEager(data, atEOF) ==
  LET start == Min(Words(data) \cup {Len(data) + 1})
  IN IF Semicolons(data) # {}
       THEN [advance |-> Min(Semicolons(data)),
             token |-> SubSeq(data, start, Min(Semicolons(data)) - 1)]
     ELSE IF start <= Len(data)
       THEN [advance |-> Len(data), token |-> SubSeq(data, start, Max(Words(data)))]
     ELSE MoreData

\* From the first rune that is no space to a semicolon or, at the end of the file, to
\* the first byte of the last rune that is no space.
scanStmts(data, atEOF) ==
  LET start == Min(Words(data) \cup {Len(data) + 1})
  IN IF Semicolons(data) # {}
       THEN [advance |-> Min(Semicolons(data)),
             token |-> SubSeq(data, start, Min(Semicolons(data)) - 1)]
     ELSE IF atEOF /\ start <= Len(data)
       THEN [advance |-> Len(data), token |-> SubSeq(data, start, Max(Words(data)))]
     ELSE MoreData

-----------------------------------------------------------------------------

SplitInit ==
  /\ file = <<>> /\ unread = <<>> /\ buffer = <<>> /\ eof = FALSE /\ stmts = <<>>
  /\ reading = "idle"

OpenFile ==
  /\ reading = "idle" /\ reading' = "scanning"
  /\ file' \in Files
  /\ unread' = Encode(file')
  /\ UNCHANGED <<buffer, eof, stmts>>

\* bufio.Scanner asks the split function when it has data or the end of the file.
Found ==
  IF buffer # <<>> \/ eof THEN scanStmts(buffer, eof) ELSE MoreData

\* Scan returns a statement, and readSQL collects it.
TakeStatement ==
  /\ reading = "scanning" /\ Found # MoreData
  /\ stmts' = Append(stmts, Found.token)
  /\ buffer' = SubSeq(buffer, Found.advance + 1, Len(buffer))
  /\ UNCHANGED <<file, unread, eof, reading>>

\* Otherwise the scanner reads some more, gives up with a full buffer, or ends.
ReadMore ==
  /\ reading = "scanning" /\ Found = MoreData
  /\ ~eof /\ Len(buffer) < MaxToken
  /\ \/ \E n \in 1 .. Min({MaxToken - Len(buffer), Len(unread)}) :
          /\ buffer' = buffer \o SubSeq(unread, 1, n)
          /\ unread' = SubSeq(unread, n + 1, Len(unread))
          /\ UNCHANGED eof
     \/ /\ unread = <<>> /\ eof' = TRUE
        /\ UNCHANGED <<buffer, unread>>
  /\ UNCHANGED <<file, stmts, reading>>

\* The file does not open, or a read fails: readSQL returns that error, and drops
\* the statements it has and those the scanner still makes of its buffer.
CannotRead ==
  /\ \/ reading = "idle"
     \/ reading = "scanning" /\ Found = MoreData /\ ~eof /\ Len(buffer) < MaxToken
  /\ reading' = "unreadable"
  /\ UNCHANGED <<file, unread, buffer, eof, stmts>>

EndScan ==
  /\ reading = "scanning" /\ Found = MoreData
  /\ \/ eof /\ reading' = "done"
     \/ ~eof /\ Len(buffer) = MaxToken /\ reading' = "failed"
  /\ UNCHANGED <<file, unread, buffer, eof, stmts>>

\* readSQL returns.
CloseFile ==
  /\ reading \in {"done", "failed", "unreadable"} /\ reading' = "idle"
  /\ file' = <<>> /\ unread' = <<>> /\ buffer' = <<>> /\ eof' = FALSE /\ stmts' = <<>>

SplitNext ==
  OpenFile \/ TakeStatement \/ ReadMore \/ CannotRead \/ EndScan \/ CloseFile

SplitSpec == SplitInit /\ [][SplitNext]_splitVars

-----------------------------------------------------------------------------
(* What the file says, rune by rune *)

IsBlank(rune) == rune \in {" ", "nbsp"}

TrimLeft(runes) ==
  SubSeq(runes, Min({i \in DOMAIN runes : ~IsBlank(runes[i])} \cup {Len(runes) + 1}), Len(runes))
TrimRight(runes) ==
  SubSeq(runes, 1, Max({i \in DOMAIN runes : ~IsBlank(runes[i])} \cup {0}))

\* The pieces of the file that end at a semicolon, and what follows the last one.
Ends(runes) == {i \in DOMAIN runes : runes[i] = "semicolon"}
Before(runes, i) == SubSeq(runes, Max({j \in Ends(runes) : j < i} \cup {0}) + 1, i - 1)
Remainder(runes) == Before(runes, Len(runes) + 1)

\* The statement that a semicolon ends, and how many there are up to it.
Statement(runes, i) == Encode(TrimLeft(Before(runes, i)))
Place(runes, i) == Cardinality({j \in Ends(runes) : j <= i})

\* The last statement, if no semicolon ends it, as its bytes are found: without the
\* last byte of a wide rune at its very end.
LastWord(runes) == TrimRight(TrimLeft(Remainder(runes)))
LastStatement(runes) ==
  LET word == Encode(LastWord(runes))
  IN IF Last(LastWord(runes)) = "wide" THEN Front(word) ELSE word

\* A piece the buffer cannot hold, with its spaces and its semicolon; one without a
\* semicolon needs room for one byte more, to see the end of the file.
TooLong(runes) ==
  \/ \E i \in Ends(runes) : Len(Encode(Before(runes, i))) + 1 > MaxToken
  \/ Len(Encode(Remainder(runes))) >= MaxToken

-----------------------------------------------------------------------------
(* Property *)

\* However the file comes in, what is found are its statements: those with a
\* semicolon, without leading spaces, and a last one without, trimmed on both sides.
\* The last byte of a wide rune at its very end is lost.  A file that can be read
\* makes readSQL fail when, and only when, a statement does not fit the buffer.
\* Statements, spaces and runes are cut by the end of a chunk and scanned again
\* with the next.
StatementsFound ==
  /\ reading = "failed" => TooLong(file)
  /\ reading = "done" =>
       /\ ~TooLong(file)
       /\ Len(stmts) = Cardinality(Ends(file)) + (IF LastWord(file) = <<>> THEN 0 ELSE 1)
       /\ \A i \in Ends(file) : stmts[Place(file, i)] = Statement(file, i)
       /\ LastWord(file) # <<>> => Last(stmts) = LastStatement(file)

=============================================================================
