----------------------------- MODULE BoardText -----------------------------
(***************************************************************************)
(* on_insert_text (gui.c): how much of a text that the user types or       *)
(* pastes into the board is inserted.  The board is a sequence of bytes; a *)
(* byte is a letter, a newline, or one of the two bytes of a longer        *)
(* character.                                                              *)
(*                                                                         *)
(* GTK is external: it deletes a selection, and asks the handler before it *)
(* inserts; positions are between characters.                              *)
(***************************************************************************)
EXTENDS Integers, Sequences, FiniteSets, FiniteSetsExt

CONSTANTS
  ROWS,      \* BLACKBOARD_ROWS: 15
  COLUMNS,   \* BLACKBOARD_COLUMNS: 80
  Texts      \* texts the user types or pastes

VARIABLE board   \* a sequence of "a", "nl", "lead", "cont"

Init == board = <<>>

\* Newlines in t before the position p, which is the number of bytes before it.
NewlinesTo(t, p) == {n \in 1..p : t[n] = "nl"}
Newlines(t) == NewlinesTo(t, Len(t))

LineOf(p) == Cardinality(NewlinesTo(board, p))
LineStart(t, p) == Max({0} \cup NewlinesTo(t, p))
LineEnd(p) == Min({Len(board)} \cup {n \in Newlines(board) : n > p})

Lines == Cardinality(Newlines(board)) + 1
Column(p) == p - LineStart(board, p)
\* With the newline: gtk_text_iter_get_bytes_in_line.
LineBytes(p) == LineEnd(p) - LineStart(board, p)

\* newNlcount: newlines of t for which the board has rows left.
NewLines(t) == Min({Cardinality(Newlines(t)), Max({0, ROWS - Lines})})

\* A character that would be cut in two is left out.
WholeCharacters(t, n) == IF n > 0 /\ t[n] = "lead" THEN n - 1 ELSE n

(***************************************************************************)
(* insertCount when no new line is inserted: up to the first newline, or   *)
(* until the line at p is full; the last line reserves a byte.             *)
(***************************************************************************)
CountInLine(t, p) ==
  LET room == COLUMNS - LineBytes(p) - (IF LineOf(p) + 1 = Lines THEN 1 ELSE 0)
      line == Min({Len(t)} \cup {n - 1 : n \in Newlines(t)})
  IN  IF line <= room THEN line ELSE WholeCharacters(t, Max({0, room}))

(***************************************************************************)
(* insertCount with new lines: j(n) is the code's count of bytes in the    *)
(* line where byte n of t would go, i(n) the number of that line.  A line  *)
(* but the last of t is counted from where it starts; the last begins with *)
(* the rest of the board's line after p.                                   *)
(***************************************************************************)
CountWithLines(t, p) ==
  LET last == NewLines(t)
      i(n) == Cardinality(NewlinesTo(t, n - 1))
      j(n) == n - 1 - LineStart(t, n - 1)
              + (IF i(n) = 0 THEN Column(p)
                 ELSE IF i(n) >= last THEN LineBytes(p) - Column(p) - 1 ELSE 0)
      full == {n \in 1..Len(t) : j(n) + 1 >= COLUMNS /\ t[n] # "nl"}
      over == {n \in 1..Len(t) :
                 i(n) > last \/ (i(n) = last /\ t[n] = "nl" /\ j(n) + 1 < COLUMNS)}
      stop == Min({Len(t) + 1} \cup full \cup over)
  IN  IF stop \in full THEN WholeCharacters(t, stop - 1) ELSE stop - 1

InsertCount(t, p) ==
  IF NewLines(t) = 0 THEN CountInLine(t, p) ELSE CountWithLines(t, p)

\* Between characters.
Positions == {p \in 0..Len(board) : p = Len(board) \/ board[p + 1] # "cont"}

InsertText(t, p) ==
  LET n == InsertCount(t, p) IN
  board' = SubSeq(board, 1, p) \o SubSeq(t, 1, n) \o SubSeq(board, p + 1, Len(board))

DeleteText(from, to) ==
  /\ from < to
  /\ board' = SubSeq(board, 1, from) \o SubSeq(board, to + 1, Len(board))

Next ==
  \/ \E t \in Texts, p \in Positions : InsertText(t, p)
  \/ \E from, to \in Positions : DeleteText(from, to)

Spec == Init /\ [][Next]_board

(***************************************************************************)
(* What is inserted into a board that fits leaves a board that fits: "Es   *)
(* wird sichergestellt, dass eine Zeile nicht mehr Bytes als               *)
(* BLACKBOARD_COLUMNS und die Tafel nicht mehr Zeilen als BLACKBOARD_ROWS  *)
(* beinhalten darf" (gui.c:49-52).                                         *)
(***************************************************************************)
FitsBoard == Lines <= ROWS /\ \A p \in Positions : LineBytes(p) <= COLUMNS
InsertKeepsBounds == [][FitsBoard /\ Len(board') > Len(board) => FitsBoard']_board
=============================================================================
