-------------------------- MODULE BoardTextProofs --------------------------
(***************************************************************************)
(* What on_insert_text does keep, for boards of every size: characters are *)
(* never cut in two, text without a new line keeps the bounds, and a paste *)
(* exceeds the rows by at most one.                                        *)
(***************************************************************************)
EXTENDS BoardText, TLAPS, WellFoundedInduction, FiniteSetTheorems, SequenceTheorems

Bytes == {"a", "nl", "lead", "cont"}

\* No character is cut.
Whole(s) ==
  /\ \A n \in 1..Len(s) : s[n] = "lead" => n < Len(s) /\ s[n + 1] = "cont"
  /\ \A n \in 1..Len(s) : s[n] = "cont" => n > 1 /\ s[n - 1] = "lead"

Strings == {s \in Seq(Bytes) : Whole(s)}

\* The size of the board, and what the user types or pastes: valid UTF-8.
Proper == ROWS \in Nat /\ COLUMNS \in Nat /\ Texts \subseteq Strings
-----------------------------------------------------------------------------
(***************************************************************************)
(* Least and greatest numbers.                                             *)
(***************************************************************************)

\* By the well-founded order of the intervals 0..x.
LEMMA LeastNat ==
  ASSUME NEW S \in SUBSET Nat, S # {}
  PROVE  \E x \in S : \A y \in S : x <= y
<1>. DEFINE R == StrictSubsetOrdering(Nat)
            Below == {0..x : x \in S}
<1>1. IsWellFoundedOn(R, FiniteSubsetsOf(Nat))
  BY FS_StrictSubsetOrderingWellFounded
<1>2. Below \subseteq FiniteSubsetsOf(Nat)
  <2>. SUFFICES ASSUME NEW x \in S PROVE 0..x \in FiniteSubsetsOf(Nat)
    OBVIOUS
  <2>1. 0..x \subseteq Nat /\ IsFiniteSet(0..x)
    BY FS_Interval
  <2>. QED BY <2>1 DEF FiniteSubsetsOf
<1>3. PICK I \in Below : \A J \in Below : ~(<<J, I>> \in R)
  <2>1. Below # {}
    OBVIOUS
  <2>. HIDE DEF R, Below
  <2>. QED BY <1>1, <1>2, <2>1, WFMin
<1>4. PICK x \in S : I = 0..x
  OBVIOUS
<1>5. ASSUME NEW y \in S, y < x PROVE FALSE
  <2>1. /\ 0..y \subseteq 0..x /\ 0..y \subseteq Nat /\ 0..x \subseteq Nat
        /\ x \in 0..x /\ x \notin 0..y
    BY <1>5
  <2>2. <<0..y, 0..x>> \in R
    BY <2>1 DEF StrictSubsetOrdering
  <2>. QED BY <2>2, <1>3, <1>4
<1>. QED BY <1>5

\* Min and Max of the community modules, for sets of natural numbers.
LEMMA MinIsLeast ==
  ASSUME NEW S \in SUBSET Nat, S # {}
  PROVE  Min(S) \in S /\ \A y \in S : Min(S) <= y
BY LeastNat DEF Min

LEMMA MaxIsGreatest ==
  ASSUME NEW S \in SUBSET Nat, NEW b \in Nat, \A x \in S : x <= b, S # {}
  PROVE  Max(S) \in S /\ \A y \in S : y <= Max(S)
<1>. DEFINE D == {b - x : x \in S}
<1>1. PICK d \in D : \A e \in D : d <= e
  <2>1. \A x \in S : b - x \in Nat
    OBVIOUS
  <2>2. D \in SUBSET Nat /\ D # {}
    BY <2>1
  <2>. HIDE DEF D
  <2>. QED BY <2>2, LeastNat
<1>2. PICK x \in S : d = b - x
  OBVIOUS
<1>3. \A y \in S : y <= x
  <2>. SUFFICES ASSUME NEW y \in S PROVE y <= x
    OBVIOUS
  <2>1. b - x <= b - y
    BY <1>1, <1>2
  <2>. QED BY <2>1
<1>. QED BY <1>3 DEF Max

\* Max of zero and a number.
LEMMA MaxWithZero ==
  ASSUME NEW r \in Int
  PROVE  Max({0, r}) = IF r >= 0 THEN r ELSE 0
<1>. DEFINE m == IF r >= 0 THEN r ELSE 0
<1>1. m \in {0, r} /\ \A y \in {0, r} : m >= y
  OBVIOUS
<1>2. \A x \in {0, r} : (\A y \in {0, r} : x >= y) => x = m
  OBVIOUS
<1>. HIDE DEF m
<1>3. Max({0, r}) = m
  BY <1>1, <1>2 DEF Max
<1>. QED BY <1>3 DEF m
-----------------------------------------------------------------------------
(***************************************************************************)
(* Newlines and lines.                                                     *)
(***************************************************************************)

\* The newlines of a prefix are a finite set.
LEMMA NewlinesFinite ==
  ASSUME NEW s, NEW p \in Nat
  PROVE  /\ IsFiniteSet(NewlinesTo(s, p))
         /\ NewlinesTo(s, p) \subseteq 1..p
         /\ Cardinality(NewlinesTo(s, p)) \in Nat
<1>1. NewlinesTo(s, p) \subseteq 1..p
  BY DEF NewlinesTo
<1>2. IsFiniteSet(1..p)
  BY FS_Interval
<1>3. IsFiniteSet(NewlinesTo(s, p))
  BY <1>1, <1>2, FS_Subset
<1>. QED BY <1>1, <1>3, FS_CardinalityType

\* The start of a line is behind the last newline before it.
LEMMA LineStartIs ==
  ASSUME NEW s, NEW p \in Nat
  PROVE  /\ LineStart(s, p) \in 0..p
         /\ LineStart(s, p) # 0 => s[LineStart(s, p)] = "nl"
         /\ \A k \in 1..p : s[k] = "nl" => k <= LineStart(s, p)
<1>. DEFINE S == {0} \cup NewlinesTo(s, p)
<1>1. S \in SUBSET Nat /\ S # {} /\ \A x \in S : x <= p
  BY NewlinesFinite
<1>2. LineStart(s, p) = Max(S)
  BY DEF LineStart
<1>3. Max(S) \in S /\ \A y \in S : y <= Max(S)
  <2>. HIDE DEF S
  <2>. QED BY <1>1, MaxIsGreatest
<1>4. Max(S) \in 0..p
  BY <1>1, <1>3
<1>. QED BY <1>2, <1>3, <1>4 DEF NewlinesTo

\* The operators of the board, for any string.
EndIn(s, p) == Min({Len(s)} \cup {n \in Newlines(s) : n > p})
BytesIn(s, p) == EndIn(s, p) - LineStart(s, p)
LinesIn(s) == Cardinality(Newlines(s)) + 1
PositionsIn(s) == {p \in 0..Len(s) : p = Len(s) \/ s[p + 1] # "cont"}
ColumnsFit(s) == \A p \in PositionsIn(s) : BytesIn(s, p) <= COLUMNS

\* The model's operators are these, at the board.
LEMMA OfBoard ==
  /\ \A p : LineEnd(p) = EndIn(board, p) /\ LineBytes(p) = BytesIn(board, p)
  /\ Lines = LinesIn(board) /\ Lines' = LinesIn(board')
  /\ Positions = PositionsIn(board)
  /\ FitsBoard <=> LinesIn(board) <= ROWS /\ ColumnsFit(board)
  /\ FitsBoard' <=> LinesIn(board') <= ROWS /\ ColumnsFit(board')
BY DEF LineEnd, EndIn, LineBytes, BytesIn, Lines, LinesIn, Positions, PositionsIn,
       FitsBoard, ColumnsFit

\* The end of a line is at the next newline, or at the end of the string.
LEMMA EndInIs ==
  ASSUME NEW s \in Seq(Bytes), NEW p \in 0..Len(s)
  PROVE  /\ EndIn(s, p) \in p..Len(s)
         /\ EndIn(s, p) # Len(s) => EndIn(s, p) > p /\ s[EndIn(s, p)] = "nl"
         /\ \A k \in p + 1 .. Len(s) : s[k] = "nl" => EndIn(s, p) <= k
<1>. DEFINE S == {Len(s)} \cup {n \in Newlines(s) : n > p}
<1>0. Len(s) \in Nat
  OBVIOUS
<1>1. S \in SUBSET Nat /\ S # {} /\ \A x \in S : x \in p..Len(s)
  BY <1>0 DEF Newlines, NewlinesTo
<1>2. EndIn(s, p) = Min(S)
  BY DEF EndIn
<1>3. Min(S) \in S /\ \A y \in S : Min(S) <= y
  <2>. HIDE DEF S
  <2>. QED BY <1>1, MinIsLeast
<1>. QED BY <1>0, <1>1, <1>2, <1>3 DEF Newlines, NewlinesTo
-----------------------------------------------------------------------------
(***************************************************************************)
(* How much of a text is inserted.                                         *)
(***************************************************************************)

\* The first n bytes of t end with a whole character.
Cut(t, n) == n \in 0..Len(t) /\ (n > 0 => t[n] # "lead")

\* The correction of a cut leaves whole characters.
LEMMA CutWhole ==
  ASSUME NEW t \in Strings, NEW n \in 0..Len(t)
  PROVE  Cut(t, WholeCharacters(t, n))
BY DEF Cut, WholeCharacters, Strings, Whole, Bytes

\* Before a newline, and at the end, a text can be cut.
LEMMA CutBefore ==
  ASSUME NEW t \in Strings, NEW n \in 0..Len(t), n = Len(t) \/ t[n + 1] = "nl"
  PROVE  Cut(t, n)
BY DEF Cut, Strings, Whole, Bytes

\* Without a new line: whole characters, no newline, and the line is not overfilled.
LEMMA InLineCut ==
  ASSUME NEW t \in Strings, board \in Seq(Bytes), NEW p \in 0..Len(board),
         COLUMNS \in Nat
  PROVE  /\ Cut(t, CountInLine(t, p))
         /\ \A k \in 1..CountInLine(t, p) : t[k] # "nl"
         /\ LineBytes(p) <= COLUMNS => LineBytes(p) + CountInLine(t, p) <= COLUMNS
<1>. DEFINE room == COLUMNS - LineBytes(p) - (IF LineOf(p) + 1 = Lines THEN 1 ELSE 0)
            S == {Len(t)} \cup {n - 1 : n \in Newlines(t)}
            line == Min(S)
<1>0. Len(t) \in Nat
  BY DEF Strings
<1>1. room \in Int /\ room <= COLUMNS - LineBytes(p) /\ LineBytes(p) \in Nat
  <2>1. LineBytes(p) \in Nat
    BY LineStartIs, EndInIs, OfBoard DEF BytesIn
  <2>. QED BY <2>1
<1>2. line \in 0..Len(t) /\ (line = Len(t) \/ t[line + 1] = "nl")
      /\ \A k \in 1..line : t[k] # "nl"
  <2>1. S \in SUBSET Nat /\ S # {}
    BY <1>0 DEF Newlines, NewlinesTo
  <2>2. line \in S /\ \A y \in S : line <= y
    <3>. HIDE DEF S
    <3>. QED BY <2>1, MinIsLeast
  <2>3. line \in 0..Len(t) /\ (line = Len(t) \/ t[line + 1] = "nl")
    BY <1>0, <2>2 DEF Newlines, NewlinesTo
  <2>4. ASSUME NEW k \in 1..line, t[k] = "nl" PROVE FALSE
    <3>1. k \in Newlines(t) /\ k - 1 \in S
      BY <1>0, <2>3, <2>4 DEF Newlines, NewlinesTo
    <3>. HIDE DEF S
    <3>. QED BY <2>2, <2>3, <2>4, <3>1
  <2>. QED BY <2>3, <2>4
<1>3. CountInLine(t, p) = IF line <= room THEN line
                          ELSE WholeCharacters(t, Max({0, room}))
  BY DEF CountInLine
<1>. HIDE DEF line, room
<1>4. CASE line <= room
  BY <1>0, <1>1, <1>2, <1>3, <1>4, CutBefore
<1>5. CASE ~(line <= room)
  <2>. DEFINE m == Max({0, room})
  <2>1. m \in 0..line /\ (room >= 0 => m <= room) /\ (room < 0 => m = 0)
    BY <1>1, <1>2, <1>5, MaxWithZero
  <2>. HIDE DEF m
  <2>2. CountInLine(t, p) = WholeCharacters(t, m)
    BY <1>3, <1>5 DEF m
  <2>3. WholeCharacters(t, m) \in 0..m
    BY <1>0, <1>2, <2>1 DEF WholeCharacters
  <2>4. Cut(t, WholeCharacters(t, m))
    BY <1>0, <1>2, <2>1, CutWhole
  <2>. QED BY <1>0, <1>1, <1>2, <2>1, <2>2, <2>3, <2>4
<1>. QED BY <1>4, <1>5

\* The first number of a set, or the one behind the end.
LEMMA FirstOf ==
  ASSUME NEW len \in Nat, NEW A \in SUBSET (1..len)
  PROVE  /\ Min({len + 1} \cup A) \in 1..(len + 1)
         /\ Min({len + 1} \cup A) = len + 1 \/ Min({len + 1} \cup A) \in A
         /\ \A k \in 1..(Min({len + 1} \cup A) - 1) : k \notin A
<1>. DEFINE B == {len + 1} \cup A
<1>1. B \in SUBSET Nat /\ B # {}
  OBVIOUS
<1>2. Min(B) \in B /\ \A y \in B : Min(B) <= y
  <2>. HIDE DEF B
  <2>. QED BY <1>1, MinIsLeast
<1>3. Min(B) \in 1..(len + 1)
  <2>1. \A y \in B : y \in 1..(len + 1)
    OBVIOUS
  <2>. HIDE DEF B
  <2>. QED BY <1>2, <2>1
<1>4. ASSUME NEW k \in 1..(Min(B) - 1), k \in A PROVE FALSE
  BY <1>2, <1>3, <1>4
<1>. QED BY <1>2, <1>3, <1>4

\* As many new lines as the text has, while the board has rows left.
LEMMA NewLinesIs ==
  ASSUME NEW t \in Strings, board \in Seq(Bytes), ROWS \in Nat
  PROVE  /\ Lines \in Nat /\ Lines > 0
         /\ NewLines(t) \in Nat
         /\ Lines <= ROWS => NewLines(t) <= ROWS - Lines
         /\ NewLines(t) <= Cardinality(Newlines(t))
         /\ NewLines(t) > 0 => Lines < ROWS
<1>0. Len(t) \in Nat /\ Len(board) \in Nat
  BY DEF Strings
<1>1. Lines \in Nat /\ Lines > 0
  BY <1>0, NewlinesFinite DEF Lines, Newlines
<1>2. Cardinality(Newlines(t)) \in Nat /\ IsFiniteSet(Newlines(t))
  BY <1>0, NewlinesFinite DEF Newlines
<1>. DEFINE c == Cardinality(Newlines(t))
            r == Max({0, ROWS - Lines})
<1>3. r \in Nat /\ (Lines <= ROWS => r = ROWS - Lines)
      /\ (r > 0 => Lines < ROWS)
  BY <1>1, MaxWithZero
<1>5. NewLines(t) = Min({c, r})
  BY DEF NewLines
<1>6. c \in Nat
  BY <1>2
<1>. HIDE DEF c, r
<1>7. {c, r} \in SUBSET Nat /\ {c, r} # {}
  BY <1>3, <1>6
<1>8. Min({c, r}) \in {c, r} /\ Min({c, r}) <= c /\ Min({c, r}) <= r
  BY <1>7, MinIsLeast
<1>. QED BY <1>1, <1>3, <1>5, <1>6, <1>8 DEF c

\* With new lines: at most one newline more than there are rows for.
LEMMA WithLinesCut ==
  ASSUME NEW t \in Strings, board \in Seq(Bytes), NEW p \in 0..Len(board),
         ROWS \in Nat
  PROVE  /\ Cut(t, CountWithLines(t, p))
         /\ \A k \in 1..CountWithLines(t, p) :
              Cardinality(NewlinesTo(t, k - 1)) <= NewLines(t)
<1>. DEFINE last == NewLines(t)
            i(n) == Cardinality(NewlinesTo(t, n - 1))
            j(n) == n - 1 - LineStart(t, n - 1)
                    + (IF i(n) = 0 THEN Column(p)
                       ELSE IF i(n) >= last THEN LineBytes(p) - Column(p) - 1 ELSE 0)
            full == {n \in 1..Len(t) : j(n) + 1 >= COLUMNS /\ t[n] # "nl"}
            over == {n \in 1..Len(t) :
                       i(n) > last \/ (i(n) = last /\ t[n] = "nl" /\ j(n) + 1 < COLUMNS)}
            A == full \cup over
            stop == Min({Len(t) + 1} \cup A)
<1>0. Len(t) \in Nat
  BY DEF Strings
<1>1. CountWithLines(t, p) = IF stop \in full THEN WholeCharacters(t, stop - 1)
                             ELSE stop - 1
  <2>1. {Len(t) + 1} \cup A = {Len(t) + 1} \cup full \cup over
    OBVIOUS
  <2>. QED BY <2>1 DEF CountWithLines
<1>2. A \in SUBSET (1..Len(t))
  OBVIOUS
<1>3. \A n \in 1..Len(t) : n \notin A => ~(i(n) > last)
  OBVIOUS
<1>4. \A n \in A : n \in full \/ i(n) > last \/ t[n] = "nl"
  OBVIOUS
<1>5. /\ stop \in 1..(Len(t) + 1)
      /\ stop = Len(t) + 1 \/ stop \in A
      /\ \A k \in 1..(stop - 1) : k \notin A
  <2>. HIDE DEF A
  <2>. QED BY <1>0, <1>2, FirstOf
<1>. HIDE DEF A, full, over, stop
<1>7. \A k \in 1..(stop - 1) : ~(i(k) > last)
  <2>. SUFFICES ASSUME NEW k \in 1..(stop - 1) PROVE ~(i(k) > last)
    OBVIOUS
  <2>1. k \in 1..Len(t) /\ k \notin A
    BY <1>0, <1>5
  <2>. HIDE DEF i, j, last
  <2>. QED BY <1>3, <2>1
<1>8. Cut(t, CountWithLines(t, p)) /\ CountWithLines(t, p) \in 0..(stop - 1)
  <2>1. CASE stop \in full
    <3>1. WholeCharacters(t, stop - 1) \in 0..(stop - 1)
      BY <1>5 DEF WholeCharacters
    <3>. QED BY <1>0, <1>1, <1>5, <2>1, <3>1, CutWhole
  <2>2. CASE stop \notin full /\ (stop = Len(t) + 1 \/ t[stop] = "nl")
    BY <1>0, <1>1, <1>5, <2>2, CutBefore
  <2>3. CASE stop \notin full /\ stop \in A /\ i(stop) > last /\ t[stop] # "nl"
    <3>1. ASSUME stop > 1, t[stop - 1] # "nl" PROVE FALSE
      <4>1. NewlinesTo(t, stop - 1) = NewlinesTo(t, stop - 2)
        BY <1>5, <3>1 DEF NewlinesTo
      <4>2. i(stop - 1) = i(stop)
        BY <1>5, <4>1
      <4>. QED BY <1>5, <1>7, <2>3, <3>1, <4>2
    <3>2. stop - 1 \in 0..Len(t) /\ (stop - 1 > 0 => t[stop - 1] # "lead")
      BY <1>0, <1>5, <3>1
    <3>. QED BY <1>1, <1>5, <2>3, <3>2 DEF Cut
  <2>. QED BY <1>4, <1>5, <2>1, <2>2, <2>3
<1>9. \A k \in 1..CountWithLines(t, p) : i(k) <= last
  <2>. SUFFICES ASSUME NEW k \in 1..CountWithLines(t, p) PROVE i(k) <= last
    OBVIOUS
  <2>1. i(k) \in Nat /\ ~(i(k) > last)
    BY <1>5, <1>7, <1>8, NewlinesFinite
  <2>2. last \in Int
    BY NewLinesIs
  <2>. HIDE DEF i, last
  <2>. QED BY <2>1, <2>2
<1>. QED BY <1>8, <1>9
-----------------------------------------------------------------------------
(***************************************************************************)
(* The board after an insertion and after a deletion.                      *)
(***************************************************************************)

Inserted(s, t, p, n) ==
  SubSeq(s, 1, p) \o SubSeq(t, 1, n) \o SubSeq(s, p + 1, Len(s))
Deleted(s, from, to) == SubSeq(s, 1, from) \o SubSeq(s, to + 1, Len(s))

\* r is s with the first n bytes of t inserted at p.
WithBytes(r, s, t, p, n) ==
  /\ r \in Seq(Bytes)
  /\ Len(r) = Len(s) + n
  /\ \A k \in 1..p : r[k] = s[k]
  /\ \A k \in 1..n : r[p + k] = t[k]
  /\ \A k \in p + 1 .. Len(s) : r[n + k] = s[k]

\* r is s without the d bytes behind the first p.
WithoutBytes(r, s, p, d) ==
  /\ r \in Seq(Bytes)
  /\ Len(r) = Len(s) - d
  /\ \A k \in 1..p : r[k] = s[k]
  /\ \A k \in p + 1 .. Len(r) : r[k] = s[k + d]

\* Bytes of a concatenation, by their position.
LEMMA ConcatBytes ==
  ASSUME NEW x \in Seq(Bytes), NEW y \in Seq(Bytes), NEW xy, xy = x \o y
  PROVE  /\ xy \in Seq(Bytes)
         /\ Len(xy) = Len(x) + Len(y)
         /\ \A k \in 1..Len(x) : xy[k] = x[k]
         /\ \A k \in 1..Len(y) : xy[Len(x) + k] = y[k]
<1>. DEFINE m == Len(x)
            n == Len(y)
<1>0. m \in Nat /\ n \in Nat
  OBVIOUS
<1>1. /\ xy \in Seq(Bytes) /\ Len(xy) = m + n
      /\ \A i \in 1..(m + n) : xy[i] = IF i <= m THEN x[i] ELSE y[i - m]
  BY ConcatProperties
<1>. HIDE DEF m, n
<1>2. ASSUME NEW k \in 1..m PROVE xy[k] = x[k]
  BY <1>0, <1>1
<1>3. ASSUME NEW k \in 1..n PROVE xy[m + k] = y[k]
  <2>1. m + k \in 1..(m + n) /\ ~(m + k <= m) /\ (m + k) - m = k
    BY <1>0
  <2>. QED BY <1>1, <2>1
<1>. QED BY <1>1, <1>2, <1>3 DEF m, n

\* Insertion and deletion, byte by byte.
LEMMA InsertedBytes ==
  ASSUME NEW s \in Seq(Bytes), NEW t \in Seq(Bytes),
         NEW p \in 0..Len(s), NEW n \in 0..Len(t), NEW r, r = Inserted(s, t, p, n)
  PROVE  WithBytes(r, s, t, p, n)
<1>. DEFINE head == SubSeq(s, 1, p)
            mid == SubSeq(t, 1, n)
            rest == SubSeq(s, p + 1, Len(s))
            front == head \o mid
<1>0. Len(s) \in Nat /\ Len(t) \in Nat
  OBVIOUS
<1>1. head \in Seq(Bytes) /\ Len(head) = p /\ \A k \in 1..p : head[k] = s[k]
  BY <1>0
<1>2. mid \in Seq(Bytes) /\ Len(mid) = n /\ \A k \in 1..n : mid[k] = t[k]
  BY <1>0
<1>3. rest \in Seq(Bytes) /\ Len(rest) = Len(s) - p
      /\ \A k \in 1..(Len(s) - p) : rest[k] = s[p + k]
  BY <1>0
<1>. HIDE DEF head, mid, rest
<1>4. /\ front \in Seq(Bytes) /\ Len(front) = Len(head) + Len(mid)
      /\ \A k \in 1..Len(head) : front[k] = head[k]
      /\ \A k \in 1..Len(mid) : front[Len(head) + k] = mid[k]
  <2>. HIDE DEF front
  <2>1. front = head \o mid /\ head \in Seq(Bytes) /\ mid \in Seq(Bytes)
    BY <1>1, <1>2 DEF front
  <2>. QED BY <2>1, ConcatBytes, SMT
<1>5. r = front \o rest
  BY DEF Inserted, head, mid, rest
<1>. HIDE DEF front
<1>6. /\ r \in Seq(Bytes) /\ Len(r) = Len(front) + Len(rest)
      /\ \A k \in 1..Len(front) : r[k] = front[k]
      /\ \A k \in 1..Len(rest) : r[Len(front) + k] = rest[k]
  <2>1. front \in Seq(Bytes) /\ rest \in Seq(Bytes)
    BY <1>3, <1>4
  <2>. QED BY <1>5, <2>1, ConcatBytes, SMT
<1>7. Len(front) = p + n /\ Len(r) = Len(s) + n
  BY <1>0, <1>1, <1>2, <1>3, <1>4, <1>6
<1>9. ASSUME NEW k \in p + 1 .. Len(s) PROVE r[n + k] = s[k]
  <2>1. k - p \in 1..(Len(s) - p) /\ k = p + (k - p) /\ n + k = p + n + (k - p)
    BY <1>0
  <2>2. k - p \in 1..Len(rest) /\ rest[k - p] = s[p + (k - p)]
    BY <1>3, <2>1
  <2>3. r[Len(front) + (k - p)] = rest[k - p]
    BY <1>6, <2>2
  <2>. QED BY <1>7, <2>1, <2>2, <2>3
<1>10. ASSUME NEW k \in 1..n PROVE r[p + k] = t[k]
  <2>1. p + k \in 1..(p + n)
    BY <1>0
  <2>. QED BY <1>1, <1>2, <1>4, <1>6, <1>7, <2>1
<1>11. ASSUME NEW k \in 1..p PROVE r[k] = s[k]
  <2>1. k \in 1..(p + n)
    BY <1>0
  <2>. QED BY <1>1, <1>4, <1>6, <1>7, <2>1
<1>. QED BY <1>6, <1>7, <1>9, <1>10, <1>11 DEF WithBytes

LEMMA DeletedBytes ==
  ASSUME NEW s \in Seq(Bytes), NEW from \in 0..Len(s), NEW to \in from..Len(s),
         NEW r, r = Deleted(s, from, to)
  PROVE  WithoutBytes(r, s, from, to - from)
<1>. DEFINE head == SubSeq(s, 1, from)
            rest == SubSeq(s, to + 1, Len(s))
<1>0. Len(s) \in Nat
  OBVIOUS
<1>1. head \in Seq(Bytes) /\ Len(head) = from /\ \A k \in 1..from : head[k] = s[k]
  BY <1>0
<1>2. rest \in Seq(Bytes) /\ Len(rest) = Len(s) - to
      /\ \A k \in 1..(Len(s) - to) : rest[k] = s[to + k]
  BY <1>0
<1>3. r = head \o rest
  BY DEF Deleted
<1>. HIDE DEF head, rest
<1>4. /\ r \in Seq(Bytes) /\ Len(r) = Len(head) + Len(rest)
      /\ \A k \in 1..Len(head) : r[k] = head[k]
      /\ \A k \in 1..Len(rest) : r[Len(head) + k] = rest[k]
  <2>1. head \in Seq(Bytes) /\ rest \in Seq(Bytes)
    BY <1>1, <1>2
  <2>. QED BY <1>3, <2>1, ConcatBytes, SMT
<1>5. Len(r) = Len(s) - (to - from)
  BY <1>0, <1>1, <1>2, <1>4
<1>6. ASSUME NEW k \in from + 1 .. Len(r) PROVE r[k] = s[k + (to - from)]
  <2>1. /\ k - from \in 1..(Len(s) - to) /\ k = from + (k - from)
        /\ to + (k - from) = k + (to - from)
    BY <1>0, <1>5
  <2>2. k - from \in 1..Len(rest) /\ rest[k - from] = s[to + (k - from)]
    BY <1>2, <2>1
  <2>3. r[Len(head) + (k - from)] = rest[k - from]
    BY <1>4, <2>2
  <2>. QED BY <1>1, <2>1, <2>2, <2>3
<1>. QED BY <1>1, <1>4, <1>5, <1>6 DEF WithoutBytes
-----------------------------------------------------------------------------
(***************************************************************************)
(* Characters stay whole.                                                  *)
(***************************************************************************)

\* An insertion between characters of whole characters.
LEMMA InsertedWhole ==
  ASSUME NEW s \in Strings, NEW t \in Strings, NEW p \in PositionsIn(s), NEW n,
         Cut(t, n), NEW r, WithBytes(r, s, t, p, n)
  PROVE  r \in Strings
<1>0. /\ s \in Seq(Bytes) /\ Len(s) \in Nat /\ t \in Seq(Bytes) /\ Len(t) \in Nat
      /\ p \in 0..Len(s) /\ n \in 0..Len(t)
  BY DEF Strings, PositionsIn, Cut
<1>1. /\ r \in Seq(Bytes) /\ Len(r) = Len(s) + n
      /\ \A k \in 1..p : r[k] = s[k]
      /\ \A k \in 1..n : r[p + k] = t[k]
      /\ \A k \in p + 1 .. Len(s) : r[n + k] = s[k]
  BY DEF WithBytes
<1>2. p < Len(s) => s[p + 1] # "cont"
  BY <1>0 DEF PositionsIn
<1>3. n > 0 => t[n] # "lead"
  BY DEF Cut
<1>4. Whole(s) /\ Whole(t)
  BY DEF Strings
<1>5. ASSUME NEW k \in 1..Len(r), r[k] = "lead" PROVE k < Len(r) /\ r[k + 1] = "cont"
  <2>1. CASE k <= p
    <3>1. s[k] = "lead" /\ k < Len(s) /\ s[k + 1] = "cont"
      BY <1>0, <1>1, <1>4, <1>5, <2>1 DEF Whole
    <3>2. k < p
      BY <1>0, <1>2, <2>1, <3>1
    <3>. QED BY <1>0, <1>1, <3>1, <3>2
  <2>2. CASE k > p /\ k <= p + n
    <3>. DEFINE l == k - p
    <3>1. l \in 1..n /\ l \in 1..Len(t) /\ k = p + l
      BY <1>0, <1>1, <2>2
    <3>. HIDE DEF l
    <3>2. t[l] = "lead"
      BY <1>1, <1>5, <3>1
    <3>3. l < Len(t) /\ t[l + 1] = "cont"
      BY <1>4, <3>1, <3>2 DEF Whole
    <3>4. l < n
      BY <1>0, <1>3, <3>1, <3>2
    <3>5. l + 1 \in 1..n /\ k + 1 = p + (l + 1) /\ k < Len(r)
      BY <1>0, <1>1, <3>1, <3>4
    <3>. QED BY <1>1, <3>3, <3>5
  <2>3. CASE k > p + n
    <3>. DEFINE l == k - n
    <3>1. l \in p + 1 .. Len(s) /\ l \in 1..Len(s) /\ k = n + l
      BY <1>0, <1>1, <2>3
    <3>. HIDE DEF l
    <3>2. s[l] = "lead"
      BY <1>1, <1>5, <3>1
    <3>3. l < Len(s) /\ s[l + 1] = "cont"
      BY <1>4, <3>1, <3>2 DEF Whole
    <3>4. l + 1 \in p + 1 .. Len(s) /\ k + 1 = n + (l + 1) /\ k < Len(r)
      BY <1>0, <1>1, <3>1, <3>3
    <3>. QED BY <1>1, <3>3, <3>4
  <2>. QED BY <1>0, <2>1, <2>2, <2>3
<1>6. ASSUME NEW k \in 1..Len(r), r[k] = "cont" PROVE k > 1 /\ r[k - 1] = "lead"
  <2>1. CASE k <= p
    <3>1. s[k] = "cont" /\ k \in 1..Len(s)
      BY <1>0, <1>1, <1>6, <2>1
    <3>2. k > 1 /\ s[k - 1] = "lead"
      BY <1>4, <3>1 DEF Whole
    <3>. QED BY <1>0, <1>1, <2>1, <3>2
  <2>2. CASE k > p /\ k <= p + n
    <3>. DEFINE l == k - p
    <3>1. l \in 1..n /\ l \in 1..Len(t) /\ k = p + l
      BY <1>0, <1>1, <2>2
    <3>. HIDE DEF l
    <3>2. t[l] = "cont"
      BY <1>1, <1>6, <3>1
    <3>3. l > 1 /\ t[l - 1] = "lead"
      BY <1>4, <3>1, <3>2 DEF Whole
    <3>4. l - 1 \in 1..n /\ k - 1 = p + (l - 1) /\ k > 1
      BY <1>0, <3>1, <3>3
    <3>. QED BY <1>1, <3>3, <3>4
  <2>3. CASE k > p + n
    <3>. DEFINE l == k - n
    <3>1. l \in p + 1 .. Len(s) /\ l \in 1..Len(s) /\ k = n + l
      BY <1>0, <1>1, <2>3
    <3>. HIDE DEF l
    <3>2. s[l] = "cont"
      BY <1>1, <1>6, <3>1
    <3>3. l > 1 /\ s[l - 1] = "lead"
      BY <1>4, <3>1, <3>2 DEF Whole
    <3>4. l # p + 1
      BY <1>0, <1>2, <3>1, <3>2
    <3>5. l - 1 \in p + 1 .. Len(s) /\ k - 1 = n + (l - 1) /\ k > 1
      BY <1>0, <3>1, <3>3, <3>4
    <3>. QED BY <1>1, <3>3, <3>5
  <2>. QED BY <1>0, <2>1, <2>2, <2>3
<1>. QED BY <1>1, <1>5, <1>6 DEF Strings, Whole

\* A deletion between characters.
LEMMA DeletedWhole ==
  ASSUME NEW s \in Strings, NEW from \in PositionsIn(s), NEW to \in PositionsIn(s),
         from < to, NEW r, WithoutBytes(r, s, from, to - from)
  PROVE  r \in Strings
<1>. DEFINE d == to - from
<1>0. /\ s \in Seq(Bytes) /\ Len(s) \in Nat /\ from \in 0..Len(s) /\ to \in from..Len(s)
      /\ d \in Nat /\ to = from + d
  BY DEF Strings, PositionsIn
<1>1. /\ r \in Seq(Bytes) /\ Len(r) = Len(s) - d
      /\ \A k \in 1..from : r[k] = s[k]
      /\ \A k \in from + 1 .. Len(r) : r[k] = s[k + d]
  BY DEF WithoutBytes
<1>2. /\ from < Len(s) => s[from + 1] # "cont"
      /\ to < Len(s) => s[to + 1] # "cont"
  BY <1>0 DEF PositionsIn
<1>3. Whole(s)
  BY DEF Strings
<1>. HIDE DEF d
<1>4. ASSUME NEW k \in 1..Len(r), r[k] = "lead" PROVE k < Len(r) /\ r[k + 1] = "cont"
  <2>1. CASE k <= from
    <3>1. s[k] = "lead" /\ k < Len(s) /\ s[k + 1] = "cont"
      BY <1>0, <1>1, <1>3, <1>4, <2>1 DEF Whole
    <3>2. k < from
      BY <1>0, <1>2, <2>1, <3>1
    <3>. QED BY <1>0, <1>1, <3>1, <3>2
  <2>2. CASE k > from
    <3>. DEFINE l == k + d
    <3>1. l \in 1..Len(s) /\ r[k] = s[l]
      BY <1>0, <1>1, <2>2
    <3>2. l < Len(s) /\ s[l + 1] = "cont"
      <4>. HIDE DEF l
      <4>. QED BY <1>3, <1>4, <3>1 DEF Whole
    <3>3. k + 1 \in from + 1 .. Len(r) /\ l + 1 = (k + 1) + d
      BY <1>0, <1>1, <2>2, <3>2
    <3>. QED BY <1>0, <1>1, <3>2, <3>3
  <2>. QED BY <1>0, <2>1, <2>2
<1>5. ASSUME NEW k \in 1..Len(r), r[k] = "cont" PROVE k > 1 /\ r[k - 1] = "lead"
  <2>1. CASE k <= from
    <3>1. s[k] = "cont" /\ k \in 1..Len(s)
      BY <1>0, <1>1, <1>5, <2>1
    <3>2. k > 1 /\ s[k - 1] = "lead"
      BY <1>3, <3>1 DEF Whole
    <3>. QED BY <1>0, <1>1, <2>1, <3>2
  <2>2. CASE k > from
    <3>. DEFINE l == k + d
    <3>1. l \in 1..Len(s) /\ r[k] = s[l]
      BY <1>0, <1>1, <2>2
    <3>2. l > 1 /\ s[l - 1] = "lead"
      <4>. HIDE DEF l
      <4>. QED BY <1>3, <1>5, <3>1 DEF Whole
    <3>3. k # from + 1
      BY <1>0, <1>2, <1>5, <3>1
    <3>4. k - 1 \in from + 1 .. Len(r) /\ l - 1 = (k - 1) + d
      BY <1>0, <1>1, <2>2, <3>3
    <3>5. r[k - 1] = s[(k - 1) + d]
      BY <1>1, <3>4
    <3>. QED BY <1>0, <3>2, <3>4, <3>5
  <2>. QED BY <1>0, <2>1, <2>2
<1>. QED BY <1>1, <1>4, <1>5 DEF Strings, Whole
-----------------------------------------------------------------------------
(***************************************************************************)
(* Text without a new line.                                                *)
(***************************************************************************)

\* Bytes with no newline between them are in one line.
LEMMA SpanFits ==
  ASSUME NEW s \in Strings, ColumnsFit(s), COLUMNS \in Nat,
         NEW from \in 0..Len(s), NEW to \in from..Len(s),
         \A k \in from + 1 .. to - 1 : s[k] # "nl"
  PROVE  to - from <= COLUMNS
<1>0. s \in Seq(Bytes) /\ Len(s) \in Nat /\ Whole(s)
  BY DEF Strings
<1>1. CASE from = to
  BY <1>0, <1>1
<1>2. CASE from < to
  <2>1. PICK p \in PositionsIn(s) : p \in 0..from /\ \A k \in p + 1 .. from : s[k] # "nl"
    <3>1. CASE s[from + 1] # "cont"
      BY <1>0, <1>2, <3>1 DEF PositionsIn
    <3>2. CASE s[from + 1] = "cont"
      <4>1. from + 1 \in 1..Len(s) /\ (from + 1) - 1 = from
        BY <1>0, <1>2
      <4>2. from > 0 /\ s[from] = "lead"
        BY <1>0, <3>2, <4>1 DEF Whole
      <4>3. from - 1 \in 0..Len(s) /\ (from - 1) + 1 = from
        BY <1>0, <4>2
      <4>4. from - 1 \in PositionsIn(s)
        BY <4>2, <4>3 DEF PositionsIn
      <4>. QED BY <4>2, <4>3, <4>4
    <3>. QED BY <3>1, <3>2
  <2>2. LineStart(s, p) \in 0..p /\ EndIn(s, p) \in p..Len(s)
        /\ BytesIn(s, p) <= COLUMNS
    BY <1>0, <2>1, LineStartIs, EndInIs DEF ColumnsFit
  <2>3. EndIn(s, p) >= to
    <3>. SUFFICES ASSUME EndIn(s, p) < to PROVE FALSE
      BY <1>0, <2>2
    <3>1. EndIn(s, p) > p /\ s[EndIn(s, p)] = "nl"
      BY <1>0, <2>1, <2>2, EndInIs
    <3>2. EndIn(s, p) \in p + 1 .. from \/ EndIn(s, p) \in from + 1 .. to - 1
      BY <1>0, <2>1, <2>2, <3>1
    <3>. QED BY <2>1, <3>1, <3>2
  <2>. QED BY <1>0, <2>1, <2>2, <2>3 DEF BytesIn
<1>. QED BY <1>0, <1>1, <1>2

\* n bytes without a newline lengthen the line at p only.
LEMMA InLineFits ==
  ASSUME NEW s \in Strings, ColumnsFit(s), COLUMNS \in Nat, NEW t,
         NEW p \in PositionsIn(s), NEW n \in Nat,
         \A k \in 1..n : t[k] # "nl", BytesIn(s, p) + n <= COLUMNS,
         NEW r, WithBytes(r, s, t, p, n)
  PROVE  ColumnsFit(r)
<1>. SUFFICES ASSUME NEW q \in PositionsIn(r) PROVE BytesIn(r, q) <= COLUMNS
  BY DEF ColumnsFit
<1>0. /\ s \in Seq(Bytes) /\ Len(s) \in Nat /\ p \in 0..Len(s)
  BY DEF Strings, PositionsIn
<1>1. /\ r \in Seq(Bytes) /\ Len(r) = Len(s) + n
      /\ \A k \in 1..p : r[k] = s[k]
      /\ \A k \in 1..n : r[p + k] = t[k]
      /\ \A k \in p + 1 .. Len(s) : r[n + k] = s[k]
  BY DEF WithBytes
<1>. DEFINE from == LineStart(r, q)
            to == EndIn(r, q)
<1>2. q \in 0..Len(r)
  BY DEF PositionsIn
<1>3. /\ from \in 0..q /\ (from # 0 => r[from] = "nl")
      /\ \A k \in 1..q : r[k] = "nl" => k <= from
  BY <1>0, <1>1, <1>2, LineStartIs
<1>4. /\ to \in q..Len(r) /\ (to # Len(r) => to > q /\ r[to] = "nl")
      /\ \A k \in q + 1 .. Len(r) : r[k] = "nl" => to <= k
  BY <1>1, <1>2, EndInIs
<1>. HIDE DEF from, to
<1>5. /\ from \in 0..Len(r) /\ to \in from..Len(r)
      /\ \A k \in from + 1 .. to - 1 : r[k] # "nl"
  <2>1. from \in 0..Len(r) /\ to \in from..Len(r)
    BY <1>0, <1>1, <1>2, <1>3, <1>4
  <2>2. ASSUME NEW k \in from + 1 .. to - 1, r[k] = "nl" PROVE FALSE
    <3>1. k \in 1..q \/ k \in q + 1 .. Len(r)
      BY <1>0, <1>1, <1>2, <2>1
    <3>. QED BY <1>2, <1>3, <1>4, <2>1, <2>2, <3>1
  <2>. QED BY <2>1, <2>2
<1>6. \A k \in p + 1 .. p + n : r[k] # "nl"
  <2>. SUFFICES ASSUME NEW k \in p + 1 .. p + n PROVE r[k] # "nl"
    OBVIOUS
  <2>1. k - p \in 1..n /\ k = p + (k - p)
    BY <1>0
  <2>. QED BY <1>1, <2>1
<1>7. CASE to <= p
  <2>1. from \in 0..Len(s) /\ to \in from..Len(s)
        /\ \A k \in from + 1 .. to - 1 : s[k] # "nl"
    BY <1>0, <1>1, <1>5, <1>7
  <2>. QED BY <2>1, SpanFits DEF BytesIn, from, to
<1>8. CASE from >= p + n
  <2>1. from - n \in 0..Len(s) /\ to - n \in (from - n)..Len(s)
    BY <1>0, <1>1, <1>5, <1>8
  <2>2. ASSUME NEW k \in (from - n) + 1 .. (to - n) - 1 PROVE s[k] # "nl"
    <3>1. k \in p + 1 .. Len(s) /\ n + k \in from + 1 .. to - 1
      BY <1>0, <1>1, <1>5, <1>8
    <3>. QED BY <1>1, <1>5, <3>1
  <2>3. (to - n) - (from - n) <= COLUMNS
    BY <2>1, <2>2, SpanFits
  <2>. QED BY <1>0, <1>1, <1>5, <2>3 DEF BytesIn, from, to
<1>9. CASE to > p /\ from < p + n
  <2>1. from <= p
    <3>. SUFFICES ASSUME from > p PROVE FALSE
      BY <1>0, <1>1, <1>5
    <3>1. from \in p + 1 .. p + n /\ from # 0
      BY <1>0, <1>1, <1>5, <1>9
    <3>. QED BY <1>3, <1>6, <3>1
  <2>2. to >= p + n
    <3>. SUFFICES ASSUME to < p + n PROVE FALSE
      BY <1>0, <1>1, <1>5
    <3>1. to \in p + 1 .. p + n /\ to # Len(r)
      BY <1>0, <1>1, <1>5, <1>9
    <3>. QED BY <1>4, <1>6, <3>1
  <2>3. /\ LineStart(s, p) \in 0..p
        /\ LineStart(s, p) # 0 => s[LineStart(s, p)] = "nl"
        /\ EndIn(s, p) \in p..Len(s)
        /\ EndIn(s, p) # Len(s) => EndIn(s, p) > p /\ s[EndIn(s, p)] = "nl"
    BY <1>0, LineStartIs, EndInIs
  <2>4. LineStart(s, p) <= from
    <3>. SUFFICES ASSUME LineStart(s, p) > from PROVE FALSE
      BY <1>0, <1>1, <1>5, <2>3
    <3>1. LineStart(s, p) \in 1..p /\ LineStart(s, p) \in from + 1 .. to - 1
      BY <1>0, <1>1, <1>5, <1>9, <2>3
    <3>2. s[LineStart(s, p)] = "nl"
      BY <2>3, <3>1
    <3>. QED BY <1>1, <1>5, <3>1, <3>2
  <2>5. to - n <= EndIn(s, p)
    <3>. SUFFICES ASSUME EndIn(s, p) < to - n PROVE FALSE
      BY <1>0, <1>1, <1>5, <2>3
    <3>1. EndIn(s, p) # Len(s)
      BY <1>0, <1>1, <1>5, <2>3
    <3>2. EndIn(s, p) \in p + 1 .. Len(s) /\ n + EndIn(s, p) \in from + 1 .. to - 1
      BY <1>0, <1>1, <1>5, <2>1, <2>3, <3>1
    <3>3. r[n + EndIn(s, p)] = "nl"
      BY <1>1, <2>3, <3>1, <3>2
    <3>. QED BY <1>5, <3>2, <3>3
  <2>. QED BY <1>0, <1>1, <1>5, <2>3, <2>4, <2>5 DEF BytesIn, from, to
<1>. QED BY <1>0, <1>1, <1>5, <1>7, <1>8, <1>9
-----------------------------------------------------------------------------
(***************************************************************************)
(* Lines are counted by their newlines.                                    *)
(***************************************************************************)

\* Every line that is new was begun by a newline that is new.
LEMMA InsertedLines ==
  ASSUME NEW s \in Seq(Bytes), NEW t, NEW p \in 0..Len(s), NEW n \in Nat,
         NEW r, WithBytes(r, s, t, p, n)
  PROVE  /\ LinesIn(s) \in Nat /\ LinesIn(r) \in Nat
         /\ Cardinality(NewlinesTo(t, n)) \in Nat
         /\ LinesIn(r) <= LinesIn(s) + Cardinality(NewlinesTo(t, n))
<1>. DEFINE Old == {k \in Newlines(r) : k <= p \/ k > p + n}
            New == {k \in Newlines(r) : k > p /\ k <= p + n}
            f == [k \in Old |-> IF k <= p THEN k ELSE k - n]
            g == [k \in New |-> k - p]
<1>0. Len(s) \in Nat
  OBVIOUS
<1>1. /\ Len(r) = Len(s) + n /\ Len(r) \in Nat
      /\ \A k \in 1..p : r[k] = s[k]
      /\ \A k \in 1..n : r[p + k] = t[k]
      /\ \A k \in p + 1 .. Len(s) : r[n + k] = s[k]
  BY <1>0 DEF WithBytes
<1>2. /\ IsFiniteSet(Newlines(s)) /\ Cardinality(Newlines(s)) \in Nat
      /\ IsFiniteSet(Newlines(r)) /\ Cardinality(Newlines(r)) \in Nat
      /\ IsFiniteSet(NewlinesTo(t, n)) /\ Cardinality(NewlinesTo(t, n)) \in Nat
  BY <1>0, <1>1, NewlinesFinite DEF Newlines
<1>3. f \in Injection(Old, Newlines(s))
  <2>1. ASSUME NEW k \in Old PROVE f[k] \in Newlines(s)
    <3>1. k \in 1..Len(r) /\ r[k] = "nl" /\ (k <= p \/ k > p + n)
      BY DEF Newlines, NewlinesTo
    <3>2. CASE k <= p
      BY <1>0, <1>1, <3>1, <3>2 DEF Newlines, NewlinesTo
    <3>3. CASE k > p + n
      <4>1. k - n \in p + 1 .. Len(s) /\ k = n + (k - n) /\ k - n \in 1..Len(s)
            /\ f[k] = k - n
        BY <1>0, <1>1, <3>1, <3>3
      <4>2. s[k - n] = "nl"
        BY <1>1, <3>1, <4>1
      <4>. QED BY <4>1, <4>2 DEF Newlines, NewlinesTo
    <3>. QED BY <3>1, <3>2, <3>3
  <2>2. \A k, l \in Old : f[k] = f[l] => k = l
    BY <1>0, <1>1 DEF Newlines, NewlinesTo
  <2>3. f \in [Old -> Newlines(s)]
    BY <2>1
  <2>. QED BY <2>2, <2>3 DEF Injection, IsInjective
<1>4. g \in Injection(New, NewlinesTo(t, n))
  <2>1. ASSUME NEW k \in New PROVE g[k] \in NewlinesTo(t, n)
    <3>1. k \in 1..Len(r) /\ r[k] = "nl" /\ k > p /\ k <= p + n
      BY DEF Newlines, NewlinesTo
    <3>2. k - p \in 1..n /\ k = p + (k - p) /\ g[k] = k - p
      BY <1>0, <1>1, <3>1
    <3>3. t[k - p] = "nl"
      BY <1>1, <3>1, <3>2
    <3>. QED BY <3>2, <3>3 DEF NewlinesTo
  <2>2. \A k, l \in New : g[k] = g[l] => k = l
    BY <1>0, <1>1 DEF Newlines, NewlinesTo
  <2>3. g \in [New -> NewlinesTo(t, n)]
    BY <2>1
  <2>. QED BY <2>2, <2>3 DEF Injection, IsInjective
<1>5. Newlines(r) = Old \cup New
  BY <1>0, <1>1 DEF Newlines, NewlinesTo
<1>6. Old \cap New = {}
  BY <1>0, <1>1 DEF Newlines, NewlinesTo
<1>. HIDE DEF f, g, Old, New
<1>7. IsFiniteSet(Old) /\ Cardinality(Old) <= Cardinality(Newlines(s))
  BY <1>2, <1>3, FS_Injection
<1>8. IsFiniteSet(New) /\ Cardinality(New) <= Cardinality(NewlinesTo(t, n))
  BY <1>2, <1>4, FS_Injection
<1>9. Cardinality(Newlines(r)) = Cardinality(Old) + Cardinality(New)
  <2>1. Cardinality(Old) \in Nat /\ Cardinality(New) \in Nat
    BY <1>7, <1>8, FS_CardinalityType
  <2>2. Cardinality(Old \cup New) = Cardinality(Old) + Cardinality(New)
                                    - Cardinality(Old \cap New)
    BY <1>7, <1>8, FS_Union
  <2>3. Cardinality(Old \cap New) = 0
    BY <1>6, FS_EmptySet
  <2>. QED BY <1>5, <2>1, <2>2, <2>3
<1>10. Cardinality(Old) \in Nat /\ Cardinality(New) \in Nat
  BY <1>7, <1>8, FS_CardinalityType
<1>. QED BY <1>2, <1>7, <1>8, <1>9, <1>10 DEF LinesIn

\* A deletion brings no new line.
LEMMA DeletedLines ==
  ASSUME NEW s \in Seq(Bytes), NEW p \in Nat, NEW d \in Nat,
         NEW r, WithoutBytes(r, s, p, d), p + d <= Len(s)
  PROVE  LinesIn(s) \in Nat /\ LinesIn(r) \in Nat /\ LinesIn(r) <= LinesIn(s)
<1>. DEFINE Left == Newlines(r)
            f == [k \in Left |-> IF k <= p THEN k ELSE k + d]
<1>0. Len(s) \in Nat
  OBVIOUS
<1>1. /\ Len(r) = Len(s) - d /\ Len(r) \in Nat
      /\ \A k \in 1..p : r[k] = s[k]
      /\ \A k \in p + 1 .. Len(r) : r[k] = s[k + d]
  BY <1>0 DEF WithoutBytes
<1>2. /\ IsFiniteSet(Newlines(s)) /\ Cardinality(Newlines(s)) \in Nat
      /\ IsFiniteSet(Newlines(r)) /\ Cardinality(Newlines(r)) \in Nat
  BY <1>0, <1>1, NewlinesFinite DEF Newlines
<1>3. f \in Injection(Left, Newlines(s))
  <2>1. ASSUME NEW k \in Left PROVE f[k] \in Newlines(s)
    <3>1. k \in 1..Len(r) /\ r[k] = "nl"
      BY DEF Newlines, NewlinesTo
    <3>2. CASE k <= p
      BY <1>0, <1>1, <3>1, <3>2 DEF Newlines, NewlinesTo
    <3>3. CASE k > p
      BY <1>0, <1>1, <3>1, <3>3 DEF Newlines, NewlinesTo
    <3>. QED BY <3>1, <3>2, <3>3
  <2>2. \A k, l \in Left : f[k] = f[l] => k = l
    BY <1>0, <1>1 DEF Newlines, NewlinesTo
  <2>3. f \in [Left -> Newlines(s)]
    BY <2>1
  <2>. QED BY <2>2, <2>3 DEF Injection, IsInjective
<1>. HIDE DEF f
<1>4. Cardinality(Newlines(r)) <= Cardinality(Newlines(s))
  BY <1>2, <1>3, FS_Injection
<1>. QED BY <1>2, <1>4 DEF LinesIn
-----------------------------------------------------------------------------
(***************************************************************************)
(* The steps of the model.                                                 *)
(***************************************************************************)

\* What an insertion does to the board, and how many new lines it brings.
LEMMA InsertTextDoes ==
  ASSUME Proper, board \in Strings, NEW t \in Texts, NEW p \in Positions, InsertText(t, p)
  PROVE  \E n \in 0..Len(t) :
           /\ WithBytes(board', board, t, p, n) /\ board' \in Strings
           /\ NewLines(t) = 0 =>
                /\ \A k \in 1..n : t[k] # "nl"
                /\ BytesIn(board, p) <= COLUMNS => BytesIn(board, p) + n <= COLUMNS
           /\ \A k \in 1..n : Cardinality(NewlinesTo(t, k - 1)) <= NewLines(t)
<1>. DEFINE n == InsertCount(t, p)
<1>0. /\ t \in Strings /\ t \in Seq(Bytes) /\ Len(t) \in Nat
      /\ board \in Seq(Bytes) /\ Len(board) \in Nat
      /\ ROWS \in Nat /\ COLUMNS \in Nat
      /\ p \in PositionsIn(board) /\ p \in 0..Len(board)
  BY OfBoard DEF Proper, Strings, PositionsIn
<1>1. Cut(t, n)
  BY <1>0, InLineCut, WithLinesCut DEF InsertCount
<1>2. n \in 0..Len(t)
  BY <1>1 DEF Cut
<1>3. NewLines(t) = 0 =>
        /\ \A k \in 1..n : t[k] # "nl"
        /\ BytesIn(board, p) <= COLUMNS => BytesIn(board, p) + n <= COLUMNS
  <2>1. LineBytes(p) = BytesIn(board, p)
    BY OfBoard
  <2>. QED BY <1>0, <2>1, InLineCut DEF InsertCount
<1>4. ASSUME NEW k \in 1..n PROVE Cardinality(NewlinesTo(t, k - 1)) <= NewLines(t)
  <2>1. CASE NewLines(t) = 0
    <3>1. NewlinesTo(t, k - 1) = {}
      BY <1>0, <1>2, <1>3, <2>1 DEF NewlinesTo
    <3>. QED BY <2>1, <3>1, FS_EmptySet
  <2>2. CASE NewLines(t) # 0
    BY <1>0, <2>2, WithLinesCut DEF InsertCount
  <2>. QED BY <2>1, <2>2
<1>5. board' = Inserted(board, t, p, n)
  BY DEF InsertText, Inserted
<1>. HIDE DEF n
<1>6. WithBytes(board', board, t, p, n)
  BY <1>0, <1>2, <1>5, InsertedBytes
<1>7. board' \in Strings
  BY <1>0, <1>1, <1>6, InsertedWhole
<1>. QED BY <1>2, <1>3, <1>4, <1>6, <1>7

\* A paste brings one newline more than there are rows for, at the most.
LEMMA InsertedRows ==
  ASSUME Proper, board \in Strings, NEW t \in Texts, NEW p \in Positions, InsertText(t, p)
  PROVE  /\ Lines \in Nat /\ Lines' \in Nat
         /\ Lines' <= Lines \/ Lines' <= ROWS + 1
         /\ NewLines(t) = 0 => Lines' <= Lines
<1>0. /\ t \in Strings /\ Len(t) \in Nat /\ board \in Seq(Bytes)
      /\ ROWS \in Nat /\ p \in 0..Len(board)
  BY OfBoard DEF Proper, Strings, PositionsIn
<1>1. PICK n \in 0..Len(t) :
        /\ WithBytes(board', board, t, p, n)
        /\ NewLines(t) = 0 => \A k \in 1..n : t[k] # "nl"
        /\ \A k \in 1..n : Cardinality(NewlinesTo(t, k - 1)) <= NewLines(t)
  BY InsertTextDoes
<1>. DEFINE c == Cardinality(NewlinesTo(t, n))
<1>2. Lines \in Nat /\ Lines' \in Nat /\ c \in Nat /\ Lines' <= Lines + c
  <2>1. n \in Nat
    BY <1>0
  <2>. QED BY <1>0, <1>1, <2>1, InsertedLines, OfBoard
<1>3. NewLines(t) \in Nat /\ (Lines <= ROWS => NewLines(t) <= ROWS - Lines)
      /\ (NewLines(t) > 0 => Lines < ROWS)
  BY <1>0, NewLinesIs
<1>4. NewLines(t) = 0 => c = 0
  <2>. SUFFICES ASSUME NewLines(t) = 0 PROVE c = 0
    OBVIOUS
  <2>1. NewlinesTo(t, n) = {}
    BY <1>0, <1>1 DEF NewlinesTo
  <2>. QED BY <2>1, FS_EmptySet
<1>5. c <= NewLines(t) + 1
  <2>1. CASE n = 0
    <3>1. NewlinesTo(t, n) = {}
      BY <2>1 DEF NewlinesTo
    <3>. QED BY <1>3, <3>1, FS_EmptySet
  <2>2. CASE n > 0
    <3>. DEFINE Before == NewlinesTo(t, n - 1)
    <3>1. n \in 1..n /\ n - 1 \in Nat /\ n \in Nat
      BY <1>0, <2>2
    <3>2. IsFiniteSet(Before) /\ Cardinality(Before) \in Nat
          /\ Cardinality(Before) <= NewLines(t)
      BY <1>1, <3>1, NewlinesFinite
    <3>3. NewlinesTo(t, n) \subseteq Before \cup {n}
      BY <3>1 DEF NewlinesTo
    <3>. HIDE DEF Before
    <3>4. IsFiniteSet(Before \cup {n}) /\ Cardinality(Before \cup {n}) \in Nat
          /\ Cardinality(Before \cup {n}) <= Cardinality(Before) + 1
      <4>1. /\ IsFiniteSet(Before \cup {n})
            /\ Cardinality(Before \cup {n}) =
                 IF n \in Before THEN Cardinality(Before) ELSE Cardinality(Before) + 1
        BY <3>2, FS_AddElement
      <4>. HIDE DEF c
      <4>. QED BY <3>2, <4>1
    <3>5. c <= Cardinality(Before \cup {n})
      BY <3>3, <3>4, FS_Subset
    <3>. QED BY <1>2, <1>3, <3>2, <3>4, <3>5
  <2>. QED BY <1>0, <2>1, <2>2
<1>. HIDE DEF c
<1>. QED BY <1>0, <1>2, <1>3, <1>4, <1>5

\* What a deletion does to the board.
LEMMA DeleteTextDoes ==
  ASSUME board \in Strings, NEW from \in Positions, NEW to \in Positions,
         DeleteText(from, to)
  PROVE  board' \in Strings /\ Lines \in Nat /\ Lines' \in Nat /\ Lines' <= Lines
<1>. DEFINE d == to - from
<1>0. /\ board \in Seq(Bytes) /\ Len(board) \in Nat
      /\ from \in PositionsIn(board) /\ to \in PositionsIn(board)
      /\ from \in 0..Len(board) /\ to \in from..Len(board) /\ from < to
      /\ from \in Nat /\ d \in Nat /\ from + d <= Len(board)
  BY OfBoard DEF Strings, PositionsIn, DeleteText
<1>1. board' = Deleted(board, from, to)
  BY DEF DeleteText, Deleted
<1>2. WithoutBytes(board', board, from, d)
  BY <1>0, <1>1, DeletedBytes
<1>3. board' \in Strings
  BY <1>0, <1>2, DeletedWhole
<1>. HIDE DEF d
<1>4. LinesIn(board) \in Nat /\ LinesIn(board') \in Nat
      /\ LinesIn(board') <= LinesIn(board)
  BY <1>0, <1>2, DeletedLines
<1>. QED BY <1>3, <1>4, OfBoard

\* Nothing but whole characters is ever on the board.
LEMMA BoardWhole ==
  ASSUME Proper
  PROVE  Spec => [](board \in Strings)
<1>1. Init => board \in Strings
  BY DEF Init, Strings, Whole
<1>2. board \in Strings /\ [Next]_board => (board \in Strings)'
  <2>. SUFFICES ASSUME board \in Strings, [Next]_board PROVE board' \in Strings
    OBVIOUS
  <2>1. ASSUME NEW t \in Texts, NEW p \in Positions, InsertText(t, p)
        PROVE  board' \in Strings
    BY <2>1, InsertTextDoes
  <2>2. ASSUME NEW from \in Positions, NEW to \in Positions, DeleteText(from, to)
        PROVE  board' \in Strings
    BY <2>2, DeleteTextDoes
  <2>. QED BY <2>1, <2>2 DEF Next
<1>. QED BY <1>1, <1>2, PTL DEF Spec
-----------------------------------------------------------------------------
(***************************************************************************)
(* The handler cuts what it is given at any byte, and boards are lists of  *)
(* bytes: even so a character of two bytes is inserted and deleted whole   *)
(* (gui.c:103-104).                                                        *)
(***************************************************************************)
CharactersWhole ==
  /\ \A n \in 1..Len(board) : board[n] = "lead" => n < Len(board) /\ board[n + 1] = "cont"
  /\ \A n \in 1..Len(board) : board[n] = "cont" => n > 1 /\ board[n - 1] = "lead"

\* No character is ever cut, for every text a user can paste.
THEOREM CharactersStayWhole ==
  ASSUME Proper
  PROVE  Spec => []CharactersWhole
<1>1. board \in Strings => CharactersWhole
  BY DEF CharactersWhole, Strings, Whole
<1>. QED BY <1>1, BoardWhole, PTL

(***************************************************************************)
(* Whatever is pasted, and however often, the board exceeds its rows by    *)
(* one at the most: a newline that would be cut for its line's sake is     *)
(* inserted (gui.c:147-159).                                               *)
(***************************************************************************)
RowsBounded == Lines <= ROWS + 1

\* One row more than the board has is the worst that pasting leads to.
THEOREM RowsStayBounded ==
  ASSUME Proper
  PROVE  Spec => []RowsBounded
<1>1. Init => RowsBounded
  <2>. SUFFICES ASSUME Init PROVE RowsBounded
    OBVIOUS
  <2>1. Newlines(board) = {}
    BY DEF Init, Newlines, NewlinesTo
  <2>2. Lines = 1
    BY <2>1, FS_EmptySet DEF Lines
  <2>. QED BY <2>2 DEF RowsBounded, Proper
<1>2. board \in Strings /\ RowsBounded /\ [Next]_board => RowsBounded'
  <2>. SUFFICES ASSUME board \in Strings, RowsBounded, [Next]_board PROVE RowsBounded'
    OBVIOUS
  <2>1. ASSUME NEW t \in Texts, NEW p \in Positions, InsertText(t, p) PROVE RowsBounded'
    <3>1. /\ Lines \in Nat /\ Lines' \in Nat /\ ROWS \in Nat
          /\ Lines' <= Lines \/ Lines' <= ROWS + 1
      BY <2>1, InsertedRows DEF Proper
    <3>. QED BY <3>1 DEF RowsBounded
  <2>2. ASSUME NEW from \in Positions, NEW to \in Positions, DeleteText(from, to)
        PROVE  RowsBounded'
    <3>1. Lines \in Nat /\ Lines' \in Nat /\ Lines' <= Lines /\ ROWS \in Nat
      BY <2>2, DeleteTextDoes DEF Proper
    <3>. QED BY <3>1 DEF RowsBounded
  <2>3. CASE UNCHANGED board
    BY <2>3, OfBoard DEF RowsBounded
  <2>. QED BY <2>1, <2>2, <2>3 DEF Next
<1>. QED BY <1>1, <1>2, BoardWhole, PTL DEF Spec

(***************************************************************************)
(* Typed characters, and a paste for which no new line is left or needed,  *)
(* leave a board that fits: the violation of InsertKeepsBounds needs a     *)
(* paste with a newline (gui.c:110-126).                                   *)
(***************************************************************************)
InLineKeepsBounds ==
  [][\A t \in Texts, p \in Positions :
       NewLines(t) = 0 /\ FitsBoard /\ InsertText(t, p) => FitsBoard']_board

\* Without a new line, the bounds are kept.
THEOREM InLineStaysInBounds ==
  ASSUME Proper
  PROVE  Spec => InLineKeepsBounds
<1>1. board \in Strings =>
        [\A t \in Texts, p \in Positions :
           NewLines(t) = 0 /\ FitsBoard /\ InsertText(t, p) => FitsBoard']_board
  <2>. SUFFICES ASSUME board \in Strings, NEW t \in Texts, NEW p \in Positions,
                       NewLines(t) = 0, FitsBoard, InsertText(t, p)
                PROVE  FitsBoard'
    OBVIOUS
  <2>0. /\ ROWS \in Nat /\ COLUMNS \in Nat /\ p \in PositionsIn(board)
        /\ Len(t) \in Nat /\ ColumnsFit(board) /\ Lines <= ROWS
    BY OfBoard DEF Proper, Strings
  <2>1. PICK n \in 0..Len(t) :
          /\ WithBytes(board', board, t, p, n)
          /\ \A k \in 1..n : t[k] # "nl"
          /\ BytesIn(board, p) <= COLUMNS => BytesIn(board, p) + n <= COLUMNS
    BY InsertTextDoes
  <2>2. ColumnsFit(board')
    <3>1. n \in Nat /\ BytesIn(board, p) + n <= COLUMNS
      BY <2>0, <2>1 DEF ColumnsFit
    <3>. QED BY <2>0, <2>1, <3>1, InLineFits
  <2>3. Lines' <= ROWS
    <3>1. Lines \in Nat /\ Lines' \in Nat /\ Lines' <= Lines
      BY InsertedRows
    <3>. QED BY <2>0, <3>1
  <2>. QED BY <2>2, <2>3, OfBoard
<1>. QED BY <1>1, BoardWhole, PTL DEF InLineKeepsBounds
=============================================================================
