------------------------------ MODULE TextBuffer -------------------------------
(***************************************************************************)
(* The text, cursor, undo stack and search of the note editor, as          *)
(* operators from one buffer to the next.                                  *)
(*                                                                         *)
(* A line is a sequence of characters.  Of characters there are three      *)
(* kinds to tell apart: letters, blanks, and a bullet, which stands for    *)
(* the prefix of a list item ("- ", "1. ", with its indentation) at the    *)
(* start of a line and is a letter elsewhere.  Rows count from 1; a column *)
(* is the number of characters before the cursor.                          *)
(*                                                                         *)
(* An operator that reads the cursor's line is defined on a buffer whose   *)
(* cursor is on one: InText; the code indexes the line and panics where    *)
(* there is none.                                                          *)
(***************************************************************************)
EXTENDS Naturals, Sequences, SequencesExt

Blank == " "
Bullet == "-"
Letter == "w"

Least(a, b) == IF a < b THEN a ELSE b
Between(n, low, high) == IF n < low THEN low ELSE Least(n, high)

InText(b) == b.row \in 1..Len(b.lines)

Line(b) == b.lines[b.row]

\* Where edits take place: the column, or the end of a shorter line.
EditColumn(b) == Least(b.col, Len(Line(b)))

Before(b) == SubSeq(Line(b), 1, EditColumn(b))
After(b) == SubSeq(Line(b), EditColumn(b) + 1, Len(Line(b)))

LastColumn(b, r) ==
    LET n == Len(b.lines[r]) IN IF b.mode = "normal" /\ n > 0 THEN n - 1 ELSE n

ClampCursor(b) ==
    LET r == Between(b.row, 1, Len(b.lines))
    IN  [b EXCEPT !.row = r, !.col = Between(@, 0, LastColumn(b, r))]

--------------------------------------------------------------------------------
(* Undo.                                                                    *)

PushUndo(b) ==
    [b EXCEPT !.undo = Append(@, [lines |-> b.lines, row |-> b.row, col |-> b.col])]

\* Variants, each named for a bug, stand before the definitions they vary and
\* are used nowhere: they are the mistakes that the properties must notice.
UndoSilently(b) ==
    IF b.undo = <<>>
    THEN b
    ELSE LET last == Last(b.undo)
         IN  [b EXCEPT !.undo = Front(@), !.lines = last.lines, !.row = last.row,
                       !.col = last.col]

Undo(b) ==
    IF b.undo = <<>>
    THEN b
    ELSE LET last == Last(b.undo)
         IN  [b EXCEPT !.undo = Front(@), !.lines = last.lines, !.row = last.row,
                       !.col = last.col, !.dirty = TRUE]

--------------------------------------------------------------------------------
(* Edits.  Each pushes the text it found.                                   *)

WithLine(b, line, col) == [b EXCEPT !.lines[b.row] = line, !.col = col, !.dirty = TRUE]
WithLines(b, lines, row, col) ==
    [b EXCEPT !.lines = lines, !.row = row, !.col = col, !.dirty = TRUE]

InsertRune(b, c) == WithLine(PushUndo(b), Before(b) \o <<c>> \o After(b), EditColumn(b) + 1)

InsertString(b, s) ==
    LET typed[n \in 0..Len(s)] == IF n = 0 THEN b ELSE InsertRune(typed[n - 1], s[n])
    IN  typed[Len(s)]

InsertTab(b) ==
    WithLine(PushUndo(b), Before(b) \o <<Blank, Blank>> \o After(b), EditColumn(b) + 2)

\* Past the end of an empty line there is no character to remove: a panic.
CanBackspace(b) == InText(b) /\ (b.col > 0 => Line(b) # <<>>)

Backspace(b) ==
    IF b.col > 0
    THEN WithLine(PushUndo(b), Front(Before(b)) \o After(b), EditColumn(b) - 1)
    ELSE IF b.row > 1
    THEN LET above == b.lines[b.row - 1]
         IN  WithLines(PushUndo(b),
                       RemoveAt(ReplaceAt(b.lines, b.row - 1, above \o Line(b)), b.row),
                       b.row - 1, Len(above))
    ELSE PushUndo(b)

DeleteChar(b) ==
    ClampCursor(IF After(b) = <<>>
                THEN PushUndo(b)
                ELSE [WithLine(PushUndo(b), Before(b) \o Tail(After(b)), b.col)
                         EXCEPT !.clipboard = << <<Head(After(b))>> >>])

DeleteLineBelowCursor(b) ==
    LET cut == [PushUndo(b) EXCEPT !.clipboard = <<Line(b)>>]
    IN  IF Len(b.lines) = 1
        THEN WithLines(cut, << <<>> >>, b.row, 0)
        ELSE WithLines(cut, RemoveAt(b.lines, b.row), b.row, b.col)

DeleteLine(b) ==
    LET cut == [PushUndo(b) EXCEPT !.clipboard = <<Line(b)>>]
    IN  ClampCursor(IF Len(b.lines) = 1
                    THEN WithLines(cut, << <<>> >>, b.row, 0)
                    ELSE WithLines(cut, RemoveAt(b.lines, b.row), b.row, b.col))

Letters(s) ==
    CHOOSE i \in 0..Len(s) : /\ \A j \in 1..i : s[j] # Blank
                             /\ i < Len(s) => s[i + 1] = Blank
Blanks(s) ==
    CHOOSE i \in 0..Len(s) : /\ \A j \in 1..i : s[j] = Blank
                             /\ i < Len(s) => s[i + 1] # Blank

Beyond(s, n) == SubSeq(s, n + 1, Len(s))
WithoutIndent(s) == Beyond(s, Blanks(s))

\* The next word begins after the letters and then the blanks from here.
WordLength(s) == Letters(s) + Blanks(Beyond(s, Letters(s)))

IsItem(line) == line # <<>> /\ Head(line) = Bullet
HasText(line) == \E i \in 1..Len(line) : line[i] # Blank

\* The prefix that the line after this one begins with.
NextPrefix(line) == IF IsItem(line) THEN <<Bullet>> ELSE <<>>

SplitLineUnsaved(b) ==
    LET item == IsItem(Line(b)) /\ EditColumn(b) >= 1
        prefix == IF item THEN NextPrefix(Line(b)) ELSE <<>>
    IN  IF item /\ ~HasText(Tail(Line(b)))
        THEN WithLine(b, <<>>, 0)
        ELSE WithLines(PushUndo(b),
                       InsertAt(ReplaceAt(b.lines, b.row, Before(b)), b.row + 1,
                                prefix \o After(b)),
                       b.row + 1, Len(prefix))

SplitLine(b) ==
    LET item == IsItem(Line(b)) /\ EditColumn(b) >= 1
        prefix == IF item THEN NextPrefix(Line(b)) ELSE <<>>
    IN  IF item /\ ~HasText(Tail(Line(b)))
        THEN WithLine(PushUndo(b), <<>>, 0)
        ELSE WithLines(PushUndo(b),
                       InsertAt(ReplaceAt(b.lines, b.row, Before(b)), b.row + 1,
                                prefix \o After(b)),
                       b.row + 1, Len(prefix))

OpenLineBelow(b) ==
    LET prefix == IF IsItem(Line(b)) /\ HasText(Tail(Line(b))) THEN NextPrefix(Line(b)) ELSE <<>>
    IN  [WithLines(PushUndo(b), InsertAt(b.lines, b.row + 1, prefix), b.row + 1, Len(prefix))
            EXCEPT !.mode = "insert"]

\* The line above the one after the last can be opened too.
CanOpenLineAbove(b) == b.row <= Len(b.lines) + 1

OpenLineAbove(b) ==
    [WithLines(PushUndo(b), InsertAt(b.lines, b.row, <<>>), b.row, 0)
        EXCEPT !.mode = "insert"]

DeleteToEndOfLine(b) ==
    ClampCursor([WithLine(PushUndo(b), Before(b), b.col) EXCEPT !.clipboard = <<After(b)>>])

DeleteWord(b) ==
    LET n == WordLength(After(b))
    IN  ClampCursor([WithLine(PushUndo(b), Before(b) \o Beyond(After(b), n), b.col)
                        EXCEPT !.clipboard = <<SubSeq(After(b), 1, n)>>])

ChangeLine(b) ==
    [WithLine(PushUndo(b), <<>>, 0) EXCEPT !.clipboard = <<Line(b)>>, !.mode = "insert"]
ChangeToEndOfLine(b) == [DeleteToEndOfLine(b) EXCEPT !.mode = "insert"]
ChangeWord(b) == [DeleteWord(b) EXCEPT !.mode = "insert"]

YankLine(b) == [b EXCEPT !.clipboard = <<Line(b)>>]

\* The clipboard has one element at most, so a yanked line too goes into the
\* line of the cursor.
Paste(b) ==
    LET col == Least(b.col + 1, Len(Line(b)))
        text == b.clipboard[1]
        end == col + Len(text)
    IN  ClampCursor(WithLine(PushUndo(b),
                             SubSeq(Line(b), 1, col) \o text \o Beyond(Line(b), col),
                             IF end > 0 THEN end - 1 ELSE 0))

CanJoinLines(b) == b.row < Len(b.lines)

Joined(b) ==
    LET below == WithoutIndent(b.lines[b.row + 1])
        space == IF Line(b) # <<>> /\ below # <<>> THEN <<Blank>> ELSE <<>>
    IN  RemoveAt(ReplaceAt(b.lines, b.row, Line(b) \o space \o below), b.row + 1)

JoinLines(b) ==
    IF ~CanJoinLines(b) THEN b ELSE WithLines(PushUndo(b), Joined(b), b.row, Len(Line(b)))

\* Blanks at the ends of lines go, and with them the blank that makes a lone
\* prefix a prefix.  (Tabs, headings, fences and the numbers of items are left
\* out: they change letters, never lines.)
Formatted(line) ==
    LET trimmed == Reverse(WithoutIndent(Reverse(line)))
    IN  IF trimmed = <<Bullet>> THEN <<Letter>> ELSE trimmed

FormatDocument(b) ==
    ClampCursor([PushUndo(b) EXCEPT !.lines = [i \in DOMAIN @ |-> Formatted(@[i])],
                                    !.dirty = TRUE])

--------------------------------------------------------------------------------
(* Moves.                                                                   *)

MoveTo(b, col) == [b EXCEPT !.col = col]

MoveLeft(b) == MoveTo(b, IF b.col > 0 THEN b.col - 1 ELSE 0)
MoveRight(b) == MoveTo(b, IF b.col < LastColumn(b, b.row) THEN b.col + 1 ELSE b.col)
MoveUp(b) == IF b.row > 1 THEN ClampCursor([b EXCEPT !.row = @ - 1]) ELSE b
MoveDown(b) == IF b.row < Len(b.lines) THEN ClampCursor([b EXCEPT !.row = @ + 1]) ELSE b
MoveToLineStart(b) == MoveTo(b, 0)
MoveToLineEnd(b) == MoveTo(b, LastColumn(b, b.row))
MoveToTop(b) == ClampCursor([b EXCEPT !.row = 1])
MoveToBottom(b) == ClampCursor([b EXCEPT !.row = Len(b.lines)])

MoveToFirstNonBlank(b) ==
    MoveTo(b, IF HasText(Line(b)) THEN Blanks(Line(b)) ELSE 0)

MoveWordForward(b) == ClampCursor(MoveTo(b, EditColumn(b) + WordLength(After(b))))

MoveWordBackward(b) ==
    LET back == Reverse(Before(b))
    IN  MoveTo(b, EditColumn(b) - Blanks(back) - Letters(WithoutIndent(back)))

\* To the end of this word, or of the next one from the end of a word.
MoveWordEnd(b) ==
    LET n == Len(Line(b))
        start == EditColumn(b) + (IF EditColumn(b) < n THEN 1 ELSE 0)
        ends == {i \in start..n - 1 :
                   Line(b)[i + 1] # Blank /\ (i + 1 < n => Line(b)[i + 2] = Blank)}
    IN  MoveTo(b, IF ends # {} THEN CHOOSE i \in ends : \A j \in ends : i <= j
                  ELSE IF n > 0 THEN n - 1 ELSE 0)

--------------------------------------------------------------------------------
(* Search.  The matches are those of the text as it was when the query was  *)
(* run: no edit looks at them again.                                        *)

\* The columns of a line where the query is found.
ColumnsFound(line, q) ==
    LET found[n \in 0..Len(line)] ==
          IF n = 0 THEN <<>>
          ELSE IF n - 1 + Len(q) <= Len(line) /\ SubSeq(line, n, n - 1 + Len(q)) = q
          THEN Append(found[n - 1], n - 1)
          ELSE found[n - 1]
    IN  found[Len(line)]

InRow(r, columns) == [i \in DOMAIN columns |-> [row |-> r, col |-> columns[i]]]

\* The query is not empty.
Matches(b) ==
    LET found[r \in 0..Len(b.lines)] ==
          IF r = 0 THEN <<>>
          ELSE found[r - 1] \o InRow(r, ColumnsFound(b.lines[r], b.query))
    IN  found[Len(b.lines)]

GoToMatch(b, i) ==
    [b EXCEPT !.index = i, !.row = b.matches[i].row, !.col = b.matches[i].col]

ExecuteSearch(b) ==
    LET found == IF b.query = <<>> THEN <<>> ELSE Matches(b)
        searched == [b EXCEPT !.matches = found, !.index = 1, !.active = found # <<>>]
        ahead == {i \in DOMAIN found :
                    \/ found[i].row > b.row
                    \/ found[i].row = b.row /\ found[i].col >= b.col}
    IN  IF found = <<>> THEN searched
        ELSE GoToMatch(searched, IF ahead = {} THEN 1 ELSE CHOOSE i \in ahead : \A j \in ahead : i <= j)

SearchNext(b, dir) ==
    LET n == Len(b.matches)
    IN  IF ~b.active \/ n = 0
        THEN IF b.query = <<>> THEN b ELSE ExecuteSearch(b)
        ELSE GoToMatch(b, ((b.index - 1 + (IF dir = "next" THEN 1 ELSE n - 1)) % n) + 1)

================================================================================
