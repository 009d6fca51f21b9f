-------------------------------- MODULE Editor ---------------------------------
(***************************************************************************)
(* The editor of notes: its modes and keys over TextBuffer, and what :w    *)
(* makes of the text.  The event loop handles one key at a time and waits  *)
(* for the command a key issues, so a save and its outcome are one step,   *)
(* with the flags that carry "and quit" from one to the other; only the    *)
(* check of the connection comes in between keys.                          *)
(*                                                                         *)
(* What is typed at a prompt is one step from the colon or the slash to    *)
(* the Enter, and a command of two letters is one key: in between nothing  *)
(* changes but the prompt.                                                 *)
(*                                                                         *)
(* One program edits; the notes are its own.  What another client saves    *)
(* meanwhile is overwritten without a word, and is left out.  Session and  *)
(* title, which are stored as one text, are one here: empty or not.        *)
(***************************************************************************)
EXTENDS TextBuffer, FiniteSets, FiniteSetsExt

CONSTANTS
    Bodies,           \* the bodies of the notes there are at first
    TypedCharacters,  \* the characters that are typed
    Reference,        \* what the reference picker inserts
    SearchQueries,    \* what is searched for
    MaxNotes,         \* a bound on the notes ever made
    MaxOpened,        \* a bound on the times the editor is opened
    MaxLines,         \* a bound on the lines of a text
    MaxLength,        \* a bound on the length of a line
    MaxUndo           \* a bound on the undo stack

VARIABLES
    screen,      \* what the program shows: "list", "editor", "disconnected", or its end
    e,           \* the editor, while it is shown
    notes,       \* the notes in the database, in the order they were made
    opened       \* how often the editor was opened

editorVars == <<screen, e, notes, opened>>

Titles == {"", "titled"}
Focuses == <<"session", "title", "body">>

Note == [title : Titles, lines : Seq(Seq({Letter, Blank, Bullet}))]

NoEditor == [mode |-> "closed"]

--------------------------------------------------------------------------------
(* Notes and their text.                                                    *)

\* A body is stored without blanks and empty lines at either end.
Trimmed(lines) ==
    LET full == {r \in DOMAIN lines : HasText(lines[r])}
        kept == SubSeq(lines, Min(full), Max(full))
        head == ReplaceAt(kept, 1, WithoutIndent(kept[1]))
    IN  IF full = {}
        THEN << <<>> >>
        ELSE ReplaceAt(head, Len(head), Reverse(WithoutIndent(Reverse(head[Len(head)]))))

ASSUME EditorAssumption ==
    /\ TypedCharacters \subseteq {Letter, Blank, Bullet} /\ Reference \in Seq({Letter})
    /\ Bodies \subseteq Seq(Seq({Letter, Blank, Bullet})) /\ << >> \notin Bodies
    /\ \A t \in Bodies : Trimmed(t) = t
    /\ SearchQueries \subseteq Seq({Letter, Blank, Bullet})
    /\ {MaxNotes, MaxOpened, MaxLines, MaxLength, MaxUndo} \subseteq Nat

Content == [title |-> e.title, lines |-> Trimmed(e.lines)]

OpenedOn(command, key, title, lines) ==
    [command |-> command, key |-> key, title |-> title,
     lines |-> lines, opened |-> lines, row |-> 1, col |-> 0, dirty |-> FALSE,
     mode |-> "normal", focus |-> "body", picking |-> FALSE,
     undo |-> <<>>, clipboard |-> <<>>,
     query |-> <<>>, matches |-> <<>>, index |-> 1, active |-> FALSE]

EditorInit ==
    /\ screen = "list" /\ e = NoEditor
    /\ notes \in {<<>>} \cup { << [title |-> "titled", lines |-> t] >> : t \in Bodies}
    /\ opened = 0

\* A new note begins with the number of the next session for its title.
openEditor ==
    /\ screen = "list" /\ opened < MaxOpened
    /\ screen' = "editor"
    /\ opened' = opened + 1
    /\ e' = [OpenedOn("notes.create", 0, "titled", << <<>> >>)
                EXCEPT !.mode = "insert", !.focus = "title"]
    /\ UNCHANGED notes

openEditorFromAction ==
    /\ screen = "list" /\ opened < MaxOpened
    /\ screen' = "editor"
    /\ opened' = opened + 1
    /\ \E k \in DOMAIN notes :
         e' = OpenedOn("notes.update", k, notes[k].title, notes[k].lines)
    /\ UNCHANGED notes

--------------------------------------------------------------------------------
(* Keys.  A key that is not handled changes nothing.                        *)

Fits(b) ==
    /\ Len(b.lines) <= MaxLines
    /\ \A r \in DOMAIN b.lines : Len(b.lines[r]) <= MaxLength
    /\ Len(b.undo) <= MaxUndo

Keep == UNCHANGED <<screen, notes, opened>>

Become(b) == Fits(b) /\ e' = b /\ Keep

Editing(mode, focuses) ==
    /\ screen = "editor" /\ ~e.picking
    /\ e.mode = mode /\ e.focus \in focuses

Headers == {"session", "title"}

\* j, k, Tab and the arrows go around session, title and body.
AdvanceFocus(b, delta) ==
    LET i == CHOOSE i \in DOMAIN Focuses : Focuses[i] = b.focus
    IN  [b EXCEPT !.focus = Focuses[((i - 1 + delta) % 3) + 1]]

FocusKey ==
    /\ \/ Editing("normal", Headers \cup {"body"})
       \/ Editing("insert", Headers)
    /\ \E delta \in {1, 2} : Become(AdvanceFocus(e, delta))

HeaderNormalKey ==
    /\ Editing("normal", Headers)
    /\ Become([e EXCEPT !.mode = "insert"])

HeaderEscape ==
    /\ Editing("insert", Headers)
    /\ Become([e EXCEPT !.mode = "normal"])

\* Session and title are one text to the database.  Typing makes it one;
\* removing leaves some of it or nothing.
TitleKey ==
    /\ Editing("insert", Headers)
    /\ \/ Become([e EXCEPT !.title = "titled", !.dirty = TRUE])
       \/ /\ e.title # ""
          /\ \E t \in Titles : Become([e EXCEPT !.title = t, !.dirty = TRUE])

MotionKey ==
    /\ Editing("normal", {"body"})
    /\ \/ \E b \in {MoveLeft(e), MoveUp(e), MoveDown(e), MoveToLineStart(e), MoveToTop(e),
                     MoveToBottom(e)} : Become(b)
       \/ /\ InText(e)
          /\ \E b \in {MoveRight(e), MoveToLineEnd(e), MoveToFirstNonBlank(e),
                       MoveWordForward(e), MoveWordEnd(e), MoveWordBackward(e)} : Become(b)

EscapeKey ==
    /\ Editing("normal", {"body"})
    /\ Become([e EXCEPT !.active = FALSE, !.matches = <<>>])

\* d, c and y with the letter after them, and D and C.
TwoKey ==
    /\ Editing("normal", {"body"})
    /\ InText(e)
    /\ \E b \in {DeleteLine(e), DeleteWord(e), DeleteToEndOfLine(e), ChangeLine(e),
                 ChangeWord(e), ChangeToEndOfLine(e), YankLine(e)} : Become(b)

EditKey ==
    /\ Editing("normal", {"body"})
    /\ \/ /\ InText(e)
          /\ \E b \in {OpenLineBelow(e), DeleteChar(e)} : Become(b)
       \/ InText(e) /\ e.clipboard # <<>> /\ Become(Paste(e))
       \/ Become(JoinLines(e))
       \/ CanOpenLineAbove(e) /\ Become(OpenLineAbove(e))
       \/ Become(Undo(e))

InsertModeKey ==
    /\ Editing("normal", {"body"})
    /\ \/ Become([e EXCEPT !.mode = "insert"])
       \/ /\ InText(e)
          /\ \E b \in {MoveToFirstNonBlank(e), MoveRight(e), MoveToLineEnd(e)} :
               Become([b EXCEPT !.mode = "insert"])

NextMatchKey ==
    /\ Editing("normal", {"body"})
    /\ \E dir \in {"next", "previous"} : Become(SearchNext(e, dir))

\* The query; nothing typed clears the matches, as Escape does.
EditorSearchKey ==
    /\ Editing("normal", {"body"})
    /\ \E q \in SearchQueries \cup {<<>>} : Become(ExecuteSearch([e EXCEPT !.query = q]))

InsertKey ==
    /\ Editing("insert", {"body"})
    /\ \/ Become(ClampCursor([e EXCEPT !.mode = "normal"]))
       \/ Become([e EXCEPT !.picking = TRUE])
       \/ \E b \in {MoveLeft(e), MoveUp(e), MoveDown(e)} : Become(b)
       \/ /\ InText(e)
          /\ \E b \in {MoveRight(e), InsertTab(e), SplitLine(e)}
                        \cup {InsertRune(e, c) : c \in TypedCharacters} : Become(b)
       \/ CanBackspace(e) /\ Become(Backspace(e))

\* The picker closes with a reference, which is typed, or without.
RefPickerKey ==
    /\ screen = "editor" /\ e.picking
    /\ LET b == [e EXCEPT !.picking = FALSE]
       IN  \/ Become(b)
           \/ InText(e) /\ Become(InsertString(b, Reference))

\* Of a cursor that is on no line, or past the end of an empty one, most keys
\* end the program by indexing the text: edits, moves along the line, and what
\* inserts.
LostKey ==
    /\ screen = "editor" /\ e.focus = "body"
    /\ \/ ~InText(e)
       \/ e.mode = "insert" /\ ~e.picking /\ ~CanBackspace(e)
    /\ screen' = "crashed" /\ e' = NoEditor
    /\ UNCHANGED <<notes, opened>>

--------------------------------------------------------------------------------
(* Commands.                                                                *)

Prompted == Editing("normal", Headers \cup {"body"})

StoreNote ==
    IF e.command = "notes.update"
    THEN [notes EXCEPT ![e.key] = Content]
    ELSE Append(notes, Content)

\* A note must have a session or a title.
\*
\* Variants, each named for a bug, stand before the definitions they vary and
\* are used nowhere: they are the mistakes that the properties must notice.
CanStoreUntitled == Len(StoreNote) <= MaxNotes

CanStore == e.title # "" /\ Len(StoreNote) <= MaxNotes

\* The command succeeds and the shell reloads.
SaveStored(quit) ==
    /\ Prompted /\ CanStore
    /\ notes' = StoreNote
    /\ screen' = IF quit THEN "list" ELSE "editor"
    /\ UNCHANGED opened
    /\ e' = IF quit THEN NoEditor ELSE [e EXCEPT !.dirty = FALSE]

\* What may be in the database when the answer is an error: the links of a
\* note are rebuilt after it is stored, and an answer can be lost.
MaybeStored == notes' \in {notes} \cup {n \in {StoreNote} : CanStore}

\* The handler says what is wrong.  Nothing shows it, and the editor stays,
\* also after :wq.
SaveRefused ==
    /\ Prompted
    /\ e' = e
    /\ MaybeStored
    /\ UNCHANGED <<screen, opened>>

\* Any other error closes the editor with its text, and one in reading the
\* answer the program.
SaveFailed ==
    /\ Prompted
    /\ screen' \in {"list", "disconnected"} /\ e' = NoEditor
    /\ MaybeStored
    /\ UNCHANGED opened

Save == SaveRefused \/ SaveFailed \/ \E quit \in BOOLEAN : SaveStored(quit)

CloseEditor == screen' = "list" /\ e' = NoEditor /\ UNCHANGED <<notes, opened>>

TryQuit ==
    /\ Prompted
    /\ IF e.dirty THEN Become(e) ELSE CloseEditor

ForceQuit == Prompted /\ CloseEditor

Format == Prompted /\ Become(FormatDocument(e))

\* The check of the connection fails: everything is closed, and the next key
\* ends the program.
EditorDisconnected ==
    /\ screen \in {"list", "editor"}
    /\ screen' = "disconnected" /\ e' = NoEditor
    /\ UNCHANGED <<notes, opened>>

EditorLastKey ==
    /\ screen = "disconnected"
    /\ screen' = "ended"
    /\ UNCHANGED <<e, notes, opened>>

--------------------------------------------------------------------------------

EditorNext ==
    \/ openEditor \/ openEditorFromAction
    \/ FocusKey \/ HeaderNormalKey \/ HeaderEscape \/ TitleKey
    \/ MotionKey \/ EscapeKey \/ TwoKey \/ EditKey
    \/ InsertModeKey \/ NextMatchKey \/ EditorSearchKey
    \/ InsertKey \/ RefPickerKey \/ LostKey
    \/ Save \/ TryQuit \/ ForceQuit \/ Format
    \/ EditorDisconnected \/ EditorLastKey

EditorSpec == EditorInit /\ [][EditorNext]_editorVars

--------------------------------------------------------------------------------
(* What must hold.                                                          *)

Position == [row : Nat \ {0}, col : Nat]

BufferTypeOK ==
    /\ e.command \in {"notes.create", "notes.update"}
    /\ e.key \in IF e.command = "notes.update" THEN DOMAIN notes ELSE {0}
    /\ e.title \in Titles
    /\ e.lines \in Seq(Seq({Letter, Blank, Bullet})) /\ e.lines # <<>>
    /\ [row |-> e.row, col |-> e.col] \in Position
    /\ e.mode \in {"normal", "insert"} /\ e.focus \in ToSet(Focuses)
    /\ {e.dirty, e.picking, e.active} \subseteq BOOLEAN
    /\ \A i \in DOMAIN e.undo :
         /\ e.undo[i].lines \in Seq(Seq({Letter, Blank, Bullet}))
         /\ e.undo[i].lines # <<>>
    /\ Len(e.clipboard) <= 1
    /\ ToSet(e.matches) \subseteq Position
    /\ e.active => e.matches # <<>> /\ e.index \in DOMAIN e.matches

\* Every note keeps a title, and the editor is one its operations can handle.
EditorTypeOK ==
    /\ screen \in {"list", "editor", "disconnected", "ended", "crashed"}
    /\ notes \in Seq(Note)
    /\ \A k \in DOMAIN notes : notes[k].title # ""
    /\ IF screen = "editor" THEN BufferTypeOK ELSE e = NoEditor

\* An editor that says it has nothing to save is right: title and text are those
\* of a note in the database, or those a new note opens with.  :q closes such an
\* editor without a question, after whatever edits, undos, saves and refusals.
CleanMeansStored ==
    screen = "editor" /\ ~e.dirty =>
        \/ e.command = "notes.update" /\ Content = notes[e.key]
        \/ /\ e.command = "notes.create"
           /\ \/ Content \in ToSet(notes)
              \/ e.lines = e.opened /\ e.title = "titled"

\* Undoing everything gives the text as it was opened: no edit forgets to push
\* the text it found.
UndoReachesOpened ==
    screen = "editor" =>
        e.opened = IF e.undo = <<>> THEN e.lines ELSE e.undo[1].lines

CursorIn(lines, row, col) == row \in 1..Len(lines) /\ col <= Len(lines[row])

CursorInText == screen = "editor" => CursorIn(e.lines, e.row, e.col)

\* So are the cursors that undo returns to.
CursorsInText ==
    /\ CursorInText
    /\ screen = "editor" => \A i \in DOMAIN e.undo :
                              CursorIn(e.undo[i].lines, e.undo[i].row, e.undo[i].col)

\* Only the jump to the next match takes a cursor out of the text, since
\* matches are not looked for again after an edit; and only from there does a
\* key end the program.
OnlySearchStrays ==
    [][ /\ CursorsInText => CursorsInText' \/ NextMatchKey
        /\ screen' = "crashed" => ~CursorInText ]_editorVars

================================================================================
