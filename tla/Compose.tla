-------------------------------- MODULE Compose --------------------------------
(***************************************************************************)
(* The forms of the shell, as operators from one form to the next: which   *)
(* fields a form has, where its cursor goes, and how lines come and go.    *)
(*                                                                         *)
(* What the fields hold is left out: a form that is submitted may be       *)
(* complete or not.  The cursor counts from 0, over the fields of the form *)
(* and then over the columns of its lines.                                 *)
(***************************************************************************)
EXTENDS Integers, Sequences

CONSTANT MaxFormLines   \* Ctrl-N adds no line to this many: 8 in the code

\* The fields of the entries in the codex, by the form of their type.
CodexForms ==
    [player     |-> <<"name", "player_name", "class", "race", "background", "notes">>,
     npc        |-> <<"name", "title", "location", "faction", "disposition",
                      "description", "notes">>,
     settlement |-> <<"name", "title", "location", "faction", "description", "notes">>]

Fields ==
    [expense        |-> <<"date", "description", "amount", "account_code",
                          "offset_account_code", "memo">>,
     income         |-> <<"date", "description", "amount", "account_code",
                          "offset_account_code", "memo">>,
     account        |-> <<"code", "name", "account_type">>,
     codex_type     |-> <<"id", "name", "form_id">>,
     campaign       |-> <<"name">>,
     quest          |-> <<"title", "patron", "description", "reward", "advance", "bonus",
                          "notes", "status", "accepted_on">>,
     loot           |-> <<"name", "source", "quantity", "holder", "notes">>,
     asset          |-> <<"name", "source", "quantity", "holder", "notes">>,
     custom         |-> <<"date", "description">>,
     asset_template |-> << >>]

\* The edit form of a quest leaves its status alone.
QuestEdit ==
    <<"title", "patron", "description", "reward", "advance", "bonus", "notes", "accepted_on">>

Columns ==
    [custom |-> <<"side", "account_code", "amount", "memo">>,
     asset_template |-> <<"side", "account_code", "amount">>]

\* The fields for which Ctrl-A offers a choice: accounts, entries or quests.
PickerFields ==
    [expense        |-> {"account_code", "offset_account_code"},
     income         |-> {"account_code", "offset_account_code"},
     custom         |-> {"account_code"},
     asset_template |-> {"account_code"},
     account        |-> {"code", "name"},
     quest          |-> {"patron"},
     loot           |-> {"holder", "source"},
     asset          |-> {"holder", "source"}]

--------------------------------------------------------------------------------

\* A form for the item of that key, or for a new one where it is "".
NewCompose(mode, form, item, lines) ==
    [mode |-> mode, form |-> form, item |-> item, lines |-> lines, index |-> 0,
     picking |-> FALSE]

HasLines(f) == f.mode \in DOMAIN Columns
Width(f) == Len(Columns[f.mode])

composeFieldDefinitions(f) ==
    IF f.mode = "codex" THEN CodexForms[f.form]
    ELSE IF f.mode = "quest" /\ f.item # "" THEN QuestEdit
    ELSE Fields[f.mode]

Header(f) == Len(composeFieldDefinitions(f))

composeFieldCount(f) == Header(f) + (IF HasLines(f) THEN f.lines * Width(f) ELSE 0)

OnLine(f) == HasLines(f) /\ f.index >= Header(f)
CurrentLine(f) == (f.index - Header(f)) \div Width(f)
CurrentColumn(f) == (f.index - Header(f)) % Width(f)

composeCurrentFieldID(f) ==
    IF OnLine(f) THEN Columns[f.mode][CurrentColumn(f) + 1]
    ELSE IF f.index < Header(f) THEN composeFieldDefinitions(f)[f.index + 1] ELSE ""

composeAdvance(f, delta) ==
    LET count == composeFieldCount(f)
    IN  IF count = 0 THEN f ELSE [f EXCEPT !.index = (@ + count + delta) % count]

\* To the first column of the new line.
AddLine(f) ==
    IF HasLines(f) /\ f.lines < MaxFormLines
    THEN [f EXCEPT !.lines = @ + 1, !.index = Header(f) + f.lines * Width(f)]
    ELSE f

\* The cursor goes to the same column of the line that takes the place of the
\* one removed, or of the last.
RemoveLine(f) ==
    IF OnLine(f) /\ f.lines > 2 /\ CurrentLine(f) < f.lines
    THEN LET last == f.lines - 2
             line == IF CurrentLine(f) > last THEN last ELSE CurrentLine(f)
         IN  [f EXCEPT !.lines = @ - 1,
                       !.index = Header(f) + line * Width(f) + CurrentColumn(f)]
    ELSE f

\* A blank typed on a side turns it; the line is indexed unseen.
TogglesSide(f) == OnLine(f) /\ CurrentColumn(f) = 0
CanToggleSide(f) == TogglesSide(f) => CurrentLine(f) < f.lines

HasPicker(f) ==
    f.mode \in DOMAIN PickerFields /\ composeCurrentFieldID(f) \in PickerFields[f.mode]

================================================================================
