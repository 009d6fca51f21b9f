--------------------------------- MODULE Shell ---------------------------------
(***************************************************************************)
(* The shell of the terminal: sections and tabs, the selection in each     *)
(* list, the modals over them, and what the answer to a command or a       *)
(* reload makes of all that.  The event loop handles one event at a time   *)
(* and waits for the command a key issues, so a key and the answer are one *)
(* step.  What a modal does to a form is in Compose, to a note in Editor.  *)
(*                                                                         *)
(* Other clients change the database: a reload brings any snapshot.  Of an *)
(* item its key is kept.  Text that is typed is left out, and with it      *)
(* whether it passes: a key that submits may be refused on the spot.       *)
(***************************************************************************)
EXTENDS Compose, FiniteSets, SequencesExt

CONSTANTS
    Ordered,        \* the sections in the order of the tab key
    Tabs,           \* the tabs of the settings
    Items,          \* the keys there may be in each list
    Types,          \* the forms of the types of the codex, in the picker's order
    MaxLedgerRows   \* a bound on the accounts in the ledger

VARIABLES
    stage,          \* "running", "disconnected" or "ended"
    data,           \* the snapshot: the keys in each list
    section,        \* what is shown
    tab,            \* the tab of the settings
    sel,            \* the selection of each list: an index, 0 for none, and a key
    modal           \* what is open over the lists

shellVars == <<stage, data, section, tab, sel, modal>>

Lists == (ToSet(Ordered) \ {"dashboard"}) \cup ToSet(Tabs)
Sections == ToSet(Ordered) \cup {"settings"}

\* The pointers of the shell, in the order in which they are asked to take a
\* key; the last two take actions.
Modals == <<"quitConfirm", "editor", "codexPicker", "ledgerView", "search", "input",
            "compose", "glossary", "confirm">>

Closed == [shown |-> FALSE]
AllClosed == [m \in ToSet(Modals) |-> Closed]

IsOpen(m) == modal[m] # Closed
Free == modal = AllClosed

\* Keys go to the first that is open.
Receives(m) ==
    /\ stage = "running" /\ IsOpen(m)
    /\ \A i, j \in DOMAIN Modals : Modals[j] = m /\ i < j => ~IsOpen(Modals[i])

--------------------------------------------------------------------------------
(* What the items of a list offer: a question to confirm, a prompt, or a    *)
(* form, by its mode.  Which of it, depends on the item.                    *)

JournalOffers == {"confirm"}
QuestOffers == {"quest", "confirm"}
LootOffers == {"loot", "input", "confirm"}
AssetOffers == {"asset", "asset_template", "custom_from_template", "input", "confirm"}
CodexOffers == {"codex", "confirm"}
NoteOffers == {"notes", "confirm"}
AccountOffers == {"input", "confirm"}
TypeOffers == {"input", "confirm"}
CampaignOffers == {"input", "confirm"}

Offers ==
    [journal |-> JournalOffers, quests |-> QuestOffers, loot |-> LootOffers,
     assets |-> AssetOffers, codex |-> CodexOffers, notes |-> NoteOffers,
     accounts |-> AccountOffers, codex_types |-> TypeOffers, campaigns |-> CampaignOffers]

ASSUME ShellAssumption ==
    /\ Ordered \in Seq({"dashboard"} \cup DOMAIN Offers) /\ Ordered # << >>
    /\ \A i \in DOMAIN Ordered : Ordered[i] = "dashboard" <=> i = 1
    /\ Tabs \in Seq({"accounts", "codex_types", "campaigns"}) /\ Tabs # << >>
    /\ Types \in Seq(DOMAIN CodexForms)
    /\ MaxFormLines \in Nat /\ MaxFormLines >= 2 /\ MaxLedgerRows \in Nat
    /\ Lists \subseteq DOMAIN Items /\ \A l \in Lists : IsFiniteSet(Items[l])

\* Any of the keys, in any order.
Arrangements(l) == UNION {SetToSeqs(keys) : keys \in SUBSET Items[l]}

\* (What arranges another list counts as nothing.)
Snapshots ==
    {[l \in Lists |-> IF d[l] \in Arrangements(l) THEN d[l] ELSE << >>] :
        d \in [Lists -> UNION {Arrangements(l) : l \in Lists}]}

--------------------------------------------------------------------------------
(* Selections.                                                              *)

listSection == IF section = "settings" THEN Tabs[tab] ELSE section

\* Variants, each named for a bug, stand before the definitions they vary and
\* are used nowhere: they are the mistakes that the properties must notice.
ReconciledByIndex(items, s) ==
    IF items = << >> THEN [index |-> 0, key |-> ""]
    ELSE LET i == IF s.index \in DOMAIN items THEN s.index ELSE 1
         IN  [index |-> i, key |-> items[i]]

\* The item of the key that was selected, or else the one at its place, or
\* else the first.
Reconciled(items, s) ==
    IF items = << >> THEN [index |-> 0, key |-> ""]
    ELSE IF \E i \in DOMAIN items : items[i] = s.key
    THEN [index |-> CHOOSE i \in DOMAIN items : items[i] = s.key, key |-> s.key]
    ELSE LET i == IF s.index \in DOMAIN items THEN s.index ELSE 1
         IN  [index |-> i, key |-> items[i]]

Selected(l, i) == [sel EXCEPT ![l] = [index |-> i, key |-> data[l][i]]]

NavigatedUnseen(selection, d, to, key) ==
    IF to \in Lists /\ key # "" THEN [selection EXCEPT ![to].key = key] ELSE selection

\* Moving from a list to a section selects in it what is there.
Navigated(selection, d, to, key) ==
    IF to \in Lists
    THEN [selection EXCEPT ![to] =
            Reconciled(d[to], [index |-> @.index, key |-> IF key = "" THEN @.key ELSE key])]
    ELSE selection

Navigate(to, key) == section' = to /\ sel' = Navigated(sel, data, to, key)

ShellInit ==
    /\ stage = "running" /\ section = "dashboard" /\ tab = 1 /\ modal = AllClosed
    /\ data \in Snapshots
    /\ sel = [l \in Lists |-> Reconciled(data[l], [index |-> 0, key |-> ""])]

--------------------------------------------------------------------------------
(* Loads and answers.                                                       *)

\* A new snapshot: selections stay with their items.
Loaded(to, key) ==
    \E d \in Snapshots :
        /\ data' = d
        /\ section' = to
        /\ sel' = Navigated([l \in Lists |-> Reconciled(d[l], sel[l])], d, to, key)
        /\ UNCHANGED <<stage, tab>>

\* Every modal closes; the editor stays after a save.
Reload(to, key) == Loaded(to, key) /\ modal' = AllClosed

SetDisconnected ==
    /\ stage' = "disconnected" /\ modal' = AllClosed
    /\ UNCHANGED <<data, section, tab, sel>>

\* Ctrl-L: loading again fails only with the connection.
Redraw == Reload(section, "") \/ SetDisconnected

Stay == UNCHANGED <<stage, data, section, tab, sel>>

\* The modals after an event, and nothing else.
Show(after) == modal' = after /\ Stay

Close(m) == [modal EXCEPT ![m] = Closed]
Open(m, state) == [modal EXCEPT ![m] = state]

\* A command is answered with a new snapshot and perhaps where to go in it,
\* with an error of input, which leaves the modals as the key left them, with
\* another error, which closes them, or not at all.  A renamed codex type names an
\* item and no section, and that is the dashboard.
Answer(after) ==
    \/ Reload(section, "")
    \/ \E to \in Sections :
         \E key \in {""} \cup (IF to \in Lists THEN Items[to] ELSE {}) : Reload(to, key)
    \/ Show(after)
    \/ Show(AllClosed)
    \/ SetDisconnected

--------------------------------------------------------------------------------
(* Keys where nothing is open.                                              *)

Unobstructed == stage = "running" /\ Free

Quit ==
    /\ Unobstructed
    /\ IF section = "settings"
       THEN section' = "dashboard" /\ UNCHANGED <<stage, data, tab, sel, modal>>
       ELSE Show(Open("quitConfirm", [shown |-> TRUE]))

Refresh == Unobstructed /\ Redraw

Help == Unobstructed /\ Show(Open("glossary", [shown |-> TRUE]))

\* Left and right go around the sections, or around the tabs of the settings.
NextSection ==
    /\ Unobstructed
    /\ \E delta \in {1, -1} :
         IF section = "settings"
         THEN /\ tab' = ((tab - 1 + delta + Len(Tabs)) % Len(Tabs)) + 1
              /\ sel' = Navigated(sel, data, Tabs[tab'], "")
              /\ UNCHANGED <<stage, data, section, modal>>
         ELSE LET i == CHOOSE i \in DOMAIN Ordered : Ordered[i] = section
              IN  /\ Navigate(Ordered[((i - 1 + delta + Len(Ordered)) % Len(Ordered)) + 1], "")
                  /\ UNCHANGED <<stage, data, tab, modal>>

ShowSection ==
    /\ Unobstructed
    /\ \E s \in Sections : Navigate(s, "")
    /\ UNCHANGED <<stage, data, tab, modal>>

moveSelection(delta) ==
    LET l == listSection
        i == sel[l].index + delta
    IN  /\ l \in Lists /\ data[l] # << >>
        /\ sel' = Selected(l, IF i < 1 THEN 1 ELSE IF i > Len(data[l]) THEN Len(data[l]) ELSE i)
        /\ UNCHANGED <<stage, data, section, tab, modal>>

\* Arrows, pages, Home and End.
MoveKey ==
    /\ Unobstructed /\ listSection \in Lists
    /\ LET n == Len(data[listSection]) IN \E delta \in -n..n : moveSelection(delta)

WheelUnderConfirm ==
    /\ stage # "ended"
    /\ \A m \in {"editor", "input", "glossary", "compose"} : ~IsOpen(m)
    /\ \E delta \in {1, -1} : moveSelection(delta)

\* The wheel moves the selection without asking who takes the keys: under the
\* search, the ledger, the picker of types and the question whether to quit,
\* and without a connection.
Wheel ==
    /\ stage # "ended"
    /\ \A m \in {"editor", "input", "glossary", "compose", "confirm"} : ~IsOpen(m)
    /\ \E delta \in {1, -1} : moveSelection(delta)

\* Enter on a campaign switches to it.
EnterOnCampaign ==
    /\ Unobstructed
    /\ listSection = "campaigns" /\ data["campaigns"] # << >>
    /\ Answer(modal)

--------------------------------------------------------------------------------
(* Opening a modal.                                                         *)

\* A new entry, item or note, by section.
NewModes ==
    CASE section = "settings" ->
           CASE Tabs[tab] = "codex_types" -> {"codex_type"}
             [] Tabs[tab] = "campaigns" -> {"campaign"}
             [] OTHER -> {"account"}
      [] section = "quests" -> {"quest"}
      [] section = "loot" -> {"loot"}
      [] section = "assets" -> {"asset"}
      [] section = "journal" -> {"expense", "income"}
      [] section = "dashboard" -> {"expense", "income", "custom"}
      [] OTHER -> {}

openCompose ==
    /\ Unobstructed
    /\ \E mode \in NewModes : Show(Open("compose", NewCompose(mode, "", "", 2)))

openNewNote ==
    /\ Unobstructed /\ section = "notes"
    /\ Show(Open("editor", [item |-> ""]))

openCodexPicker ==
    /\ Unobstructed /\ section = "codex" /\ Types # << >>
    /\ Show(Open("codexPicker", [focus |-> "name", type |-> 1]))

\* A template has been saved with at least two lines; there may be none.
\* The edit form of an entry takes the form of its type, the first time.
ItemForms(mode, item) ==
    CASE mode = "asset_template" -> {NewCompose(mode, "", item, n) : n \in 2..MaxFormLines}
      [] mode = "custom_from_template" -> {NewCompose("custom", "", "", n) : n \in 2..MaxFormLines}
      [] mode = "codex" -> {NewCompose(mode, form, item, 0) : form \in ToSet(Types) \cup {"npc"}}
      [] OTHER -> {NewCompose(mode, "", item, 0)}

openAction ==
    /\ Unobstructed
    /\ listSection \in Lists /\ data[listSection] # << >>
    /\ LET item == sel[listSection].key
       IN  \E mode \in Offers[listSection] :
             CASE mode \in {"confirm", "input"} -> Show(Open(mode, [item |-> item]))
               [] mode = "notes" -> Show(Open("editor", [item |-> item]))
               [] OTHER -> \E f \in ItemForms(mode, item) : Show(Open("compose", f))

openSearch == Unobstructed /\ Show(Open("search", [filter |-> 0]))

openLedgerView ==
    /\ Unobstructed
    /\ \E rows \in 0..MaxLedgerRows :
         Show(Open("ledgerView", [detail |-> FALSE, rows |-> rows, index |-> 0,
                                  previousSection |-> section]))

--------------------------------------------------------------------------------
(* Keys of the modals.  A key that a modal does not handle changes nothing. *)

QuitConfirmKey ==
    /\ Receives("quitConfirm")
    /\ \/ stage' = "ended" /\ UNCHANGED <<data, section, tab, sel, modal>>
       \/ Show(Close("quitConfirm"))

GlossaryKey ==
    /\ Receives("glossary")
    /\ Show(Close("glossary")) \/ Redraw

\* The question closes before its command is run.
ConfirmKey ==
    /\ Receives("confirm")
    /\ Show(Close("confirm")) \/ Answer(Close("confirm")) \/ Redraw

\* A prompt stays open until its command succeeds; without a value none is run.
InputKey ==
    /\ Receives("input")
    /\ Show(Close("input")) \/ Answer(modal) \/ Redraw

\* A save keeps the editor open or closes it; a quit closes it.
EditorKey ==
    /\ Receives("editor")
    /\ \/ Show(Close("editor"))
       \/ Answer(modal)
       \/ \E key \in Items["notes"] : Loaded("notes", key) /\ UNCHANGED modal

searchable == Tail(Ordered)

\* The results are of the sections the filter lets through.  The server finds
\* them, or else the snapshot: they may be newer than the lists.
SearchKey ==
    /\ Receives("search")
    /\ LET n == Len(searchable)
           filter == modal["search"].filter
       IN  \/ \E delta \in {1, n} :
                Show(Open("search", [filter |-> (filter + delta) % (n + 1)]))
           \/ Show(Close("search"))
           \/ Redraw
           \/ \E i \in IF filter = 0 THEN 1..n ELSE {filter} : \E key \in Items[searchable[i]] :
                /\ Navigate(searchable[i], key)
                /\ modal' = Close("search")
                /\ UNCHANGED <<stage, data, tab>>

\* A bound on the pages down in an empty ledger, which the code goes on counting.
MaxIndex == 10

Moved(index, rows, delta) ==
    LET i == IF index + delta < 0 THEN 0 ELSE index + delta
        last == IF rows > 0 THEN rows - 1 ELSE MaxIndex
    IN  IF i > last THEN last ELSE i

LedgerListKey ==
    /\ Receives("ledgerView") /\ ~modal["ledgerView"].detail
    /\ LET v == modal["ledgerView"]
           Become(w) == Show(Open("ledgerView", w))
       IN  \/ \E delta \in {-10, -1, 10} : Become([v EXCEPT !.index = Moved(@, v.rows, delta)])
           \/ v.index < v.rows - 1 /\ Become([v EXCEPT !.index = @ + 1])
           \/ \E i \in {0, v.rows - 1} : i >= 0 /\ Become([v EXCEPT !.index = i])
           \/ \E rows \in 0..MaxLedgerRows :
                Become([v EXCEPT !.rows = rows,
                                 !.index = IF rows = 0 THEN 0 ELSE Moved(@, rows, 0)])
           \/ /\ v.rows > 0 /\ v.index < v.rows
              /\ Become([v EXCEPT !.detail = TRUE])
           \/ /\ modal' = Close("ledgerView") /\ section' = v.previousSection
              /\ UNCHANGED <<stage, data, tab, sel>>

\* The account has some entries: how many, is left out, and so is the scroll.
LedgerDetailKey ==
    /\ Receives("ledgerView") /\ modal["ledgerView"].detail
    /\ Show(Open("ledgerView", [modal["ledgerView"] EXCEPT !.detail = FALSE]))

\* Ctrl-L, and x, p and c, which export.
LedgerCommandKey ==
    /\ Receives("ledgerView")
    /\ Redraw \/ Answer(modal)

\* The name, then the type; Enter on the type opens the form of a new entry,
\* or goes back to a name that is missing.
CodexPickerKey ==
    /\ Receives("codexPicker")
    /\ LET p == modal["codexPicker"]
           Become(q) == Show(Open("codexPicker", q))
       IN  \/ Become([p EXCEPT !.focus = IF @ = "name" THEN "type" ELSE "name"])
           \/ p.focus = "type" /\ p.type > 1 /\ Become([p EXCEPT !.type = @ - 1])
           \/ p.focus = "type" /\ p.type < Len(Types) /\ Become([p EXCEPT !.type = @ + 1])
           \/ /\ p.focus = "type"
              /\ Show([Close("codexPicker") EXCEPT !["compose"] =
                          NewCompose("codex", Types[p.type], "", 0)])
           \/ Show(Close("codexPicker"))
           \/ Redraw

\* Moves, Ctrl-N and Ctrl-D.
ComposeKey ==
    /\ Receives("compose") /\ ~modal["compose"].picking
    /\ LET f == modal["compose"]
       IN  \E g \in {composeAdvance(f, 1), composeAdvance(f, -1), AddLine(f), RemoveLine(f)} :
             Show(Open("compose", g))

ComposePickerKey ==
    /\ Receives("compose")
    /\ modal["compose"].picking \/ HasPicker(modal["compose"])
    /\ Show(Open("compose", [modal["compose"] EXCEPT !.picking = ~@]))

\* Enter or Ctrl-S with nothing missing, Escape, and Ctrl-L.
ComposeCommandKey ==
    /\ Receives("compose") /\ ~modal["compose"].picking
    /\ Answer(modal) \/ Show(Close("compose")) \/ Redraw

--------------------------------------------------------------------------------

Disconnect == stage = "running" /\ SetDisconnected

LastKey ==
    /\ stage = "disconnected"
    /\ stage' = "ended"
    /\ UNCHANGED <<data, section, tab, sel, modal>>

ShellNext ==
    \/ Quit \/ Refresh \/ Help \/ NextSection \/ ShowSection \/ MoveKey \/ Wheel
    \/ EnterOnCampaign
    \/ openCompose \/ openNewNote \/ openCodexPicker \/ openAction \/ openSearch
    \/ openLedgerView
    \/ QuitConfirmKey \/ GlossaryKey \/ ConfirmKey \/ InputKey \/ EditorKey \/ SearchKey
    \/ LedgerListKey \/ LedgerDetailKey \/ LedgerCommandKey
    \/ CodexPickerKey \/ ComposeKey \/ ComposePickerKey \/ ComposeCommandKey
    \/ Disconnect \/ LastKey

ShellSpec == ShellInit /\ [][ShellNext]_shellVars

--------------------------------------------------------------------------------
(* What must hold.                                                          *)

\* The cursor of a form is in a field or in a line that there is, so no key
\* indexes a line past the last: composeToggleSide does so without asking.
FormCursorInForm ==
    IsOpen("compose") =>
        LET f == modal["compose"]
        IN  /\ f.index < composeFieldCount(f)
            /\ HasLines(f) => f.lines \in 2..MaxFormLines
            /\ CanToggleSide(f)

\* The selection of a list is an item of it, at its place: or nothing where the
\* list is empty.  A handler that reads the selection never runs off the list.
ShellTypeOK ==
    /\ stage \in {"running", "disconnected", "ended"}
    /\ data \in Snapshots /\ section \in Sections /\ tab \in DOMAIN Tabs
    /\ DOMAIN sel = Lists /\ DOMAIN modal = ToSet(Modals)
    /\ \A l \in Lists :
         IF data[l] = << >> THEN sel[l] = [index |-> 0, key |-> ""]
         ELSE sel[l].index \in DOMAIN data[l] /\ data[l][sel[l].index] = sel[l].key
    /\ FormCursorInForm

\* A new snapshot moves no selection off an item that is still listed, in every
\* list when it is just loaded, and in those the answer does not go to when it names
\* an item: reconcileSelections looks for the key before the place.
SelectionFollows ==
    [][\A l \in Lists :
         /\ data' # data /\ sel[l].key \in ToSet(data'[l])
         /\ l # section' \/ Loaded(section, "")
         => sel'[l].key = sel[l].key]_shellVars

\* One thing at a time is open, and a question, a prompt or a form of an item is
\* of the item that the list under it shows as selected, whatever the wheel, an
\* answer or another client did since: its command names that item.
ModalIsOfSelectedItem ==
    \A m \in ToSet(Modals) : IsOpen(m) =>
        /\ modal = [AllClosed EXCEPT ![m] = modal[m]]
        /\ m \in {"confirm", "input", "compose"} =>
             \/ modal[m].item = ""
             \/ listSection \in Lists /\ modal[m].item = sel[listSection].key

================================================================================
