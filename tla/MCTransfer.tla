------------------------------ MODULE MCTransfer -------------------------------
(***************************************************************************)
(* A campaign with a chain of rows of each kind, another campaign beside   *)
(* it, and three codex types: the built-in one, and two of the same name.  *)
(***************************************************************************)
EXTENDS Transfer, TLC

Row(table, id, owner, refs, contents) ==
    [table |-> table, id |-> id, owner |-> owner, refs |-> refs, contents |-> contents]

Type(id, name) == Row("codex_types", id, None, {}, name)
EntryOf(type) == Row("codex_entries", "1", "c1", {<<"codex_types", type>>}, "")

Npc == Type("npc", "NPC")
MCBuiltin == {Npc}

Campaign == Row("campaigns", "c1", None, {}, "")
Other == {Row("campaigns", "c2", None, {}, ""), Row("notes", "2", "c2", {}, ""), Npc}

Account == Row("accounts", "1", "c1", {}, "")
Entry == Row("journal_entries", "1", "c1", {}, "")
Line == Row("journal_lines", "1", "1", {<<"accounts", "1">>}, "")
Item == Row("loot_items", "1", "c1", {}, "")
Template == Row("asset_template_lines", "1", "1", {}, "")

Journal == {Campaign, Account, Entry, Line}
Register == {Campaign, Item, Template}
Codex(type, name) == {Campaign, EntryOf(type)} \cup {Type(type, name)}

MCRows ==
    Journal \cup Register \cup Other \cup {Npc, Type("npc", "Foe"), Type("mine", "Foe"),
        Type("yours", "Foe"), EntryOf("npc"), EntryOf("mine")}

MCLocals ==
    {Other, {Npc} \cup Journal, {Npc} \cup Register, {Npc} \cup Codex("mine", "Foe")}

MCRemotes ==
    {Other, Other \cup Journal, Other \cup Register,
     Other \cup {Campaign, Type("yours", "Foe")}}

Symmetry == Permutations(Uploaders) \cup Permutations(Addresses)

===============================================================================
