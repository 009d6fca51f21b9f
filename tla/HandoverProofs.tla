---------------------------- MODULE HandoverProofs ----------------------------
(***************************************************************************)
(* Proofs about what a client hands over to a database: a campaign that is *)
(* uploaded, and a note that is edited.  They hold of every number of      *)
(* programs and rows, and of texts, undo stacks and searches of every      *)
(* length.  The names without a prefix (Spec, Next, IInv, TypeOK) are of   *)
(* Transfer; Editor prefixes its own.                                      *)
(***************************************************************************)
EXTENDS Transfer, Editor, SequenceTheorems, SumProofs, TLAPS

----------------------------------------
(* Transfer: a campaign arrives whole.                                     *)

(* The rows of a campaign.                                                 *)

Children == {"journal_lines", "loot_appraisals", "asset_template_lines"}

Plain == {"entity_references", "notes", "codex_entries", "journal_entries", "loot_items",
          "quests", "accounts"}

\* The key of the row that a row belongs to: its campaign's, or its entry's or item's.
OwnerKeys(r) ==
    IF r.table \in Children THEN {<<ParentTable[r.table], r.owner>>}
    ELSE IF r.table \in {"campaigns", "codex_types"} THEN {}
    ELSE {<<"campaigns", r.owner>>}

\* The rows of c, without the order in which their tables are visited.
Belongs(rows, r, c) ==
    \/ r.table = "campaigns" /\ r.id = c
    \/ r.table \in Plain /\ r.owner = c
    \/ r.table \in Children /\ \E p \in rows : Key(p) \in OwnerKeys(r) /\ p.owner = c

\* Which table a line, an appraisal or a template line belongs to.
LEMMA ParentTables ==
    /\ DOMAIN ParentTable = Children
    /\ ParentTable["journal_lines"] = "journal_entries"
    /\ ParentTable["loot_appraisals"] = "loot_items"
    /\ ParentTable["asset_template_lines"] = "loot_items"
BY DEF ParentTable, Children

\* A row needs the row it belongs to and the rows it refers to.
LEMMA NeedsAreRefsAndOwner ==
    ASSUME NEW r
    PROVE  Needs(r) = r.refs \cup OwnerKeys(r)
BY ParentTables DEF Needs, OwnerKeys

\* The tables of a campaign: its own, those that name it, and their children.
LEMMA AllTables == CampaignTables = {"campaigns"} \cup Plain \cup Children
BY DEF CampaignTables, Plain, Children

\* What is copied is what is deleted.
LEMMA TablesInOrder == {DeleteOrder[i] : i \in 1..11} = CampaignTables
<1>1. {DeleteOrder[i] : i \in 1..11}
        = {DeleteOrder[1], DeleteOrder[2], DeleteOrder[3], DeleteOrder[4], DeleteOrder[5],
           DeleteOrder[6], DeleteOrder[7], DeleteOrder[8], DeleteOrder[9], DeleteOrder[10],
           DeleteOrder[11]}
  OBVIOUS
<1> QED BY <1>1 DEF DeleteOrder, CampaignTables

\* A row that a query on a table finds is one of the campaign in that table.
LEMMA OfCampaignIs ==
    ASSUME NEW rows, NEW table \in CampaignTables, NEW c
    PROVE  OfCampaign(rows, table, c) = {r \in rows : r.table = table /\ Belongs(rows, r, c)}
<1>1. CASE table = "campaigns"
  BY <1>1, ParentTables DEF OfCampaign, Belongs, Plain, Children
<1>2. CASE table \in Plain
  BY <1>2, ParentTables DEF OfCampaign, Belongs, Plain, Children
<1>3. CASE table \in Children
  BY <1>3, ParentTables DEF OfCampaign, Belongs, Plain, Children, OwnerKeys
<1> QED BY <1>1, <1>2, <1>3, AllTables

\* The rows of a campaign, without the tables they are in.
LEMMA CampaignRowsAre ==
    ASSUME NEW rows, NEW c
    PROVE  CampaignRows(rows, c) = {r \in rows : Belongs(rows, r, c)}
<1>1. \A r : Belongs(rows, r, c) => r.table \in CampaignTables
  BY AllTables DEF Belongs
<1> QED BY <1>1, OfCampaignIs DEF CampaignRows

----------------------------------------
(* Deletion, table by table.                                               *)

\* What is left of rows when c has been deleted from these tables.
Left(rows, c, done) == {r \in rows : r.table \in done => ~Belongs(rows, r, c)}

\* What a statement leaves of rows.
Without(rows, table, c) == rows \ OfCampaign(rows, table, c)

\* While the parents are still there, a deletion finds what belongs to the campaign.
LEMMA OneTableLess ==
    ASSUME NEW rows, NEW c, NEW done, NEW table \in CampaignTables,
           table \in Children => ParentTable[table] \notin done
    PROVE  Without(Left(rows, c, done), table, c) = Left(rows, c, done \cup {table})
<1> DEFINE left == Left(rows, c, done)
<1>1. ASSUME NEW r \in left, r.table = table
      PROVE  Belongs(left, r, c) <=> Belongs(rows, r, c)
  <2>1. CASE table \in Children
    <3>1. ASSUME NEW p \in rows, Key(p) \in OwnerKeys(r)
          PROVE  p \in left
      <4>1. p.table = ParentTable[table]
        BY <1>1, <2>1, <3>1 DEF OwnerKeys, Key
      <4> QED BY <2>1, <4>1 DEF Left
    <3> QED BY <3>1 DEF Belongs, Left
  <2>2. CASE table \notin Children
    BY <1>1, <2>2 DEF Belongs
  <2> QED BY <2>1, <2>2
<1>2. OfCampaign(left, table, c) = {r \in left : r.table = table /\ Belongs(left, r, c)}
  BY OfCampaignIs
<1> QED BY <1>1, <1>2 DEF Left, Without

\* The order of the tables is such that a deletion takes the rows of the campaign, no
\* more and no fewer (deleteCampaignData).
LEMMA DeletionIs ==
    ASSUME NEW rows, NEW c
    PROVE  deleteCampaignData(rows, c) = rows \ CampaignRows(rows, c)
<1> DEFINE Steps(left) ==
             left = [i \in 0..Len(DeleteOrder) |->
                       IF i = 0 THEN rows
                       ELSE Without(left[i - 1], DeleteOrder[i], c)]
           done(i) == {DeleteOrder[j] : j \in 1..i}
           lefts == [i \in 0..11 |-> Left(rows, c, done(i))]
<1>1. Len(DeleteOrder) = 11 /\ DOMAIN DeleteOrder = 1..11
  BY DEF DeleteOrder
<1>2. ASSUME NEW i \in 1..11
      PROVE  lefts[i] = Without(lefts[i - 1], DeleteOrder[i], c)
  <2>1. DeleteOrder[i] \in CampaignTables
    BY TablesInOrder
  <2>2. DeleteOrder[i] \in Children => ParentTable[DeleteOrder[i]] \notin done(i - 1)
    <3>1. DeleteOrder[i] \in Children => i \in 4..6
      BY DEF DeleteOrder, Children
    <3>2. \A j \in 1..5 : DeleteOrder[j] \notin {"journal_entries", "loot_items"}
      BY DEF DeleteOrder
    <3>3. DeleteOrder[i] \in Children
             => ParentTable[DeleteOrder[i]] \in {"journal_entries", "loot_items"}
      BY ParentTables DEF Children
    <3> QED BY <3>1, <3>2, <3>3
  <2>3. done(i) = done(i - 1) \cup {DeleteOrder[i]}
    OBVIOUS
  <2>4. Without(Left(rows, c, done(i - 1)), DeleteOrder[i], c)
          = Left(rows, c, done(i - 1) \cup {DeleteOrder[i]})
    <3>1. PICK gone : gone = done(i - 1)
      OBVIOUS
    <3>2. PICK table \in CampaignTables : table = DeleteOrder[i]
      BY <2>1
    <3>3. table \in Children => ParentTable[table] \notin gone
      BY <2>2, <3>1, <3>2
    <3> HIDE DEF done, lefts, Steps
    <3>4. Without(Left(rows, c, gone), table, c) = Left(rows, c, gone \cup {table})
      BY <3>3, OneTableLess
    <3> QED BY <3>1, <3>2, <3>4
  <2>5. lefts[i] = Left(rows, c, done(i)) /\ lefts[i - 1] = Left(rows, c, done(i - 1))
    OBVIOUS
  <2> QED BY <2>3, <2>4, <2>5
<1>3. lefts[0] = rows
  BY DEF Left
<1>4. lefts[11] = rows \ CampaignRows(rows, c)
  <2>1. done(11) = CampaignTables
    BY TablesInOrder
  <2>2. \A r : Belongs(rows, r, c) => r.table \in CampaignTables
    BY AllTables DEF Belongs
  <2>3. lefts[11] = Left(rows, c, CampaignTables)
    BY <2>1
  <2> QED BY <2>2, <2>3, CampaignRowsAre DEF Left
<1>5. Steps(lefts)
  <2> HIDE DEF lefts
  <2>1. \A i \in 0..11 : lefts[i] = IF i = 0 THEN rows
                         ELSE Without(lefts[i - 1], DeleteOrder[i], c)
    <3>1. \A i \in 0..11 : i = 0 \/ i \in 1..11
      OBVIOUS
    <3> QED BY <1>2, <1>3, <3>1
  <2>2. lefts = [i \in 0..11 |-> lefts[i]]
    BY DEF lefts
  <2> QED BY <1>1, <2>1, <2>2
<1> DEFINE left == CHOOSE left : Steps(left)
<1>6. deleteCampaignData(rows, c) = left[11]
  BY <1>1 DEF deleteCampaignData, Without
<1>7. Steps(left)
  BY <1>5
<1> HIDE DEF lefts, left
<1>8. /\ left[0] = rows
      /\ \A i \in 1..11 : left[i] = Without(left[i - 1], DeleteOrder[i], c)
  <2>1. left = [i \in 0..11 |-> IF i = 0 THEN rows
                                ELSE Without(left[i - 1], DeleteOrder[i], c)]
    BY <1>1, <1>7
  <2>2. ASSUME NEW i \in 1..11
        PROVE  left[i] = Without(left[i - 1], DeleteOrder[i], c)
    <3>1. i \in 0..11 /\ i # 0
      OBVIOUS
    <3> HIDE DEF Steps, done
    <3>2. \A j \in 0..11 : left[j] = IF j = 0 THEN rows
                           ELSE Without(left[j - 1], DeleteOrder[j], c)
      BY <2>1
    <3> QED BY <3>1, <3>2
  <2> QED BY <2>1, <2>2
<1>9. left[0] = lefts[0] /\ \A i \in 1..11 : left[i - 1] = lefts[i - 1] => left[i] = lefts[i]
  BY <1>2, <1>3, <1>8
<1>10. left[11] = lefts[11]
  BY <1>9
<1> QED BY <1>4, <1>6, <1>10

----------------------------------------
(* Databases.                                                              *)

Keyed(rows, k) == \E s \in rows : Key(s) = k

\* Every row has the row it belongs to.
Owned(rows) == \A r \in rows : \A k \in OwnerKeys(r) : Keyed(rows, k)

\* What a row is missing are the keys it needs and nobody has.
LEMMA MissingIs ==
    ASSUME NEW r, NEW rows
    PROVE  Missing(r, rows) = {k \in Needs(r) : ~Keyed(rows, k)}
BY DEF Missing, Keyed

\* Without violations of a foreign key, every row has what it needs.
LEMMA NothingDangles ==
    ASSUME NEW rows, Dangling(rows) = {}
    PROVE  /\ \A r \in rows : \A k \in Needs(r) : Keyed(rows, k)
           /\ Owned(rows)
<1>1. \A r \in rows : Missing(r, rows) = {}
  BY DEF Dangling
<1>2. \A r \in rows : \A k \in Needs(r) : Keyed(rows, k)
  BY <1>1, MissingIs
<1> QED BY <1>2, NeedsAreRefsAndOwner DEF Owned

\* A key names a table and an identifier.
LEMMA KeysAreTheSame ==
    ASSUME NEW r, NEW s, Key(r) = Key(s)
    PROVE  r.table = s.table /\ r.id = s.id
BY DEF Key

\* A database holds a key once.
LEMMA KeysAreUnique ==
    ASSUME NEW rows, IsDatabase(rows), NEW r \in rows, NEW s \in rows, Key(r) = Key(s)
    PROVE  r = s
BY DEF IsDatabase, Clash

\* Every row is of a table that the import knows.
LEMMA TableCases ==
    ASSUME NEW r \in Rows
    PROVE  r.table \in {"campaigns", "codex_types"} \cup Plain \cup Children
BY RowsAssumption, AllTables

\* A row goes with the row it belongs to.
LEMMA GoesWithOwner ==
    ASSUME NEW rows, NEW c, NEW r \in Rows, NEW s \in rows, Key(s) \in OwnerKeys(r),
           Belongs(rows, s, c)
    PROVE  Belongs(rows, r, c)
<1>1. CASE r.table \in Children
  <2>1. s.table \in {"journal_entries", "loot_items"}
    BY <1>1, ParentTables DEF OwnerKeys, Key, Children
  <2>2. s.owner = c
    BY <2>1 DEF Belongs, Plain, Children
  <2> QED BY <1>1, <2>2 DEF Belongs
<1>2. CASE r.table \in Plain
  <2>1. Key(s) = <<"campaigns", r.owner>>
    BY <1>2 DEF OwnerKeys, Plain, Children
  <2>2. s.table = "campaigns" /\ s.id = r.owner
    BY <2>1 DEF Key
  <2>3. r.owner = c
    BY <2>2 DEF Belongs, Plain, Children
  <2> QED BY <1>2, <2>3 DEF Belongs
<1>3. CASE r.table \in {"campaigns", "codex_types"}
  BY <1>3 DEF OwnerKeys, Children
<1> QED BY <1>1, <1>2, <1>3, TableCases

\* The row a row of c belongs to is of c as well.
LEMMA OwnerGoesToo ==
    ASSUME NEW rows, IsDatabase(rows), NEW c, NEW r \in rows, NEW s \in rows,
           Key(s) \in OwnerKeys(r), Belongs(rows, r, c)
    PROVE  Belongs(rows, s, c)
<1>1. CASE r.table \in Children
  <2>1. PICK p \in rows : Key(p) \in OwnerKeys(r) /\ p.owner = c
    BY <1>1 DEF Belongs, Plain, Children
  <2>2. Key(p) = Key(s)
    BY <1>1, <2>1 DEF OwnerKeys
  <2>3. p = s
    BY <2>2, KeysAreUnique
  <2>4. s.table \in {"journal_entries", "loot_items"}
    BY <1>1, ParentTables DEF OwnerKeys, Key, Children
  <2> QED BY <2>1, <2>3, <2>4 DEF Belongs, Plain
<1>2. CASE r.table \in Plain
  <2>1. Key(s) = <<"campaigns", r.owner>> /\ r.owner = c
    BY <1>2 DEF OwnerKeys, Plain, Children, Belongs
  <2> QED BY <2>1 DEF Belongs, Key
<1>3. CASE r.table \in {"campaigns", "codex_types"}
  BY <1>3 DEF OwnerKeys, Children
<1>4. r \in Rows
  BY DEF IsDatabase
<1> QED BY <1>1, <1>2, <1>3, <1>4, TableCases

\* A campaign is there when its own row is.
LEMMA HasIts ==
    ASSUME NEW rows, NEW c
    PROVE  Has(rows, c) <=> \E r \in rows : r.table = "campaigns" /\ r.id = c
<1>1. OfCampaign(rows, "campaigns", c)
        = {r \in rows : r.table = "campaigns" /\ Belongs(rows, r, c)}
  BY OfCampaignIs, AllTables
<1> QED BY <1>1 DEF Has, Belongs, Plain, Children

\* Where a campaign is not, nothing of it is.
LEMMA NothingOfIt ==
    ASSUME NEW rows, IsDatabase(rows), Owned(rows), NEW c, ~Has(rows, c)
    PROVE  CampaignRows(rows, c) = {}
<1>1. \A r \in rows : ~ (r.table = "campaigns" /\ r.id = c)
  BY HasIts
<1>2. ASSUME NEW r \in rows, r.table \in Plain, r.owner = c
      PROVE  FALSE
  <2>1. <<"campaigns", c>> \in OwnerKeys(r)
    BY <1>2 DEF OwnerKeys, Plain, Children
  <2>2. PICK s \in rows : Key(s) = <<"campaigns", c>>
    BY <2>1 DEF Owned, Keyed
  <2> QED BY <1>1, <2>2 DEF Key
<1>3. ASSUME NEW r \in rows, r.table \in Children, Belongs(rows, r, c)
      PROVE  FALSE
  <2>1. PICK p \in rows : Key(p) \in OwnerKeys(r) /\ p.owner = c
    BY <1>3 DEF Belongs, Plain, Children
  <2>2. p.table \in {"journal_entries", "loot_items"}
    BY <1>3, <2>1, ParentTables DEF OwnerKeys, Key, Children
  <2> QED BY <1>2, <2>1, <2>2 DEF Plain
<1> QED BY <1>1, <1>2, <1>3, CampaignRowsAre DEF Belongs

----------------------------------------
(* Extraction and import.                                                  *)

\* What is in the database after an import into what was left.
ImportOf(left, data, c) == WithTypes(left, TypesUsed(data, c)) \cup CampaignRows(data, c)

\* What an import starts from: what is left of the server's database, and what was sent.
Importable(server, left, data, c) ==
    /\ IsDatabase(server) /\ Owned(server)
    /\ IsDatabase(data) /\ Dangling(data) = {}
    /\ left = server \ CampaignRows(server, c)
    /\ CanInsert(left, CampaignRows(data, c))

\* What is copied is there, belongs to the campaign, and is no codex type.
LEMMA CopiedRows ==
    ASSUME NEW rows, NEW c, NEW r \in CampaignRows(rows, c)
    PROVE  r \in rows /\ Belongs(rows, r, c) /\ r.table # "codex_types"
BY CampaignRowsAre DEF Belongs, Plain, Children

\* Types that are ignored where they clash, and rows of new keys, make a database of one.
LEMMA MergeIsDatabase ==
    ASSUME NEW base, IsDatabase(base), NEW data, IsDatabase(data),
           NEW types, types \subseteq Types(data), NEW new, new \subseteq data,
           \A r \in new : r.table # "codex_types", CanInsert(base, new)
    PROVE  IsDatabase(WithTypes(base, types) \cup new)
<1> DEFINE added == {t \in types : \A s \in base : ~Clash(s, t)}
<1>1. WithTypes(base, types) = base \cup added
  BY DEF WithTypes
<1>2. added \subseteq data /\ \A t \in added : t.table = "codex_types"
  BY DEF Types
<1>3. base \cup added \cup new \subseteq Rows
  BY <1>2 DEF IsDatabase
<1>4. \A r, s : Clash(r, s) <=> Clash(s, r)
  BY DEF Clash
<1>5. \A r, s \in base : r # s => ~Clash(r, s)
  BY DEF IsDatabase
<1>6. \A r, s \in data : r # s => ~Clash(r, s)
  BY DEF IsDatabase
<1>7. \A r \in base, s \in added : ~Clash(r, s)
  OBVIOUS
<1>8. \A r \in base, s \in new : ~Clash(r, s)
  BY DEF CanInsert, Clash
<1>9. ASSUME NEW r \in base \cup added \cup new, NEW s \in base \cup added \cup new, r # s
      PROVE  ~Clash(r, s)
  <2> HIDE DEF added
  <2>1. CASE r \in base /\ s \in base
    BY <1>5, <1>9, <2>1
  <2>2. CASE r \in base /\ s \in added \cup new
    BY <1>7, <1>8, <2>2
  <2>3. CASE s \in base /\ r \in added \cup new
    BY <1>4, <1>7, <1>8, <2>3
  <2>4. CASE r \in added \cup new /\ s \in added \cup new
    BY <1>2, <1>6, <1>9, <2>4
  <2> QED BY <2>1, <2>2, <2>3, <2>4
<1> QED BY <1>1, <1>3, <1>9 DEF IsDatabase

\* What is extracted is a database (extractCampaignDB).
LEMMA ExtractIsDatabase ==
    ASSUME NEW rows, IsDatabase(rows), NEW c
    PROVE  IsDatabase(ExtractOf(rows, c))
<1>1. IsDatabase(Builtin) /\ \A t \in Builtin : t.table = "codex_types"
  BY ConstantsAssumption DEF Types
<1>2. TypesUsed(rows, c) \subseteq Types(rows)
  BY DEF TypesUsed
<1>3. /\ CampaignRows(rows, c) \subseteq rows
      /\ \A r \in CampaignRows(rows, c) : r.table # "codex_types"
  BY CopiedRows
<1>4. CanInsert(Builtin, CampaignRows(rows, c))
  BY <1>1, <1>3, KeysAreTheSame DEF CanInsert
<1> QED BY <1>1, <1>2, <1>3, <1>4, MergeIsDatabase DEF ExtractOf

\* After an import no two rows clash.
LEMMA ImportIsDatabase ==
    ASSUME NEW server, NEW left, NEW data, NEW c, Importable(server, left, data, c)
    PROVE  IsDatabase(ImportOf(left, data, c))
<1>1. IsDatabase(left)
  BY DEF Importable, IsDatabase
<1>2. TypesUsed(data, c) \subseteq Types(data)
  BY DEF TypesUsed
<1>3. /\ CampaignRows(data, c) \subseteq data
      /\ \A r \in CampaignRows(data, c) : r.table # "codex_types"
  BY CopiedRows
<1> QED BY <1>1, <1>2, <1>3, MergeIsDatabase DEF Importable, ImportOf

\* What is left belongs to others, and has what it belongs to.
LEMMA LeftIsOwned ==
    ASSUME NEW server, NEW left, NEW data, NEW c, Importable(server, left, data, c)
    PROVE  Owned(left) /\ \A r \in left : r \in server /\ ~Belongs(server, r, c)
<1>1. left = {r \in server : ~Belongs(server, r, c)}
  BY CampaignRowsAre DEF Importable
<1>2. ASSUME NEW r \in left, NEW k \in OwnerKeys(r)
      PROVE  Keyed(left, k)
  <2>1. PICK s \in server : Key(s) = k
    BY <1>1, <1>2 DEF Importable, Owned, Keyed
  <2>2. r \in Rows
    BY <1>1 DEF Importable, IsDatabase
  <2>3. ~Belongs(server, s, c)
    BY <1>1, <1>2, <2>1, <2>2, GoesWithOwner
  <2> QED BY <1>1, <2>1, <2>3 DEF Keyed
<1> QED BY <1>1, <1>2 DEF Owned

\* What is copied has what it belongs to among it.
LEMMA CopyIsOwned ==
    ASSUME NEW data, IsDatabase(data), Owned(data), NEW c
    PROVE  Owned(CampaignRows(data, c))
<1>1. ASSUME NEW r \in CampaignRows(data, c), NEW k \in OwnerKeys(r)
      PROVE  Keyed(CampaignRows(data, c), k)
  <2>1. r \in data /\ Belongs(data, r, c)
    BY CopiedRows
  <2>2. PICK s \in data : Key(s) = k
    BY <1>1, <2>1 DEF Owned, Keyed
  <2>3. Belongs(data, s, c)
    BY <1>1, <2>1, <2>2, OwnerGoesToo
  <2> QED BY <2>2, <2>3, CampaignRowsAre DEF Keyed
<1> QED BY <1>1 DEF Owned

\* After an import there is what was left, what was copied, and some types.
LEMMA ImportedRows ==
    ASSUME NEW left, NEW data, NEW c
    PROVE  /\ left \cup CampaignRows(data, c) \subseteq ImportOf(left, data, c)
           /\ \A r \in ImportOf(left, data, c) :
                 \/ r \in left
                 \/ r \in CampaignRows(data, c)
                 \/ r \in Types(data)
BY DEF ImportOf, WithTypes, TypesUsed

\* After an import every row has the row it belongs to.
LEMMA ImportIsOwned ==
    ASSUME NEW server, NEW left, NEW data, NEW c, Importable(server, left, data, c)
    PROVE  Owned(ImportOf(left, data, c))
<1>1. Owned(left) /\ Owned(CampaignRows(data, c))
  BY LeftIsOwned, CopyIsOwned, NothingDangles DEF Importable
<1>2. \A r \in Types(data) : OwnerKeys(r) = {}
  BY DEF Types, OwnerKeys, Children
<1> QED BY <1>1, <1>2, ImportedRows DEF Owned, Keyed

\* The campaign is then as it was sent.
LEMMA ImportIsExact ==
    ASSUME NEW server, NEW left, NEW data, NEW c, Importable(server, left, data, c)
    PROVE  CampaignRows(ImportOf(left, data, c), c) = CampaignRows(data, c)
<1> DEFINE after == ImportOf(left, data, c)
<1>1. ASSUME NEW r \in CampaignRows(data, c)
      PROVE  r \in after /\ Belongs(after, r, c)
  <2>1. r \in after
    BY <1>1, ImportedRows
  <2>2. r \in data /\ Belongs(data, r, c)
    BY CopiedRows
  <2>3. CASE r.table \in Children
    <3>1. PICK p \in data : Key(p) \in OwnerKeys(r) /\ p.owner = c
      BY <2>2, <2>3 DEF Belongs, Plain, Children
    <3>2. Belongs(data, p, c)
      BY <2>2, <3>1, OwnerGoesToo DEF Importable
    <3>3. p \in CampaignRows(data, c)
      BY <3>2, CampaignRowsAre
    <3>4. p \in after
      BY <3>3, ImportedRows
    <3> QED BY <2>1, <2>3, <3>1, <3>4 DEF Belongs
  <2>4. CASE r.table \notin Children
    BY <2>1, <2>2, <2>4 DEF Belongs
  <2> QED BY <2>3, <2>4
<1>2. ASSUME NEW r \in left
      PROVE  ~Belongs(after, r, c)
  <2>1. r \in server /\ ~Belongs(server, r, c) /\ r \in Rows
    BY LeftIsOwned DEF Importable, IsDatabase
  <2>2. ASSUME r.table \in Children, NEW p \in after, Key(p) \in OwnerKeys(r), p.owner = c
        PROVE  FALSE
    <3>1. PICK q \in left : Key(q) = Key(p)
      BY <2>2, LeftIsOwned DEF Owned, Keyed
    <3>2. p \in left
      BY <3>1, ImportIsDatabase, ImportedRows, KeysAreUnique
    <3>3. p \in server
      BY <3>2, LeftIsOwned
    <3> QED BY <2>1, <2>2, <3>3 DEF Belongs
  <2> QED BY <2>1, <2>2 DEF Belongs, Plain, Children
<1>3. \A r \in Types(data) : ~Belongs(after, r, c)
  BY DEF Types, Belongs, Plain, Children
<1>4. \A r \in after : Belongs(after, r, c) => r \in CampaignRows(data, c)
  BY <1>2, <1>3, ImportedRows
<1> QED BY <1>1, <1>4, CampaignRowsAre

----------------------------------------
(* References.                                                             *)

\* Which campaign a row belongs to does not depend on the database it is in.
LEMMA BelongsAnywhere ==
    ASSUME NEW rows, IsDatabase(rows), Owned(rows), NEW r \in rows, NEW c
    PROVE  Belongs(rows, r, c) <=> Belongs(Rows, r, c)
<1>1. rows \subseteq Rows
  BY DEF IsDatabase
<1>2. ASSUME r.table \in Children, NEW p \in Rows, Key(p) \in OwnerKeys(r), p.owner = c
      PROVE  \E q \in rows : Key(q) \in OwnerKeys(r) /\ q.owner = c
  <2>1. PICK q \in rows : Key(q) = Key(p)
    BY <1>2 DEF Owned, Keyed
  <2>2. q.owner = p.owner
    BY <1>1, <2>1, RowsAssumption
  <2> QED BY <1>2, <2>1, <2>2
<1> QED BY <1>1, <1>2 DEF Belongs

\* A row is of the campaign of the rows it refers to, unless they are codex types.
LEMMA ReferencesStay ==
    ASSUME NEW rows, IsDatabase(rows), Owned(rows), NEW c \in CampaignIds,
           NEW r \in rows, NEW s \in rows, Key(s) \in r.refs, s.table # "codex_types"
    PROVE  Belongs(rows, r, c) <=> Belongs(rows, s, c)
<1>1. r \in Rows /\ s \in Rows
  BY DEF IsDatabase
<1>2. r \in CampaignRows(Rows, c) <=> s \in CampaignRows(Rows, c)
  BY <1>1, RowsAssumption
<1>3. Belongs(Rows, r, c) <=> Belongs(Rows, s, c)
  BY <1>1, <1>2, CampaignRowsAre
<1> QED BY <1>3, BelongsAnywhere

\* The one thing a row can lose by an import is its codex type.
LEMMA ImportLeavesTypes ==
    ASSUME NEW server, NEW left, NEW data, NEW c \in CampaignIds,
           Importable(server, left, data, c), NEW after, after = ImportOf(left, data, c),
           NEW r \in Dangling(after) \ Dangling(server)
    PROVE  /\ r.table = "codex_entries"
           /\ \E t \in Types(data), s \in Types(server) :
                 Missing(r, after) = {Key(t)} /\ Key(s) # Key(t) /\ Clash(s, t)
<1>1. /\ IsDatabase(server) /\ Owned(server) /\ IsDatabase(data) /\ Dangling(data) = {}
      /\ left = server \ CampaignRows(server, c)
  BY DEF Importable
<1>2. /\ IsDatabase(after) /\ Owned(after)
      /\ left \cup CampaignRows(data, c) \subseteq after
      /\ \A s \in after : s \in left \/ s \in CampaignRows(data, c) \/ s \in Types(data)
  BY ImportIsDatabase, ImportIsOwned, ImportedRows
<1>3. r \in after /\ Missing(r, after) # {}
  BY DEF Dangling
<1>4. \A k \in Missing(r, after) : k \in Needs(r) /\ k \in r.refs /\ ~Keyed(after, k)
  BY <1>2, <1>3, MissingIs, NeedsAreRefsAndOwner DEF Owned
<1>5. PICK k \in Missing(r, after) : k \in Needs(r) /\ k \in r.refs /\ ~Keyed(after, k)
  BY <1>3, <1>4
<1>6. ASSUME r \in left
      PROVE  FALSE
  <2>1. r \in server /\ ~Belongs(server, r, c)
    BY <1>6, LeftIsOwned
  <2>2. Missing(r, server) = {}
    BY <2>1 DEF Dangling
  <2>3. PICK q \in server : Key(q) = k
    BY <1>5, <2>2, MissingIs DEF Keyed
  <2>4. q \in CampaignRows(server, c)
    BY <1>1, <1>2, <1>5, <2>3 DEF Keyed
  <2>5. Belongs(server, q, c) /\ q.table # "codex_types"
    BY <2>4, CopiedRows
  <2> QED BY <1>1, <1>5, <2>1, <2>3, <2>5, ReferencesStay
<1>7. r \notin Types(data)
  <2>1. r \in Rows
    BY <1>2, <1>3 DEF IsDatabase
  <2>2. r.table = "codex_types" => r.refs = {}
    BY <2>1, RowsAssumption
  <2> QED BY <1>5, <2>2 DEF Types
<1>8. r \in CampaignRows(data, c)
  BY <1>2, <1>3, <1>6, <1>7
<1>9. r \in data /\ Belongs(data, r, c) /\ Owned(data)
  BY <1>1, <1>8, CopiedRows, NothingDangles
<1>10. PICK t \in data : Key(t) = k
  BY <1>1, <1>5, <1>9, NothingDangles DEF Keyed
<1>11. t.table = "codex_types"
  <2>1. ASSUME t.table # "codex_types"
        PROVE  FALSE
    <3>1. Belongs(data, t, c)
      BY <1>1, <1>5, <1>9, <1>10, <2>1, ReferencesStay
    <3>2. t \in after
      BY <1>2, <3>1, CampaignRowsAre
    <3> QED BY <1>5, <1>10, <3>2 DEF Keyed
  <2> QED BY <2>1
<1>12. r.table = "codex_entries" /\ r.refs = {Key(t)}
  <2>1. r \in Rows /\ t \in Rows
    BY <1>1, <1>9 DEF IsDatabase
  <2> QED BY <1>5, <1>10, <1>11, <2>1, RowsAssumption
<1>13. Missing(r, after) = {Key(t)}
  BY <1>3, <1>4, <1>12
<1>14. t \in TypesUsed(data, c)
  <2>1. OfCampaign(data, "codex_entries", c)
          = {d \in data : d.table = "codex_entries" /\ Belongs(data, d, c)}
    BY OfCampaignIs, AllTables DEF Plain
  <2>2. r \in OfCampaign(data, "codex_entries", c)
    BY <1>9, <1>12, <2>1
  <2> QED BY <1>11, <1>12, <2>2 DEF TypesUsed, Types
<1>15. t \notin after
  BY <1>5, <1>10 DEF Keyed
<1>16. PICK s \in left : Clash(s, t)
  BY <1>14, <1>15 DEF ImportOf, WithTypes
<1>17. Key(s) # Key(t)
  BY <1>2, <1>5, <1>10, <1>16 DEF Keyed
<1>18. s \in Types(server) /\ t \in Types(data)
  BY <1>1, <1>11, <1>16, <1>17 DEF Clash, Types
<1> QED BY <1>12, <1>13, <1>16, <1>17, <1>18

----------------------------------------
(* The invariant: what the databases keep, what is on its way, and what a  *)
(* program that is alone knows of the token file.                          *)

\* What was extracted is a database without violations of a foreign key.
Sent(v) == v.step = "sent" => IsDatabase(v.data) /\ Dangling(v.data) = {}

Writing(v) == v.step \in {"writing", "truncated"}

\* A program that is alone has read all that was saved before it writes.
TokensHeld ==
    \A u \in Uploaders : online = {u} =>
        /\ tokens # Broken => saved \subseteq tokens
        /\ Writing(call[u]) => saved \subseteq call[u].read

IInv ==
    /\ TypeOK
    /\ DOMAIN db = Sides /\ \A side \in Sides : Owned(db[side])
    /\ \A u \in Uploaders : Sent(call[u])
    /\ TokensHeld

\* What a call that has come to a step carries.
LEMMA CallShapes ==
    ASSUME NEW v \in Call
    PROVE  /\ v.step = "dialling" => v.addr \in Addresses /\ v.found \in BOOLEAN
           /\ v.step = "saving" => v.addr \in Addresses
           /\ Writing(v) => \E a \in Addresses, read \in SUBSET Addresses :
                 v = [step |-> v.step, addr |-> a, read |-> read]
           /\ v.step = "listing" => v.campaign \in CampaignIds
           /\ v.step = "extracting" =>
                 v.campaign \in CampaignIds /\ v.mode \in {"new", "overwrite"}
           /\ v.step = "sent" =>
                 v.campaign \in CampaignIds /\ v.mode \in {"new", "overwrite"}
BY DEF Call, Idle, Writing

\* Databases begin without violations of a foreign key, and nobody writes tokens.
LEMMA InitIInv ==
    ASSUME Init
    PROVE  IInv
<1>1. /\ db \in [local : Locals, server : Remotes] /\ tokens \in SUBSET Addresses
      /\ saved = tokens /\ call = [u \in Uploaders |-> Idle] /\ edits = 0
      /\ online \subseteq Uploaders
  BY DEF Init
<1>2. DOMAIN db = Sides /\ db["local"] \in Locals /\ db["server"] \in Remotes
  BY <1>1 DEF Sides
<1>3. \A side \in Sides : IsDatabase(db[side]) /\ Dangling(db[side]) = {}
  BY <1>2, ConstantsAssumption DEF Sides
<1>4. \A side \in Sides : Owned(db[side])
  BY <1>3, NothingDangles
<1>5. Idle \in Call /\ Sent(Idle) /\ ~Writing(Idle)
  BY DEF Call, Idle, Sent, Writing
<1>6. TypeOK
  BY <1>1, <1>3, <1>5, ConstantsAssumption DEF TypeOK
<1>7. TokensHeld
  BY <1>1, <1>5 DEF TokensHeld
<1> QED BY <1>1, <1>2, <1>4, <1>5, <1>6, <1>7 DEF IInv

\* A step of a call that changes neither a database nor the token file.
LEMMA ContinueKeepsIInv ==
    ASSUME IInv, NEW u \in Uploaders, NEW next \in Call, Continue(u, next), Sent(next),
           online = {u} /\ Writing(next) => saved \subseteq next.read,
           UNCHANGED <<db, tokens, saved, edits, online>>
    PROVE  IInv'
<1>1. call \in [Uploaders -> Call] /\ call' = [call EXCEPT ![u] = next]
  BY DEF IInv, TypeOK, Continue
<1>2. call' \in [Uploaders -> Call]
  BY <1>1
<1>3. TypeOK'
  BY <1>2 DEF IInv, TypeOK
<1>4. \A w \in Uploaders : call'[w] = IF w = u THEN next ELSE call[w]
  BY <1>1
<1>5. \A w \in Uploaders : Sent(call'[w])
  BY <1>4 DEF IInv
<1>6. TokensHeld'
  BY <1>4 DEF IInv, TokensHeld
<1> QED BY <1>3, <1>5, <1>6 DEF IInv, Sent

\* Steps that change no database and no file.
LEMMA SmallSteps ==
    ASSUME IInv, NEW u \in Uploaders,
           \/ \E addr \in Addresses : LookupToken(u, addr)
           \/ Dial(u) \/ ReadTokens(u)
           \/ \E c \in CampaignIds : promptCampaignChoice(u, c)
           \/ resolveUploadMode(u) \/ extractCampaignDB(u)
           \/ verifyAndReenableForeignKeys(u) \/ Fail(u)
    PROVE  IInv'
<1>0. call[u] \in Call /\ \A side \in Sides : IsDatabase(db[side])
  BY DEF IInv, TypeOK
<1>1. ASSUME NEW addr \in Addresses, LookupToken(u, addr)
      PROVE  IInv'
  <2>1. [step |-> "dialling", addr |-> addr, found |-> addr \in tokens] \in Call
    <3>1. (addr \in tokens) \in BOOLEAN
      OBVIOUS
    <3> QED BY <3>1 DEF Call
  <2> QED BY <1>1, <2>1, ContinueKeepsIInv DEF LookupToken, Sent, Writing
<1>2. ASSUME Dial(u)
      PROVE  IInv'
  <2>1. [step |-> "choosing"] \in Call
    BY DEF Call
  <2>2. [step |-> "saving", addr |-> call[u].addr] \in Call
    BY <1>0, <1>2, CallShapes DEF Call, Dial
  <2>3. CASE call[u].found
    BY <1>2, <2>1, <2>3, ContinueKeepsIInv DEF Dial, Sent, Writing
  <2>4. CASE ~call[u].found
    BY <1>2, <2>2, <2>4, ContinueKeepsIInv DEF Dial, Sent, Writing
  <2> QED BY <2>3, <2>4
<1>3. ASSUME ReadTokens(u)
      PROVE  IInv'
  <2>1. CASE tokens = Broken
    <3>1. [step |-> "choosing"] \in Call
      BY DEF Call
    <3> QED BY <1>3, <2>1, <3>1, ContinueKeepsIInv DEF ReadTokens, Sent, Writing
  <2>2. CASE tokens # Broken
    <3>1. tokens \in SUBSET Addresses
      BY <2>2 DEF IInv, TypeOK
    <3>2. PICK next : next = [step |-> "writing", addr |-> call[u].addr, read |-> tokens]
      OBVIOUS
    <3>3. next \in Call
      BY <1>0, <1>3, <3>1, <3>2, CallShapes DEF Call, ReadTokens
    <3>4. online = {u} => saved \subseteq next.read
      BY <2>2, <3>2 DEF IInv, TokensHeld
    <3>5. Sent(next)
      BY <3>2 DEF Sent
    <3> QED BY <1>3, <2>2, <3>2, <3>3, <3>4, <3>5, ContinueKeepsIInv DEF ReadTokens
  <2> QED BY <2>1, <2>2
<1>4. ASSUME NEW c \in CampaignIds, promptCampaignChoice(u, c)
      PROVE  IInv'
  <2>1. [step |-> "listing", campaign |-> c] \in Call
    BY DEF Call
  <2> QED BY <1>4, <2>1, ContinueKeepsIInv DEF promptCampaignChoice, Sent, Writing
<1>5. ASSUME resolveUploadMode(u)
      PROVE  IInv'
  <2>1. PICK mode \in {"new", "overwrite"} :
          mode = IF Has(db.server, call[u].campaign) THEN "overwrite" ELSE "new"
    OBVIOUS
  <2>2. [step |-> "extracting", campaign |-> call[u].campaign, mode |-> mode] \in Call
    BY <1>0, <1>5, CallShapes DEF Call, resolveUploadMode
  <2> QED BY <1>5, <2>1, <2>2, ContinueKeepsIInv DEF resolveUploadMode, Sent, Writing
<1>6. ASSUME extractCampaignDB(u)
      PROVE  IInv'
  <2>1. PICK c \in CampaignIds, mode \in {"new", "overwrite"} :
          c = call[u].campaign /\ mode = call[u].mode
    BY <1>0, <1>6, CallShapes DEF extractCampaignDB
  <2>2. PICK data : data = ExtractOf(db.local, c)
    OBVIOUS
  <2>3. IsDatabase(data) /\ Dangling(data) = {}
    BY <1>0, <1>6, <2>1, <2>2, ExtractIsDatabase DEF extractCampaignDB, Sides
  <2>4. data \in SUBSET (Rows \cup Builtin)
    BY <2>3 DEF IsDatabase
  <2>5. PICK next : next = [step |-> "sent", campaign |-> c, mode |-> mode, data |-> data]
    OBVIOUS
  <2>6. next \in Call
    BY <2>4, <2>5 DEF Call
  <2>7. Sent(next) /\ ~Writing(next)
    BY <2>3, <2>5 DEF Sent, Writing
  <2> QED BY <1>6, <2>1, <2>2, <2>5, <2>6, <2>7, ContinueKeepsIInv DEF extractCampaignDB
<1>7. ASSUME verifyAndReenableForeignKeys(u) \/ Fail(u)
      PROVE  IInv'
  <2>1. Idle \in Call /\ Sent(Idle) /\ ~Writing(Idle)
    BY DEF Call, Idle, Sent, Writing
  <2> QED BY <1>7, <2>1, ContinueKeepsIInv DEF verifyAndReenableForeignKeys, Fail
<1> QED BY <1>1, <1>2, <1>3, <1>4, <1>5, <1>6, <1>7

\* Writing the token file: it is emptied, then filled from what was read.
LEMMA WritesKeepIInv ==
    ASSUME IInv, NEW u \in online, TruncateTokens(u) \/ WriteTokens(u)
    PROVE  IInv'
<1>0. call \in [Uploaders -> Call] /\ u \in Uploaders /\ call[u] \in Call /\ TokensHeld
  BY DEF IInv, TypeOK
<1>1. Writing(call[u])
  BY DEF TruncateTokens, WriteTokens, Writing
<1>2. PICK a \in Addresses, read \in SUBSET Addresses :
        call[u] = [step |-> call[u].step, addr |-> a, read |-> read]
  BY <1>0, <1>1, CallShapes
<1>3. call[u].addr = a /\ call[u].read = read
  BY <1>2
<1>4. online = {u} => saved \subseteq read
  BY <1>0, <1>1, <1>3 DEF TokensHeld
<1>5. ASSUME TruncateTokens(u)
      PROVE  IInv'
  <2>1. [step |-> "truncated", addr |-> a, read |-> read] \in Call
    BY DEF Call
  <2>2. PICK next \in Call : next = [step |-> "truncated", addr |-> a, read |-> read]
    BY <2>1
  <2>3. [call[u] EXCEPT !.step = "truncated"] = next
    BY <1>2, <2>2
  <2>4. call' = [call EXCEPT ![u] = next] /\ tokens' = Broken
    BY <1>5, <2>3 DEF TruncateTokens, Continue
  <2>5. UNCHANGED <<db, saved, edits, online>>
    BY <1>5 DEF TruncateTokens
  <2>6. call' \in [Uploaders -> Call]
    BY <1>0, <2>4
  <2>7. TypeOK'
    BY <2>4, <2>5, <2>6 DEF IInv, TypeOK
  <2>8. \A w \in Uploaders : call'[w] = IF w = u THEN next ELSE call[w]
    BY <1>0, <2>4
  <2>9. \A w \in Uploaders : Sent(call'[w])
    BY <2>2, <2>8 DEF IInv, Sent
  <2>10. TokensHeld'
    BY <1>0, <1>4, <2>2, <2>4, <2>5, <2>8 DEF TokensHeld
  <2> QED BY <2>5, <2>7, <2>9, <2>10 DEF IInv, Sent
<1>6. ASSUME WriteTokens(u)
      PROVE  IInv'
  <2>1. PICK next \in Call : next = [step |-> "choosing"]
    BY DEF Call
  <2>2. /\ call' = [call EXCEPT ![u] = next]
        /\ tokens' = read \cup {a} /\ saved' = saved \cup {a}
        /\ UNCHANGED <<db, edits, online>>
    BY <1>3, <1>6, <2>1 DEF WriteTokens, Continue
  <2>3. call' \in [Uploaders -> Call]
    BY <1>0, <2>2
  <2>4. saved' \subseteq Addresses /\ tokens' \subseteq Addresses
    BY <2>2 DEF IInv, TypeOK
  <2>5. TypeOK'
    BY <2>2, <2>3, <2>4 DEF IInv, TypeOK
  <2>6. \A w \in Uploaders : call'[w] = IF w = u THEN next ELSE call[w]
    BY <1>0, <2>2
  <2>7. \A w \in Uploaders : Sent(call'[w])
    BY <2>1, <2>6 DEF IInv, Sent
  <2>8. \A w \in Uploaders : online' = {w} => w = u /\ saved' \subseteq tokens'
    BY <1>4, <2>2
  <2>9. ~Writing(call'[u])
    BY <1>0, <2>1, <2>6 DEF Writing
  <2>10. TokensHeld'
    BY <2>8, <2>9 DEF TokensHeld
  <2> QED BY <2>2, <2>5, <2>7, <2>10 DEF IInv, Sent
<1> QED BY <1>5, <1>6

\* An import, in the terms of the lemmas about databases.
LEMMA ImportIsImport ==
    ASSUME IInv, NEW u \in online, importCampaign(u)
    PROVE  \E c \in CampaignIds : \E left, data :
              /\ c = call[u].campaign /\ data = call[u].data
              /\ Importable(db["server"], left, data, c)
              /\ call[u].mode = "new" => left = db["server"]
              /\ db' = [db EXCEPT !["server"] = ImportOf(left, data, c)]
              /\ call' = [call EXCEPT ![u] = [step |-> "imported"]]
              /\ UNCHANGED <<tokens, saved, edits, online>>
<1>1. u \in Uploaders /\ call[u] \in Call /\ call[u].step = "sent"
  BY DEF IInv, TypeOK, importCampaign
<1>2. PICK c \in CampaignIds : c = call[u].campaign
  BY <1>1, CallShapes
<1>3. call[u].mode \in {"new", "overwrite"}
  BY <1>1, CallShapes
<1>4. PICK data : data = call[u].data
  OBVIOUS
<1>5. PICK server : server = db["server"]
  OBVIOUS
<1>6. IsDatabase(server) /\ Owned(server)
  BY <1>5 DEF IInv, TypeOK, Sides
<1>7. IsDatabase(data) /\ Dangling(data) = {}
  BY <1>1, <1>4 DEF IInv, Sent
<1>8. PICK left : left = IF call[u].mode = "overwrite" THEN deleteCampaignData(server, c)
                         ELSE server
  OBVIOUS
<1>9. /\ call[u].mode = "new" => ~Has(server, c)
      /\ CanInsert(left, CampaignRows(data, c))
      /\ db' = [db EXCEPT !["server"] = ImportOf(left, data, c)]
      /\ call' = [call EXCEPT ![u] = [step |-> "imported"]]
      /\ UNCHANGED <<tokens, saved, edits, online>>
  BY <1>2, <1>4, <1>5, <1>8 DEF importCampaign, ImportOf, Continue
<1>10. left = server \ CampaignRows(server, c)
  <2>1. CASE call[u].mode = "overwrite"
    BY <1>8, <2>1, DeletionIs
  <2>2. CASE call[u].mode = "new"
    BY <1>6, <1>8, <1>9, <2>2, NothingOfIt
  <2> QED BY <1>3, <2>1, <2>2
<1>11. Importable(server, left, data, c)
  BY <1>6, <1>7, <1>9, <1>10 DEF Importable
<1> QED BY <1>2, <1>4, <1>5, <1>8, <1>9, <1>11

\* An import keeps the invariant.
LEMMA ImportKeepsIInv ==
    ASSUME IInv, NEW u \in online, importCampaign(u)
    PROVE  IInv'
<1>1. PICK c \in CampaignIds : \E left, data :
        /\ Importable(db["server"], left, data, c)
        /\ db' = [db EXCEPT !["server"] = ImportOf(left, data, c)]
        /\ call' = [call EXCEPT ![u] = [step |-> "imported"]]
        /\ UNCHANGED <<tokens, saved, edits, online>>
  BY ImportIsImport
<1>2. PICK left, data :
        /\ Importable(db["server"], left, data, c)
        /\ db' = [db EXCEPT !["server"] = ImportOf(left, data, c)]
        /\ call' = [call EXCEPT ![u] = [step |-> "imported"]]
        /\ UNCHANGED <<tokens, saved, edits, online>>
  BY <1>1
<1>3. PICK after : after = ImportOf(left, data, c)
  OBVIOUS
<1>4. IsDatabase(after) /\ Owned(after)
  BY <1>2, <1>3, ImportIsDatabase, ImportIsOwned
<1>5. /\ DOMAIN db' = Sides
      /\ \A side \in Sides : db'[side] = IF side = "server" THEN after ELSE db[side]
  BY <1>2, <1>3 DEF IInv, Sides
<1>6. PICK next \in Call : next = [step |-> "imported"]
  BY DEF Call
<1>7. call' = [call EXCEPT ![u] = next] /\ call \in [Uploaders -> Call] /\ u \in Uploaders
  BY <1>2, <1>6 DEF IInv, TypeOK
<1>8. /\ call' \in [Uploaders -> Call]
      /\ \A w \in Uploaders : call'[w] = IF w = u THEN next ELSE call[w]
  BY <1>7
<1>9. TypeOK'
  BY <1>2, <1>4, <1>5, <1>8 DEF IInv, TypeOK
<1>10. \A w \in Uploaders : Sent(call'[w])
  BY <1>6, <1>8 DEF IInv, Sent
<1>11. TokensHeld'
  BY <1>2, <1>6, <1>8 DEF IInv, TokensHeld, Writing
<1>12. \A side \in Sides : Owned(db'[side])
  BY <1>4, <1>5 DEF IInv
<1> QED BY <1>5, <1>9, <1>10, <1>11, <1>12 DEF IInv, Sent, Owned, Keyed

----------------------------------------
(* Users.                                                                  *)

\* Rows whose keys can be had elsewhere are in need of no more there.
LEMMA MoreKeysLessMissing ==
    ASSUME NEW rows, NEW more, \A s \in rows : Keyed(more, Key(s)), NEW r
    PROVE  Missing(r, more) \subseteq Missing(r, rows)
BY MissingIs DEF Keyed

\* A row that clashes with none and misses nothing is added.
LEMMA AddedRow ==
    ASSUME NEW rows, IsDatabase(rows), Owned(rows), NEW r \in Rows,
           \A s \in rows : ~Clash(r, s), Missing(r, rows) = {}
    PROVE  /\ IsDatabase(rows \cup {r}) /\ Owned(rows \cup {r})
           /\ Dangling(rows \cup {r}) \subseteq Dangling(rows)
<1>1. PICK more : more = rows \cup {r}
  OBVIOUS
<1>2. \A s \in more : s \in rows \/ s = r
  BY <1>1
<1>3. IsDatabase(more)
  <2>1. \A s \in rows : ~Clash(s, r)
    BY DEF Clash
  <2> QED BY <1>1, <1>2, <2>1 DEF IsDatabase
<1>4. \A s \in rows : Keyed(more, Key(s))
  BY <1>1 DEF Keyed
<1>5. \A s : Missing(s, more) \subseteq Missing(s, rows)
  BY <1>4, MoreKeysLessMissing
<1>6. Dangling(more) \subseteq Dangling(rows)
  BY <1>2, <1>5 DEF Dangling
<1>7. Owned(more)
  <2>1. ASSUME NEW s \in more, NEW k \in OwnerKeys(s)
        PROVE  Keyed(more, k)
    <3>1. CASE s \in rows
      BY <1>1, <2>1, <3>1 DEF Owned, Keyed
    <3>2. CASE s = r
      <4>1. k \in Needs(r)
        BY <2>1, <3>2, NeedsAreRefsAndOwner
      <4> QED BY <1>1, <4>1, MissingIs DEF Keyed
    <3> QED BY <1>2, <3>1, <3>2
  <2> QED BY <2>1 DEF Owned
<1> QED BY <1>1, <1>3, <1>6, <1>7

\* A row that none needs is deleted.
LEMMA DeletedRow ==
    ASSUME NEW rows, IsDatabase(rows), Owned(rows), NEW r \in rows,
           \A s \in rows : Key(r) \notin Needs(s)
    PROVE  /\ IsDatabase(rows \ {r}) /\ Owned(rows \ {r})
           /\ Dangling(rows \ {r}) \subseteq Dangling(rows)
<1>1. PICK fewer : fewer = rows \ {r}
  OBVIOUS
<1>2. IsDatabase(fewer)
  BY <1>1 DEF IsDatabase
<1>3. ASSUME NEW s \in fewer, NEW k \in Needs(s), Keyed(rows, k)
      PROVE  Keyed(fewer, k)
  BY <1>1, <1>3 DEF Keyed
<1>4. \A s \in fewer : Missing(s, fewer) \subseteq Missing(s, rows)
  BY <1>3, MissingIs
<1>5. Dangling(fewer) \subseteq Dangling(rows)
  BY <1>1, <1>4 DEF Dangling
<1>6. \A s \in fewer : \A k \in OwnerKeys(s) : Keyed(fewer, k)
  BY <1>1, <1>3, NeedsAreRefsAndOwner DEF Owned
<1> QED BY <1>1, <1>2, <1>5, <1>6 DEF Owned

\* A row gives way to another of its key and owner.
LEMMA ChangedRow ==
    ASSUME NEW rows, IsDatabase(rows), Owned(rows), NEW r \in rows, NEW s \in Rows \ rows,
           Key(s) = Key(r), s.owner = r.owner,
           \A t \in rows \ {r} : ~Clash(s, t), Missing(s, rows) = {}
    PROVE  /\ IsDatabase((rows \ {r}) \cup {s}) /\ Owned((rows \ {r}) \cup {s})
           /\ Dangling((rows \ {r}) \cup {s}) \subseteq Dangling(rows)
<1>1. PICK other : other = (rows \ {r}) \cup {s}
  OBVIOUS
<1>2. \A t \in other : t \in rows \ {r} \/ t = s
  BY <1>1
<1>3. IsDatabase(other)
  <2>1. \A t \in rows \ {r} : ~Clash(t, s)
    BY DEF Clash
  <2> QED BY <1>1, <1>2, <2>1 DEF IsDatabase
<1>4. \A t \in rows : Keyed(other, Key(t))
  BY <1>1 DEF Keyed
<1>5. \A t : Missing(t, other) \subseteq Missing(t, rows)
  BY <1>4, MoreKeysLessMissing
<1>6. Dangling(other) \subseteq Dangling(rows)
  BY <1>2, <1>5 DEF Dangling
<1>7. ASSUME NEW t \in other, NEW k \in OwnerKeys(t)
      PROVE  Keyed(other, k)
  <2>1. Keyed(rows, k)
    <3>1. CASE t \in rows
      BY <1>7, <3>1 DEF Owned
    <3>2. CASE t = s
      <4>1. k \in Needs(s)
        BY <1>7, <3>2, NeedsAreRefsAndOwner
      <4> QED BY <4>1, MissingIs
    <3> QED BY <1>2, <3>1, <3>2
  <2> QED BY <1>4, <2>1 DEF Keyed
<1> QED BY <1>1, <1>3, <1>6, <1>7 DEF Owned

\* What users do violates no foreign key.
LEMMA UserStepIs ==
    ASSUME IInv, NEW side \in Sides, UserStep(side)
    PROVE  \E rows :
              /\ IsDatabase(rows) /\ Owned(rows)
              /\ Dangling(rows) \subseteq Dangling(db[side])
              /\ Edit(side, rows)
<1>1. PICK old : old = db[side]
  OBVIOUS
<1>2. IsDatabase(old) /\ Owned(old)
  BY <1>1 DEF IInv, TypeOK
<1>3. CASE AddRow(side)
  BY <1>1, <1>2, <1>3, AddedRow DEF AddRow
<1>4. CASE DeleteRow(side)
  BY <1>1, <1>2, <1>4, DeletedRow DEF DeleteRow
<1>5. CASE ChangeRow(side)
  <2>1. PICK r \in old, s \in Rows \ old :
          /\ Key(s) = Key(r) /\ s.owner = r.owner
          /\ \A t \in old \ {r} : ~Clash(s, t)
          /\ Missing(s, old) = {}
          /\ Edit(side, (old \ {r}) \cup {s})
    <3>1. db[side] \subseteq Rows
      BY <1>1, <1>2 DEF IsDatabase
    <3> QED BY <1>1, <1>5, <3>1 DEF ChangeRow
  <2> QED BY <1>1, <1>2, <2>1, ChangedRow
<1> QED BY <1>3, <1>4, <1>5 DEF UserStep

\* Users keep the invariant.
LEMMA UserStepKeepsIInv ==
    ASSUME IInv, NEW side \in Sides, UserStep(side)
    PROVE  IInv'
<1>1. PICK rows : IsDatabase(rows) /\ Owned(rows) /\ Edit(side, rows)
  BY UserStepIs
<1>2. /\ DOMAIN db' = Sides
      /\ \A other \in Sides : db'[other] = IF other = side THEN rows ELSE db[other]
  BY <1>1 DEF IInv, Edit
<1>3. edits' \in 0..MaxEdits
  BY <1>1, ConstantsAssumption DEF IInv, TypeOK, Edit
<1>4. UNCHANGED <<tokens, saved, call, online>>
  BY <1>1 DEF Edit
<1>5. TypeOK'
  BY <1>1, <1>2, <1>3, <1>4 DEF IInv, TypeOK
<1>6. \A other \in Sides : Owned(db'[other])
  BY <1>1, <1>2 DEF IInv
<1>7. TokensHeld' /\ \A w \in Uploaders : Sent(call'[w])
  BY <1>4 DEF IInv, TokensHeld
<1> QED BY <1>2, <1>5, <1>6, <1>7 DEF IInv, Owned, Keyed, Sent

\* No step breaks the invariant.
LEMMA NextKeepsIInv ==
    ASSUME IInv, [Next]_vars
    PROVE  IInv'
<1>1. ASSUME NEW u \in online, UploaderStep(u)
      PROVE  IInv'
  <2>1. u \in Uploaders
    BY DEF IInv, TypeOK
  <2>2. CASE TruncateTokens(u) \/ WriteTokens(u)
    BY <2>2, WritesKeepIInv
  <2>3. CASE importCampaign(u)
    BY <2>3, ImportKeepsIInv
  <2>4. CASE \/ \E addr \in Addresses : LookupToken(u, addr)
             \/ Dial(u) \/ ReadTokens(u)
             \/ \E c \in CampaignIds : promptCampaignChoice(u, c)
             \/ resolveUploadMode(u) \/ extractCampaignDB(u)
             \/ verifyAndReenableForeignKeys(u) \/ Fail(u)
    BY <2>1, <2>4, SmallSteps
  <2> QED BY <1>1, <2>2, <2>3, <2>4 DEF UploaderStep
<1>2. CASE UNCHANGED vars
  BY <1>2 DEF vars, IInv, TypeOK, TokensHeld, Sent, Owned, Keyed
<1> QED BY <1>1, <1>2, UserStepKeepsIInv DEF Next

----------------------------------------
(* What follows.                                                           *)

\* Spec keeps the invariant.
THEOREM TransferInvariance == Spec => []IInv
BY InitIInv, NextKeepsIInv, PTL DEF Spec

\* Both databases always hold rows that can be there together, and calls carry what their
\* steps need.
THEOREM TransferTypeCorrect == Spec => []TypeOK
<1>1. IInv => TypeOK
  BY DEF IInv
<1> QED BY <1>1, TransferInvariance, PTL

\* A program that has tokens.json to itself loses no token that was written
\* (SaveToken), unless it is cut off while it writes.
THEOREM TokensKept == Spec => []SoleTokensKept
<1>1. IInv => SoleTokensKept
  BY DEF IInv, TokensHeld, SoleTokensKept
<1> QED BY <1>1, TransferInvariance, PTL

\* Only an import imports.
LEMMA ImportsAre ==
    ASSUME IInv, [Next]_vars, NEW w \in Uploaders, Imports(w)
    PROVE  w \in online /\ importCampaign(w)
<1>0. call \in [Uploaders -> Call] /\ call[w].step = "sent" /\ call'[w].step = "imported"
  BY DEF IInv, TypeOK, Imports
<1>1. call' # call
  BY <1>0
<1>2. PICK u \in online : UploaderStep(u)
  BY <1>1 DEF Next, vars, UserStep, AddRow, DeleteRow, ChangeRow, Edit
<1>3. ASSUME NEW next, call' = [call EXCEPT ![u] = next], next.step # "imported"
      PROVE  FALSE
  BY <1>0, <1>3 DEF IInv, TypeOK
<1>4. ASSUME NEW next, call' = [call EXCEPT ![u] = next], call[u].step # "sent"
      PROVE  FALSE
  BY <1>0, <1>4 DEF IInv, TypeOK
<1>5. CASE importCampaign(u)
  BY <1>0, <1>2, <1>5 DEF importCampaign, Continue
<1>6. ASSUME NEW addr \in Addresses, LookupToken(u, addr)
      PROVE  FALSE
  <2>1. call[u].step # "sent"
    BY <1>6 DEF LookupToken, Idle
  <2>2. \E next : call' = [call EXCEPT ![u] = next]
    BY <1>6 DEF LookupToken, Continue
  <2> QED BY <1>4, <2>1, <2>2
<1>7. CASE Dial(u)
  BY <1>4, <1>7 DEF Dial, Continue
<1>8. CASE ReadTokens(u)
  BY <1>4, <1>8 DEF ReadTokens, Continue
<1>9. CASE TruncateTokens(u)
  BY <1>4, <1>9 DEF TruncateTokens, Continue
<1>10. CASE WriteTokens(u)
  BY <1>4, <1>10 DEF WriteTokens, Continue
<1>11. ASSUME NEW c \in CampaignIds, promptCampaignChoice(u, c)
       PROVE  FALSE
  BY <1>4, <1>11 DEF promptCampaignChoice, Continue
<1>12. CASE resolveUploadMode(u)
  BY <1>4, <1>12 DEF resolveUploadMode, Continue
<1>13. CASE extractCampaignDB(u)
  BY <1>4, <1>13 DEF extractCampaignDB, Continue
<1>14. CASE verifyAndReenableForeignKeys(u) \/ Fail(u)
  <2>1. Idle.step # "imported"
    BY DEF Idle
  <2>2. call' = [call EXCEPT ![u] = Idle]
    BY <1>14 DEF verifyAndReenableForeignKeys, Fail, Continue
  <2> QED BY <1>3, <2>1, <2>2
<1> QED BY <1>2, <1>5, <1>6, <1>7, <1>8, <1>9, <1>10, <1>11, <1>12, <1>13, <1>14 DEF UploaderStep

\* What ArrivesWhole says of a program in a step.
Whole(u) ==
    LET c == call[u].campaign
    IN  /\ CampaignRows(db'.server, c) = CampaignRows(call[u].data, c)
        /\ db.server \ CampaignRows(db.server, c) \subseteq db'.server
        /\ db'.server \ db.server \subseteq call[u].data
        /\ call[u].mode = "new" => db.server \subseteq db'.server

\* An import brings the campaign as it was sent.
LEMMA StepArrivesWhole ==
    ASSUME IInv, [Next]_vars, NEW u \in Uploaders, Imports(u)
    PROVE  Whole(u)
<1>1. u \in online /\ importCampaign(u)
  BY ImportsAre
<1>2. PICK c \in CampaignIds : \E left, data :
        /\ c = call[u].campaign /\ data = call[u].data
        /\ Importable(db["server"], left, data, c)
        /\ call[u].mode = "new" => left = db["server"]
        /\ db' = [db EXCEPT !["server"] = ImportOf(left, data, c)]
  BY <1>1, ImportIsImport
<1>3. PICK left, data :
        /\ c = call[u].campaign /\ data = call[u].data
        /\ Importable(db["server"], left, data, c)
        /\ call[u].mode = "new" => left = db["server"]
        /\ db' = [db EXCEPT !["server"] = ImportOf(left, data, c)]
  BY <1>2
<1>4. PICK server, after : server = db["server"] /\ after = ImportOf(left, data, c)
  OBVIOUS
<1>5. db'["server"] = after
  BY <1>3, <1>4 DEF IInv, Sides
<1>6. CampaignRows(after, c) = CampaignRows(data, c)
  BY <1>3, <1>4, ImportIsExact
<1>7. left = server \ CampaignRows(server, c) /\ left \subseteq after
  BY <1>3, <1>4, ImportedRows DEF Importable
<1>8. after \ server \subseteq data
  <2>1. \A r \in CampaignRows(data, c) : r \in data
    BY CopiedRows
  <2> QED BY <1>4, <1>7, <2>1, ImportedRows DEF Types
<1> QED BY <1>3, <1>4, <1>5, <1>6, <1>7, <1>8 DEF Whole

\* What an import brings is the campaign that was extracted, whole, and it takes nothing
\* but what the user gave up (importCampaign, deleteCampaignData).
THEOREM CampaignArrives == Spec => ArrivesWhole
<1>1. IInv /\ [Next]_vars => [\A u \in Uploaders : Imports(u) => Whole(u)]_vars
  BY StepArrivesWhole
<1>2. [\A u \in Uploaders : Imports(u) => Whole(u)]_vars
        => [\A u \in Uploaders : Imports(u) =>
              LET c == call[u].campaign
              IN  /\ CampaignRows(db'.server, c) = CampaignRows(call[u].data, c)
                  /\ db.server \ CampaignRows(db.server, c) \subseteq db'.server
                  /\ db'.server \ db.server \subseteq call[u].data
                  /\ call[u].mode = "new" => db.server \subseteq db'.server]_vars
  BY DEF Whole
<1> QED BY <1>1, <1>2, TransferInvariance, PTL DEF Spec, ArrivesWhole

\* What OnlyTypesStayAway says of a step.
TypesStayAway ==
    \A side \in Sides : \A r \in Dangling(db'[side]) \ Dangling(db[side]) :
        /\ side = "server" /\ r.table = "codex_entries"
        /\ \E u \in Uploaders :
              /\ Imports(u)
              /\ \E t \in Types(call[u].data), s \in Types(db.server) :
                    Missing(r, db'.server) = {Key(t)} /\ Key(s) # Key(t) /\ Clash(s, t)

\* A step leaves nothing without its parent but entries of a type that stayed away.
LEMMA StepTypesStayAway ==
    ASSUME IInv, [Next]_vars
    PROVE  TypesStayAway
<1>1. ASSUME NEW side \in Sides, UserStep(side)
      PROVE  TypesStayAway
  <2>1. PICK rows : Dangling(rows) \subseteq Dangling(db[side]) /\ Edit(side, rows)
    BY <1>1, UserStepIs
  <2>2. \A other \in Sides : db'[other] = IF other = side THEN rows ELSE db[other]
    BY <2>1 DEF IInv, Edit
  <2>3. \A other \in Sides : Dangling(db'[other]) \subseteq Dangling(db[other])
    BY <2>1, <2>2
  <2> QED BY <2>3 DEF TypesStayAway
<1>2. ASSUME db' = db
      PROVE  TypesStayAway
  BY <1>2 DEF TypesStayAway
<1>3. ASSUME NEW u \in online, importCampaign(u)
      PROVE  TypesStayAway
  <2>1. PICK c \in CampaignIds : \E left, data :
          /\ data = call[u].data
          /\ Importable(db["server"], left, data, c)
          /\ db' = [db EXCEPT !["server"] = ImportOf(left, data, c)]
          /\ call' = [call EXCEPT ![u] = [step |-> "imported"]]
    BY <1>3, ImportIsImport
  <2>2. PICK left, data :
          /\ data = call[u].data
          /\ Importable(db["server"], left, data, c)
          /\ db' = [db EXCEPT !["server"] = ImportOf(left, data, c)]
          /\ call' = [call EXCEPT ![u] = [step |-> "imported"]]
    BY <2>1
  <2>3. PICK server, after : server = db["server"] /\ after = ImportOf(left, data, c)
    OBVIOUS
  <2>4. \A side \in Sides : db'[side] = IF side = "server" THEN after ELSE db[side]
    BY <2>2, <2>3 DEF IInv, Sides
  <2>5. u \in Uploaders /\ Imports(u)
    <3>1. u \in Uploaders /\ call[u].step = "sent" /\ call \in [Uploaders -> Call]
      BY <1>3 DEF IInv, TypeOK, importCampaign
    <3>2. call'[u] = [step |-> "imported"]
      BY <2>2, <3>1
    <3> QED BY <3>1, <3>2 DEF Imports
  <2>6. ASSUME NEW side \in Sides, NEW r \in Dangling(db'[side]) \ Dangling(db[side])
        PROVE  /\ side = "server" /\ r.table = "codex_entries"
               /\ \E t \in Types(data), s \in Types(server) :
                     Missing(r, after) = {Key(t)} /\ Key(s) # Key(t) /\ Clash(s, t)
    <3>1. side = "server"
      BY <2>4, <2>6
    <3>2. r \in Dangling(after) \ Dangling(server)
      BY <2>3, <2>4, <2>6, <3>1
    <3> QED BY <2>2, <2>3, <3>1, <3>2, ImportLeavesTypes
  <2>7. db'["server"] = after
    BY <2>4 DEF Sides
  <2> QED BY <2>2, <2>3, <2>5, <2>6, <2>7 DEF TypesStayAway
<1>4. ASSUME NEW u \in online, UploaderStep(u), ~importCampaign(u)
      PROVE  db' = db
  BY <1>4 DEF UploaderStep, LookupToken, Dial, ReadTokens, TruncateTokens, WriteTokens,
     promptCampaignChoice, resolveUploadMode, extractCampaignDB,
     verifyAndReenableForeignKeys, Fail
<1>5. UNCHANGED vars => db' = db
  BY DEF vars
<1> QED BY <1>1, <1>2, <1>3, <1>4, <1>5 DEF Next

\* All that an import leaves without its parent is an entry whose codex type stayed away
\* for another of its name (insertCampaignData); users' changes leave nothing.
THEOREM TypesOnlyStayAway == Spec => OnlyTypesStayAway
<1>1. IInv /\ [Next]_vars => [TypesStayAway]_vars
  BY StepTypesStayAway
<1> QED BY <1>1, TransferInvariance, PTL DEF Spec, OnlyTypesStayAway, TypesStayAway

----------------------------------------
(* Editor: nothing that was written is lost, no key ends the program.      *)

(* Sequences that are cut, and put together again.                         *)

LEMMA Cuts ==
    ASSUME NEW S, NEW s \in Seq(S), NEW n \in 0..Len(s)
    PROVE  /\ SubSeq(s, 1, n) \in Seq(S) /\ Len(SubSeq(s, 1, n)) = n
           /\ \A i \in 1..n : SubSeq(s, 1, n)[i] = s[i]
           /\ SubSeq(s, n + 1, Len(s)) \in Seq(S) /\ Len(SubSeq(s, n + 1, Len(s))) = Len(s) - n
           /\ \A i \in 1..Len(s) - n : SubSeq(s, n + 1, Len(s))[i] = s[n + i]
<1>1. Len(s) \in Nat /\ n \in Int /\ 1 \in Int /\ n + 1 \in Int /\ Len(s) \in Int
  BY LenProperties
<1>2. (\A i \in 1..n : s[i] \in S) /\ (\A i \in n + 1..Len(s) : s[i] \in S)
  BY <1>1, ElementOfSeq
<1>3. /\ SubSeq(s, 1, n) \in Seq(S)
      /\ Len(SubSeq(s, 1, n)) = IF 1 <= n THEN n - 1 + 1 ELSE 0
      /\ \A i \in 1..n - 1 + 1 : SubSeq(s, 1, n)[i] = s[1 + i - 1]
  BY <1>1, <1>2, SubSeqProperties
<1>4. /\ SubSeq(s, n + 1, Len(s)) \in Seq(S)
      /\ Len(SubSeq(s, n + 1, Len(s))) = IF n + 1 <= Len(s) THEN Len(s) - (n + 1) + 1 ELSE 0
      /\ \A i \in 1..Len(s) - (n + 1) + 1 : SubSeq(s, n + 1, Len(s))[i] = s[n + 1 + i - 1]
  BY <1>1, <1>2, SubSeqProperties
<1>5. \A i \in 1..n : SubSeq(s, 1, n)[i] = s[i]
  BY <1>1, <1>3
<1>6. \A i \in 1..Len(s) - n : SubSeq(s, n + 1, Len(s))[i] = s[n + i]
  <2>1. ASSUME NEW i \in 1..Len(s) - n
        PROVE  SubSeq(s, n + 1, Len(s))[i] = s[n + i]
    <3>1. i \in 1..Len(s) - (n + 1) + 1 /\ n + 1 + i - 1 = n + i
      BY <1>1
    <3> QED BY <1>4, <3>1
  <2> QED BY <2>1
<1> QED BY <1>1, <1>3, <1>4, <1>5, <1>6

LEMMA Joins ==
    ASSUME NEW S, NEW s \in Seq(S), NEW x \in S, NEW t \in Seq(S)
    PROVE  /\ s \o <<x>> \o t \in Seq(S) /\ Len(s \o <<x>> \o t) = Len(s) + 1 + Len(t)
<1>1. <<x>> \in Seq(S) /\ Len(<<x>>) = 1
  OBVIOUS
<1>2. s \o <<x>> \in Seq(S) /\ Len(s \o <<x>>) = Len(s) + 1
  BY <1>1, ConcatProperties
<1> QED BY <1>2, ConcatProperties

LEMMA RemovesAt ==
    ASSUME NEW S, NEW s \in Seq(S), NEW i \in 1..Len(s)
    PROVE  RemoveAt(s, i) \in Seq(S) /\ Len(RemoveAt(s, i)) = Len(s) - 1
<1>1. Len(s) \in Nat /\ i - 1 \in 0..Len(s) /\ i \in 0..Len(s)
  BY LenProperties
<1>2. SubSeq(s, 1, i - 1) \in Seq(S) /\ Len(SubSeq(s, 1, i - 1)) = i - 1
  BY <1>1, Cuts
<1>3. SubSeq(s, i + 1, Len(s)) \in Seq(S) /\ Len(SubSeq(s, i + 1, Len(s))) = Len(s) - i
  BY <1>1, Cuts
<1> DEFINE before == SubSeq(s, 1, i - 1)
           after == SubSeq(s, i + 1, Len(s))
<1>4. RemoveAt(s, i) = before \o after
  BY DEF RemoveAt
<1>5. before \in Seq(S) /\ Len(before) = i - 1 /\ after \in Seq(S) /\ Len(after) = Len(s) - i
  BY <1>2, <1>3
<1> HIDE DEF before, after
<1>6. before \o after \in Seq(S) /\ Len(before \o after) = Len(before) + Len(after)
  BY <1>5, ConcatProperties
<1> QED BY <1>1, <1>4, <1>5, <1>6

\* A removal leaves what stands before it.
LEMMA RemovesBehind ==
    ASSUME NEW S, NEW s \in Seq(S), NEW i \in 1..Len(s), NEW j \in 1..i - 1
    PROVE  RemoveAt(s, i)[j] = s[j]
<1>1. Len(s) \in Nat /\ i - 1 \in 0..Len(s) /\ i \in 0..Len(s)
  BY LenProperties
<1>2. /\ SubSeq(s, 1, i - 1) \in Seq(S) /\ Len(SubSeq(s, 1, i - 1)) = i - 1
      /\ SubSeq(s, 1, i - 1)[j] = s[j]
  BY <1>1, Cuts
<1>3. SubSeq(s, i + 1, Len(s)) \in Seq(S) /\ Len(SubSeq(s, i + 1, Len(s))) = Len(s) - i
  BY <1>1, Cuts
<1> DEFINE before == SubSeq(s, 1, i - 1)
           after == SubSeq(s, i + 1, Len(s))
<1>4. RemoveAt(s, i) = before \o after
  BY DEF RemoveAt
<1>5. before \in Seq(S) /\ Len(before) = i - 1 /\ before[j] = s[j] /\ after \in Seq(S)
  BY <1>2, <1>3
<1> HIDE DEF before, after
<1>6. Len(after) \in Nat /\ j \in 1..Len(before) + Len(after) /\ j <= Len(before)
  BY <1>1, <1>5, LenProperties
<1>7. (before \o after)[j] = before[j]
  BY <1>5, <1>6, ConcatProperties
<1> QED BY <1>4, <1>5, <1>7

LEMMA InsertsAt ==
    ASSUME NEW S, NEW s \in Seq(S), NEW i \in 1..Len(s) + 1, NEW x \in S
    PROVE  /\ InsertAt(s, i, x) \in Seq(S) /\ Len(InsertAt(s, i, x)) = Len(s) + 1
           /\ InsertAt(s, i, x)[i] = x
<1>1. Len(s) \in Nat /\ i - 1 \in 0..Len(s) /\ (i - 1) + 1 = i
  BY LenProperties
<1>2. SubSeq(s, 1, i - 1) \in Seq(S) /\ Len(SubSeq(s, 1, i - 1)) = i - 1
  BY <1>1, Cuts
<1>3. SubSeq(s, i, Len(s)) \in Seq(S) /\ Len(SubSeq(s, i, Len(s))) = Len(s) - (i - 1)
  BY <1>1, Cuts
<1> DEFINE before == SubSeq(s, 1, i - 1)
           after == SubSeq(s, i, Len(s))
<1>4. InsertAt(s, i, x) = before \o <<x>> \o after
  BY DEF InsertAt
<1>5. before \in Seq(S) /\ Len(before) = i - 1 /\ after \in Seq(S) /\ Len(after) = Len(s) - (i - 1)
  BY <1>2, <1>3
<1> HIDE DEF before, after
<1>6. <<x>> \in Seq(S) /\ Len(<<x>>) = 1 /\ <<x>>[1] = x
  OBVIOUS
<1>7. before \o <<x>> \in Seq(S) /\ Len(before \o <<x>>) = i /\ (before \o <<x>>)[i] = x
  BY <1>1, <1>5, <1>6, ConcatProperties
<1>8. (before \o <<x>> \o after)[i] = x
  BY <1>1, <1>5, <1>7, ConcatProperties
<1>9. /\ before \o <<x>> \o after \in Seq(S)
      /\ Len(before \o <<x>> \o after) = (i - 1) + 1 + (Len(s) - (i - 1))
  BY <1>5, Joins
<1> QED BY <1>1, <1>4, <1>8, <1>9

LEMMA ReplacesAt ==
    ASSUME NEW S, NEW s \in Seq(S), NEW i \in 1..Len(s), NEW x \in S
    PROVE  /\ ReplaceAt(s, i, x) \in Seq(S) /\ Len(ReplaceAt(s, i, x)) = Len(s)
           /\ ReplaceAt(s, i, x)[i] = x
           /\ \A j \in 1..Len(s) : j # i => ReplaceAt(s, i, x)[j] = s[j]
BY ExceptSeq DEF ReplaceAt

LEMMA ReplacesThere ==
    ASSUME NEW S, NEW s \in Seq(S), NEW i \in 1..Len(s), NEW x \in S
    PROVE  ReplaceAt(s, i, x)[i] = x
BY ReplacesAt

LEMMA ReplacesElsewhere ==
    ASSUME NEW S, NEW s \in Seq(S), NEW i \in 1..Len(s), NEW x \in S,
           NEW j \in 1..Len(s), j # i
    PROVE  ReplaceAt(s, i, x)[j] = s[j]
BY ReplacesAt

LEMMA Reverses ==
    ASSUME NEW S, NEW s \in Seq(S)
    PROVE  /\ Reverse(s) \in Seq(S) /\ Len(Reverse(s)) = Len(s)
           /\ \A i \in 1..Len(s) : Reverse(s)[i] = s[Len(s) - i + 1]
<1>1. Len(s) \in Nat /\ DOMAIN s = 1..Len(s)
  BY LenProperties
<1>2. \A i \in 1..Len(s) : Len(s) - i + 1 \in 1..Len(s)
  BY <1>1
<1>3. \A i \in 1..Len(s) : s[Len(s) - i + 1] \in S
  BY <1>2, ElementOfSeq
<1>4. Reverse(s) \in [1..Len(s) -> S]
  BY <1>3 DEF Reverse
<1> QED BY <1>1, <1>4 DEF Reverse

----------------------------------------
(* Buffers.                                                                *)

Chars == {Letter, Blank, Bullet}
BodyTexts == Seq(Seq(Chars)) \ {<<>>}
Snaps == [lines : BodyTexts, row : Nat \ {0}, col : Nat]

Buffers ==
    [command : {"notes.create", "notes.update"}, key : Nat, title : Titles,
     lines : BodyTexts, opened : BodyTexts, row : Nat \ {0}, col : Nat, dirty : BOOLEAN,
     mode : {"normal", "insert"}, focus : {"session", "title", "body"}, picking : BOOLEAN,
     undo : Seq(Snaps), clipboard : Seq(Seq(Chars)),
     query : Seq(Chars), matches : Seq(Position), index : Nat, active : BOOLEAN]

\* What edits and moves leave alone.
Same(b, a) ==
    /\ a.command = b.command /\ a.key = b.key /\ a.title = b.title /\ a.opened = b.opened
    /\ a.focus = b.focus /\ a.picking = b.picking
    /\ a.query = b.query /\ a.matches = b.matches /\ a.index = b.index /\ a.active = b.active

SnapOf(b) == [lines |-> b.lines, row |-> b.row, col |-> b.col]

LEMMA Pushes ==
    ASSUME NEW b \in Buffers
    PROVE  /\ PushUndo(b) \in Buffers /\ Same(b, PushUndo(b))
           /\ PushUndo(b).lines = b.lines /\ PushUndo(b).row = b.row /\ PushUndo(b).col = b.col
           /\ PushUndo(b).dirty = b.dirty /\ PushUndo(b).mode = b.mode
           /\ PushUndo(b).clipboard = b.clipboard
           /\ PushUndo(b).undo = Append(b.undo, SnapOf(b))
<1>1. SnapOf(b) \in Snaps
  BY DEF Buffers, Snaps, SnapOf
<1>2. Append(b.undo, SnapOf(b)) \in Seq(Snaps)
  BY <1>1 DEF Buffers
<1> QED BY <1>2 DEF PushUndo, Buffers, Same, SnapOf

\* What an edit of b makes: it pushed what it found, and says that it changed it.
IsEdit(b, a) ==
    /\ a \in Buffers /\ Same(b, a)
    /\ a.undo = Append(b.undo, SnapOf(b))
    /\ a.dirty = TRUE \/ (a.dirty = b.dirty /\ a.lines = b.lines)
    /\ Len(b.clipboard) <= 1 => Len(a.clipboard) <= 1

In(b) == CursorIn(b.lines, b.row, b.col)

LEMMA EditsNothing ==
    ASSUME NEW b \in Buffers
    PROVE  /\ IsEdit(b, PushUndo(b)) /\ (In(b) => In(PushUndo(b)))
           /\ PushUndo(b).lines = b.lines /\ PushUndo(b).row = b.row /\ PushUndo(b).col = b.col
           /\ PushUndo(b).clipboard = b.clipboard
BY Pushes DEF IsEdit, In

LEMMA EditsLines ==
    ASSUME NEW b, NEW c, IsEdit(b, c), NEW lines \in BodyTexts,
           NEW row \in Nat \ {0}, NEW col \in Nat
    PROVE  /\ IsEdit(b, WithLines(c, lines, row, col))
           /\ CursorIn(lines, row, col) => In(WithLines(c, lines, row, col))
<1> DEFINE a == WithLines(c, lines, row, col)
<1>1. c \in Buffers
  BY DEF IsEdit
<1>2. /\ a \in Buffers /\ Same(c, a) /\ a.lines = lines /\ a.row = row /\ a.col = col
      /\ a.dirty = TRUE /\ a.clipboard = c.clipboard /\ a.undo = c.undo
  BY <1>1 DEF WithLines, Buffers, Same
<1> HIDE DEF a
<1>3. IsEdit(b, a) /\ (CursorIn(lines, row, col) => In(a))
  BY <1>2 DEF IsEdit, Same, In
<1> QED BY <1>3 DEF a

LEMMA EditsLine ==
    ASSUME NEW b, NEW c, IsEdit(b, c), InText(c), NEW line \in Seq(Chars), NEW col \in Nat
    PROVE  /\ IsEdit(b, WithLine(c, line, col))
           /\ col <= Len(line) => In(WithLine(c, line, col))
<1> DEFINE lines == [c.lines EXCEPT ![c.row] = line]
<1>1. c \in Buffers /\ c.lines \in Seq(Seq(Chars)) /\ c.lines # <<>>
  BY DEF IsEdit, Buffers, BodyTexts
<1>2. /\ lines \in Seq(Seq(Chars)) /\ Len(lines) = Len(c.lines) /\ Len(c.lines) \in Nat
      /\ lines[c.row] = line
  BY <1>1, ExceptSeq, LenProperties DEF InText
<1>3. lines \in BodyTexts /\ c.row \in Nat \ {0}
  BY <1>1, <1>2 DEF BodyTexts, InText
<1>4. WithLine(c, line, col) = WithLines(c, lines, c.row, col)
  BY <1>1 DEF WithLine, WithLines, Buffers
<1>5. col <= Len(line) => CursorIn(lines, c.row, col)
  BY <1>2 DEF CursorIn, InText
<1> HIDE DEF lines
<1> QED BY <1>3, <1>4, <1>5, EditsLines

LEMMA EditsMode ==
    ASSUME NEW b, NEW c, IsEdit(b, c), NEW m \in {"normal", "insert"}
    PROVE  IsEdit(b, [c EXCEPT !.mode = m]) /\ (In(c) => In([c EXCEPT !.mode = m]))
<1> DEFINE a == [c EXCEPT !.mode = m]
<1>1. c \in Buffers
  BY DEF IsEdit
<1>2. /\ a \in Buffers /\ Same(c, a) /\ a.lines = c.lines /\ a.row = c.row /\ a.col = c.col
      /\ a.dirty = c.dirty /\ a.clipboard = c.clipboard /\ a.undo = c.undo
  BY <1>1 DEF Buffers, Same
<1> HIDE DEF a
<1>3. IsEdit(b, a) /\ (In(c) => In(a))
  BY <1>2 DEF IsEdit, Same, In
<1> QED BY <1>3 DEF a

LEMMA EditsClipboard ==
    ASSUME NEW b, NEW c, IsEdit(b, c), NEW line \in Seq(Chars)
    PROVE  LET a == [c EXCEPT !.clipboard = <<line>>]
           IN  IsEdit(b, a) /\ (In(c) => In(a)) /\ a.lines = c.lines /\ a.row = c.row
<1> DEFINE a == [c EXCEPT !.clipboard = <<line>>]
<1>1. c \in Buffers /\ <<line>> \in Seq(Seq(Chars)) /\ Len(<<line>>) = 1
  BY DEF IsEdit
<1>2. /\ a \in Buffers /\ Same(c, a) /\ a.lines = c.lines /\ a.row = c.row /\ a.col = c.col
      /\ a.dirty = c.dirty /\ a.clipboard = <<line>> /\ a.undo = c.undo
  BY <1>1 DEF Buffers, Same
<1> HIDE DEF a
<1>3. IsEdit(b, a) /\ (In(c) => In(a)) /\ a.lines = c.lines /\ a.row = c.row
  BY <1>1, <1>2 DEF IsEdit, Same, In
<1> QED BY <1>3 DEF a

\* A clamped cursor is in the text.
LEMMA Clamps ==
    ASSUME NEW b \in Buffers
    PROVE  LET a == ClampCursor(b)
           IN  /\ a \in Buffers /\ Same(b, a) /\ a.lines = b.lines /\ In(a)
               /\ a.dirty = b.dirty /\ a.mode = b.mode /\ a.clipboard = b.clipboard
               /\ a.undo = b.undo
<1> DEFINE row == Between(b.row, 1, Len(b.lines))
           last == LastColumn(b, row)
           col == Between(b.col, 0, last)
           a == ClampCursor(b)
<1>1. /\ b.lines \in Seq(Seq(Chars)) /\ Len(b.lines) \in Nat \ {0}
      /\ b.row \in Nat /\ b.col \in Nat
  BY EmptySeq DEF Buffers, BodyTexts
<1>2. row \in 1..Len(b.lines)
  BY <1>1 DEF Between, Least
<1> HIDE DEF row
<1>3. b.lines[row] \in Seq(Chars) /\ Len(b.lines[row]) \in Nat
  BY <1>1, <1>2, ElementOfSeq, LenProperties
<1>4. last \in Nat /\ last <= Len(b.lines[row])
  BY <1>3 DEF LastColumn
<1> HIDE DEF last
<1>5. col \in Nat /\ col <= last
  BY <1>1, <1>4 DEF Between, Least
<1> HIDE DEF col
<1>6. a = [b EXCEPT !.row = row, !.col = col]
  BY DEF ClampCursor, row, col, last, Buffers
<1>7. row \in Nat \ {0}
  BY <1>1, <1>2
<1>8. /\ a \in Buffers /\ Same(b, a) /\ a.lines = b.lines /\ a.row = row /\ a.col = col
      /\ a.dirty = b.dirty /\ a.mode = b.mode /\ a.clipboard = b.clipboard /\ a.undo = b.undo
  <2>1. a \in Buffers
    BY <1>5, <1>6, <1>7 DEF Buffers
  <2>2. /\ a.lines = b.lines /\ a.row = row /\ a.col = col
        /\ a.dirty = b.dirty /\ a.mode = b.mode /\ a.clipboard = b.clipboard /\ a.undo = b.undo
    BY <1>6 DEF Buffers
  <2>3. Same(b, a)
    BY <1>6 DEF Buffers, Same
  <2> QED BY <2>1, <2>2, <2>3
<1> HIDE DEF a
<1>9. In(a)
  BY <1>2, <1>3, <1>4, <1>5, <1>8 DEF In, CursorIn
<1> QED BY <1>8, <1>9 DEF a

LEMMA EditsClamped ==
    ASSUME NEW b, NEW c, IsEdit(b, c)
    PROVE  IsEdit(b, ClampCursor(c)) /\ In(ClampCursor(c))
<1>1. c \in Buffers
  BY DEF IsEdit
<1> DEFINE a == ClampCursor(c)
<1>2. /\ a \in Buffers /\ Same(c, a) /\ a.lines = c.lines /\ In(a)
      /\ a.dirty = c.dirty /\ a.clipboard = c.clipboard /\ a.undo = c.undo
  BY <1>1, Clamps
<1> HIDE DEF a
<1>3. IsEdit(b, a) /\ In(a)
  BY <1>2 DEF IsEdit, Same
<1> QED BY <1>3 DEF a

----------------------------------------
(* Runs of letters and of blanks.                                          *)

\* Where a run ends that begins a line: the first place with another character,
\* or the end of the line.
LEMMA RunEnds ==
    ASSUME NEW s \in Seq(Chars), NEW inRun \in SUBSET Chars
    PROVE  \E i \in 0..Len(s) : /\ \A j \in 1..i : s[j] \in inRun
                                /\ i < Len(s) => s[i + 1] \notin inRun
<1> DEFINE n == Len(s)
           Stops == {i \in 0..n : i < n => s[i + 1] \notin inRun}
<1>1. n \in Nat /\ Stops \subseteq Nat /\ n \in Stops
  BY LenProperties
<1>2. PICK i \in Stops : \A j \in Stops : i <= j
  <2> HIDE DEF Stops, n
  <2> QED BY <1>1, SmallestNumber
<1>3. ASSUME NEW j \in 1..i
      PROVE  s[j] \in inRun
  <2>1. j - 1 \in 0..n /\ j - 1 < n /\ ~ (i <= j - 1) /\ (j - 1) + 1 = j
    BY <1>1
  <2>2. j - 1 \notin Stops
    BY <1>2, <2>1
  <2> QED BY <2>1, <2>2
<1> QED BY <1>2, <1>3

LEMMA LettersEnd ==
    ASSUME NEW s \in Seq(Chars)
    PROVE  /\ Letters(s) \in 0..Len(s)
           /\ \A j \in 1..Letters(s) : s[j] # Blank
           /\ Letters(s) < Len(s) => s[Letters(s) + 1] = Blank
<1>1. \E i \in 0..Len(s) : /\ \A j \in 1..i : s[j] # Blank
                           /\ i < Len(s) => s[i + 1] = Blank
  <2>1. PICK i \in 0..Len(s) : /\ \A j \in 1..i : s[j] \in Chars \ {Blank}
                               /\ i < Len(s) => s[i + 1] \notin Chars \ {Blank}
    BY RunEnds
  <2>2. i < Len(s) => s[i + 1] \in Chars
    <3>1. Len(s) \in Nat /\ (i < Len(s) => i + 1 \in 1..Len(s))
      BY LenProperties
    <3> QED BY <3>1, ElementOfSeq
  <2> QED BY <2>1, <2>2
<1> QED BY <1>1 DEF Letters

LEMMA BlanksEnd ==
    ASSUME NEW s \in Seq(Chars)
    PROVE  /\ Blanks(s) \in 0..Len(s)
           /\ \A j \in 1..Blanks(s) : s[j] = Blank
           /\ Blanks(s) < Len(s) => s[Blanks(s) + 1] # Blank
<1>1. \E i \in 0..Len(s) : /\ \A j \in 1..i : s[j] = Blank
                           /\ i < Len(s) => s[i + 1] # Blank
  <2>1. PICK i \in 0..Len(s) : /\ \A j \in 1..i : s[j] \in {Blank}
                               /\ i < Len(s) => s[i + 1] \notin {Blank}
    <3>1. {Blank} \in SUBSET Chars
      BY DEF Chars
    <3> QED BY <3>1, RunEnds
  <2> QED BY <2>1
<1> QED BY <1>1 DEF Blanks

LEMMA LacksIndent ==
    ASSUME NEW s \in Seq(Chars)
    PROVE  /\ WithoutIndent(s) \in Seq(Chars)
           /\ Len(WithoutIndent(s)) = Len(s) - Blanks(s)
           /\ \A i \in 1..Len(s) - Blanks(s) : WithoutIndent(s)[i] = s[Blanks(s) + i]
BY BlanksEnd, Cuts DEF WithoutIndent, Beyond

LEMMA WordIn ==
    ASSUME NEW s \in Seq(Chars)
    PROVE  WordLength(s) \in 0..Len(s)
<1>1. Letters(s) \in 0..Len(s)
  BY LettersEnd
<1> DEFINE rest == Beyond(s, Letters(s))
<1>2. rest \in Seq(Chars) /\ Len(rest) = Len(s) - Letters(s)
  BY <1>1, Cuts DEF Beyond
<1> HIDE DEF rest
<1>3. Blanks(rest) \in 0..Len(rest)
  BY <1>2, BlanksEnd
<1>4. WordLength(s) = Letters(s) + Blanks(rest)
  BY DEF WordLength, rest
<1> QED BY <1>1, <1>2, <1>3, <1>4, LenProperties

\* Where the cursor cuts its line.
LEMMA CursorCuts ==
    ASSUME NEW b \in Buffers, InText(b)
    PROVE  /\ Line(b) \in Seq(Chars) /\ Len(Line(b)) \in Nat
           /\ EditColumn(b) \in 0..Len(Line(b)) /\ EditColumn(b) <= b.col
           /\ b.col <= Len(Line(b)) => EditColumn(b) = b.col
           /\ Before(b) \in Seq(Chars) /\ Len(Before(b)) = EditColumn(b)
           /\ After(b) \in Seq(Chars) /\ Len(After(b)) = Len(Line(b)) - EditColumn(b)
<1>1. b.lines \in Seq(Seq(Chars)) /\ b.col \in Nat /\ b.row \in 1..Len(b.lines)
  BY DEF Buffers, BodyTexts, InText
<1>2. Line(b) \in Seq(Chars) /\ Len(Line(b)) \in Nat
  BY <1>1, ElementOfSeq, LenProperties DEF Line
<1>3. /\ EditColumn(b) \in 0..Len(Line(b)) /\ EditColumn(b) <= b.col
      /\ b.col <= Len(Line(b)) => EditColumn(b) = b.col
  BY <1>1, <1>2 DEF EditColumn, Least
<1> QED BY <1>2, <1>3, Cuts DEF Before, After

LEMMA InIsInText ==
    ASSUME NEW b \in Buffers, In(b)
    PROVE  InText(b) /\ b.col <= Len(Line(b)) /\ EditColumn(b) = b.col
<1>1. InText(b) /\ b.col <= Len(Line(b))
  BY DEF In, CursorIn, InText, Line
<1> QED BY <1>1, CursorCuts

----------------------------------------
(* Each edit is one.                                                       *)

\* An edit of b, that leaves a cursor in the text there.
Edits(b, a) == IsEdit(b, a) /\ (In(b) => In(a))

\* The line of the cursor gets new characters at the cursor.
LEMMA InsertsText ==
    ASSUME NEW b \in Buffers, InText(b), NEW s \in Seq(Chars)
    PROVE  LET a == WithLine(PushUndo(b), Before(b) \o s \o After(b), EditColumn(b) + Len(s))
           IN  Edits(b, a) /\ In(a)
<1>1. /\ Before(b) \in Seq(Chars) /\ Len(Before(b)) = EditColumn(b) /\ EditColumn(b) \in Nat
      /\ After(b) \in Seq(Chars) /\ Len(After(b)) \in Nat
  BY CursorCuts, LenProperties
<1>2. Len(s) \in Nat
  BY LenProperties
<1>3. Before(b) \o s \in Seq(Chars) /\ Len(Before(b) \o s) = EditColumn(b) + Len(s)
  BY <1>1, ConcatProperties
<1>4. /\ Before(b) \o s \o After(b) \in Seq(Chars)
      /\ Len(Before(b) \o s \o After(b)) = EditColumn(b) + Len(s) + Len(After(b))
  BY <1>1, <1>3, ConcatProperties
<1>5. EditColumn(b) + Len(s) \in Nat /\ EditColumn(b) + Len(s) <= Len(Before(b) \o s \o After(b))
  BY <1>1, <1>2, <1>4
<1>6. IsEdit(b, PushUndo(b)) /\ InText(PushUndo(b))
  BY EditsNothing DEF InText
<1> QED BY <1>4, <1>5, <1>6, EditsLine DEF Edits

LEMMA InsertRuneEdits ==
    ASSUME NEW b \in Buffers, InText(b), NEW c \in Chars
    PROVE  Edits(b, InsertRune(b, c)) /\ In(InsertRune(b, c))
<1>1. <<c>> \in Seq(Chars) /\ Len(<<c>>) = 1
  OBVIOUS
<1> QED BY <1>1, InsertsText DEF InsertRune

LEMMA InsertTabEdits ==
    ASSUME NEW b \in Buffers, InText(b)
    PROVE  Edits(b, InsertTab(b))
<1>1. <<Blank, Blank>> \in Seq(Chars) /\ Len(<<Blank, Blank>>) = 2
  BY DEF Chars
<1> QED BY <1>1, InsertsText DEF InsertTab

LEMMA BackspaceEdits ==
    ASSUME NEW b \in Buffers, CanBackspace(b)
    PROVE  Edits(b, Backspace(b))
<1>0. InText(b)
  BY DEF CanBackspace
<1>1. /\ b.col \in Nat /\ b.row \in Nat \ {0} /\ b.lines \in Seq(Seq(Chars)) /\ b.lines # <<>>
      /\ Len(b.lines) \in Nat /\ b.row \in 1..Len(b.lines)
  BY <1>0, LenProperties DEF Buffers, BodyTexts, InText
<1>2. /\ Line(b) \in Seq(Chars) /\ Len(Line(b)) \in Nat /\ EditColumn(b) \in 0..Len(Line(b))
      /\ Before(b) \in Seq(Chars) /\ Len(Before(b)) = EditColumn(b)
      /\ After(b) \in Seq(Chars) /\ Len(After(b)) \in Nat
  BY <1>0, CursorCuts, LenProperties
<1>3. IsEdit(b, PushUndo(b)) /\ InText(PushUndo(b)) /\ (In(b) => In(PushUndo(b)))
  BY <1>0, EditsNothing DEF InText
<1>4. CASE b.col > 0
  <2>1. EditColumn(b) > 0
    <3>1. Line(b) # <<>>
      BY <1>4 DEF CanBackspace
    <3>2. Len(Line(b)) > 0
      BY <1>2, <3>1, EmptySeq
    <3> QED BY <1>1, <1>2, <1>4, <3>2 DEF EditColumn, Least
  <2>2. EditColumn(b) - 1 \in 0..Len(Before(b))
    BY <1>2, <2>1
  <2>3. Front(Before(b)) \in Seq(Chars) /\ Len(Front(Before(b))) = EditColumn(b) - 1
    BY <1>2, <2>2, Cuts DEF Front
  <2>4. /\ Front(Before(b)) \o After(b) \in Seq(Chars)
        /\ Len(Front(Before(b)) \o After(b)) = EditColumn(b) - 1 + Len(After(b))
    BY <1>2, <2>3, ConcatProperties
  <2>5. /\ EditColumn(b) - 1 \in Nat
        /\ EditColumn(b) - 1 <= Len(Front(Before(b)) \o After(b))
    BY <1>2, <2>1, <2>4
  <2>6. Backspace(b) = WithLine(PushUndo(b), Front(Before(b)) \o After(b), EditColumn(b) - 1)
    BY <1>4 DEF Backspace
  <2> QED BY <1>3, <2>4, <2>5, <2>6, EditsLine DEF Edits
<1>5. CASE ~ (b.col > 0) /\ b.row > 1
  <2> DEFINE k == b.row - 1
             above == b.lines[k]
             text == above \o Line(b)
             joined == ReplaceAt(b.lines, k, text)
             lines == RemoveAt(joined, b.row)
  <2>1. k \in 1..Len(b.lines) /\ k \in Nat \ {0}
    BY <1>1, <1>5
  <2> HIDE DEF k
  <2>2. above \in Seq(Chars) /\ Len(above) \in Nat
    BY <1>1, <2>1, ElementOfSeq, LenProperties
  <2> HIDE DEF above
  <2>3. text \in Seq(Chars) /\ Len(text) = Len(above) + Len(Line(b))
    BY <1>2, <2>2, ConcatProperties
  <2> HIDE DEF text
  <2>4. /\ joined \in Seq(Seq(Chars)) /\ Len(joined) = Len(b.lines)
        /\ joined[k] = text
    <3>1. b.lines \in Seq(Seq(Chars)) /\ k \in 1..Len(b.lines) /\ text \in Seq(Chars)
      BY <1>1, <2>1, <2>3
    <3>2. joined \in Seq(Seq(Chars))
      BY <3>1, ReplacesAt
    <3>3. Len(joined) = Len(b.lines)
      BY <3>1, ReplacesAt
    <3>4. joined[k] = text
      BY <3>1, ReplacesAt
    <3> QED BY <3>2, <3>3, <3>4
  <2> HIDE DEF joined
  <2>5. lines \in Seq(Seq(Chars)) /\ Len(lines) = Len(b.lines) - 1
    BY <1>1, <2>4, RemovesAt
  <2>6. lines[k] = text
    <3>1. k \in 1..b.row - 1
      BY <2>1 DEF k
    <3> QED BY <1>1, <2>4, <3>1, RemovesBehind
  <2> HIDE DEF lines
  <2>7. lines \in BodyTexts
    <3>1. Len(b.lines) > 1
      BY <1>1, <1>5
    <3>2. Len(lines) # 0
      BY <1>1, <2>5, <3>1
    <3> QED BY <2>5, <3>2, EmptySeq DEF BodyTexts
  <2>8. CursorIn(lines, k, Len(above))
    <3>1. k \in 1..Len(lines)
      BY <1>1, <2>1, <2>5 DEF k
    <3>2. Len(above) <= Len(lines[k])
      BY <1>2, <2>2, <2>3, <2>6
    <3> QED BY <3>1, <3>2 DEF CursorIn
  <2>9. Backspace(b) = WithLines(PushUndo(b), lines, k, Len(above))
    BY <1>5 DEF Backspace, lines, joined, text, above, k
  <2> QED BY <1>3, <2>1, <2>2, <2>7, <2>8, <2>9, EditsLines DEF Edits
<1>6. CASE ~ (b.col > 0) /\ ~ (b.row > 1)
  <2>1. Backspace(b) = PushUndo(b)
    BY <1>6 DEF Backspace
  <2> QED BY <1>3, <2>1 DEF Edits
<1> QED BY <1>4, <1>5, <1>6

LEMMA DeleteCharEdits ==
    ASSUME NEW b \in Buffers, InText(b)
    PROVE  Edits(b, DeleteChar(b))
<1>1. IsEdit(b, PushUndo(b)) /\ InText(PushUndo(b))
  BY EditsNothing DEF InText
<1>2. CASE After(b) = <<>>
  <2>1. DeleteChar(b) = ClampCursor(PushUndo(b))
    BY <1>2 DEF DeleteChar
  <2> QED BY <1>1, <2>1, EditsClamped DEF Edits
<1>3. CASE After(b) # <<>>
  <2> DEFINE line == Before(b) \o Tail(After(b))
             cut == <<Head(After(b))>>
             c == WithLine(PushUndo(b), line, b.col)
  <2>1. Before(b) \in Seq(Chars) /\ After(b) \in Seq(Chars) /\ b.col \in Nat
    BY CursorCuts DEF Buffers
  <2>2. Tail(After(b)) \in Seq(Chars) /\ Head(After(b)) \in Chars
    BY <1>3, <2>1, HeadTailProperties
  <2>3. line \in Seq(Chars) /\ cut \in Seq(Chars)
    BY <2>1, <2>2, ConcatProperties
  <2> HIDE DEF line, cut
  <2>4. IsEdit(b, c)
    BY <1>1, <2>1, <2>3, EditsLine
  <2>5. DeleteChar(b) = ClampCursor([c EXCEPT !.clipboard = <<cut>>])
    BY <1>3 DEF DeleteChar, line, cut
  <2> HIDE DEF c
  <2>6. IsEdit(b, [c EXCEPT !.clipboard = <<cut>>])
    BY <2>3, <2>4, EditsClipboard
  <2> QED BY <2>5, <2>6, EditsClamped DEF Edits
<1> QED BY <1>2, <1>3

LEMMA DeleteLineEdits ==
    ASSUME NEW b \in Buffers, InText(b)
    PROVE  Edits(b, DeleteLine(b))
<1> DEFINE cut == [PushUndo(b) EXCEPT !.clipboard = <<Line(b)>>]
           some == RemoveAt(b.lines, b.row)
<1>1. IsEdit(b, PushUndo(b)) /\ Line(b) \in Seq(Chars)
  BY EditsNothing, CursorCuts
<1>2. IsEdit(b, cut)
  BY <1>1, EditsClipboard
<1>3. /\ b.lines \in Seq(Seq(Chars)) /\ b.lines # <<>> /\ b.row \in 1..Len(b.lines)
      /\ b.row \in Nat \ {0} /\ b.col \in Nat
  BY DEF Buffers, BodyTexts, InText
<1>4. << <<>> >> \in BodyTexts
  <2>1. <<>> \in Seq(Chars)
    OBVIOUS
  <2>2. << <<>> >> \in Seq(Seq(Chars)) /\ << <<>> >> # <<>>
    BY <2>1
  <2> QED BY <2>2 DEF BodyTexts
<1>5. CASE Len(b.lines) = 1
  <2>1. DeleteLine(b) = ClampCursor(WithLines(cut, << <<>> >>, b.row, 0))
    BY <1>5 DEF DeleteLine
  <2> HIDE DEF cut
  <2>2. IsEdit(b, WithLines(cut, << <<>> >>, b.row, 0))
    BY <1>2, <1>3, <1>4, EditsLines
  <2> QED BY <2>1, <2>2, EditsClamped DEF Edits
<1>6. CASE Len(b.lines) # 1
  <2>1. some \in Seq(Seq(Chars)) /\ Len(some) = Len(b.lines) - 1
    BY <1>3, RemovesAt
  <2>2. Len(b.lines) \in Nat /\ Len(b.lines) # 0
    BY <1>3, EmptySeq
  <2>3. DeleteLine(b) = ClampCursor(WithLines(cut, some, b.row, b.col))
    BY <1>6 DEF DeleteLine
  <2> HIDE DEF some, cut
  <2>4. Len(some) # 0
    BY <1>6, <2>1, <2>2
  <2>5. some \in BodyTexts
    BY <2>1, <2>4, EmptySeq DEF BodyTexts
  <2>6. IsEdit(b, WithLines(cut, some, b.row, b.col))
    BY <1>2, <1>3, <2>5, EditsLines
  <2> QED BY <2>3, <2>6, EditsClamped DEF Edits
<1> QED BY <1>5, <1>6

LEMMA PrefixIsText ==
    ASSUME NEW line
    PROVE  NextPrefix(line) \in Seq(Chars) /\ Len(NextPrefix(line)) \in Nat
<1>1. <<Bullet>> \in Seq(Chars) /\ <<>> \in Seq(Chars)
  BY DEF Chars
<1>2. NextPrefix(line) \in Seq(Chars)
  BY <1>1 DEF NextPrefix
<1> QED BY <1>2, LenProperties

\* A line that is put into the text, with the cursor on it.
LEMMA EditsNewLine ==
    ASSUME NEW b, NEW c, IsEdit(b, c), NEW lines \in Seq(Seq(Chars)), NEW row \in 1..Len(lines) + 1,
           NEW line \in Seq(Chars), NEW col \in Nat, col <= Len(line)
    PROVE  /\ IsEdit(b, WithLines(c, InsertAt(lines, row, line), row, col))
           /\ In(WithLines(c, InsertAt(lines, row, line), row, col))
<1> DEFINE more == InsertAt(lines, row, line)
<1>1. Len(lines) \in Nat
  BY LenProperties
<1>2. more \in Seq(Seq(Chars))
  BY InsertsAt
<1>3. Len(more) = Len(lines) + 1
  BY InsertsAt
<1>4. more[row] = line
  BY InsertsAt
<1> HIDE DEF more
<1>5. more # <<>> /\ row \in 1..Len(more) /\ row \in Nat \ {0}
  BY <1>1, <1>3
<1>6. more \in BodyTexts /\ CursorIn(more, row, col)
  BY <1>2, <1>4, <1>5 DEF BodyTexts, CursorIn
<1>7. IsEdit(b, WithLines(c, more, row, col)) /\ In(WithLines(c, more, row, col))
  BY <1>5, <1>6, EditsLines
<1> QED BY <1>7 DEF more

LEMMA SplitLineEdits ==
    ASSUME NEW b \in Buffers, InText(b)
    PROVE  Edits(b, SplitLine(b))
<1> DEFINE item == IsItem(Line(b)) /\ EditColumn(b) >= 1
           prefix == IF item THEN NextPrefix(Line(b)) ELSE <<>>
           cut == ReplaceAt(b.lines, b.row, Before(b))
           line == prefix \o After(b)
           row == b.row + 1
<1>1. IsEdit(b, PushUndo(b)) /\ InText(PushUndo(b)) /\ <<>> \in Seq(Chars)
  BY EditsNothing DEF InText
<1>2. CASE item /\ ~HasText(Tail(Line(b)))
  <2>1. SplitLine(b) = WithLine(PushUndo(b), <<>>, 0)
    BY <1>2 DEF SplitLine
  <2>2. 0 \in Nat /\ 0 <= Len(<<>>)
    OBVIOUS
  <2> QED BY <1>1, <2>1, <2>2, EditsLine DEF Edits
<1>3. CASE ~ (item /\ ~HasText(Tail(Line(b))))
  <2>1. /\ b.lines \in Seq(Seq(Chars)) /\ b.row \in 1..Len(b.lines) /\ Len(b.lines) \in Nat
        /\ Before(b) \in Seq(Chars) /\ After(b) \in Seq(Chars)
    BY CursorCuts, LenProperties DEF Buffers, BodyTexts, InText
  <2>2. prefix \in Seq(Chars) /\ Len(prefix) \in Nat
    BY PrefixIsText
  <2>3. SplitLine(b) = WithLines(PushUndo(b), InsertAt(cut, row, line), row, Len(prefix))
    BY <1>3 DEF SplitLine
  <2> HIDE DEF prefix
  <2>4. line \in Seq(Chars) /\ Len(line) = Len(prefix) + Len(After(b))
    BY <2>1, <2>2, ConcatProperties
  <2>5. Len(prefix) <= Len(line)
    BY <2>1, <2>2, <2>4, LenProperties
  <2>6. cut \in Seq(Seq(Chars))
    BY <2>1, ReplacesAt
  <2>7. Len(cut) = Len(b.lines)
    BY <2>1, ReplacesAt
  <2> HIDE DEF line, cut
  <2>8. row \in 1..Len(cut) + 1
    BY <2>1, <2>7
  <2> HIDE DEF row
  <2> QED BY <1>1, <2>2, <2>3, <2>4, <2>5, <2>6, <2>8, EditsNewLine DEF Edits
<1> QED BY <1>2, <1>3

LEMMA OpenLineBelowEdits ==
    ASSUME NEW b \in Buffers, InText(b)
    PROVE  Edits(b, OpenLineBelow(b))
<1> DEFINE prefix == IF IsItem(Line(b)) /\ HasText(Tail(Line(b))) THEN NextPrefix(Line(b)) ELSE <<>>
           row == b.row + 1
           c == WithLines(PushUndo(b), InsertAt(b.lines, row, prefix), row, Len(prefix))
<1>1. IsEdit(b, PushUndo(b))
  BY EditsNothing
<1>2. b.lines \in Seq(Seq(Chars)) /\ b.row \in 1..Len(b.lines) /\ Len(b.lines) \in Nat
  BY LenProperties DEF Buffers, BodyTexts, InText
<1>3. prefix \in Seq(Chars) /\ Len(prefix) \in Nat
  BY PrefixIsText
<1>4. OpenLineBelow(b) = [c EXCEPT !.mode = "insert"]
  BY DEF OpenLineBelow
<1>5. row \in 1..Len(b.lines) + 1
  BY <1>2
<1> HIDE DEF prefix, row
<1>6. Len(prefix) <= Len(prefix)
  BY <1>3
<1>7. IsEdit(b, c) /\ In(c)
  BY <1>1, <1>2, <1>3, <1>5, <1>6, EditsNewLine
<1> HIDE DEF c
<1>8. IsEdit(b, [c EXCEPT !.mode = "insert"]) /\ In([c EXCEPT !.mode = "insert"])
  BY <1>7, EditsMode
<1> QED BY <1>4, <1>8 DEF Edits

LEMMA OpenLineAboveEdits ==
    ASSUME NEW b \in Buffers, CanOpenLineAbove(b)
    PROVE  Edits(b, OpenLineAbove(b))
<1> DEFINE c == WithLines(PushUndo(b), InsertAt(b.lines, b.row, <<>>), b.row, 0)
<1>1. IsEdit(b, PushUndo(b))
  BY EditsNothing
<1>2. b.lines \in Seq(Seq(Chars)) /\ b.row \in Nat \ {0} /\ Len(b.lines) \in Nat
  BY LenProperties DEF Buffers, BodyTexts
<1>3. OpenLineAbove(b) = [c EXCEPT !.mode = "insert"]
  BY DEF OpenLineAbove
<1>4. b.row \in 1..Len(b.lines) + 1
  BY <1>2 DEF CanOpenLineAbove
<1>5. <<>> \in Seq(Chars) /\ 0 \in Nat /\ 0 <= Len(<<>>)
  OBVIOUS
<1>6. IsEdit(b, c) /\ In(c)
  BY <1>1, <1>2, <1>4, <1>5, EditsNewLine
<1> HIDE DEF c
<1>7. IsEdit(b, [c EXCEPT !.mode = "insert"]) /\ In([c EXCEPT !.mode = "insert"])
  BY <1>6, EditsMode
<1> QED BY <1>3, <1>7 DEF Edits

\* The rest of the line moves to the clipboard.
LEMMA DeleteToEndEdits ==
    ASSUME NEW b \in Buffers, InText(b)
    PROVE  IsEdit(b, DeleteToEndOfLine(b)) /\ In(DeleteToEndOfLine(b))
<1> DEFINE c == WithLine(PushUndo(b), Before(b), b.col)
           d == [c EXCEPT !.clipboard = <<After(b)>>]
<1>1. IsEdit(b, PushUndo(b)) /\ InText(PushUndo(b))
  BY EditsNothing DEF InText
<1>2. Before(b) \in Seq(Chars) /\ After(b) \in Seq(Chars) /\ b.col \in Nat
  BY CursorCuts DEF Buffers
<1>3. IsEdit(b, c)
  BY <1>1, <1>2, EditsLine
<1>4. DeleteToEndOfLine(b) = ClampCursor(d)
  BY DEF DeleteToEndOfLine
<1> HIDE DEF c
<1>5. IsEdit(b, d)
  BY <1>2, <1>3, EditsClipboard
<1> HIDE DEF d
<1> QED BY <1>4, <1>5, EditsClamped

LEMMA DeleteWordEdits ==
    ASSUME NEW b \in Buffers, InText(b)
    PROVE  IsEdit(b, DeleteWord(b)) /\ In(DeleteWord(b))
<1> DEFINE n == WordLength(After(b))
           line == Before(b) \o Beyond(After(b), n)
           cut == SubSeq(After(b), 1, n)
           c == WithLine(PushUndo(b), line, b.col)
           d == [c EXCEPT !.clipboard = <<cut>>]
<1>1. IsEdit(b, PushUndo(b)) /\ InText(PushUndo(b))
  BY EditsNothing DEF InText
<1>2. Before(b) \in Seq(Chars) /\ After(b) \in Seq(Chars) /\ b.col \in Nat
  BY CursorCuts DEF Buffers
<1>3. n \in 0..Len(After(b))
  BY <1>2, WordIn
<1>4. DeleteWord(b) = ClampCursor(d)
  BY DEF DeleteWord
<1> HIDE DEF n
<1>5. cut \in Seq(Chars) /\ Beyond(After(b), n) \in Seq(Chars)
  BY <1>2, <1>3, Cuts DEF Beyond
<1>6. line \in Seq(Chars)
  BY <1>2, <1>5, ConcatProperties
<1> HIDE DEF line, cut
<1>7. IsEdit(b, c)
  BY <1>1, <1>2, <1>6, EditsLine
<1> HIDE DEF c
<1>8. IsEdit(b, d)
  BY <1>5, <1>7, EditsClipboard
<1> HIDE DEF d
<1> QED BY <1>4, <1>8, EditsClamped

LEMMA ChangesEdit ==
    ASSUME NEW b \in Buffers, InText(b)
    PROVE  Edits(b, ChangeLine(b)) /\ Edits(b, ChangeToEndOfLine(b)) /\ Edits(b, ChangeWord(b))
<1>1. IsEdit(b, PushUndo(b)) /\ InText(PushUndo(b)) /\ Line(b) \in Seq(Chars)
  BY EditsNothing, CursorCuts DEF InText
<1>2. Edits(b, ChangeLine(b))
  <2> DEFINE c == WithLine(PushUndo(b), <<>>, 0)
             d == [c EXCEPT !.clipboard = <<Line(b)>>]
  <2>1. <<>> \in Seq(Chars) /\ 0 \in Nat /\ 0 <= Len(<<>>)
    OBVIOUS
  <2>2. IsEdit(b, c) /\ In(c)
    BY <1>1, <2>1, EditsLine
  <2>3. ChangeLine(b) = [d EXCEPT !.mode = "insert"]
    BY DEF ChangeLine
  <2> HIDE DEF c
  <2>4. IsEdit(b, d) /\ In(d)
    BY <1>1, <2>2, EditsClipboard
  <2> HIDE DEF d
  <2>5. IsEdit(b, [d EXCEPT !.mode = "insert"]) /\ In([d EXCEPT !.mode = "insert"])
    BY <2>4, EditsMode
  <2> QED BY <2>3, <2>5 DEF Edits
<1>3. Edits(b, ChangeToEndOfLine(b))
  <2> DEFINE d == DeleteToEndOfLine(b)
  <2>1. IsEdit(b, d) /\ In(d)
    BY DeleteToEndEdits
  <2>2. ChangeToEndOfLine(b) = [d EXCEPT !.mode = "insert"]
    BY DEF ChangeToEndOfLine
  <2> HIDE DEF d
  <2>3. IsEdit(b, [d EXCEPT !.mode = "insert"]) /\ In([d EXCEPT !.mode = "insert"])
    BY <2>1, EditsMode
  <2> QED BY <2>2, <2>3 DEF Edits
<1>4. Edits(b, ChangeWord(b))
  <2> DEFINE d == DeleteWord(b)
  <2>1. IsEdit(b, d) /\ In(d)
    BY DeleteWordEdits
  <2>2. ChangeWord(b) = [d EXCEPT !.mode = "insert"]
    BY DEF ChangeWord
  <2> HIDE DEF d
  <2>3. IsEdit(b, [d EXCEPT !.mode = "insert"]) /\ In([d EXCEPT !.mode = "insert"])
    BY <2>1, EditsMode
  <2> QED BY <2>2, <2>3 DEF Edits
<1> QED BY <1>2, <1>3, <1>4

LEMMA PasteEdits ==
    ASSUME NEW b \in Buffers, InText(b), b.clipboard # <<>>
    PROVE  Edits(b, Paste(b))
<1> DEFINE at == Least(b.col + 1, Len(Line(b)))
           text == b.clipboard[1]
           end == at + Len(text)
           line == SubSeq(Line(b), 1, at) \o text \o Beyond(Line(b), at)
           col == IF end > 0 THEN end - 1 ELSE 0
           c == WithLine(PushUndo(b), line, col)
<1>1. IsEdit(b, PushUndo(b)) /\ InText(PushUndo(b))
  BY EditsNothing DEF InText
<1>2. Line(b) \in Seq(Chars) /\ Len(Line(b)) \in Nat /\ b.col \in Nat
  BY CursorCuts DEF Buffers
<1>3. at \in 0..Len(Line(b))
  BY <1>2 DEF Least
<1>4. text \in Seq(Chars) /\ Len(text) \in Nat
  <2>1. b.clipboard \in Seq(Seq(Chars)) /\ 1 \in 1..Len(b.clipboard)
    BY EmptySeq DEF Buffers
  <2> QED BY <2>1, ElementOfSeq, LenProperties
<1>5. Paste(b) = ClampCursor(c)
  BY DEF Paste
<1> HIDE DEF at, text
<1>6. SubSeq(Line(b), 1, at) \in Seq(Chars) /\ Beyond(Line(b), at) \in Seq(Chars)
  BY <1>2, <1>3, Cuts DEF Beyond
<1>7. line \in Seq(Chars)
  <2>1. SubSeq(Line(b), 1, at) \o text \in Seq(Chars)
    BY <1>4, <1>6, ConcatProperties
  <2> QED BY <1>6, <2>1, ConcatProperties
<1>8. col \in Nat
  BY <1>3, <1>4
<1> HIDE DEF line, col
<1>9. IsEdit(b, c)
  BY <1>1, <1>7, <1>8, EditsLine
<1> HIDE DEF c
<1> QED BY <1>5, <1>9, EditsClamped DEF Edits

LEMMA JoinLinesEdits ==
    ASSUME NEW b \in Buffers, CanJoinLines(b)
    PROVE  Edits(b, JoinLines(b))
<1> DEFINE next == b.row + 1
           below == WithoutIndent(b.lines[next])
           space == IF Line(b) # <<>> /\ below # <<>> THEN <<Blank>> ELSE <<>>
           text == Line(b) \o space \o below
           joined == ReplaceAt(b.lines, b.row, text)
           lines == RemoveAt(joined, next)
<1>1. /\ b.lines \in Seq(Seq(Chars)) /\ Len(b.lines) \in Nat /\ b.row \in Nat \ {0}
      /\ b.row \in 1..Len(b.lines) /\ next \in 1..Len(b.lines)
  <2>1. b.lines \in Seq(Seq(Chars)) /\ b.row \in Nat \ {0} /\ b.row < Len(b.lines)
    BY DEF Buffers, BodyTexts, CanJoinLines
  <2>2. Len(b.lines) \in Nat
    BY <2>1, LenProperties
  <2> QED BY <2>1, <2>2
<1>2. b.row \in 1..next - 1 /\ Len(b.lines) > 1
  BY <1>1
<1>3. InText(b) /\ IsEdit(b, PushUndo(b))
  BY <1>1, EditsNothing DEF InText
<1>4. Line(b) \in Seq(Chars) /\ Len(Line(b)) \in Nat
  BY <1>3, CursorCuts
<1>5. JoinLines(b) = WithLines(PushUndo(b), lines, b.row, Len(Line(b)))
  BY DEF JoinLines, Joined
<1> HIDE DEF next
<1>6. b.lines[next] \in Seq(Chars)
  BY <1>1, ElementOfSeq
<1>7. below \in Seq(Chars) /\ Len(below) \in Nat
  <2>1. below \in Seq(Chars)
    BY <1>6, LacksIndent
  <2> HIDE DEF below
  <2> QED BY <2>1, LenProperties
<1> HIDE DEF below
<1>8. space \in Seq(Chars) /\ Len(space) \in Nat
  <2>1. <<Blank>> \in Seq(Chars) /\ <<>> \in Seq(Chars)
    BY DEF Chars
  <2>2. space \in Seq(Chars)
    BY <2>1
  <2> HIDE DEF space
  <2> QED BY <2>2, LenProperties
<1> HIDE DEF space
<1>9. text \in Seq(Chars) /\ Len(text) >= Len(Line(b))
  <2>1. Line(b) \o space \in Seq(Chars) /\ Len(Line(b) \o space) = Len(Line(b)) + Len(space)
    BY <1>4, <1>8, ConcatProperties
  <2>2. text \in Seq(Chars) /\ Len(text) = Len(Line(b) \o space) + Len(below)
    BY <1>7, <2>1, ConcatProperties
  <2> HIDE DEF text
  <2> QED BY <1>4, <1>7, <1>8, <2>1, <2>2
<1> HIDE DEF text
<1>10. b.lines \in Seq(Seq(Chars)) /\ b.row \in 1..Len(b.lines) /\ text \in Seq(Chars)
  BY <1>1, <1>9
<1>11. joined \in Seq(Seq(Chars))
  BY <1>10, ReplacesAt
<1>12. Len(joined) = Len(b.lines)
  BY <1>10, ReplacesAt
<1>13. joined[b.row] = text
  <2> DEFINE k == b.row
             t == b.lines
  <2>1. /\ t \in Seq(Seq(Chars)) /\ k \in 1..Len(t)
        /\ text \in Seq(Chars) /\ joined = ReplaceAt(t, k, text)
    BY <1>10 DEF joined
  <2> HIDE DEF k, t
  <2>2. ReplaceAt(t, k, text)[k] = text
    BY <2>1, ReplacesAt
  <2>3. joined[k] = text
    BY <2>1, <2>2
  <2> QED BY <2>3 DEF k
<1> HIDE DEF joined
<1>14. lines \in Seq(Seq(Chars)) /\ Len(lines) = Len(b.lines) - 1
  BY <1>1, <1>11, <1>12, RemovesAt
<1>15. lines[b.row] = text
  BY <1>1, <1>2, <1>11, <1>12, <1>13, RemovesBehind
<1> HIDE DEF lines
<1>16. lines \in BodyTexts
  <2> DEFINE n == Len(b.lines)
             m == Len(lines)
  <2>1. n \in Nat /\ n > 1 /\ m = n - 1
    BY <1>1, <1>2, <1>14
  <2> HIDE DEF n, m
  <2>2. m # 0
    BY <2>1
  <2> QED BY <1>14, <2>2, EmptySeq DEF BodyTexts, m
<1>17. CursorIn(lines, b.row, Len(Line(b)))
  <2> DEFINE n == Len(b.lines)
             m == Len(lines)
             k == b.row
  <2>1. n \in Nat /\ k \in 1..n /\ k < n /\ m = n - 1
    BY <1>1, <1>2, <1>14 DEF next
  <2> HIDE DEF n, m, k
  <2>2. k \in 1..m
    BY <2>1
  <2>3. b.row \in 1..Len(lines)
    BY <2>2 DEF k, m
  <2> QED BY <1>9, <1>15, <2>3 DEF CursorIn
<1>18. /\ IsEdit(b, WithLines(PushUndo(b), lines, b.row, Len(Line(b))))
       /\ In(WithLines(PushUndo(b), lines, b.row, Len(Line(b))))
  BY <1>1, <1>3, <1>4, <1>16, <1>17, EditsLines
<1> QED BY <1>5, <1>18 DEF Edits

LEMMA FormattedIsText ==
    ASSUME NEW line \in Seq(Chars)
    PROVE  Formatted(line) \in Seq(Chars)
<1>1. Reverse(line) \in Seq(Chars)
  BY Reverses
<1>2. WithoutIndent(Reverse(line)) \in Seq(Chars)
  BY <1>1, LacksIndent
<1>3. Reverse(WithoutIndent(Reverse(line))) \in Seq(Chars)
  BY <1>2, Reverses
<1>4. <<Letter>> \in Seq(Chars)
  BY DEF Chars
<1> QED BY <1>3, <1>4 DEF Formatted

LEMMA FormatEdits ==
    ASSUME NEW b \in Buffers
    PROVE  Edits(b, FormatDocument(b))
<1> DEFINE lines == [i \in DOMAIN b.lines |-> Formatted(b.lines[i])]
           c == WithLines(PushUndo(b), lines, b.row, b.col)
<1>1. IsEdit(b, PushUndo(b))
  BY EditsNothing
<1>2. /\ b.lines \in Seq(Seq(Chars)) /\ b.lines # <<>> /\ DOMAIN b.lines = 1..Len(b.lines)
      /\ Len(b.lines) \in Nat /\ b.row \in Nat \ {0} /\ b.col \in Nat
  BY LenProperties DEF Buffers, BodyTexts
<1>3. \A i \in 1..Len(b.lines) : Formatted(b.lines[i]) \in Seq(Chars)
  BY <1>2, ElementOfSeq, FormattedIsText
<1>4. lines \in Seq(Seq(Chars)) /\ lines # <<>>
  <2>1. lines \in [1..Len(b.lines) -> Seq(Chars)]
    BY <1>2, <1>3
  <2>2. 1 \in 1..Len(b.lines)
    BY <1>2, EmptySeq
  <2> HIDE DEF lines
  <2> QED BY <1>2, <2>1, <2>2
<1>5. FormatDocument(b) = ClampCursor(c)
  <2>1. PushUndo(b) \in Buffers /\ PushUndo(b).lines = b.lines /\ PushUndo(b).row = b.row
        /\ PushUndo(b).col = b.col
    BY Pushes
  <2>2. [PushUndo(b) EXCEPT !.lines = lines, !.dirty = TRUE] = c
    <3> DEFINE p == PushUndo(b)
    <3>1. p \in Buffers /\ p.row = b.row /\ p.col = b.col
      BY <2>1
    <3> HIDE DEF p, lines
    <3>2. [p EXCEPT !.lines = lines, !.dirty = TRUE] = WithLines(p, lines, b.row, b.col)
      BY <3>1 DEF WithLines, Buffers
    <3> QED BY <3>2 DEF p
  <2> QED BY <2>1, <2>2 DEF FormatDocument
<1> HIDE DEF lines
<1>6. lines \in BodyTexts
  BY <1>4 DEF BodyTexts
<1>7. IsEdit(b, c)
  BY <1>1, <1>2, <1>6, EditsLines
<1> HIDE DEF c
<1> QED BY <1>5, <1>7, EditsClamped DEF Edits

----------------------------------------
(* Each key keeps what holds of the editor.                                *)

\* The undo stack leads back to the text as it was opened.
Traced(b) == b.opened = IF b.undo = <<>> THEN b.lines ELSE b.undo[1].lines

BufferOK(b) ==
    /\ b \in Buffers
    /\ Len(b.clipboard) <= 1
    /\ b.active => b.index \in DOMAIN b.matches
    /\ Traced(b)

\* The cursor is in the text, and so are those that undo returns to.
InPlace(b) ==
    /\ In(b)
    /\ \A i \in DOMAIN b.undo : CursorIn(b.undo[i].lines, b.undo[i].row, b.undo[i].col)

\* What a key makes of b: an editor of the same note, that says so if it changed
\* the title or the text.
Steps(b, a) ==
    /\ BufferOK(a)
    /\ a.command = b.command /\ a.key = b.key /\ a.opened = b.opened
    /\ a.dirty = TRUE \/ (a.dirty = b.dirty /\ a.lines = b.lines /\ a.title = b.title)

Keeps(b, a) == Steps(b, a) /\ (InPlace(b) => InPlace(a))

LEMMA EditsKeep ==
    ASSUME NEW b, BufferOK(b), NEW a, Edits(b, a)
    PROVE  Keeps(b, a)
<1>1. b \in Buffers /\ a \in Buffers /\ Len(b.clipboard) <= 1 /\ Traced(b)
  BY DEF BufferOK, Edits, IsEdit
<1>2. b.undo \in Seq(Snaps) /\ SnapOf(b) \in Snaps
  BY <1>1 DEF Buffers, Snaps, SnapOf
<1>3. a.undo = Append(b.undo, SnapOf(b))
  BY DEF Edits, IsEdit
<1> DEFINE n == Len(b.undo)
<1>4. /\ n \in Nat /\ DOMAIN b.undo = 1..n /\ DOMAIN a.undo = 1..n + 1
      /\ \A i \in 1..n : a.undo[i] = b.undo[i]
      /\ a.undo[n + 1] = SnapOf(b)
  BY <1>2, <1>3, AppendProperties, LenProperties
<1>5. a.undo # <<>> /\ (b.undo = <<>> <=> n = 0)
  <2>1. a.undo # <<>>
    BY <1>4
  <2>2. b.undo = <<>> <=> n = 0
    BY <1>2, EmptySeq
  <2> QED BY <2>1, <2>2
<1>6. Traced(a)
  <2>1. a.opened = b.opened
    BY DEF Edits, IsEdit, Same
  <2>2. CASE b.undo = <<>>
    <3>1. a.undo[1] = SnapOf(b) /\ b.opened = b.lines
      BY <1>1, <1>4, <1>5, <2>2 DEF Traced
    <3> QED BY <1>5, <2>1, <3>1 DEF Traced, SnapOf
  <2>3. CASE b.undo # <<>>
    <3>1. 1 \in 1..n
      BY <1>4, <1>5, <2>3
    <3>2. a.undo[1] = b.undo[1] /\ b.opened = b.undo[1].lines
      BY <1>1, <1>4, <2>3, <3>1 DEF Traced
    <3> QED BY <1>5, <2>1, <3>2 DEF Traced
  <2> QED BY <2>2, <2>3
<1>7. BufferOK(a)
  <2>1. a.active = b.active /\ a.index = b.index /\ a.matches = b.matches
    BY DEF Edits, IsEdit, Same
  <2>2. Len(a.clipboard) <= 1
    BY <1>1 DEF Edits, IsEdit
  <2> QED BY <1>1, <1>6, <2>1, <2>2 DEF BufferOK
<1>8. Steps(b, a)
  BY <1>7 DEF Steps, Edits, IsEdit, Same
<1>9. ASSUME InPlace(b)
      PROVE  InPlace(a)
  <2>1. In(a)
    BY <1>9 DEF InPlace, Edits
  <2>2. ASSUME NEW i \in 1..n + 1
        PROVE  CursorIn(a.undo[i].lines, a.undo[i].row, a.undo[i].col)
    <3>1. CASE i \in 1..n
      BY <1>4, <1>9, <3>1 DEF InPlace
    <3>2. CASE i = n + 1
      BY <1>4, <1>9, <3>2 DEF InPlace, In, SnapOf
    <3> QED BY <1>4, <3>1, <3>2
  <2> QED BY <1>4, <2>1, <2>2 DEF InPlace
<1> QED BY <1>8, <1>9 DEF Keeps

\* A key that changes neither text nor undo stack.
Leaves(b, a) ==
    /\ a \in Buffers
    /\ a.command = b.command /\ a.key = b.key /\ a.opened = b.opened
    /\ a.lines = b.lines /\ a.undo = b.undo
    /\ a.dirty = TRUE \/ (a.dirty = b.dirty /\ a.title = b.title)
    /\ Len(a.clipboard) <= 1
    /\ a.active => a.index \in DOMAIN a.matches

LEMMA LeavesSteps ==
    ASSUME NEW b, BufferOK(b), NEW a, Leaves(b, a)
    PROVE  Steps(b, a) /\ ((In(b) => In(a)) => Keeps(b, a))
<1>1. BufferOK(a)
  BY DEF BufferOK, Leaves, Traced
<1>2. Steps(b, a)
  BY <1>1 DEF Steps, Leaves
<1>3. a.undo = b.undo
  BY DEF Leaves
<1> QED BY <1>2, <1>3 DEF Keeps, InPlace

\* The cursor moves, and nothing else.
LEMMA MoveLeaves ==
    ASSUME NEW b, BufferOK(b), NEW row \in Nat \ {0}, NEW col \in Nat
    PROVE  LET a == [b EXCEPT !.row = row, !.col = col]
           IN  Leaves(b, a) /\ (CursorIn(b.lines, row, col) => In(a))
<1> DEFINE a == [b EXCEPT !.row = row, !.col = col]
<1>1. b \in Buffers /\ Len(b.clipboard) <= 1 /\ (b.active => b.index \in DOMAIN b.matches)
  BY DEF BufferOK
<1>2. /\ a \in Buffers /\ Same(b, a) /\ a.lines = b.lines /\ a.row = row /\ a.col = col
      /\ a.dirty = b.dirty /\ a.undo = b.undo /\ a.clipboard = b.clipboard
  BY <1>1 DEF Buffers, Same
<1> HIDE DEF a
<1>3. Leaves(b, a) /\ (CursorIn(b.lines, row, col) => In(a))
  BY <1>1, <1>2 DEF Leaves, Same, In
<1> QED BY <1>3 DEF a

LEMMA ColumnKeeps ==
    ASSUME NEW b, BufferOK(b), NEW col \in Nat, In(b) => col <= Len(Line(b))
    PROVE  Keeps(b, MoveTo(b, col))
<1> DEFINE a == [b EXCEPT !.row = b.row, !.col = col]
<1>1. b \in Buffers /\ b.row \in Nat \ {0}
  BY DEF BufferOK, Buffers
<1>2. MoveTo(b, col) = a
  BY <1>1 DEF MoveTo, Buffers
<1>3. Leaves(b, a) /\ (CursorIn(b.lines, b.row, col) => In(a))
  BY <1>1, MoveLeaves
<1>4. In(b) => CursorIn(b.lines, b.row, col)
  BY DEF In, CursorIn, Line
<1> HIDE DEF a
<1> QED BY <1>2, <1>3, <1>4, LeavesSteps

LEMMA RowKeeps ==
    ASSUME NEW b, BufferOK(b), NEW row \in Nat \ {0}
    PROVE  Keeps(b, ClampCursor([b EXCEPT !.row = row]))
<1> DEFINE c == [b EXCEPT !.row = row, !.col = b.col]
           a == ClampCursor(c)
<1>1. b \in Buffers /\ b.col \in Nat
  BY DEF BufferOK, Buffers
<1>2. [b EXCEPT !.row = row] = c
  BY <1>1 DEF Buffers
<1>3. Leaves(b, c)
  BY <1>1, MoveLeaves
<1> HIDE DEF c
<1>4. c \in Buffers
  BY <1>3 DEF Leaves
<1>5. /\ a \in Buffers /\ Same(c, a) /\ a.lines = c.lines /\ In(a)
      /\ a.dirty = c.dirty /\ a.undo = c.undo /\ a.clipboard = c.clipboard
  BY <1>4, Clamps
<1> HIDE DEF a
<1>6. Leaves(b, a)
  BY <1>3, <1>5 DEF Leaves, Same
<1>7. Keeps(b, a)
  BY <1>5, <1>6, LeavesSteps
<1> QED BY <1>2, <1>7 DEF a

LEMMA LineMovesKeep ==
    ASSUME NEW b, BufferOK(b)
    PROVE  Keeps(b, MoveLeft(b)) /\ Keeps(b, MoveToLineStart(b))
<1>1. b.col \in Nat
  BY DEF BufferOK, Buffers
<1>2. In(b) => b.col <= Len(Line(b)) /\ Len(Line(b)) \in Nat
  BY InIsInText, CursorCuts DEF BufferOK
<1> DEFINE left == IF b.col > 0 THEN b.col - 1 ELSE 0
<1>3. left \in Nat /\ (In(b) => left <= Len(Line(b)))
  BY <1>1, <1>2
<1>4. 0 \in Nat /\ (In(b) => 0 <= Len(Line(b)))
  BY <1>2
<1>5. Keeps(b, MoveToLineStart(b))
  BY <1>4, ColumnKeeps DEF MoveToLineStart
<1>6. MoveLeft(b) = MoveTo(b, left)
  BY DEF MoveLeft
<1> HIDE DEF left
<1>7. Keeps(b, MoveLeft(b))
  BY <1>3, <1>6, ColumnKeeps
<1> QED BY <1>5, <1>7

\* A key that does nothing.
LEMMA NothingKeeps ==
    ASSUME NEW b, BufferOK(b)
    PROVE  Keeps(b, b)
BY DEF BufferOK, Steps, Keeps

LEMMA RowMovesKeep ==
    ASSUME NEW b, BufferOK(b)
    PROVE  /\ Keeps(b, MoveUp(b)) /\ Keeps(b, MoveDown(b))
           /\ Keeps(b, MoveToTop(b)) /\ Keeps(b, MoveToBottom(b))
<1>1. b \in Buffers /\ b.row \in Nat \ {0} /\ Len(b.lines) \in Nat \ {0}
  <2>1. b.lines \in Seq(Seq(Chars)) /\ b.lines # <<>> /\ b \in Buffers /\ b.row \in Nat \ {0}
    BY DEF BufferOK, Buffers, BodyTexts
  <2> QED BY <2>1, EmptySeq, LenProperties
<1>2. Keeps(b, b)
  BY NothingKeeps
<1>3. Keeps(b, MoveUp(b))
  <2>1. CASE b.row > 1
    <3> DEFINE row == b.row - 1
    <3>1. row \in Nat \ {0} /\ MoveUp(b) = ClampCursor([b EXCEPT !.row = row])
      BY <1>1, <2>1 DEF MoveUp, Buffers
    <3> HIDE DEF row
    <3> QED BY <3>1, RowKeeps
  <2>2. CASE ~ (b.row > 1)
    BY <1>2, <2>2 DEF MoveUp
  <2> QED BY <2>1, <2>2
<1>4. Keeps(b, MoveDown(b))
  <2>1. CASE b.row < Len(b.lines)
    <3> DEFINE row == b.row + 1
    <3>1. row \in Nat \ {0} /\ MoveDown(b) = ClampCursor([b EXCEPT !.row = row])
      BY <1>1, <2>1 DEF MoveDown, Buffers
    <3> HIDE DEF row
    <3> QED BY <3>1, RowKeeps
  <2>2. CASE ~ (b.row < Len(b.lines))
    BY <1>2, <2>2 DEF MoveDown
  <2> QED BY <2>1, <2>2
<1>5. Keeps(b, MoveToTop(b))
  <2>1. 1 \in Nat \ {0}
    OBVIOUS
  <2> QED BY <2>1, RowKeeps DEF MoveToTop
<1>6. Keeps(b, MoveToBottom(b))
  BY <1>1, RowKeeps DEF MoveToBottom
<1> QED BY <1>3, <1>4, <1>5, <1>6

\* Moves along a line, where there is one.
LEMMA RightMovesKeep ==
    ASSUME NEW b, BufferOK(b), InText(b)
    PROVE  Keeps(b, MoveRight(b)) /\ Keeps(b, MoveToLineEnd(b))
<1> DEFINE n == Len(Line(b))
           last == LastColumn(b, b.row)
           right == IF b.col < last THEN b.col + 1 ELSE b.col
<1>1. b \in Buffers /\ b.col \in Nat
  BY DEF BufferOK, Buffers
<1>2. n \in Nat /\ (In(b) => b.col <= n)
  BY <1>1, CursorCuts, InIsInText
<1>3. last \in Nat /\ last <= n
  BY <1>2 DEF LastColumn, Line
<1>4. MoveRight(b) = MoveTo(b, right) /\ MoveToLineEnd(b) = MoveTo(b, last)
  BY DEF MoveRight, MoveToLineEnd
<1> HIDE DEF last
<1>5. right \in Nat /\ (In(b) => right <= n)
  BY <1>1, <1>2, <1>3
<1> HIDE DEF right
<1>6. Keeps(b, MoveTo(b, right))
  BY <1>5, ColumnKeeps
<1>7. Keeps(b, MoveTo(b, last))
  BY <1>3, ColumnKeeps
<1> QED BY <1>4, <1>6, <1>7

LEMMA MoveToFirstNonBlankKeeps ==
    ASSUME NEW b, BufferOK(b), InText(b)
    PROVE  Keeps(b, MoveToFirstNonBlank(b))
<1> DEFINE col == IF HasText(Line(b)) THEN Blanks(Line(b)) ELSE 0
<1>1. Line(b) \in Seq(Chars) /\ Len(Line(b)) \in Nat
  BY CursorCuts DEF BufferOK
<1>2. Blanks(Line(b)) \in 0..Len(Line(b))
  BY <1>1, BlanksEnd
<1>3. col \in Nat /\ col <= Len(Line(b))
  BY <1>1, <1>2
<1>4. MoveToFirstNonBlank(b) = MoveTo(b, col)
  BY DEF MoveToFirstNonBlank
<1> HIDE DEF col
<1> QED BY <1>3, <1>4, ColumnKeeps

LEMMA WordMovesKeep ==
    ASSUME NEW b, BufferOK(b), InText(b)
    PROVE  Keeps(b, MoveWordForward(b)) /\ Keeps(b, MoveWordBackward(b))
<1>1. /\ b \in Buffers /\ b.row \in Nat \ {0} /\ Len(Line(b)) \in Nat
      /\ EditColumn(b) \in 0..Len(Line(b))
      /\ Before(b) \in Seq(Chars) /\ Len(Before(b)) = EditColumn(b)
      /\ After(b) \in Seq(Chars) /\ Len(After(b)) = Len(Line(b)) - EditColumn(b)
  BY CursorCuts DEF BufferOK, Buffers
<1>2. Keeps(b, MoveWordForward(b))
  <2> DEFINE col == EditColumn(b) + WordLength(After(b))
             c == [b EXCEPT !.row = b.row, !.col = col]
             a == ClampCursor(c)
  <2>1. WordLength(After(b)) \in 0..Len(After(b))
    BY <1>1, WordIn
  <2>2. col \in Nat
    BY <1>1, <2>1
  <2>3. MoveWordForward(b) = ClampCursor(MoveTo(b, col)) 
    BY DEF MoveWordForward
  <2> HIDE DEF col
  <2>4. MoveTo(b, col) = c
    BY <1>1 DEF MoveTo, Buffers
  <2>5. Leaves(b, c)
    BY <1>1, <2>2, MoveLeaves
  <2> HIDE DEF c
  <2>6. c \in Buffers
    BY <2>5 DEF Leaves
  <2>7. /\ a \in Buffers /\ Same(c, a) /\ a.lines = c.lines /\ In(a)
        /\ a.dirty = c.dirty /\ a.undo = c.undo /\ a.clipboard = c.clipboard
    BY <2>6, Clamps
  <2> HIDE DEF a
  <2>8. Leaves(b, a)
    BY <2>5, <2>7 DEF Leaves, Same
  <2>9. Keeps(b, a)
    BY <2>7, <2>8, LeavesSteps
  <2> QED BY <2>3, <2>4, <2>9 DEF a
<1>3. Keeps(b, MoveWordBackward(b))
  <2> DEFINE back == Reverse(Before(b))
             bare == WithoutIndent(back)
             col == EditColumn(b) - Blanks(back) - Letters(bare)
  <2>1. back \in Seq(Chars) /\ Len(back) = EditColumn(b)
    BY <1>1, Reverses
  <2>2. MoveWordBackward(b) = MoveTo(b, col)
    BY DEF MoveWordBackward
  <2> HIDE DEF back
  <2>3. Blanks(back) \in 0..Len(back)
    BY <2>1, BlanksEnd
  <2>4. bare \in Seq(Chars) /\ Len(bare) = Len(back) - Blanks(back)
    BY <2>1, LacksIndent
  <2> HIDE DEF bare
  <2>5. Letters(bare) \in 0..Len(bare)
    BY <2>4, LettersEnd
  <2>6. col \in Nat /\ col <= Len(Line(b))
    BY <1>1, <2>1, <2>3, <2>4, <2>5
  <2> HIDE DEF col
  <2> QED BY <2>2, <2>6, ColumnKeeps
<1> QED BY <1>2, <1>3

LEMMA MoveWordEndKeeps ==
    ASSUME NEW b, BufferOK(b), InText(b)
    PROVE  Keeps(b, MoveWordEnd(b))
<1> DEFINE n == Len(Line(b))
           start == EditColumn(b) + (IF EditColumn(b) < n THEN 1 ELSE 0)
           ends == {i \in start..n - 1 :
                      Line(b)[i + 1] # Blank /\ (i + 1 < n => Line(b)[i + 2] = Blank)}
           first == CHOOSE i \in ends : \A j \in ends : i <= j
           col == IF ends # {} THEN first ELSE IF n > 0 THEN n - 1 ELSE 0
<1>1. n \in Nat /\ EditColumn(b) \in 0..n
  BY CursorCuts DEF BufferOK
<1>2. MoveWordEnd(b) = MoveTo(b, col)
  BY DEF MoveWordEnd
<1>3. start \in Nat
  BY <1>1
<1> HIDE DEF start
<1>4. \A i \in ends : i \in Nat /\ i <= n
  BY <1>1, <1>3
<1> HIDE DEF ends, n
<1>5. ends # {} => first \in ends
  <2>1. ASSUME ends # {}
        PROVE  \E i \in ends : \A j \in ends : i <= j
    <3>1. ends \subseteq Nat
      BY <1>4
    <3> QED BY <2>1, <3>1, SmallestNumber
  <2> QED BY <2>1
<1> HIDE DEF first
<1>6. col \in Nat /\ col <= n
  BY <1>1, <1>4, <1>5
<1> HIDE DEF col
<1> QED BY <1>2, <1>6, ColumnKeeps DEF n

LEMMA YankLineKeeps ==
    ASSUME NEW b, BufferOK(b), InText(b)
    PROVE  Keeps(b, YankLine(b))
<1> DEFINE line == Line(b)
           a == [b EXCEPT !.clipboard = <<line>>]
<1>1. b \in Buffers /\ (b.active => b.index \in DOMAIN b.matches)
  BY DEF BufferOK
<1>2. line \in Seq(Chars)
  BY <1>1, CursorCuts
<1>3. YankLine(b) = a
  BY DEF YankLine
<1> HIDE DEF line
<1>4. <<line>> \in Seq(Seq(Chars)) /\ Len(<<line>>) = 1
  BY <1>2
<1>5. /\ a \in Buffers /\ Same(b, a) /\ a.lines = b.lines /\ a.row = b.row /\ a.col = b.col
      /\ a.dirty = b.dirty /\ a.undo = b.undo /\ a.clipboard = <<line>>
  BY <1>1, <1>4 DEF Buffers, Same
<1> HIDE DEF a
<1>6. Leaves(b, a) /\ (In(b) => In(a))
  BY <1>1, <1>4, <1>5 DEF Leaves, Same, In
<1> QED BY <1>3, <1>6, LeavesSteps

LEMMA UndoKeeps ==
    ASSUME NEW b, BufferOK(b)
    PROVE  Keeps(b, Undo(b))
<1>1. CASE b.undo = <<>>
  BY <1>1, NothingKeeps DEF Undo
<1>2. CASE b.undo # <<>>
  <2> DEFINE n == Len(b.undo)
             last == Last(b.undo)
             rest == Front(b.undo)
             lines == last.lines
             row == last.row
             col == last.col
             a == [b EXCEPT !.undo = rest, !.lines = lines, !.row = row, !.col = col,
                            !.dirty = TRUE]
  <2>1. /\ b \in Buffers /\ b.undo \in Seq(Snaps) /\ Len(b.clipboard) <= 1
        /\ b.active => b.index \in DOMAIN b.matches
    BY DEF BufferOK, Buffers
  <2>2. n \in Nat /\ DOMAIN b.undo = 1..n
    BY <2>1, LenProperties
  <2>3. n # 0
    BY <1>2, <2>1, EmptySeq
  <2>4. last = b.undo[n] /\ last \in Snaps
    <3>1. last = b.undo[n]
      BY DEF Last
    <3>2. n \in 1..n
      BY <2>2, <2>3
    <3> QED BY <2>1, <3>1, <3>2, ElementOfSeq
  <2>5. rest \in Seq(Snaps) /\ Len(rest) = n - 1 /\ \A i \in 1..n - 1 : rest[i] = b.undo[i]
    <3> DEFINE m == n - 1
    <3>1. m \in 0..n
      BY <2>2, <2>3
    <3>2. rest = SubSeq(b.undo, 1, m)
      BY DEF Front
    <3> HIDE DEF m, rest
    <3>3. rest \in Seq(Snaps)
      BY <2>1, <3>1, <3>2, Cuts
    <3>4. Len(rest) = m
      BY <2>1, <3>1, <3>2, Cuts
    <3>5. \A i \in 1..m : rest[i] = b.undo[i]
      BY <2>1, <3>1, <3>2, Cuts
    <3> QED BY <3>3, <3>4, <3>5 DEF m
  <2>6. Undo(b) = a
    BY <1>2 DEF Undo
  <2> HIDE DEF rest, n
  <2>7. lines \in BodyTexts /\ row \in Nat \ {0} /\ col \in Nat
    BY <2>4 DEF Snaps
  <2> HIDE DEF lines, row, col
  <2>8. /\ a \in Buffers /\ Same(b, a) /\ a.lines = lines /\ a.row = row /\ a.col = col
        /\ a.dirty = TRUE /\ a.undo = rest /\ a.clipboard = b.clipboard
    BY <2>1, <2>5, <2>7 DEF Buffers, Same
  <2> HIDE DEF a
  <2>9. Traced(a)
    <3>1. a.opened = b.undo[1].lines
      BY <1>2, <2>8 DEF BufferOK, Traced, Same
    <3>2. CASE n = 1
      <4>1. a.undo = <<>>
        <5>1. Len(rest) = 0
          BY <2>5, <3>2
        <5> QED BY <2>5, <2>8, <5>1, EmptySeq
      <4> QED BY <2>4, <2>8, <3>1, <3>2, <4>1 DEF Traced, lines
    <3>3. CASE n # 1
      <4>1. 1 \in 1..n - 1 /\ n - 1 # 0
        BY <2>2, <2>3, <3>3
      <4>2. rest # <<>> /\ rest[1] = b.undo[1]
        BY <2>5, <4>1, EmptySeq
      <4> QED BY <2>8, <3>1, <4>2 DEF Traced
    <3> QED BY <3>2, <3>3
  <2>10. Steps(b, a)
    <3>1. BufferOK(a)
      BY <2>1, <2>8, <2>9 DEF BufferOK, Same
    <3> QED BY <2>8, <3>1 DEF Steps, Same
  <2>11. ASSUME InPlace(b)
         PROVE  InPlace(a)
    <3>1. \A i \in 1..n : CursorIn(b.undo[i].lines, b.undo[i].row, b.undo[i].col)
      BY <2>2, <2>11 DEF InPlace
    <3>2. n \in 1..n
      BY <2>2, <2>3
    <3>3. CursorIn(lines, row, col)
      BY <2>4, <3>1, <3>2 DEF lines, row, col
    <3>4. In(a)
      BY <2>8, <3>3 DEF In
    <3>5. DOMAIN rest = 1..n - 1
      BY <2>5, LenProperties
    <3>6. ASSUME NEW i \in 1..n - 1
          PROVE  CursorIn(rest[i].lines, rest[i].row, rest[i].col)
      <4>1. i \in 1..n
        BY <2>2
      <4> QED BY <2>5, <3>1, <4>1
    <3> QED BY <2>8, <3>4, <3>5, <3>6 DEF InPlace
  <2> QED BY <2>6, <2>10, <2>11 DEF Keeps
<1> QED BY <1>1, <1>2

\* Keys that change how the editor reads the next one.
LEMMA ModesKeep ==
    ASSUME NEW b, BufferOK(b), NEW m \in {"normal", "insert"},
           NEW f \in {"session", "title", "body"}, NEW p \in BOOLEAN
    PROVE  Keeps(b, [b EXCEPT !.mode = m, !.focus = f, !.picking = p])
<1> DEFINE a == [b EXCEPT !.mode = m, !.focus = f, !.picking = p]
<1>1. b \in Buffers /\ Len(b.clipboard) <= 1 /\ (b.active => b.index \in DOMAIN b.matches)
  BY DEF BufferOK
<1>2. a \in Buffers
  BY <1>1 DEF Buffers
<1>3. /\ a.command = b.command /\ a.key = b.key /\ a.opened = b.opened /\ a.lines = b.lines
      /\ a.row = b.row /\ a.col = b.col /\ a.title = b.title
      /\ a.dirty = b.dirty /\ a.undo = b.undo /\ a.clipboard = b.clipboard
      /\ a.matches = b.matches /\ a.index = b.index /\ a.active = b.active
  BY <1>1 DEF Buffers
<1> HIDE DEF a
<1>4. Leaves(b, a) /\ (In(b) => In(a))
  BY <1>1, <1>2, <1>3 DEF Leaves, In
<1> QED BY <1>4, LeavesSteps DEF a

LEMMA ModeKeeps ==
    ASSUME NEW b, BufferOK(b), NEW m \in {"normal", "insert"}
    PROVE  Keeps(b, [b EXCEPT !.mode = m])
<1>1. b \in Buffers /\ b.focus \in {"session", "title", "body"} /\ b.picking \in BOOLEAN
  BY DEF BufferOK, Buffers
<1>2. [b EXCEPT !.mode = m] = [b EXCEPT !.mode = m, !.focus = b.focus, !.picking = b.picking]
  BY <1>1 DEF Buffers
<1> QED BY <1>1, <1>2, ModesKeep

LEMMA PickingKeeps ==
    ASSUME NEW b, BufferOK(b), NEW p \in BOOLEAN
    PROVE  Keeps(b, [b EXCEPT !.picking = p])
<1>1. b \in Buffers /\ b.focus \in {"session", "title", "body"} /\ b.mode \in {"normal", "insert"}
  BY DEF BufferOK, Buffers
<1>2. [b EXCEPT !.picking = p] = [b EXCEPT !.mode = b.mode, !.focus = b.focus, !.picking = p]
  BY <1>1 DEF Buffers
<1> QED BY <1>1, <1>2, ModesKeep

LEMMA FocusKeeps ==
    ASSUME NEW b, BufferOK(b), NEW delta \in {1, 2}
    PROVE  Keeps(b, AdvanceFocus(b, delta))
<1> DEFINE i == CHOOSE i \in DOMAIN Focuses : Focuses[i] = b.focus
           f == Focuses[((i - 1 + delta) % 3) + 1]
<1>1. b \in Buffers /\ b.mode \in {"normal", "insert"} /\ b.picking \in BOOLEAN
      /\ b.focus \in {"session", "title", "body"}
  BY DEF BufferOK, Buffers
<1>2. DOMAIN Focuses = 1..3 /\ Focuses[1] = "session" /\ Focuses[2] = "title" /\ Focuses[3] = "body"
  BY DEF Focuses
<1>3. i \in 1..3
  <2>1. \E j \in DOMAIN Focuses : Focuses[j] = b.focus
    BY <1>1, <1>2
  <2>2. i \in DOMAIN Focuses
    BY <2>1
  <2> QED BY <1>2, <2>2
<1>4. AdvanceFocus(b, delta) = [b EXCEPT !.focus = f]
  BY DEF AdvanceFocus
<1> HIDE DEF i
<1>5. f \in {"session", "title", "body"}
  <2>1. ((i - 1 + delta) % 3) + 1 \in 1..3
    BY <1>3
  <2> QED BY <1>2, <2>1
<1> HIDE DEF f
<1>6. [b EXCEPT !.focus = f] = [b EXCEPT !.mode = b.mode, !.focus = f, !.picking = b.picking]
  BY <1>1 DEF Buffers
<1>7. Keeps(b, [b EXCEPT !.mode = b.mode, !.focus = f, !.picking = b.picking])
  BY <1>1, <1>5, ModesKeep
<1> QED BY <1>4, <1>6, <1>7

\* A title that is typed.
LEMMA TitleKeeps ==
    ASSUME NEW b, BufferOK(b), NEW t \in Titles
    PROVE  Keeps(b, [b EXCEPT !.title = t, !.dirty = TRUE])
<1> DEFINE a == [b EXCEPT !.title = t, !.dirty = TRUE]
<1>1. b \in Buffers /\ Len(b.clipboard) <= 1 /\ (b.active => b.index \in DOMAIN b.matches)
  BY DEF BufferOK
<1>2. a \in Buffers
  BY <1>1 DEF Buffers
<1>3. /\ a.command = b.command /\ a.key = b.key /\ a.opened = b.opened /\ a.lines = b.lines
      /\ a.row = b.row /\ a.col = b.col
      /\ a.dirty = TRUE /\ a.undo = b.undo /\ a.clipboard = b.clipboard
      /\ a.matches = b.matches /\ a.index = b.index /\ a.active = b.active
  BY <1>1 DEF Buffers
<1> HIDE DEF a
<1>4. Leaves(b, a) /\ (In(b) => In(a))
  BY <1>1, <1>2, <1>3 DEF Leaves, In
<1> QED BY <1>4, LeavesSteps DEF a

\* Escape forgets the matches.
LEMMA EscapeKeeps ==
    ASSUME NEW b, BufferOK(b)
    PROVE  Keeps(b, [b EXCEPT !.active = FALSE, !.matches = <<>>])
<1> DEFINE a == [b EXCEPT !.active = FALSE, !.matches = <<>>]
<1>1. b \in Buffers /\ Len(b.clipboard) <= 1 /\ <<>> \in Seq(Position)
  BY DEF BufferOK
<1>2. a \in Buffers
  BY <1>1 DEF Buffers
<1>3. /\ a.command = b.command /\ a.key = b.key /\ a.opened = b.opened /\ a.lines = b.lines
      /\ a.row = b.row /\ a.col = b.col /\ a.title = b.title
      /\ a.dirty = b.dirty /\ a.undo = b.undo /\ a.clipboard = b.clipboard
      /\ a.active = FALSE
  BY <1>1 DEF Buffers
<1> HIDE DEF a
<1>4. Leaves(b, a) /\ (In(b) => In(a))
  BY <1>1, <1>2, <1>3 DEF Leaves, In
<1> QED BY <1>4, LeavesSteps DEF a

----------------------------------------
(* Typing a reference.                                                     *)

LEMMA InStays ==
    ASSUME NEW b, NEW a, In(a)
    PROVE  InText(a)
BY DEF In, CursorIn, InText

\* What is done in steps is done.
LEMMA KeepsFurther ==
    ASSUME NEW b, NEW c, Keeps(b, c), NEW a, Keeps(c, a)
    PROVE  Keeps(b, a)
BY DEF Keeps, Steps

LEMMA InsertStringKeeps ==
    ASSUME NEW b, BufferOK(b), InText(b), NEW s \in Seq(Chars)
    PROVE  Keeps(b, InsertString(b, s))
<1> DEFINE n == Len(s)
           Type(f, i) == IF i = 0 THEN b ELSE InsertRune(f[i - 1], s[i])
           IsTyped(f) == f = [i \in 0..n |-> Type(f, i)]
           V == {a \in Buffers : BufferOK(a) /\ InText(a)}
           step == [p \in (1..n) \X V |-> InsertRune(p[2], s[p[1]])]
           typed == CHOOSE f : IsTyped(f)
<1>1. n \in Nat /\ \A i \in 1..n : s[i] \in Chars
  BY LenProperties, ElementOfSeq
<1>2. ASSUME NEW a \in V, NEW c \in Chars
      PROVE  InsertRune(a, c) \in V /\ Keeps(a, InsertRune(a, c))
  <2>1. a \in Buffers /\ BufferOK(a) /\ InText(a)
    OBVIOUS
  <2> HIDE DEF V
  <2>2. Edits(a, InsertRune(a, c)) /\ In(InsertRune(a, c))
    BY <2>1, InsertRuneEdits
  <2>3. Keeps(a, InsertRune(a, c))
    BY <2>1, <2>2, EditsKeep
  <2>4. BufferOK(InsertRune(a, c)) /\ InText(InsertRune(a, c))
    BY <2>2, <2>3, InStays DEF Keeps, Steps
  <2> QED BY <2>3, <2>4 DEF V, BufferOK
<1>3. b \in V
  BY DEF BufferOK
<1>4. step \in [(1..n) \X V -> V]
  <2>1. ASSUME NEW p \in (1..n) \X V
        PROVE  InsertRune(p[2], s[p[1]]) \in V
    <3>1. p[2] \in V /\ s[p[1]] \in Chars
      BY <1>1
    <3> HIDE DEF V
    <3> QED BY <1>2, <3>1
  <2> HIDE DEF V
  <2> QED BY <2>1
<1>5. \E f : Recurs(f, n, V, b, step)
  <2> HIDE DEF n, step, V
  <2> QED BY <1>1, <1>3, <1>4, RecursionExists
<1>6. PICK f \in [0..n -> V] :
         f[0] = b /\ \A i \in 1..n : f[i] = step[<<i, f[i - 1]>>]
  BY <1>5 DEF Recurs
<1> HIDE DEF V
<1>7. IsTyped(f)
  <2>1. ASSUME NEW i \in 0..n PROVE f[i] = Type(f, i)
    <3>1. CASE i = 0
      BY <1>6, <3>1
    <3>2. CASE i # 0
      <4>1. i \in 1..n /\ i - 1 \in 0..n
        BY <1>1, <3>2
      <4>2. <<i, f[i - 1]>> \in (1..n) \X V
        BY <4>1
      <4> QED BY <1>6, <3>2, <4>1, <4>2
    <3> QED BY <3>1, <3>2
  <2> HIDE DEF Type
  <2> QED BY <2>1
<1>8. IsTyped(typed)
  BY <1>7
<1>9. InsertString(b, s) = typed[n]
  BY DEF InsertString
<1>10. \A i \in 0..n : typed[i] = Type(typed, i)
  BY <1>8
<1> HIDE DEF typed
<1> DEFINE Good == {i \in 0..n : typed[i] \in V /\ Keeps(b, typed[i])}
<1>11. \A i \in 0..n : i \in Good
  <2>1. 0 \in Good
    <3>1. typed[0] = b /\ 0 \in 0..n
      BY <1>1, <1>10
    <3> QED BY <1>3, <3>1, NothingKeeps
  <2>2. ASSUME NEW i \in 1..n, i - 1 \in Good
        PROVE  i \in Good
    <3> DEFINE before == typed[i - 1]
    <3>1. before \in V /\ Keeps(b, before) /\ s[i] \in Chars
      BY <1>1, <2>2
    <3>2. typed[i] = InsertRune(before, s[i])
      BY <1>10
    <3> HIDE DEF before
    <3>3. InsertRune(before, s[i]) \in V /\ Keeps(before, InsertRune(before, s[i]))
      BY <1>2, <3>1
    <3>4. Keeps(b, typed[i])
      BY <3>1, <3>2, <3>3, KeepsFurther
    <3> QED BY <3>2, <3>3, <3>4
  <2> HIDE DEF Good, n
  <2> QED BY <1>1, <2>1, <2>2, NumbersUpTo
<1>12. n \in Good
  BY <1>1, <1>11
<1> QED BY <1>9, <1>12

----------------------------------------
(* Search.                                                                 *)

LEMMA Remainder ==
    ASSUME NEW i \in Int, NEW n \in Nat, n > 0
    PROVE  i % n \in 0..n - 1
OBVIOUS

\* Where a cursor can stand in a text.
Places(lines) == {p \in Position : CursorIn(lines, p.row, p.col)}

\* The query q stands in a line, i characters from its start.
StandsAt(q, line, i) == i + Len(q) <= Len(line) /\ SubSeq(line, i + 1, i + Len(q)) = q

\* ColumnsFound runs along the line and keeps the columns where the query stands.
LEMMA ColumnsRun ==
    ASSUME NEW line \in Seq(Chars), NEW q \in Seq(Chars)
    PROVE  \E f \in [0..Len(line) -> Seq(0..Len(line))] :
             /\ ColumnsFound(line, q) = f[Len(line)]
             /\ f[0] = <<>>
             /\ \A i \in 1..Len(line) :
                  f[i] = IF StandsAt(q, line, i - 1) THEN Append(f[i - 1], i - 1) ELSE f[i - 1]
<1> DEFINE n == Len(line)
           Hit(i) == i - 1 + Len(q) <= Len(line) /\ SubSeq(line, i, i - 1 + Len(q)) = q
           Find(f, i) == IF i = 0 THEN <<>>
                         ELSE IF Hit(i) THEN Append(f[i - 1], i - 1)
                         ELSE f[i - 1]
           Finds(f) == f = [i \in 0..n |-> Find(f, i)]
           V == Seq(0..n)
           base == <<>>
           step == [p \in (1..n) \X V |-> IF Hit(p[1]) THEN Append(p[2], p[1] - 1) ELSE p[2]]
           found == CHOOSE f : Finds(f)
<1>1. n \in Nat
  BY LenProperties
<1>2. ColumnsFound(line, q) = found[n]
  BY DEF ColumnsFound
<1> HIDE DEF Hit
<1>3. step \in [(1..n) \X V -> V]
  <2>1. ASSUME NEW i \in 1..n, NEW v \in V
        PROVE  Append(v, i - 1) \in V
    <3>1. i - 1 \in 0..n
      BY <1>1
    <3> HIDE DEF n
    <3> QED BY <3>1, AppendProperties
  <2>2. ASSUME NEW p \in (1..n) \X V
        PROVE  (IF Hit(p[1]) THEN Append(p[2], p[1] - 1) ELSE p[2]) \in V
    <3>1. p[1] \in 1..n /\ p[2] \in V
      OBVIOUS
    <3> HIDE DEF V
    <3>2. Append(p[2], p[1] - 1) \in V
      BY <2>1, <3>1
    <3> QED BY <3>1, <3>2
  <2> HIDE DEF V
  <2> QED BY <2>2
<1>4. base \in V
  OBVIOUS
<1>5. \E f : Recurs(f, n, V, base, step)
  <2> HIDE DEF n, step, V, base
  <2> QED BY <1>1, <1>3, <1>4, RecursionExists
<1>6. PICK f \in [0..n -> V] :
         f[0] = base /\ \A i \in 1..n : f[i] = step[<<i, f[i - 1]>>]
  BY <1>5 DEF Recurs
<1> HIDE DEF V
<1>7. Finds(f)
  <2>1. ASSUME NEW i \in 0..n PROVE f[i] = Find(f, i)
    <3>1. CASE i = 0
      BY <1>6, <3>1
    <3>2. CASE i # 0
      <4>1. i \in 1..n /\ i - 1 \in 0..n
        BY <1>1, <3>2
      <4>2. <<i, f[i - 1]>> \in (1..n) \X V
        BY <4>1
      <4> QED BY <1>6, <3>2, <4>1, <4>2
    <3> QED BY <3>1, <3>2
  <2> HIDE DEF Find
  <2> QED BY <2>1
<1>8. Finds(found)
  BY <1>7
<1>9. \A i \in 0..n : found[i] = Find(found, i)
  BY <1>8
<1> HIDE DEF found
<1> DEFINE Good == {i \in 0..n : found[i] \in V}
<1>10. \A i \in 0..n : i \in Good
  <2>1. 0 \in Good
    <3>1. found[0] = <<>> /\ 0 \in 0..n
      BY <1>1, <1>9
    <3> QED BY <1>4, <3>1
  <2>2. ASSUME NEW i \in 1..n, i - 1 \in Good
        PROVE  i \in Good
    <3> DEFINE before == found[i - 1]
    <3>1. before \in V /\ i \in 0..n
      BY <1>1, <2>2
    <3>2. found[i] = IF Hit(i) THEN Append(before, i - 1) ELSE before
      BY <1>9
    <3> HIDE DEF before
    <3>3. <<i, before>> \in (1..n) \X V
      BY <3>1
    <3>4. step[<<i, before>>] \in V
      <4> HIDE DEF step
      <4> QED BY <1>3, <3>3
    <3>5. step[<<i, before>>] = found[i]
      BY <3>2, <3>3
    <3> QED BY <3>1, <3>4, <3>5
  <2> HIDE DEF Good, n
  <2> QED BY <1>1, <2>1, <2>2, NumbersUpTo
<1>11. found \in [0..n -> V]
  <2>1. found = [i \in 0..n |-> Find(found, i)]
    BY <1>8
  <2>2. \A i \in 0..n : found[i] \in V
    BY <1>10
  <2> HIDE DEF Find, n, V
  <2> QED BY <2>1, <2>2
<1>12. \A i \in 1..n : Hit(i) <=> StandsAt(q, line, i - 1)
  <2>1. Len(q) \in Nat
    BY LenProperties
  <2>2. \A i \in 1..n : i - 1 + 1 = i
    BY <1>1
  <2> QED BY <2>2 DEF Hit, StandsAt
<1>13. \A i \in 1..n :
         found[i] = IF StandsAt(q, line, i - 1) THEN Append(found[i - 1], i - 1) ELSE found[i - 1]
  <2>1. ASSUME NEW i \in 1..n
        PROVE  found[i] = IF Hit(i) THEN Append(found[i - 1], i - 1) ELSE found[i - 1]
    BY <1>1, <1>9
  <2> HIDE DEF n
  <2> QED BY <1>12, <2>1
<1>14. found[0] = <<>>
  BY <1>1, <1>9
<1> HIDE DEF n
<1>15. \E g \in [0..n -> V] :
         /\ ColumnsFound(line, q) = g[n] /\ g[0] = <<>>
         /\ \A i \in 1..n :
              g[i] = IF StandsAt(q, line, i - 1) THEN Append(g[i - 1], i - 1) ELSE g[i - 1]
  BY <1>2, <1>11, <1>13, <1>14
<1> QED BY <1>15 DEF V, n

LEMMA ColumnsFoundInLine ==
    ASSUME NEW line \in Seq(Chars), NEW q \in Seq(Chars)
    PROVE  ColumnsFound(line, q) \in Seq(0..Len(line))
<1>1. PICK f \in [0..Len(line) -> Seq(0..Len(line))] : ColumnsFound(line, q) = f[Len(line)]
  BY ColumnsRun
<1>2. Len(line) \in 0..Len(line)
  BY LenProperties
<1> QED BY <1>1, <1>2

LEMMA InRowIsInText ==
    ASSUME NEW lines \in BodyTexts, NEW r \in 1..Len(lines), NEW columns \in Seq(0..Len(lines[r]))
    PROVE  InRow(r, columns) \in Seq(Places(lines))
<1> DEFINE n == Len(columns)
           m == Len(lines[r])
<1>1. lines \in Seq(Seq(Chars)) /\ Len(lines) \in Nat
  BY LenProperties DEF BodyTexts
<1>2. m \in Nat
  BY <1>1, ElementOfSeq, LenProperties
<1>3. n \in Nat /\ DOMAIN columns = 1..n
  BY LenProperties
<1>4. ASSUME NEW i \in 1..n
      PROVE  [row |-> r, col |-> columns[i]] \in Places(lines)
  <2>1. columns[i] \in 0..m
    BY ElementOfSeq
  <2>2. columns[i] \in Nat /\ columns[i] <= m /\ r \in Nat \ {0}
    BY <1>1, <1>2, <2>1
  <2>3. [row |-> r, col |-> columns[i]] \in Position
    BY <2>2 DEF Position
  <2> QED BY <2>2, <2>3 DEF Places, CursorIn
<1>5. InRow(r, columns) = [i \in 1..n |-> [row |-> r, col |-> columns[i]]]
  BY <1>3 DEF InRow
<1>6. InRow(r, columns) \in [1..n -> Places(lines)]
  BY <1>4, <1>5
<1> QED BY <1>3, <1>6

\* Matches runs along the lines and puts together what each of them has.
LEMMA MatchesRun ==
    ASSUME NEW b \in Buffers
    PROVE  \E f \in [0..Len(b.lines) -> Seq(Places(b.lines))] :
             /\ Matches(b) = f[Len(b.lines)]
             /\ f[0] = <<>>
             /\ \A r \in 1..Len(b.lines) :
                  f[r] = f[r - 1] \o InRow(r, ColumnsFound(b.lines[r], b.query))
<1> DEFINE lines == b.lines
           q == b.query
           n == Len(lines)
           Found(r) == InRow(r, ColumnsFound(lines[r], q))
           Find(f, i) == IF i = 0 THEN <<>> ELSE f[i - 1] \o Found(i)
           Finds(f) == f = [i \in 0..n |-> Find(f, i)]
           V == Seq(Places(lines))
           base == <<>>
           step == [p \in (1..n) \X V |-> p[2] \o Found(p[1])]
           found == CHOOSE f : Finds(f)
<1>1. lines \in BodyTexts /\ q \in Seq(Chars) /\ n \in Nat
  BY LenProperties DEF Buffers, BodyTexts
<1>2. Matches(b) = found[n]
  BY DEF Matches
<1>3. ASSUME NEW r \in 1..n
      PROVE  Found(r) \in V
  <2> HIDE DEF lines, q
  <2>1. lines[r] \in Seq(Chars)
    <3>1. lines \in Seq(Seq(Chars))
      BY <1>1 DEF BodyTexts
    <3> QED BY <3>1, ElementOfSeq
  <2>2. ColumnsFound(lines[r], q) \in Seq(0..Len(lines[r]))
    BY <1>1, <2>1, ColumnsFoundInLine
  <2> QED BY <1>1, <2>2, InRowIsInText
<1> HIDE DEF Found, lines, q
<1>4. step \in [(1..n) \X V -> V]
  <2>1. ASSUME NEW p \in (1..n) \X V
        PROVE  p[2] \o Found(p[1]) \in V
    <3>1. p[2] \in V /\ Found(p[1]) \in V
      BY <1>3
    <3> QED BY <3>1, ConcatProperties
  <2> HIDE DEF V
  <2> QED BY <2>1
<1>5. base \in V
  OBVIOUS
<1>6. \E f : Recurs(f, n, V, base, step)
  <2> HIDE DEF n, step, V, base
  <2> QED BY <1>1, <1>4, <1>5, RecursionExists
<1>7. PICK f \in [0..n -> V] :
         f[0] = base /\ \A i \in 1..n : f[i] = step[<<i, f[i - 1]>>]
  BY <1>6 DEF Recurs
<1> HIDE DEF V
<1>8. Finds(f)
  <2>1. ASSUME NEW i \in 0..n PROVE f[i] = Find(f, i)
    <3>1. CASE i = 0
      BY <1>7, <3>1
    <3>2. CASE i # 0
      <4>1. i \in 1..n /\ i - 1 \in 0..n
        BY <1>1, <3>2
      <4>2. <<i, f[i - 1]>> \in (1..n) \X V
        BY <4>1
      <4> QED BY <1>7, <3>2, <4>1, <4>2
    <3> QED BY <3>1, <3>2
  <2> HIDE DEF Find
  <2> QED BY <2>1
<1>9. Finds(found)
  BY <1>8
<1>10. \A i \in 0..n : found[i] = Find(found, i)
  BY <1>9
<1> HIDE DEF found
<1> DEFINE Good == {i \in 0..n : found[i] \in V}
<1>11. \A i \in 0..n : i \in Good
  <2>1. 0 \in Good
    <3>1. found[0] = <<>> /\ 0 \in 0..n
      BY <1>1, <1>10
    <3> QED BY <1>5, <3>1
  <2>2. ASSUME NEW i \in 1..n, i - 1 \in Good
        PROVE  i \in Good
    <3> DEFINE before == found[i - 1]
    <3>1. before \in V /\ i \in 0..n
      BY <1>1, <2>2
    <3>2. found[i] = before \o Found(i)
      BY <1>10
    <3> HIDE DEF before
    <3>3. before \o Found(i) \in V
      BY <1>3, <3>1, ConcatProperties DEF V
    <3> QED BY <3>1, <3>2, <3>3
  <2> HIDE DEF Good, n
  <2> QED BY <1>1, <2>1, <2>2, NumbersUpTo
<1>12. found \in [0..n -> V]
  <2>1. found = [i \in 0..n |-> Find(found, i)]
    BY <1>9
  <2>2. \A i \in 0..n : found[i] \in V
    BY <1>11
  <2> HIDE DEF Find, n, V
  <2> QED BY <2>1, <2>2
<1>13. found[0] = <<>> /\ \A r \in 1..n : found[r] = found[r - 1] \o Found(r)
  <2>1. ASSUME NEW r \in 1..n
        PROVE  found[r] = found[r - 1] \o Found(r)
    <3>1. r \in 0..n /\ r # 0
      BY <1>1
    <3>2. found[r] = Find(found, r)
      <4> HIDE DEF Find
      <4> QED BY <1>10, <3>1
    <3> HIDE DEF n, Found
    <3> QED BY <3>1, <3>2
  <2>2. found[0] = <<>>
    BY <1>1, <1>10
  <2> HIDE DEF n, Found
  <2> QED BY <2>1, <2>2
<1> HIDE DEF n
<1>14. \E g \in [0..n -> V] :
         /\ Matches(b) = g[n] /\ g[0] = <<>>
         /\ \A r \in 1..n : g[r] = g[r - 1] \o Found(r)
  BY <1>2, <1>12, <1>13
<1> QED BY <1>14 DEF V, n, Found, lines, q

LEMMA MatchesAreInText ==
    ASSUME NEW b \in Buffers
    PROVE  Matches(b) \in Seq(Places(b.lines))
<1>1. PICK f \in [0..Len(b.lines) -> Seq(Places(b.lines))] : Matches(b) = f[Len(b.lines)]
  BY MatchesRun
<1>2. Len(b.lines) \in 0..Len(b.lines)
  BY LenProperties DEF Buffers, BodyTexts
<1> QED BY <1>1, <1>2

LEMMA ToSetAppended ==
    ASSUME NEW S, NEW u \in Seq(S), NEW x \in S
    PROVE  ToSet(Append(u, x)) = ToSet(u) \cup {x}
<1> DEFINE n == Len(u)
           v == Append(u, x)
<1>1. n \in Nat /\ DOMAIN u = 1..n
  BY LenProperties
<1>2. DOMAIN v = 1..n + 1 /\ v[n + 1] = x /\ \A i \in 1..n : v[i] = u[i]
  BY <1>1
<1> HIDE DEF v
<1>3. 1..n + 1 = (1..n) \cup {n + 1}
  BY <1>1
<1> HIDE DEF n
<1>4. ToSet(v) = {v[i] : i \in 1..n} \cup {x}
  BY <1>2, <1>3 DEF ToSet
<1>5. {v[i] : i \in 1..n} = {u[i] : i \in 1..n}
  BY <1>2
<1> QED BY <1>1, <1>4, <1>5 DEF ToSet, v

LEMMA ToSetJoined ==
    ASSUME NEW S, NEW u \in Seq(S), NEW v \in Seq(S)
    PROVE  ToSet(u \o v) = ToSet(u) \cup ToSet(v)
<1> DEFINE n == Len(u)
           m == Len(v)
           w == u \o v
<1>1. n \in Nat /\ DOMAIN u = 1..n /\ m \in Nat /\ DOMAIN v = 1..m
  BY LenProperties
<1>2. /\ DOMAIN w = 1..n + m /\ \A i \in 1..n : w[i] = u[i]
      /\ \A j \in 1..m : w[n + j] = v[j]
  BY <1>1
<1> HIDE DEF w
<1>3. ASSUME NEW k \in 1..n + m
      PROVE  w[k] \in ToSet(u) \cup ToSet(v)
  <2>1. CASE k \in 1..n
    BY <1>1, <1>2, <2>1 DEF ToSet
  <2>2. CASE k \notin 1..n
    <3>1. k - n \in 1..m /\ n + (k - n) = k
      BY <1>1, <2>2
    <3> HIDE DEF n, m
    <3>2. w[k] = v[k - n]
      BY <1>2, <3>1
    <3> QED BY <1>1, <3>1, <3>2 DEF ToSet
  <2> QED BY <2>1, <2>2
<1>4. ASSUME NEW i \in 1..n
      PROVE  u[i] \in ToSet(w)
  <2>1. i \in 1..n + m
    BY <1>1
  <2> QED BY <1>2, <2>1 DEF ToSet
<1>5. ASSUME NEW j \in 1..m
      PROVE  v[j] \in ToSet(w)
  <2>1. n + j \in 1..n + m
    BY <1>1
  <2> QED BY <1>2, <2>1 DEF ToSet
<1> HIDE DEF n, m
<1>6. ToSet(w) \subseteq ToSet(u) \cup ToSet(v)
  BY <1>2, <1>3 DEF ToSet
<1>7. ToSet(u) \subseteq ToSet(w) /\ ToSet(v) \subseteq ToSet(w)
  BY <1>1, <1>4, <1>5 DEF ToSet
<1> QED BY <1>6, <1>7 DEF w

LEMMA ColumnsFoundAll ==
    ASSUME NEW line \in Seq(Chars), NEW q \in Seq(Chars)
    PROVE  ToSet(ColumnsFound(line, q)) = {k \in 0..Len(line) - 1 : StandsAt(q, line, k)}
<1> DEFINE n == Len(line)
           S == 0..n
           Hits(i) == {k \in 0..i - 1 : StandsAt(q, line, k)}
<1>1. n \in Nat
  BY LenProperties
<1>2. PICK f \in [0..n -> Seq(S)] :
         /\ ColumnsFound(line, q) = f[n] /\ f[0] = <<>>
         /\ \A i \in 1..n :
              f[i] = IF StandsAt(q, line, i - 1) THEN Append(f[i - 1], i - 1) ELSE f[i - 1]
  BY ColumnsRun
<1> HIDE DEF n
<1> DEFINE Good == {i \in 0..n : ToSet(f[i]) = Hits(i)}
<1>3. 0 \in Good
  <2>1. ToSet(f[0]) = {} /\ Hits(0) = {} /\ 0 \in 0..n
    BY <1>1, <1>2 DEF ToSet
  <2> QED BY <2>1
<1>4. ASSUME NEW i \in 1..n, i - 1 \in Good
      PROVE  i \in Good
  <2> DEFINE k == i - 1
             before == f[k]
  <2>1. k \in 0..n /\ i \in 0..n /\ k \in S
    BY <1>1
  <2>2. before \in Seq(S) /\ ToSet(before) = Hits(k)
    BY <1>2, <1>4, <2>1
  <2>3. 0..i - 1 = (0..k - 1) \cup {k}
    BY <1>1
  <2>4. f[i] = IF StandsAt(q, line, k) THEN Append(before, k) ELSE before
    BY <1>2
  <2> HIDE DEF before, k, S
  <2>5. CASE StandsAt(q, line, k)
    <3>1. ToSet(f[i]) = Hits(k) \cup {k}
      BY <2>1, <2>2, <2>4, <2>5, ToSetAppended
    <3>2. Hits(i) = Hits(k) \cup {k}
      BY <2>3, <2>5
    <3> HIDE DEF Hits
    <3> QED BY <2>1, <3>1, <3>2
  <2>6. CASE ~StandsAt(q, line, k)
    <3>1. Hits(i) = Hits(k)
      BY <2>3, <2>6
    <3> HIDE DEF Hits
    <3> QED BY <2>1, <2>2, <2>4, <2>6, <3>1
  <2> QED BY <2>5, <2>6
<1>5. \A i \in 0..n : i \in Good
  <2> HIDE DEF Good
  <2> QED BY <1>1, <1>3, <1>4, NumbersUpTo
<1>6. ToSet(f[n]) = Hits(n)
  BY <1>1, <1>5
<1> QED BY <1>2, <1>6 DEF n

LEMMA ToSetInRow ==
    ASSUME NEW r, NEW columns
    PROVE  ToSet(InRow(r, columns)) = {[row |-> r, col |-> k] : k \in ToSet(columns)}
<1>1. DOMAIN InRow(r, columns) = DOMAIN columns
  BY DEF InRow
<1>2. \A i \in DOMAIN columns : InRow(r, columns)[i] = [row |-> r, col |-> columns[i]]
  BY DEF InRow
<1> QED BY <1>1, <1>2 DEF ToSet

\* The search of editorExecuteSearch finds the query wherever it stands, overlapping
\* itself or not, and nowhere else, in texts of any number of lines of any length: its
\* loop ends at the last column where the query fits.
THEOREM SearchFindsAll ==
    ASSUME NEW b \in Buffers, b.query # <<>>
    PROVE  ToSet(Matches(b)) = {p \in Places(b.lines) : StandsAt(b.query, b.lines[p.row], p.col)}
<1> DEFINE lines == b.lines
           q == b.query
           n == Len(lines)
           S == Places(lines)
           Found(r) == InRow(r, ColumnsFound(lines[r], q))
           Hits(m) == {p \in S : p.row \in 1..m /\ StandsAt(q, lines[p.row], p.col)}
<1>1. lines \in Seq(Seq(Chars)) /\ lines \in BodyTexts /\ q \in Seq(Chars) /\ n \in Nat
  BY LenProperties DEF Buffers, BodyTexts
<1>2. Len(q) \in Nat /\ Len(q) # 0
  BY <1>1, EmptySeq, LenProperties
<1>3. PICK f \in [0..n -> Seq(S)] :
         Matches(b) = f[n] /\ f[0] = <<>> /\ \A r \in 1..n : f[r] = f[r - 1] \o Found(r)
  BY MatchesRun
<1>4. ASSUME NEW r \in 1..n
      PROVE  /\ Found(r) \in Seq(S)
             /\ ToSet(Found(r)) = {p \in S : p.row = r /\ StandsAt(q, lines[r], p.col)}
  <2> DEFINE line == lines[r]
             columns == ColumnsFound(line, q)
             m == Len(line)
  <2>1. line \in Seq(Chars) /\ m \in Nat
    BY <1>1, ElementOfSeq, LenProperties
  <2>2. columns \in Seq(0..m)
    BY <1>1, <2>1, ColumnsFoundInLine
  <2>3. ToSet(columns) = {k \in 0..m - 1 : StandsAt(q, line, k)}
    BY <1>1, <2>1, ColumnsFoundAll
  <2>4. Found(r) \in Seq(S)
    BY <1>1, <2>2, InRowIsInText
  <2>5. ToSet(Found(r)) = {[row |-> r, col |-> k] : k \in ToSet(columns)}
    BY ToSetInRow
  <2>6. \A p : p \in S /\ p.row = r <=>
                  \E k \in 0..m : p = [row |-> r, col |-> k]
    BY <1>1, <2>1 DEF Places, Position, CursorIn
  <2>7. \A k \in 0..m : StandsAt(q, line, k) => k \in 0..m - 1
    BY <1>2, <2>1 DEF StandsAt
  <2> HIDE DEF line, columns, m, S, Found
  <2>8. {[row |-> r, col |-> k] : k \in ToSet(columns)}
           = {p \in S : p.row = r /\ StandsAt(q, line, p.col)}
    <3>1. ASSUME NEW k \in ToSet(columns)
          PROVE  LET p == [row |-> r, col |-> k]
                 IN  p \in S /\ p.row = r /\ StandsAt(q, line, p.col)
      <4>1. k \in 0..m /\ StandsAt(q, line, k)
        BY <2>1, <2>3
      <4> QED BY <2>6, <4>1
    <3>2. ASSUME NEW p \in S, p.row = r, StandsAt(q, line, p.col)
          PROVE  \E k \in ToSet(columns) : p = [row |-> r, col |-> k]
      <4>1. PICK k \in 0..m : p = [row |-> r, col |-> k]
        BY <2>6, <3>2
      <4>2. k \in 0..m - 1 /\ StandsAt(q, line, k)
        BY <2>7, <3>2, <4>1
      <4> QED BY <2>3, <4>1, <4>2
    <3> QED BY <3>1, <3>2
  <2> QED BY <2>4, <2>5, <2>8 DEF line
<1> HIDE DEF S, Found, lines, q, n
<1> DEFINE Good == {r \in 0..n : ToSet(f[r]) = Hits(r)}
<1>5. 0 \in Good
  <2>1. ToSet(f[0]) = {} /\ Hits(0) = {} /\ 0 \in 0..n
    BY <1>1, <1>3 DEF ToSet
  <2> QED BY <2>1
<1>6. ASSUME NEW r \in 1..n, r - 1 \in Good
      PROVE  r \in Good
  <2> DEFINE k == r - 1
             before == f[k]
  <2>1. k \in 0..n /\ r \in 0..n
    BY <1>1
  <2>2. before \in Seq(S) /\ ToSet(before) = Hits(k)
    BY <1>3, <1>6, <2>1
  <2>3. 1..r = (1..k) \cup {r}
    BY <1>1
  <2>4. f[r] = before \o Found(r)
    BY <1>3
  <2> HIDE DEF before, k
  <2>5. ToSet(f[r]) = Hits(k) \cup ToSet(Found(r))
    BY <1>4, <2>2, <2>4, ToSetJoined
  <2>6. Hits(r) = Hits(k) \cup {p \in S : p.row = r /\ StandsAt(q, lines[r], p.col)}
    BY <2>3
  <2> HIDE DEF Hits
  <2> QED BY <1>4, <2>1, <2>5, <2>6
<1>7. \A r \in 0..n : r \in Good
  <2> HIDE DEF Good
  <2> QED BY <1>1, <1>5, <1>6, NumbersUpTo
<1>8. ToSet(f[n]) = Hits(n)
  BY <1>1, <1>7
<1>9. \A p \in S : p.row \in 1..n
  BY DEF S, Places, CursorIn, lines, n
<1> QED BY <1>3, <1>8, <1>9 DEF S, lines, q

\* A jump to one of the matches.
LEMMA GoToMatchLeaves ==
    ASSUME NEW b, BufferOK(b), b.active, NEW i \in DOMAIN b.matches
    PROVE  /\ Leaves(b, GoToMatch(b, i))
           /\ b.matches[i] \in Places(b.lines) => In(GoToMatch(b, i))
<1> DEFINE row == b.matches[i].row
           col == b.matches[i].col
           a == [b EXCEPT !.index = i, !.row = row, !.col = col]
<1>1. b \in Buffers /\ Len(b.clipboard) <= 1 /\ b.matches \in Seq(Position)
  BY DEF BufferOK, Buffers
<1>2. i \in 1..Len(b.matches) /\ i \in Nat
  BY <1>1, LenProperties
<1>3. b.matches[i] \in Position
  BY <1>1, <1>2, ElementOfSeq
<1>4. row \in Nat \ {0} /\ col \in Nat
  BY <1>3 DEF Position
<1>5. GoToMatch(b, i) = a
  BY DEF GoToMatch
<1>6. b.matches[i] \in Places(b.lines) => CursorIn(b.lines, row, col)
  BY DEF Places
<1> HIDE DEF row, col
<1>7. a \in Buffers
  BY <1>1, <1>2, <1>4 DEF Buffers
<1>8. /\ a.command = b.command /\ a.key = b.key /\ a.opened = b.opened /\ a.lines = b.lines
      /\ a.row = row /\ a.col = col /\ a.title = b.title
      /\ a.dirty = b.dirty /\ a.undo = b.undo /\ a.clipboard = b.clipboard
      /\ a.matches = b.matches /\ a.index = i
  BY <1>1 DEF Buffers
<1> HIDE DEF a
<1>9. Leaves(b, a)
  BY <1>1, <1>7, <1>8 DEF Leaves
<1>10. b.matches[i] \in Places(b.lines) => In(a)
  BY <1>6, <1>8 DEF In
<1> QED BY <1>5, <1>9, <1>10

\* The matches that a search finds are in the text.
LEMMA SearchKeeps ==
    ASSUME NEW b, BufferOK(b)
    PROVE  Keeps(b, ExecuteSearch(b))
<1> DEFINE found == IF b.query = <<>> THEN <<>> ELSE Matches(b)
           hit == found # <<>>
           c == [b EXCEPT !.matches = found, !.index = 1, !.active = hit]
           ahead == {i \in DOMAIN found :
                       \/ found[i].row > b.row
                       \/ found[i].row = b.row /\ found[i].col >= b.col}
           first == IF ahead = {} THEN 1 ELSE CHOOSE i \in ahead : \A j \in ahead : i <= j
<1>1. b \in Buffers /\ Len(b.clipboard) <= 1
  BY DEF BufferOK
<1>2. found \in Seq(Places(b.lines))
  <2>1. Matches(b) \in Seq(Places(b.lines))
    BY <1>1, MatchesAreInText
  <2>2. <<>> \in Seq(Places(b.lines))
    OBVIOUS
  <2> QED BY <2>1, <2>2
<1>3. ExecuteSearch(b) = IF found = <<>> THEN c ELSE GoToMatch(c, first)
  BY DEF ExecuteSearch
<1> HIDE DEF found
<1>4. found \in Seq(Position) /\ Len(found) \in Nat /\ DOMAIN found = 1..Len(found)
  <2>1. Places(b.lines) \subseteq Position
    BY DEF Places
  <2>2. \A i \in 1..Len(found) : found[i] \in Position
    BY <1>2, <2>1, ElementOfSeq
  <2>3. Len(found) \in Nat /\ DOMAIN found = 1..Len(found)
    BY <1>2, LenProperties
  <2>4. found \in [1..Len(found) -> Position]
    BY <1>2, <2>2
  <2> QED BY <2>3, <2>4
<1>5. hit => 1 \in DOMAIN found
  BY <1>4, EmptySeq
<1>6. hit \in BOOLEAN
  OBVIOUS
<1>7. c \in Buffers
  <2> HIDE DEF hit
  <2> QED BY <1>1, <1>4, <1>6 DEF Buffers
<1>8. /\ c.command = b.command /\ c.key = b.key /\ c.opened = b.opened /\ c.lines = b.lines
      /\ c.row = b.row /\ c.col = b.col /\ c.title = b.title
      /\ c.dirty = b.dirty /\ c.undo = b.undo /\ c.clipboard = b.clipboard
      /\ c.matches = found /\ c.index = 1 /\ c.active = hit
  <2> HIDE DEF hit
  <2> QED BY <1>1 DEF Buffers
<1> HIDE DEF c
<1>9. Leaves(b, c) /\ (In(b) => In(c))
  <2>1. c.active => c.index \in DOMAIN c.matches
    BY <1>5, <1>8
  <2> QED BY <1>1, <1>7, <1>8, <2>1 DEF Leaves, In
<1>10. Keeps(b, c)
  BY <1>9, LeavesSteps
<1>11. CASE found = <<>>
  BY <1>3, <1>10, <1>11
<1>12. CASE found # <<>>
  <2>1. first \in DOMAIN found
    <3>1. ahead \subseteq Nat /\ ahead \subseteq DOMAIN found
      BY <1>4
    <3> HIDE DEF ahead
    <3>2. ahead # {} => first \in ahead
      <4>1. ahead # {} => \E i \in ahead : \A j \in ahead : i <= j
        BY <3>1, SmallestNumber
      <4> QED BY <4>1
    <3> QED BY <1>5, <1>12, <3>1, <3>2
  <2> HIDE DEF first
  <2>2. BufferOK(c) /\ c.active /\ first \in DOMAIN c.matches
    BY <1>8, <1>10, <1>12, <2>1 DEF Keeps, Steps
  <2>3. c.matches[first] \in Places(c.lines)
    BY <1>2, <1>4, <1>8, <2>1, ElementOfSeq
  <2> DEFINE a == GoToMatch(c, first)
  <2>4. Leaves(c, a) /\ In(a)
    BY <2>2, <2>3, GoToMatchLeaves
  <2> HIDE DEF a
  <2>5. Keeps(c, a)
    BY <2>2, <2>4, LeavesSteps
  <2>6. Keeps(b, a)
    BY <1>10, <2>5, KeepsFurther
  <2> QED BY <1>3, <1>12, <2>6 DEF a
<1> QED BY <1>11, <1>12

LEMMA QueryKeeps ==
    ASSUME NEW b, BufferOK(b), NEW q \in Seq(Chars)
    PROVE  Keeps(b, ExecuteSearch([b EXCEPT !.query = q]))
<1> DEFINE a == [b EXCEPT !.query = q]
<1>1. b \in Buffers /\ Len(b.clipboard) <= 1 /\ (b.active => b.index \in DOMAIN b.matches)
  BY DEF BufferOK
<1>2. a \in Buffers
  BY <1>1 DEF Buffers
<1>3. /\ a.command = b.command /\ a.key = b.key /\ a.opened = b.opened /\ a.lines = b.lines
      /\ a.row = b.row /\ a.col = b.col /\ a.title = b.title
      /\ a.dirty = b.dirty /\ a.undo = b.undo /\ a.clipboard = b.clipboard
      /\ a.matches = b.matches /\ a.index = b.index /\ a.active = b.active
  BY <1>1 DEF Buffers
<1> HIDE DEF a
<1>4. Leaves(b, a) /\ (In(b) => In(a))
  BY <1>1, <1>2, <1>3 DEF Leaves, In
<1>5. Keeps(b, a)
  BY <1>4, LeavesSteps
<1>6. BufferOK(a)
  BY <1>5 DEF Keeps, Steps
<1>7. Keeps(a, ExecuteSearch(a))
  BY <1>6, SearchKeeps
<1>8. Keeps(b, ExecuteSearch(a))
  BY <1>5, <1>7, KeepsFurther
<1> QED BY <1>8 DEF a

\* The jump to the next match may leave the text.
LEMMA SearchNextSteps ==
    ASSUME NEW b, BufferOK(b), NEW dir \in {"next", "previous"}
    PROVE  Steps(b, SearchNext(b, dir))
<1> DEFINE n == Len(b.matches)
           i == ((b.index - 1 + (IF dir = "next" THEN 1 ELSE n - 1)) % n) + 1
<1>1. b.matches \in Seq(Position) /\ n \in Nat /\ DOMAIN b.matches = 1..n /\ b.active \in BOOLEAN
  BY LenProperties DEF BufferOK, Buffers
<1>2. CASE ~b.active \/ n = 0
  <2>1. Keeps(b, b) /\ Keeps(b, ExecuteSearch(b))
    BY NothingKeeps, SearchKeeps
  <2>2. SearchNext(b, dir) = IF b.query = <<>> THEN b ELSE ExecuteSearch(b)
    BY <1>2 DEF SearchNext
  <2> QED BY <2>1, <2>2 DEF Keeps
<1>3. CASE ~ (~b.active \/ n = 0)
  <2>1. b.active /\ b.index \in 1..n /\ n \in Nat \ {0}
    BY <1>1, <1>3 DEF BufferOK
  <2> DEFINE k == b.index - 1 + (IF dir = "next" THEN 1 ELSE n - 1)
  <2>2. k \in Nat
    BY <2>1
  <2>3. SearchNext(b, dir) = GoToMatch(b, i)
    BY <1>3 DEF SearchNext
  <2>4. i = (k % n) + 1
    OBVIOUS
  <2> HIDE DEF k, n, i
  <2>5. k % n \in 0..n - 1
    BY <2>1, <2>2, Remainder
  <2>6. i \in 1..n
    BY <2>1, <2>4, <2>5
  <2>7. Leaves(b, GoToMatch(b, i))
    BY <1>1, <2>1, <2>6, GoToMatchLeaves
  <2> QED BY <2>3, <2>7, LeavesSteps
<1> QED BY <1>2, <1>3

----------------------------------------
(* A note is stored trimmed, and a trimmed note opens as it was stored.    *)

LEMMA LargestNumber ==
    ASSUME NEW n \in Nat, NEW S, S \subseteq 1..n, S # {}
    PROVE  \E x \in S : \A y \in S : x >= y
<1> DEFINE Gaps == {n - x : x \in S}
<1>1. PICK gap \in Gaps : \A g \in Gaps : gap <= g
  <2>1. Gaps \subseteq Nat
    <3>1. \A x \in S : n - x \in Nat
      OBVIOUS
    <3> QED BY <3>1
  <2>2. Gaps # {}
    OBVIOUS
  <2> HIDE DEF Gaps
  <2> QED BY <2>1, <2>2, SmallestNumber
<1>2. PICK x \in S : gap = n - x
  OBVIOUS
<1>3. ASSUME NEW y \in S
      PROVE  x >= y
  <2>1. n - y \in Gaps
    OBVIOUS
  <2>2. n - x <= n - y
    BY <1>1, <1>2, <2>1
  <2>3. x \in 1..n /\ y \in 1..n
    OBVIOUS
  <2> QED BY <2>2, <2>3
<1> QED BY <1>3

\* No blank at either end of a line.
StartsBare(s) == s # <<>> /\ s[1] # Blank
EndsBare(s) == s # <<>> /\ s[Len(s)] # Blank

TrimEnd(s) == Reverse(WithoutIndent(Reverse(s)))

LEMMA TrimStarts ==
    ASSUME NEW s \in Seq(Chars), HasText(s)
    PROVE  /\ WithoutIndent(s) \in Seq(Chars) /\ StartsBare(WithoutIndent(s))
           /\ s[Len(s)] # Blank => EndsBare(WithoutIndent(s))
<1> DEFINE k == Blanks(s)
           n == Len(s)
           t == WithoutIndent(s)
<1>1. n \in Nat
  BY LenProperties
<1>2. k \in 0..n
  BY BlanksEnd
<1>3. \A j \in 1..k : s[j] = Blank
  BY BlanksEnd
<1>4. k < n => s[k + 1] # Blank
  BY BlanksEnd
<1>5. t \in Seq(Chars)
  BY LacksIndent
<1>6. Len(t) = n - k
  BY LacksIndent
<1>7. \A i \in 1..n - k : t[i] = s[k + i]
  BY LacksIndent
<1>8. k < n
  <2>1. PICK i \in 1..n : s[i] # Blank
    BY DEF HasText
  <2> HIDE DEF k, n
  <2> QED BY <1>1, <1>2, <1>3, <2>1
<1> HIDE DEF k, t
<1>9. n - k \in 1..n /\ 1 \in 1..n - k /\ n - k \in 1..n - k /\ k + (n - k) = n
  BY <1>1, <1>2, <1>8
<1>10. t # <<>>
  BY <1>5, <1>6, <1>9, EmptySeq
<1>11. t[1] = s[k + 1]
  BY <1>7, <1>9
<1>12. t[n - k] = s[n]
  <2> DEFINE m == n - k
  <2>1. m \in 1..m /\ k + m = n
    BY <1>9
  <2>2. \A i \in 1..m : t[i] = s[k + i]
    BY <1>7
  <2> HIDE DEF m, n
  <2>3. t[m] = s[k + m]
    BY <2>1, <2>2
  <2> QED BY <2>1, <2>3 DEF m
<1>13. StartsBare(t)
  BY <1>4, <1>8, <1>10, <1>11 DEF StartsBare
<1>14. s[n] # Blank => EndsBare(t)
  BY <1>6, <1>10, <1>12 DEF EndsBare
<1> QED BY <1>5, <1>13, <1>14 DEF t

LEMMA TrimEnds ==
    ASSUME NEW s \in Seq(Chars), HasText(s)
    PROVE  /\ TrimEnd(s) \in Seq(Chars) /\ EndsBare(TrimEnd(s))
           /\ s[1] # Blank => StartsBare(TrimEnd(s))
<1> DEFINE n == Len(s)
           back == Reverse(s)
           t == WithoutIndent(back)
           m == Len(t)
           u == Reverse(t)
<1>1. n \in Nat
  BY LenProperties
<1>2. back \in Seq(Chars)
  BY Reverses
<1>3. Len(back) = n
  BY Reverses
<1>4. \A i \in 1..n : back[i] = s[n - i + 1]
  BY Reverses
<1> HIDE DEF back
<1>5. HasText(back)
  <2>1. PICK i \in 1..n : s[i] # Blank
    BY DEF HasText
  <2> DEFINE j == n - i + 1
  <2>2. j \in 1..n /\ n - j + 1 = i
    BY <1>1
  <2> HIDE DEF j, n
  <2>3. back[j] # Blank
    BY <1>4, <2>1, <2>2
  <2> QED BY <1>3, <2>2, <2>3 DEF HasText
<1>6. t \in Seq(Chars) /\ StartsBare(t)
  BY <1>2, <1>5, TrimStarts
<1>7. back[n] # Blank => EndsBare(t)
  BY <1>2, <1>3, <1>5, TrimStarts
<1> HIDE DEF t
<1>8. u \in Seq(Chars)
  BY <1>6, Reverses
<1>9. Len(u) = m
  BY <1>6, Reverses
<1>10. \A i \in 1..m : u[i] = t[m - i + 1]
  BY <1>6, Reverses
<1> HIDE DEF u
<1>11. m \in Nat /\ m # 0
  BY <1>6, EmptySeq, LenProperties DEF StartsBare
<1> HIDE DEF m
<1>12. u[m] = t[1] /\ u[1] = t[m]
  <2>1. m \in 1..m /\ 1 \in 1..m /\ m - m + 1 = 1 /\ m - 1 + 1 = m
    BY <1>11
  <2>2. u[m] = t[m - m + 1] /\ u[1] = t[m - 1 + 1]
    BY <1>10, <2>1
  <2> QED BY <2>1, <2>2
<1>13. u # <<>>
  BY <1>8, <1>9, <1>11, EmptySeq
<1>14. EndsBare(u)
  BY <1>6, <1>9, <1>12, <1>13 DEF EndsBare, StartsBare
<1>15. ASSUME s[1] # Blank
       PROVE  StartsBare(u)
  <2>1. n \in 1..n /\ n - n + 1 = 1
    <3>1. PICK i \in 1..n : s[i] # Blank
      BY DEF HasText
    <3> HIDE DEF n
    <3> QED BY <1>1, <3>1
  <2> HIDE DEF n
  <2>2. back[n] = s[1]
    BY <1>4, <2>1
  <2>3. EndsBare(t)
    BY <1>7, <1>15, <2>2
  <2> QED BY <1>12, <1>13, <2>3 DEF EndsBare, StartsBare, m
<1>16. TrimEnd(s) = u
  BY DEF TrimEnd, u, t, back
<1> QED BY <1>8, <1>14, <1>15, <1>16

LEMMA BareStays ==
    ASSUME NEW s \in Seq(Chars)
    PROVE  /\ StartsBare(s) => WithoutIndent(s) = s
           /\ EndsBare(s) => TrimEnd(s) = s
<1> DEFINE n == Len(s)
<1>1. n \in Nat /\ DOMAIN s = 1..n
  BY LenProperties
<1>2. ASSUME NEW t \in Seq(Chars), StartsBare(t)
      PROVE  WithoutIndent(t) = t
  <2> DEFINE m == Len(t)
  <2>1. m \in Nat /\ m # 0
    BY <1>2, EmptySeq, LenProperties DEF StartsBare
  <2>2. Blanks(t) = 0
    <3>1. Blanks(t) \in 0..m
      BY BlanksEnd
    <3>2. \A j \in 1..Blanks(t) : t[j] = Blank
      BY BlanksEnd
    <3> HIDE DEF m
    <3>3. 1 \notin 1..Blanks(t)
      BY <1>2, <3>2 DEF StartsBare
    <3> QED BY <2>1, <3>1, <3>3
  <2>3. WithoutIndent(t) \in Seq(Chars) /\ Len(WithoutIndent(t)) = m - 0
    BY <2>2, LacksIndent
  <2>4. \A i \in 1..m - 0 : WithoutIndent(t)[i] = t[0 + i]
    BY <2>2, LacksIndent
  <2>5. Len(WithoutIndent(t)) = Len(t) /\ \A i \in 1..Len(t) : WithoutIndent(t)[i] = t[i]
    BY <2>1, <2>3, <2>4
  <2> HIDE DEF m
  <2> QED BY <2>3, <2>5, SeqEqual
<1>3. ASSUME EndsBare(s)
      PROVE  TrimEnd(s) = s
  <2> DEFINE back == Reverse(s)
  <2>1. back \in Seq(Chars)
    BY Reverses
  <2>2. Len(back) = n
    BY Reverses
  <2>3. \A i \in 1..n : back[i] = s[n - i + 1]
    BY Reverses
  <2>4. n # 0
    BY <1>3, EmptySeq DEF EndsBare
  <2>5. StartsBare(back)
    <3>1. 1 \in 1..n /\ n - 1 + 1 = n
      BY <1>1, <2>4
    <3>2. back[1] = s[n]
      BY <2>3, <3>1
    <3> HIDE DEF back
    <3>3. back # <<>>
      BY <2>1, <2>2, <2>4, EmptySeq
    <3> QED BY <1>3, <3>2, <3>3 DEF StartsBare, EndsBare
  <2>6. TrimEnd(s) = Reverse(back)
    BY <1>2, <2>1, <2>5 DEF TrimEnd
  <2> HIDE DEF back
  <2> DEFINE u == Reverse(back)
  <2>7. u \in Seq(Chars)
    BY <2>1, Reverses
  <2>8. Len(u) = n
    BY <2>1, <2>2, Reverses
  <2>9. \A i \in 1..n : u[i] = back[n - i + 1]
    BY <2>1, <2>2, Reverses
  <2> HIDE DEF u
  <2>10. ASSUME NEW i \in 1..n
         PROVE  u[i] = s[i]
    <3> DEFINE j == n - i + 1
    <3>1. j \in 1..n /\ n - j + 1 = i
      BY <1>1
    <3>2. u[i] = back[j]
      BY <2>9
    <3> HIDE DEF j, n
    <3>3. back[j] = s[i]
      BY <2>3, <3>1
    <3> QED BY <3>2, <3>3
  <2>11. u = s
    BY <2>7, <2>8, <2>10, SeqEqual
  <2> QED BY <2>6, <2>11 DEF u
<1> QED BY <1>2, <1>3

\* A text with no blanks and no empty lines at either end.
Neat(t) ==
    /\ t \in BodyTexts
    /\ t = << <<>> >> \/ (StartsBare(t[1]) /\ EndsBare(t[Len(t)]))

LEMMA EmptyLineIsText ==
    << <<>> >> \in BodyTexts /\ ~HasText(<<>>)
<1>1. <<>> \in Seq(Chars)
  OBVIOUS
<1>2. << <<>> >> \in Seq(Seq(Chars)) /\ << <<>> >> # <<>>
  BY <1>1
<1> QED BY <1>2 DEF BodyTexts, HasText

LEMMA TrimmedIsNeat ==
    ASSUME NEW lines \in BodyTexts
    PROVE  Neat(Trimmed(lines))
<1> DEFINE n == Len(lines)
           full == {r \in DOMAIN lines : HasText(lines[r])}
           low == Min(full)
           high == Max(full)
           kept == SubSeq(lines, low, high)
           m == high - low + 1
           head == ReplaceAt(kept, 1, WithoutIndent(kept[1]))
           last == head[Len(head)]
           result == ReplaceAt(head, Len(head), TrimEnd(last))
<1>1. /\ lines \in Seq(Seq(Chars)) /\ n \in Nat /\ DOMAIN lines = 1..n
      /\ \A r \in 1..n : lines[r] \in Seq(Chars)
  BY LenProperties, ElementOfSeq DEF BodyTexts
<1>2. Trimmed(lines) = IF full = {} THEN << <<>> >> ELSE result
  BY DEF Trimmed, TrimEnd
<1>3. full \subseteq 1..n /\ \A r \in full : HasText(lines[r])
  BY <1>1
<1> HIDE DEF full
<1>4. CASE full = {}
  BY <1>2, <1>4, EmptyLineIsText DEF Neat
<1>5. CASE full # {}
  <2>1. low \in full /\ \A r \in full : low <= r
    <3>1. full \subseteq Nat
      BY <1>3
    <3>2. \E r \in full : \A x \in full : r <= x
      BY <1>5, <3>1, SmallestNumber
    <3> QED BY <3>2 DEF Min
  <2>2. high \in full
    <3>1. \E r \in full : \A x \in full : r >= x
      BY <1>1, <1>3, <1>5, LargestNumber
    <3> QED BY <3>1 DEF Max
  <2> HIDE DEF low, high
  <2>3. low \in 1..n /\ high \in 1..n /\ low <= high
    BY <1>3, <2>1, <2>2
  <2>4. m \in Nat /\ m >= 1 /\ low + 1 - 1 = low /\ low + m - 1 = high /\ 1 \in 1..m /\ m \in 1..m
    BY <1>1, <2>3
  <2>5. /\ kept \in Seq(Seq(Chars))
        /\ Len(kept) = IF low <= high THEN high - low + 1 ELSE 0
        /\ \A i \in 1..high - low + 1 : kept[i] = lines[low + i - 1]
    <3>1. low \in Int /\ high \in Int /\ \A i \in low..high : lines[i] \in Seq(Chars)
      BY <1>1, <2>3
    <3> QED BY <3>1, SubSeqProperties
  <2>6. Len(kept) = m /\ kept[1] = lines[low] /\ kept[m] = lines[high]
    <3>1. Len(kept) = m
      BY <2>3, <2>5
    <3>2. \A i \in 1..m : kept[i] = lines[low + i - 1]
      BY <2>5
    <3> HIDE DEF kept, m
    <3>3. kept[1] = lines[low + 1 - 1] /\ kept[m] = lines[low + m - 1]
      BY <2>4, <3>2
    <3> QED BY <2>4, <3>1, <3>3
  <2>7. HasText(kept[1]) /\ HasText(kept[m]) /\ kept[1] \in Seq(Chars) /\ kept[m] \in Seq(Chars)
    BY <1>1, <1>3, <2>1, <2>2, <2>3, <2>6
  <2> HIDE DEF kept, m
  <2> DEFINE first == WithoutIndent(kept[1])
  <2>8. first \in Seq(Chars) /\ StartsBare(first)
    BY <2>7, TrimStarts
  <2>9. HasText(first)
    <3>1. Len(first) \in Nat /\ Len(first) # 0
      BY <2>8, EmptySeq, LenProperties DEF StartsBare
    <3> HIDE DEF first
    <3>2. 1 \in 1..Len(first)
      BY <3>1
    <3> QED BY <2>8, <3>2 DEF HasText, StartsBare
  <2> HIDE DEF first
  <2>10. kept \in Seq(Seq(Chars)) /\ 1 \in 1..Len(kept) /\ Len(kept) = m
    BY <2>4, <2>5, <2>6
  <2>11. head = ReplaceAt(kept, 1, first)
    BY DEF first
  <2> HIDE DEF head
  <2>12. head \in Seq(Seq(Chars))
    BY <2>8, <2>10, <2>11, ReplacesAt
  <2>13. Len(head) = m
    BY <2>8, <2>10, <2>11, ReplacesAt
  <2>14. head[1] = first
    <3>1. ReplaceAt(kept, 1, first)[1] = first
      BY <2>8, <2>10, ReplacesAt
    <3> QED BY <2>11, <3>1
  <2>15. m # 1 => head[m] = kept[m]
    <3> DEFINE i == 1
    <3>1. kept \in Seq(Seq(Chars)) /\ i \in 1..Len(kept) /\ first \in Seq(Chars)
      BY <2>8, <2>10
    <3> HIDE DEF i
    <3>2. ASSUME m # i
          PROVE  ReplaceAt(kept, i, first)[m] = kept[m]
      <4>1. m \in 1..Len(kept)
        BY <2>4, <2>10
      <4> QED BY <3>1, <3>2, <4>1, ReplacesElsewhere
    <3> QED BY <2>11, <3>2 DEF i
  <2>16. last = head[m] /\ last \in Seq(Chars) /\ HasText(last)
    <3>1. CASE m = 1
      BY <2>8, <2>9, <2>13, <2>14, <3>1
    <3>2. CASE m # 1
      BY <2>7, <2>13, <2>15, <3>2
    <3> QED BY <3>1, <3>2
  <2> HIDE DEF last
  <2> DEFINE end == TrimEnd(last)
  <2>17. end \in Seq(Chars) /\ EndsBare(end)
    BY <2>16, TrimEnds
  <2>18. last[1] # Blank => StartsBare(end)
    BY <2>16, TrimEnds
  <2>19. result = ReplaceAt(head, m, end)
    BY <2>13
  <2> HIDE DEF end, result
  <2>20. head \in Seq(Seq(Chars)) /\ m \in 1..Len(head) /\ end \in Seq(Chars)
    BY <2>4, <2>12, <2>13, <2>17
  <2>21. result \in Seq(Seq(Chars))
    BY <2>19, <2>20, ReplacesAt
  <2>22. Len(result) = m
    <3>1. Len(ReplaceAt(head, m, end)) = Len(head)
      BY <2>20, ReplacesAt
    <3> QED BY <2>13, <2>19, <3>1
  <2>23. result[m] = end
    <3>1. ReplaceAt(head, m, end)[m] = end
      BY <2>20, ReplacesThere
    <3> QED BY <2>19, <3>1
  <2>24. m # 1 => result[1] = head[1]
    <3> DEFINE i == 1
    <3>1. SUFFICES ASSUME m # i
                   PROVE  result[i] = head[i]
      OBVIOUS
    <3>2. i \in 1..Len(head)
      BY <2>4, <2>13
    <3> HIDE DEF i
    <3>3. ReplaceAt(head, m, end)[i] = head[i]
      BY <2>20, <3>1, <3>2, ReplacesElsewhere
    <3> QED BY <2>19, <3>3
  <2>25. StartsBare(result[1])
    <3>1. CASE m = 1
      <4>1. last[1] # Blank
        BY <2>8, <2>14, <2>16, <3>1 DEF StartsBare
      <4> QED BY <2>18, <2>23, <3>1, <4>1
    <3>2. CASE m # 1
      BY <2>8, <2>14, <2>24, <3>2
    <3> QED BY <3>1, <3>2
  <2>26. result # <<>>
    BY <2>4, <2>21, <2>22, EmptySeq
  <2>27. Neat(result)
    BY <2>17, <2>21, <2>22, <2>23, <2>25, <2>26 DEF Neat, BodyTexts
  <2> QED BY <1>2, <1>5, <2>27
<1> QED BY <1>4, <1>5

LEMMA ReplacesSame ==
    ASSUME NEW S, NEW s \in Seq(S), NEW i \in 1..Len(s)
    PROVE  ReplaceAt(s, i, s[i]) = s
BY DEF ReplaceAt

LEMMA NeatStays ==
    ASSUME NEW t, Neat(t)
    PROVE  Trimmed(t) = t
<1> DEFINE n == Len(t)
           full == {r \in DOMAIN t : HasText(t[r])}
           low == Min(full)
           high == Max(full)
           kept == SubSeq(t, low, high)
           head == ReplaceAt(kept, 1, WithoutIndent(kept[1]))
           result == ReplaceAt(head, Len(head), TrimEnd(head[Len(head)]))
<1>1. Trimmed(t) = IF full = {} THEN << <<>> >> ELSE result
  BY DEF Trimmed, TrimEnd
<1>2. /\ t \in Seq(Seq(Chars)) /\ t # <<>> /\ n \in Nat /\ DOMAIN t = 1..n
      /\ \A r \in 1..n : t[r] \in Seq(Chars)
  BY LenProperties, ElementOfSeq DEF Neat, BodyTexts
<1>3. 1 \in 1..n /\ n \in 1..n
  BY <1>2, EmptySeq
<1>4. CASE t = << <<>> >>
  <2>1. DOMAIN t = {1} /\ t[1] = <<>>
    BY <1>4
  <2>2. full = {}
    BY <2>1, EmptyLineIsText
  <2> QED BY <1>1, <1>4, <2>2
<1>5. CASE t # << <<>> >>
  <2>1. StartsBare(t[1]) /\ EndsBare(t[n])
    BY <1>5 DEF Neat
  <2>2. ASSUME NEW s \in Seq(Chars), StartsBare(s) \/ EndsBare(s)
        PROVE  HasText(s)
    <3> DEFINE k == Len(s)
    <3>1. k \in Nat /\ k # 0
      BY <2>2, EmptySeq, LenProperties DEF StartsBare, EndsBare
    <3>2. s[1] # Blank \/ s[k] # Blank
      BY <2>2 DEF StartsBare, EndsBare
    <3> HIDE DEF k
    <3>3. 1 \in 1..k /\ k \in 1..k
      BY <3>1
    <3> QED BY <3>2, <3>3 DEF HasText, k
  <2>3. 1 \in full /\ n \in full
    BY <1>2, <1>3, <2>1, <2>2
  <2>4. full \subseteq 1..n
    BY <1>2
  <2> HIDE DEF full
  <2>5. low = 1
    <3>1. \A r \in full : 1 <= r
      BY <2>4
    <3>2. low \in full /\ \A r \in full : low <= r
      BY <2>3, <3>1 DEF Min
    <3>3. low \in 1..n /\ low <= 1
      BY <2>3, <2>4, <3>2
    <3> HIDE DEF n
    <3> QED BY <1>2, <3>3
  <2>6. high = n
    <3>1. \A r \in full : n >= r
      BY <2>4
    <3>2. high \in full /\ \A r \in full : high >= r
      BY <2>3, <3>1 DEF Max
    <3>3. high \in 1..n /\ high >= n
      BY <2>3, <2>4, <3>2
    <3> HIDE DEF n
    <3> QED BY <1>2, <3>3
  <2> HIDE DEF low, high
  <2>7. kept = t
    <3> DEFINE all == SubSeq(t, 1, n)
    <3>1. n \in 0..Len(t)
      BY <1>2
    <3>2. all \in Seq(Seq(Chars))
      BY <1>2, <3>1, Cuts
    <3>3. Len(all) = n
      BY <1>2, <3>1, Cuts
    <3>4. \A i \in 1..n : all[i] = t[i]
      BY <1>2, <3>1, Cuts
    <3> HIDE DEF all
    <3>5. all = t
      BY <1>2, <3>2, <3>3, <3>4, SeqEqual
    <3> QED BY <2>5, <2>6, <3>5 DEF all
  <2>8. head = t
    <3>1. WithoutIndent(t[1]) = t[1]
      BY <1>2, <1>3, <2>1, BareStays
    <3>2. ReplaceAt(t, 1, t[1]) = t
      BY <1>2, <1>3, ReplacesSame
    <3> HIDE DEF kept
    <3> QED BY <2>7, <3>1, <3>2
  <2>9. result = t
    <3>1. TrimEnd(t[n]) = t[n]
      BY <1>2, <1>3, <2>1, BareStays
    <3>2. ReplaceAt(t, n, t[n]) = t
      BY <1>2, <1>3, ReplacesSame
    <3> HIDE DEF head
    <3> QED BY <2>8, <3>1, <3>2
  <2> QED BY <1>1, <2>3, <2>9
<1> QED BY <1>4, <1>5

----------------------------------------
(* The editor and the notes.                                               *)

\* What a note is in the database: titled, and trimmed.
Stored(note) ==
    note \in Note /\ note.title # "" /\ note.lines \in BodyTexts /\ Trimmed(note.lines) = note.lines

EditorInv ==
    /\ screen \in {"list", "editor", "disconnected", "ended", "crashed"}
    /\ notes \in Seq(Note) /\ \A k \in DOMAIN notes : Stored(notes[k])
    /\ IF screen = "editor"
       THEN BufferOK(e) /\ e.key \in (IF e.command = "notes.update" THEN DOMAIN notes ELSE {0})
       ELSE e = NoEditor

\* What is pressed in the editor, other than the jump to the next match.
Presses ==
    \/ FocusKey \/ HeaderNormalKey \/ HeaderEscape \/ TitleKey
    \/ MotionKey \/ EscapeKey \/ TwoKey \/ EditKey
    \/ InsertModeKey \/ EditorSearchKey
    \/ InsertKey \/ RefPickerKey \/ Format

LEMMA HeaderKeysKeep ==
    ASSUME BufferOK(e), FocusKey \/ HeaderNormalKey \/ HeaderEscape \/ TitleKey
    PROVE  Keep /\ Keeps(e, e')
<1>1. CASE FocusKey
  <2>1. PICK delta \in {1, 2} : Become(AdvanceFocus(e, delta))
    BY <1>1 DEF FocusKey
  <2>2. Keeps(e, AdvanceFocus(e, delta))
    BY FocusKeeps
  <2> QED BY <2>1, <2>2 DEF Become
<1>2. CASE HeaderNormalKey
  <2>1. Keeps(e, [e EXCEPT !.mode = "insert"])
    BY ModeKeeps
  <2> QED BY <1>2, <2>1 DEF HeaderNormalKey, Become
<1>3. CASE HeaderEscape
  <2>1. Keeps(e, [e EXCEPT !.mode = "normal"])
    BY ModeKeeps
  <2> QED BY <1>3, <2>1 DEF HeaderEscape, Become
<1>4. CASE TitleKey
  <2>1. PICK t \in Titles : Become([e EXCEPT !.title = t, !.dirty = TRUE])
    BY <1>4 DEF TitleKey, Titles
  <2>2. Keeps(e, [e EXCEPT !.title = t, !.dirty = TRUE])
    BY TitleKeeps
  <2> QED BY <2>1, <2>2 DEF Become
<1> QED BY <1>1, <1>2, <1>3, <1>4

LEMMA MotionKeysKeep ==
    ASSUME BufferOK(e), MotionKey \/ EscapeKey \/ InsertModeKey
    PROVE  Keep /\ Keeps(e, e')
<1>1. CASE MotionKey
  <2>1. CASE \E b \in {MoveLeft(e), MoveUp(e), MoveDown(e), MoveToLineStart(e), MoveToTop(e),
                       MoveToBottom(e)} : Become(b)
    <3>1. PICK b \in {MoveLeft(e), MoveUp(e), MoveDown(e), MoveToLineStart(e), MoveToTop(e),
                      MoveToBottom(e)} : Become(b)
      BY <2>1
    <3>2. /\ Keeps(e, MoveLeft(e)) /\ Keeps(e, MoveToLineStart(e))
          /\ Keeps(e, MoveUp(e)) /\ Keeps(e, MoveDown(e))
          /\ Keeps(e, MoveToTop(e)) /\ Keeps(e, MoveToBottom(e))
      BY LineMovesKeep, RowMovesKeep
    <3> QED BY <3>1, <3>2 DEF Become
  <2>2. CASE /\ InText(e)
             /\ \E b \in {MoveRight(e), MoveToLineEnd(e), MoveToFirstNonBlank(e),
                          MoveWordForward(e), MoveWordEnd(e), MoveWordBackward(e)} : Become(b)
    <3>1. PICK b \in {MoveRight(e), MoveToLineEnd(e), MoveToFirstNonBlank(e),
                      MoveWordForward(e), MoveWordEnd(e), MoveWordBackward(e)} : Become(b)
      BY <2>2
    <3>2. /\ Keeps(e, MoveRight(e)) /\ Keeps(e, MoveToLineEnd(e))
          /\ Keeps(e, MoveToFirstNonBlank(e)) /\ Keeps(e, MoveWordForward(e))
          /\ Keeps(e, MoveWordEnd(e)) /\ Keeps(e, MoveWordBackward(e))
      BY <2>2, RightMovesKeep, MoveToFirstNonBlankKeeps, WordMovesKeep, MoveWordEndKeeps
    <3> QED BY <3>1, <3>2 DEF Become
  <2> QED BY <1>1, <2>1, <2>2 DEF MotionKey
<1>2. CASE EscapeKey
  <2>1. Keeps(e, [e EXCEPT !.active = FALSE, !.matches = <<>>])
    BY EscapeKeeps
  <2> QED BY <1>2, <2>1 DEF EscapeKey, Become
<1>3. CASE InsertModeKey
  <2>1. ASSUME NEW b, Keeps(e, b)
        PROVE  Keeps(e, [b EXCEPT !.mode = "insert"])
    <3>1. BufferOK(b)
      BY <2>1 DEF Keeps, Steps
    <3>2. Keeps(b, [b EXCEPT !.mode = "insert"])
      BY <3>1, ModeKeeps
    <3> QED BY <2>1, <3>2, KeepsFurther
  <2>2. CASE Become([e EXCEPT !.mode = "insert"])
    <3>1. Keeps(e, [e EXCEPT !.mode = "insert"])
      BY ModeKeeps
    <3> QED BY <2>2, <3>1 DEF Become
  <2>3. CASE /\ InText(e)
             /\ \E b \in {MoveToFirstNonBlank(e), MoveRight(e), MoveToLineEnd(e)} :
                  Become([b EXCEPT !.mode = "insert"])
    <3>1. PICK b \in {MoveToFirstNonBlank(e), MoveRight(e), MoveToLineEnd(e)} :
                 Become([b EXCEPT !.mode = "insert"])
      BY <2>3
    <3>2. /\ Keeps(e, MoveToFirstNonBlank(e)) /\ Keeps(e, MoveRight(e))
          /\ Keeps(e, MoveToLineEnd(e))
      BY <2>3, RightMovesKeep, MoveToFirstNonBlankKeeps
    <3>3. Keeps(e, [b EXCEPT !.mode = "insert"])
      BY <2>1, <3>1, <3>2
    <3> QED BY <3>1, <3>3 DEF Become
  <2> QED BY <1>3, <2>2, <2>3 DEF InsertModeKey
<1> QED BY <1>1, <1>2, <1>3

LEMMA EditKeysKeep ==
    ASSUME BufferOK(e), TwoKey \/ EditKey \/ Format
    PROVE  Keep /\ Keeps(e, e')
<1>0. e \in Buffers
  BY DEF BufferOK
<1>1. CASE TwoKey
  <2>1. PICK b \in {DeleteLine(e), DeleteWord(e), DeleteToEndOfLine(e), ChangeLine(e),
                    ChangeWord(e), ChangeToEndOfLine(e), YankLine(e)} : Become(b)
    BY <1>1 DEF TwoKey
  <2>2. InText(e)
    BY <1>1 DEF TwoKey
  <2>3. Edits(e, DeleteLine(e)) /\ Edits(e, DeleteWord(e)) /\ Edits(e, DeleteToEndOfLine(e))
    BY <1>0, <2>2, DeleteLineEdits, DeleteWordEdits, DeleteToEndEdits DEF Edits
  <2>4. Edits(e, ChangeLine(e)) /\ Edits(e, ChangeWord(e)) /\ Edits(e, ChangeToEndOfLine(e))
    BY <1>0, <2>2, ChangesEdit
  <2>5. Keeps(e, YankLine(e))
    BY <2>2, YankLineKeeps
  <2>6. Keeps(e, b)
    BY <2>1, <2>3, <2>4, <2>5, EditsKeep
  <2> QED BY <2>1, <2>6 DEF Become
<1>2. CASE EditKey
  <2>1. CASE InText(e) /\ \E b \in {OpenLineBelow(e), DeleteChar(e)} : Become(b)
    <3>1. Edits(e, OpenLineBelow(e)) /\ Edits(e, DeleteChar(e))
      BY <1>0, <2>1, OpenLineBelowEdits, DeleteCharEdits
    <3> QED BY <2>1, <3>1, EditsKeep DEF Become
  <2>2. CASE InText(e) /\ e.clipboard # <<>> /\ Become(Paste(e))
    <3>1. Edits(e, Paste(e))
      BY <1>0, <2>2, PasteEdits
    <3> QED BY <2>2, <3>1, EditsKeep DEF Become
  <2>3. CASE Become(JoinLines(e))
    <3>1. Keeps(e, JoinLines(e))
      <4>1. CASE CanJoinLines(e)
        BY <1>0, <4>1, JoinLinesEdits, EditsKeep
      <4>2. CASE ~CanJoinLines(e)
        BY <4>2, NothingKeeps DEF JoinLines
      <4> QED BY <4>1, <4>2
    <3> QED BY <2>3, <3>1 DEF Become
  <2>4. CASE CanOpenLineAbove(e) /\ Become(OpenLineAbove(e))
    <3>1. Edits(e, OpenLineAbove(e))
      BY <1>0, <2>4, OpenLineAboveEdits
    <3> QED BY <2>4, <3>1, EditsKeep DEF Become
  <2>5. CASE Become(Undo(e))
    <3>1. Keeps(e, Undo(e))
      BY UndoKeeps
    <3> QED BY <2>5, <3>1 DEF Become
  <2> QED BY <1>2, <2>1, <2>2, <2>3, <2>4, <2>5 DEF EditKey
<1>3. CASE Format
  <2>1. Edits(e, FormatDocument(e))
    BY <1>0, FormatEdits
  <2> QED BY <1>3, <2>1, EditsKeep DEF Format, Become
<1> QED BY <1>1, <1>2, <1>3

LEMMA ClampKeeps ==
    ASSUME NEW b, BufferOK(b)
    PROVE  Keeps(b, ClampCursor(b))
<1> DEFINE a == ClampCursor(b)
<1>1. b \in Buffers /\ Len(b.clipboard) <= 1 /\ (b.active => b.index \in DOMAIN b.matches)
  BY DEF BufferOK
<1>2. /\ a \in Buffers /\ Same(b, a) /\ a.lines = b.lines /\ In(a)
      /\ a.dirty = b.dirty /\ a.undo = b.undo /\ a.clipboard = b.clipboard
  BY <1>1, Clamps
<1> HIDE DEF a
<1>3. Leaves(b, a) /\ In(a)
  BY <1>1, <1>2 DEF Leaves, Same
<1>4. Keeps(b, a)
  BY <1>3, LeavesSteps
<1> QED BY <1>4 DEF a

LEMMA InsertKeysKeep ==
    ASSUME BufferOK(e), InsertKey \/ RefPickerKey \/ EditorSearchKey
    PROVE  Keep /\ Keeps(e, e')
<1>0. e \in Buffers
  BY DEF BufferOK
<1>1. CASE InsertKey
  <2>1. CASE Become(ClampCursor([e EXCEPT !.mode = "normal"]))
    <3> DEFINE c == [e EXCEPT !.mode = "normal"]
    <3>1. Keeps(e, c)
      BY ModeKeeps
    <3> HIDE DEF c
    <3>2. Keeps(c, ClampCursor(c))
      BY <3>1, ClampKeeps DEF Keeps, Steps
    <3>3. Keeps(e, ClampCursor(c))
      BY <3>1, <3>2, KeepsFurther
    <3> QED BY <2>1, <3>3 DEF Become, c
  <2>2. CASE Become([e EXCEPT !.picking = TRUE])
    <3>1. Keeps(e, [e EXCEPT !.picking = TRUE])
      BY PickingKeeps
    <3> QED BY <2>2, <3>1 DEF Become
  <2>3. CASE \E b \in {MoveLeft(e), MoveUp(e), MoveDown(e)} : Become(b)
    <3>1. Keeps(e, MoveLeft(e)) /\ Keeps(e, MoveUp(e)) /\ Keeps(e, MoveDown(e))
      BY LineMovesKeep, RowMovesKeep
    <3> QED BY <2>3, <3>1 DEF Become
  <2>4. CASE /\ InText(e)
             /\ \E b \in {MoveRight(e), InsertTab(e), SplitLine(e)}
                           \cup {InsertRune(e, c) : c \in TypedCharacters} : Become(b)
    <3>1. Keeps(e, MoveRight(e))
      BY <2>4, RightMovesKeep
    <3>2. Keeps(e, InsertTab(e)) /\ Keeps(e, SplitLine(e))
      BY <1>0, <2>4, InsertTabEdits, SplitLineEdits, EditsKeep
    <3>3. ASSUME NEW c \in TypedCharacters
          PROVE  Keeps(e, InsertRune(e, c))
      <4>1. c \in Chars
        BY EditorAssumption DEF Chars
      <4>2. Edits(e, InsertRune(e, c))
        BY <1>0, <2>4, <4>1, InsertRuneEdits
      <4> QED BY <4>2, EditsKeep
    <3> QED BY <2>4, <3>1, <3>2, <3>3 DEF Become
  <2>5. CASE CanBackspace(e) /\ Become(Backspace(e))
    <3>1. Edits(e, Backspace(e))
      BY <1>0, <2>5, BackspaceEdits
    <3> QED BY <2>5, <3>1, EditsKeep DEF Become
  <2> QED BY <1>1, <2>1, <2>2, <2>3, <2>4, <2>5 DEF InsertKey
<1>2. CASE RefPickerKey
  <2> DEFINE b == [e EXCEPT !.picking = FALSE]
  <2>1. Keeps(e, b)
    BY PickingKeeps
  <2>2. InText(e) => InText(b)
    BY <1>0 DEF InText, Buffers
  <2>3. Become(b) \/ (InText(e) /\ Become(InsertString(b, Reference)))
    BY <1>2 DEF RefPickerKey
  <2> HIDE DEF b
  <2>4. CASE Become(b)
    BY <2>1, <2>4 DEF Become
  <2>5. CASE InText(e) /\ Become(InsertString(b, Reference))
    <3>1. Reference \in Seq(Chars)
      BY EditorAssumption DEF Chars
    <3>2. BufferOK(b)
      BY <2>1 DEF Keeps, Steps
    <3>3. Keeps(b, InsertString(b, Reference))
      BY <2>2, <2>5, <3>1, <3>2, InsertStringKeeps
    <3>4. Keeps(e, InsertString(b, Reference))
      BY <2>1, <3>3, KeepsFurther
    <3> QED BY <2>5, <3>4 DEF Become
  <2> QED BY <2>3, <2>4, <2>5
<1>3. CASE EditorSearchKey
  <2>1. PICK q \in SearchQueries \cup {<<>>} : Become(ExecuteSearch([e EXCEPT !.query = q]))
    BY <1>3 DEF EditorSearchKey
  <2>2. q \in Seq(Chars)
    <3>1. <<>> \in Seq(Chars)
      OBVIOUS
    <3> QED BY <3>1, EditorAssumption DEF Chars
  <2>3. Keeps(e, ExecuteSearch([e EXCEPT !.query = q]))
    BY <2>2, QueryKeeps
  <2> QED BY <2>1, <2>3 DEF Become
<1> QED BY <1>1, <1>2, <1>3

LEMMA PressesKeep ==
    ASSUME EditorInv, Presses
    PROVE  screen = "editor" /\ BufferOK(e) /\ Keep /\ Keeps(e, e')
<1>1. screen = "editor"
  <2>1. FocusKey => screen = "editor"
    BY DEF FocusKey, Editing
  <2>2. HeaderNormalKey => screen = "editor"
    BY DEF HeaderNormalKey, Editing
  <2>3. HeaderEscape => screen = "editor"
    BY DEF HeaderEscape, Editing
  <2>4. TitleKey => screen = "editor"
    BY DEF TitleKey, Editing
  <2>5. MotionKey => screen = "editor"
    BY DEF MotionKey, Editing
  <2>6. EscapeKey => screen = "editor"
    BY DEF EscapeKey, Editing
  <2>7. TwoKey => screen = "editor"
    BY DEF TwoKey, Editing
  <2>8. EditKey => screen = "editor"
    BY DEF EditKey, Editing
  <2>9. InsertModeKey => screen = "editor"
    BY DEF InsertModeKey, Editing
  <2>10. EditorSearchKey => screen = "editor"
    BY DEF EditorSearchKey, Editing
  <2>11. InsertKey => screen = "editor"
    BY DEF InsertKey, Editing
  <2>12. RefPickerKey => screen = "editor"
    BY DEF RefPickerKey
  <2>13. Format => screen = "editor"
    BY DEF Format, Prompted, Editing
  <2> QED BY <2>1, <2>2, <2>3, <2>4, <2>5, <2>6, <2>7, <2>8, <2>9, <2>10, <2>11, <2>12, <2>13
          DEF Presses
<1>2. BufferOK(e)
  BY <1>1 DEF EditorInv
<1>3. Keep /\ Keeps(e, e')
  BY <1>2, HeaderKeysKeep, MotionKeysKeep, EditKeysKeep, InsertKeysKeep DEF Presses
<1> QED BY <1>1, <1>2, <1>3

LEMMA ContentIsStored ==
    ASSUME BufferOK(e), e.title # ""
    PROVE  Stored(Content)
<1>1. e.lines \in BodyTexts /\ e.title \in Titles
  BY DEF BufferOK, Buffers
<1>2. Neat(Trimmed(e.lines))
  BY <1>1, TrimmedIsNeat
<1>3. Trimmed(e.lines) \in BodyTexts /\ Trimmed(Trimmed(e.lines)) = Trimmed(e.lines)
  BY <1>2, NeatStays DEF Neat
<1>4. Content.title = e.title /\ Content.lines = Trimmed(e.lines) /\ Content \in Note
  BY <1>1, <1>3 DEF Content, Note, BodyTexts, Chars
<1> QED BY <1>3, <1>4 DEF Stored

LEMMA StoresNote ==
    ASSUME EditorInv, screen = "editor", CanStore
    PROVE  /\ StoreNote \in Seq(Note)
           /\ \A k \in DOMAIN StoreNote : Stored(StoreNote[k])
           /\ DOMAIN notes \subseteq DOMAIN StoreNote
           /\ e.command = "notes.update" => StoreNote[e.key] = Content
           /\ e.command = "notes.create" => Content \in ToSet(StoreNote)
<1>1. BufferOK(e) /\ e.title # "" /\ notes \in Seq(Note) /\ \A k \in DOMAIN notes : Stored(notes[k])
  BY DEF EditorInv, CanStore
<1>2. Stored(Content)
  BY <1>1, ContentIsStored
<1> DEFINE c == Content
           n == Len(notes)
<1>3. c \in Note
  BY <1>2 DEF Stored
<1>4. n \in Nat /\ DOMAIN notes = 1..n
  BY <1>1, LenProperties
<1>5. CASE e.command = "notes.update"
  <2> DEFINE k == e.key
             s == [notes EXCEPT ![k] = c]
  <2>1. k \in 1..n
    BY <1>4, <1>5 DEF EditorInv
  <2>2. StoreNote = s
    BY <1>5 DEF StoreNote
  <2> HIDE DEF c, k
  <2>3. s \in Seq(Note)
    BY <1>1, <1>3, <2>1, ExceptSeq
  <2>4. DOMAIN s = DOMAIN notes /\ s[k] = c
    BY <1>4, <2>1
  <2>5. \A i \in DOMAIN s : Stored(s[i])
    BY <1>1, <1>2, <1>4, <2>1 DEF c
  <2> HIDE DEF s
  <2> QED BY <1>5, <2>2, <2>3, <2>4, <2>5 DEF c, k
<1>6. CASE e.command # "notes.update"
  <2> DEFINE s == Append(notes, c)
  <2>1. StoreNote = s
    BY <1>6 DEF StoreNote
  <2> HIDE DEF c
  <2>2. s \in Seq(Note) /\ Len(s) = n + 1 /\ s[n + 1] = c /\ \A i \in 1..n : s[i] = notes[i]
    <3>1. s \in Seq(Note) /\ Len(s) = n + 1
      BY <1>1, <1>3, AppendProperties
    <3>2. s[n + 1] = c
      BY <1>1, <1>3, AppendProperties
    <3>3. \A i \in 1..n : s[i] = notes[i]
      <4>1. notes \in Seq(Note)
        BY <1>1
      <4>2. \A i \in 1..Len(notes) : Append(notes, c)[i] = notes[i]
        BY <1>3, <4>1, AppendProperties
      <4> QED BY <4>2
    <3> QED BY <3>1, <3>2, <3>3
  <2>3. DOMAIN s = 1..n + 1
    BY <1>4, <2>2, LenProperties
  <2> HIDE DEF s
  <2>4. \A i \in DOMAIN s : Stored(s[i])
    <3>1. \A i \in 1..n : Stored(s[i])
      BY <1>1, <1>4, <2>2
    <3>2. Stored(s[n + 1])
      BY <1>2, <2>2 DEF c
    <3> QED BY <1>4, <2>3, <3>1, <3>2
  <2>5. n + 1 \in DOMAIN s /\ DOMAIN notes \subseteq DOMAIN s
    BY <1>4, <2>3
  <2>6. c \in ToSet(s)
    BY <2>2, <2>5 DEF ToSet
  <2> QED BY <1>6, <2>1, <2>2, <2>4, <2>5, <2>6 DEF c
<1> QED BY <1>5, <1>6

\* An editor opens as its operations need it.
LEMMA OpensOK ==
    ASSUME NEW command \in {"notes.create", "notes.update"}, NEW key \in Nat, NEW title \in Titles,
           NEW lines \in BodyTexts
    PROVE  LET b == OpenedOn(command, key, title, lines)
           IN  BufferOK(b) /\ InPlace(b)
<1> DEFINE b == OpenedOn(command, key, title, lines)
<1>1. /\ <<>> \in Seq(Seq(Chars)) /\ <<>> \in Seq(Chars)
      /\ <<>> \in Seq(Snaps) /\ <<>> \in Seq(Position)
  OBVIOUS
<1>2. b \in Buffers
  BY <1>1 DEF OpenedOn, Buffers
<1>3. /\ b.clipboard = <<>> /\ b.active = FALSE /\ b.undo = <<>> /\ b.opened = lines
      /\ b.lines = lines /\ b.row = 1 /\ b.col = 0
  BY DEF OpenedOn
<1> HIDE DEF b
<1>4. BufferOK(b)
  BY <1>2, <1>3 DEF BufferOK, Traced
<1>5. In(b)
  <2>1. lines \in Seq(Seq(Chars)) /\ lines # <<>>
    BY DEF BodyTexts
  <2>2. Len(lines) \in Nat /\ Len(lines) # 0
    BY <2>1, EmptySeq, LenProperties
  <2>3. 1 \in 1..Len(lines)
    BY <2>2
  <2>4. Len(lines[1]) \in Nat
    BY <2>1, <2>3, ElementOfSeq, LenProperties
  <2> QED BY <1>3, <2>3, <2>4 DEF In, CursorIn
<1>6. InPlace(b)
  BY <1>3, <1>5 DEF InPlace
<1> QED BY <1>4, <1>6 DEF b

LEMMA NewNoteOpens ==
    ASSUME openEditor
    PROVE  /\ BufferOK(e') /\ InPlace(e') /\ e'.command = "notes.create" /\ e'.key = 0
           /\ e'.lines = e'.opened /\ e'.title = "titled"
<1> DEFINE c == OpenedOn("notes.create", 0, "titled", << <<>> >>)
           a == [c EXCEPT !.mode = "insert", !.focus = "title"]
<1>1. BufferOK(c) /\ InPlace(c)
  BY EmptyLineIsText, OpensOK DEF Titles
<1>2. c.command = "notes.create" /\ c.key = 0 /\ c.lines = c.opened /\ c.title = "titled"
  BY DEF OpenedOn
<1>3. e' = a
  BY DEF openEditor
<1> HIDE DEF c
<1>4. c \in Buffers /\ c.picking \in BOOLEAN
  BY <1>1 DEF BufferOK, Buffers
<1>5. a = [c EXCEPT !.mode = "insert", !.focus = "title", !.picking = c.picking]
  BY <1>4 DEF Buffers
<1>6. Keeps(c, [c EXCEPT !.mode = "insert", !.focus = "title", !.picking = c.picking])
  BY <1>1, <1>4, ModesKeep
<1>7. Keeps(c, a)
  BY <1>5, <1>6
<1>8. a.command = c.command /\ a.key = c.key /\ a.lines = c.lines /\ a.opened = c.opened
      /\ a.title = c.title
  BY <1>4 DEF Buffers
<1> HIDE DEF a
<1> QED BY <1>1, <1>2, <1>3, <1>7, <1>8 DEF Keeps, Steps

LEMMA NoteOpens ==
    ASSUME EditorInv, openEditorFromAction
    PROVE  /\ BufferOK(e') /\ InPlace(e') /\ e'.command = "notes.update" /\ e'.key \in DOMAIN notes
           /\ e'.title = notes[e'.key].title /\ e'.lines = notes[e'.key].lines
<1>1. PICK k \in DOMAIN notes : e' = OpenedOn("notes.update", k, notes[k].title, notes[k].lines)
  BY DEF openEditorFromAction
<1>2. notes \in Seq(Note) /\ Stored(notes[k])
  BY DEF EditorInv
<1> DEFINE title == notes[k].title
           lines == notes[k].lines
<1>3. k \in Nat /\ title \in Titles /\ lines \in BodyTexts
  <2>1. k \in Nat
    <3>1. DOMAIN notes = 1..Len(notes)
      BY <1>2, LenProperties
    <3> QED BY <3>1
  <2>2. title \in Titles /\ lines \in BodyTexts
    BY <1>2 DEF Stored, Note
  <2> QED BY <2>1, <2>2
<1>4. e' = OpenedOn("notes.update", k, title, lines)
  BY <1>1
<1> HIDE DEF title, lines
<1>5. BufferOK(e') /\ InPlace(e')
  BY <1>3, <1>4, OpensOK
<1>6. e'.command = "notes.update" /\ e'.key = k /\ e'.title = title /\ e'.lines = lines
  BY <1>4 DEF OpenedOn
<1> QED BY <1>5, <1>6 DEF title, lines

LEMMA EditorInvInit ==
    ASSUME EditorInit
    PROVE  EditorInv
<1>1. screen = "list" /\ e = NoEditor
  BY DEF EditorInit
<1>2. CASE notes = <<>>
  BY <1>1, <1>2 DEF EditorInv
<1>3. CASE notes # <<>>
  <2>1. PICK t \in Bodies : notes = << [title |-> "titled", lines |-> t] >>
    BY <1>3 DEF EditorInit
  <2> DEFINE note == [title |-> "titled", lines |-> t]
  <2>2. t \in Seq(Seq(Chars)) /\ t # <<>> /\ Trimmed(t) = t
    BY EditorAssumption DEF Chars
  <2>3. note \in Note /\ note.title = "titled" /\ note.lines = t
    BY <2>2 DEF Note, Titles, Chars
  <2>4. Stored(note)
    BY <2>2, <2>3 DEF Stored, BodyTexts
  <2> HIDE DEF note
  <2>5. <<note>> \in Seq(Note) /\ DOMAIN <<note>> = {1} /\ <<note>>[1] = note
    BY <2>3, <2>4 DEF Stored
  <2>6. notes = <<note>>
    BY <2>1 DEF note
  <2>7. notes \in Seq(Note) /\ \A k \in DOMAIN notes : Stored(notes[k])
    BY <2>4, <2>5, <2>6
  <2> QED BY <1>1, <2>7 DEF EditorInv
<1> QED BY <1>2, <1>3

\* A save leaves the notes as they are, or stores the text of the editor.
LEMMA SaveStores ==
    ASSUME EditorInv, Save
    PROVE  /\ screen = "editor" /\ notes' \in {notes} \cup {n \in {StoreNote} : CanStore}
           /\ \/ screen' \in {"list", "disconnected"} /\ e' = NoEditor
              \/ screen' = "editor" /\ e' = e
              \/ screen' = "editor" /\ e' = [e EXCEPT !.dirty = FALSE]
                 /\ CanStore /\ notes' = StoreNote
<1>1. CASE SaveRefused
  BY <1>1 DEF SaveRefused, MaybeStored, Prompted, Editing
<1>2. CASE SaveFailed
  BY <1>2 DEF SaveFailed, MaybeStored, Prompted, Editing
<1>3. CASE \E quit \in BOOLEAN : SaveStored(quit)
  BY <1>3 DEF SaveStored, Prompted, Editing
<1> QED BY <1>1, <1>2, <1>3 DEF Save

LEMMA CleanIsOK ==
    ASSUME BufferOK(e)
    PROVE  LET a == [e EXCEPT !.dirty = FALSE]
           IN  /\ BufferOK(a) /\ a.command = e.command /\ a.key = e.key /\ a.title = e.title
               /\ a.lines = e.lines /\ a.opened = e.opened
               /\ a.undo = e.undo /\ a.row = e.row /\ a.col = e.col
<1> DEFINE a == [e EXCEPT !.dirty = FALSE]
<1>1. e \in Buffers /\ Len(e.clipboard) <= 1 /\ (e.active => e.index \in DOMAIN e.matches)
  BY DEF BufferOK
<1>2. a \in Buffers
  BY <1>1 DEF Buffers
<1>3. /\ a.command = e.command /\ a.key = e.key /\ a.opened = e.opened /\ a.lines = e.lines
      /\ a.row = e.row /\ a.col = e.col /\ a.title = e.title
      /\ a.undo = e.undo /\ a.clipboard = e.clipboard
      /\ a.matches = e.matches /\ a.index = e.index /\ a.active = e.active
  BY <1>1 DEF Buffers
<1> HIDE DEF a
<1>4. BufferOK(a)
  BY <1>1, <1>2, <1>3 DEF BufferOK, Traced
<1> QED BY <1>3, <1>4 DEF a

LEMMA EditorInvNext ==
    ASSUME EditorInv, [EditorNext]_editorVars
    PROVE  EditorInv'
<1>1. /\ screen \in {"list", "editor", "disconnected", "ended", "crashed"}
      /\ notes \in Seq(Note) /\ \A k \in DOMAIN notes : Stored(notes[k])
  BY DEF EditorInv
<1>2. CASE openEditor
  BY <1>1, <1>2, NewNoteOpens DEF EditorInv, openEditor
<1>3. CASE openEditorFromAction
  BY <1>1, <1>3, NoteOpens DEF EditorInv, openEditorFromAction
<1>4. CASE Presses \/ NextMatchKey
  <2>1. screen = "editor" /\ Keep /\ Steps(e, e')
    <3>1. CASE Presses
      BY <3>1, PressesKeep DEF Keeps
    <3>2. CASE NextMatchKey
      <4>1. screen = "editor"
        BY <3>2 DEF NextMatchKey, Editing
      <4>2. PICK dir \in {"next", "previous"} : Become(SearchNext(e, dir))
        BY <3>2 DEF NextMatchKey
      <4>3. Steps(e, SearchNext(e, dir))
        BY <4>1, SearchNextSteps DEF EditorInv
      <4> QED BY <4>1, <4>2, <4>3 DEF Become
    <3> QED BY <1>4, <3>1, <3>2
  <2>2. screen' = screen /\ notes' = notes
    BY <2>1 DEF Keep
  <2>3. BufferOK(e') /\ e'.command = e.command /\ e'.key = e.key
    BY <2>1 DEF Steps
  <2>4. e.key \in (IF e.command = "notes.update" THEN DOMAIN notes ELSE {0})
    BY <2>1 DEF EditorInv
  <2> QED BY <1>1, <2>1, <2>2, <2>3, <2>4 DEF EditorInv
<1>5. CASE Save
  <2>1. /\ screen = "editor" /\ notes' \in {notes} \cup {n \in {StoreNote} : CanStore}
        /\ \/ screen' \in {"list", "disconnected"} /\ e' = NoEditor
           \/ screen' = "editor" /\ e' = e
           \/ screen' = "editor" /\ e' = [e EXCEPT !.dirty = FALSE]
    BY <1>5, SaveStores
  <2>2. BufferOK(e) /\ e.key \in (IF e.command = "notes.update" THEN DOMAIN notes ELSE {0})
    BY <2>1 DEF EditorInv
  <2>3. /\ notes' \in Seq(Note) /\ \A k \in DOMAIN notes' : Stored(notes'[k])
        /\ DOMAIN notes \subseteq DOMAIN notes'
    <3>1. CASE notes' = notes
      BY <1>1, <3>1
    <3>2. CASE notes' = StoreNote /\ CanStore
      <4> DEFINE s == StoreNote
      <4>1. s \in Seq(Note) /\ (\A k \in DOMAIN s : Stored(s[k])) /\ DOMAIN notes \subseteq DOMAIN s
        BY <2>1, <3>2, StoresNote
      <4>2. notes' = s
        BY <3>2
      <4> HIDE DEF s
      <4> QED BY <4>1, <4>2
    <3> QED BY <2>1, <3>1, <3>2
  <2>4. CASE screen' \in {"list", "disconnected"} /\ e' = NoEditor
    BY <2>3, <2>4 DEF EditorInv
  <2>5. CASE screen' = "editor" /\ e' = e
    BY <2>2, <2>3, <2>5 DEF EditorInv
  <2>6. CASE screen' = "editor" /\ e' = [e EXCEPT !.dirty = FALSE]
    <3>1. BufferOK(e') /\ e'.command = e.command /\ e'.key = e.key
      BY <2>2, <2>6, CleanIsOK
    <3> QED BY <2>2, <2>3, <2>6, <3>1 DEF EditorInv
  <2> QED BY <2>1, <2>4, <2>5, <2>6
<1>6. CASE TryQuit
  <2>1. screen = "editor"
    BY <1>6 DEF TryQuit, Prompted, Editing
  <2>2. CASE e.dirty
    <3>1. e' = e /\ screen' = screen /\ notes' = notes
      BY <1>6, <2>2 DEF TryQuit, Become, Keep
    <3> QED BY <3>1 DEF EditorInv
  <2>3. CASE ~e.dirty
    <3>1. screen' = "list" /\ e' = NoEditor /\ notes' = notes
      BY <1>6, <2>3 DEF TryQuit, CloseEditor
    <3> QED BY <1>1, <3>1 DEF EditorInv
  <2> QED BY <2>2, <2>3
<1>7. CASE ForceQuit
  BY <1>1, <1>7 DEF ForceQuit, EditorInv, CloseEditor
<1>8. CASE LostKey \/ EditorDisconnected
  BY <1>1, <1>8 DEF LostKey, EditorDisconnected, EditorInv
<1>9. CASE EditorLastKey
  BY <1>1, <1>9 DEF EditorLastKey, EditorInv
<1>10. CASE UNCHANGED editorVars
  BY <1>1, <1>10 DEF editorVars, EditorInv
<1> QED BY <1>2, <1>3, <1>4, <1>5, <1>6, <1>7, <1>8, <1>9, <1>10 DEF EditorNext, Presses

LEMMA EditorInvHolds == EditorSpec => []EditorInv
BY EditorInvInit, EditorInvNext, PTL DEF EditorSpec

LEMMA EditorInvTyped ==
    ASSUME EditorInv
    PROVE  EditorTypeOK
<1>1. \A k \in DOMAIN notes : notes[k].title # ""
  BY DEF EditorInv, Stored
<1>2. ASSUME screen = "editor"
      PROVE  BufferTypeOK
  <2>1. /\ BufferOK(e) /\ e \in Buffers
        /\ e.key \in (IF e.command = "notes.update" THEN DOMAIN notes ELSE {0})
    BY <1>2 DEF EditorInv, BufferOK
  <2>2. e.command \in {"notes.create", "notes.update"} /\ e.title \in Titles
    BY <2>1 DEF Buffers
  <2>3. e.lines \in Seq(Seq({Letter, Blank, Bullet})) /\ e.lines # <<>>
    BY <2>1 DEF Buffers, BodyTexts, Chars
  <2>4. [row |-> e.row, col |-> e.col] \in Position
    BY <2>1 DEF Buffers, Position
  <2>5. e.mode \in {"normal", "insert"} /\ e.focus \in ToSet(Focuses)
    <3>1. e.mode \in {"normal", "insert"} /\ e.focus \in {"session", "title", "body"}
      BY <2>1 DEF Buffers
    <3>2. {"session", "title", "body"} \subseteq ToSet(Focuses)
      <4>1. DOMAIN Focuses = 1..3 /\ Focuses[1] = "session" /\ Focuses[2] = "title"
            /\ Focuses[3] = "body"
        BY DEF Focuses
      <4> QED BY <4>1 DEF ToSet
    <3> QED BY <3>1, <3>2
  <2>6. {e.dirty, e.picking, e.active} \subseteq BOOLEAN
    BY <2>1 DEF Buffers
  <2>7. ASSUME NEW i \in DOMAIN e.undo
        PROVE  /\ e.undo[i].lines \in Seq(Seq({Letter, Blank, Bullet}))
               /\ e.undo[i].lines # <<>>
    <3>1. e.undo \in Seq(Snaps)
      BY <2>1 DEF Buffers
    <3>2. e.undo[i] \in Snaps
      BY <3>1, LenProperties, ElementOfSeq
    <3> QED BY <3>2 DEF Snaps, BodyTexts, Chars
  <2>8. Len(e.clipboard) <= 1
    BY <2>1 DEF BufferOK
  <2>9. ToSet(e.matches) \subseteq Position
    <3>1. e.matches \in Seq(Position)
      BY <2>1 DEF Buffers
    <3>2. \A i \in DOMAIN e.matches : e.matches[i] \in Position
      BY <3>1, LenProperties, ElementOfSeq
    <3> QED BY <3>2 DEF ToSet
  <2>10. e.active => e.matches # <<>> /\ e.index \in DOMAIN e.matches
    BY <2>1 DEF BufferOK
  <2> QED BY <2>1, <2>2, <2>3, <2>4, <2>5, <2>6, <2>7, <2>8, <2>9, <2>10 DEF BufferTypeOK
<1> QED BY <1>1, <1>2 DEF EditorInv, EditorTypeOK

----------------------------------------
(* The theorems.                                                           *)

\* The editor is always one its operations can handle: a text of at least one
\* line, a cursor with a row and a column, undo entries that are texts, one line
\* in the clipboard at most, a match to jump to while a search is active; and
\* every note in the database keeps a title.
THEOREM EditorTypeCorrect == EditorSpec => []EditorTypeOK
<1>1. EditorInv => EditorTypeOK
  BY EditorInvTyped
<1> QED BY <1>1, EditorInvHolds, PTL

\* Undo all the way gives the text as it was opened: for texts and undo stacks of
\* every size no edit, and no search, paste or reformatting, forgets to push what
\* it found.
THEOREM UndoCorrect == EditorSpec => []UndoReachesOpened
<1>1. EditorInv => UndoReachesOpened
  BY DEF EditorInv, UndoReachesOpened, BufferOK, Traced
<1> QED BY <1>1, EditorInvHolds, PTL

\* An editor that says it has nothing to save holds what is stored, or what a new
\* note opens with.
CleanInv == EditorInv /\ CleanMeansStored

LEMMA CleanInvNext ==
    ASSUME CleanInv, [EditorNext]_editorVars
    PROVE  CleanMeansStored'
<1>1. EditorInv /\ EditorInv' /\ CleanMeansStored
  BY EditorInvNext DEF CleanInv
<1>2. ASSUME screen' # "editor"
      PROVE  CleanMeansStored'
  BY <1>2 DEF CleanMeansStored
<1>3. CASE openEditor
  <2>1. e'.command = "notes.create" /\ e'.lines = e'.opened /\ e'.title = "titled"
    BY <1>3, NewNoteOpens
  <2> QED BY <2>1 DEF CleanMeansStored
<1>4. CASE openEditorFromAction
  <2>1. /\ e'.command = "notes.update" /\ e'.key \in DOMAIN notes
        /\ e'.title = notes[e'.key].title /\ e'.lines = notes[e'.key].lines /\ notes' = notes
    BY <1>1, <1>4, NoteOpens DEF openEditorFromAction
  <2> DEFINE k == e'.key
             note == notes[k]
  <2>2. k \in DOMAIN notes /\ Stored(note) /\ notes \in Seq(Note)
    BY <1>1, <2>1 DEF EditorInv
  <2>3. note \in Note /\ Trimmed(note.lines) = note.lines
    BY <2>2 DEF Stored
  <2>4. note = [title |-> note.title, lines |-> note.lines]
    BY <2>3 DEF Note
  <2>5. Content' = [title |-> note.title, lines |-> Trimmed(note.lines)]
    BY <2>1 DEF Content
  <2>6. Content' = notes'[e'.key]
    BY <2>1, <2>3, <2>4, <2>5
  <2> QED BY <2>1, <2>6 DEF CleanMeansStored
<1>5. CASE screen = "editor" /\ screen' = "editor" /\ notes' = notes /\ Steps(e, e')
  <2>1. CASE e'.dirty = TRUE
    BY <2>1 DEF CleanMeansStored
  <2>2. CASE e'.dirty # TRUE
    <3>1. e'.dirty = e.dirty /\ e'.lines = e.lines /\ e'.title = e.title /\ e'.command = e.command
          /\ e'.key = e.key /\ e'.opened = e.opened
      BY <1>5, <2>2 DEF Steps
    <3>2. Content' = Content
      BY <3>1 DEF Content
    <3> QED BY <1>1, <1>5, <3>1, <3>2 DEF CleanMeansStored
  <2> QED BY <2>1, <2>2
<1>6. CASE Presses \/ NextMatchKey
  <2>1. screen = "editor" /\ BufferOK(e)
    <3>1. CASE Presses
      BY <1>1, <3>1, PressesKeep
    <3>2. CASE NextMatchKey
      BY <1>1, <3>2 DEF NextMatchKey, Editing, EditorInv
    <3> QED BY <1>6, <3>1, <3>2
  <2>2. Keep /\ Steps(e, e')
    <3>1. CASE Presses
      BY <1>1, <3>1, PressesKeep DEF Keeps
    <3>2. CASE NextMatchKey
      <4>1. PICK dir \in {"next", "previous"} : Become(SearchNext(e, dir))
        BY <3>2 DEF NextMatchKey
      <4>2. Steps(e, SearchNext(e, dir))
        BY <2>1, SearchNextSteps
      <4> QED BY <4>1, <4>2 DEF Become
    <3> QED BY <1>6, <3>1, <3>2
  <2> QED BY <1>5, <2>1, <2>2 DEF Keep
<1>7. CASE Save
  <2>1. /\ screen = "editor" /\ notes' \in {notes} \cup {n \in {StoreNote} : CanStore}
        /\ \/ screen' \in {"list", "disconnected"} /\ e' = NoEditor
           \/ screen' = "editor" /\ e' = e
           \/ screen' = "editor" /\ e' = [e EXCEPT !.dirty = FALSE]
              /\ CanStore /\ notes' = StoreNote
    BY <1>1, <1>7, SaveStores
  <2>2. BufferOK(e) /\ e.command \in {"notes.create", "notes.update"}
    BY <1>1, <2>1 DEF EditorInv, BufferOK, Buffers
  <2>3. ASSUME CanStore, notes' = StoreNote, screen' = "editor",
               e'.command = e.command, e'.key = e.key, Content' = Content
        PROVE  CleanMeansStored'
    <3> DEFINE s == StoreNote
    <3>1. /\ e.command = "notes.update" => s[e.key] = Content
          /\ e.command = "notes.create" => Content \in ToSet(s)
      BY <1>1, <2>1, <2>3, StoresNote
    <3>2. notes' = s
      BY <2>3
    <3> HIDE DEF s
    <3>3. /\ e'.command = "notes.update" => notes'[e'.key] = Content'
          /\ e'.command = "notes.create" => Content' \in ToSet(notes')
      BY <2>3, <3>1, <3>2
    <3>4. e'.command = "notes.update" \/ e'.command = "notes.create"
      BY <2>2, <2>3
    <3> QED BY <3>3, <3>4 DEF CleanMeansStored
  <2>4. CASE screen' = "editor" /\ e' = e
    <3>1. Content' = Content
      BY <2>4 DEF Content
    <3>2. CASE notes' = notes
      BY <1>1, <2>1, <2>4, <3>1, <3>2 DEF CleanMeansStored
    <3>3. CASE CanStore /\ notes' = StoreNote
      BY <2>3, <2>4, <3>1, <3>3
    <3> QED BY <2>1, <3>2, <3>3
  <2>5. CASE screen' = "editor" /\ e' = [e EXCEPT !.dirty = FALSE] /\ CanStore /\ notes' = StoreNote
    <3> DEFINE a == [e EXCEPT !.dirty = FALSE]
    <3>1. /\ a.command = e.command /\ a.key = e.key /\ a.title = e.title /\ a.lines = e.lines
      BY <2>2, CleanIsOK
    <3>2. e' = a
      BY <2>5
    <3> HIDE DEF a
    <3>3. Content' = Content
      BY <3>1, <3>2 DEF Content
    <3> QED BY <2>3, <2>5, <3>1, <3>2, <3>3
  <2>6. CASE screen' \in {"list", "disconnected"}
    BY <1>2, <2>6
  <2> QED BY <2>1, <2>4, <2>5, <2>6
<1>8. CASE TryQuit
  <2>1. CASE e.dirty
    <3>1. e' = e /\ screen' = screen /\ notes' = notes
      BY <1>8, <2>1 DEF TryQuit, Become, Keep
    <3>2. Content' = Content
      BY <3>1 DEF Content
    <3> QED BY <1>1, <3>1, <3>2 DEF CleanMeansStored
  <2>2. CASE ~e.dirty
    BY <1>2, <1>8, <2>2 DEF TryQuit, CloseEditor
  <2> QED BY <2>1, <2>2
<1>9. CASE ForceQuit
  BY <1>2, <1>9 DEF ForceQuit, CloseEditor
<1>10. CASE LostKey \/ EditorDisconnected \/ EditorLastKey
  BY <1>2, <1>10 DEF LostKey, EditorDisconnected, EditorLastKey
<1>11. CASE UNCHANGED editorVars
  <2>1. e' = e /\ screen' = screen /\ notes' = notes
    BY <1>11 DEF editorVars
  <2>2. Content' = Content
    BY <2>1 DEF Content
  <2> QED BY <1>1, <2>1, <2>2 DEF CleanMeansStored
<1> QED BY <1>3, <1>4, <1>6, <1>7, <1>8, <1>9, <1>10, <1>11 DEF EditorNext, Presses

\* After whatever edits, undos, saves and refusals, an editor without a mark of
\* changes shows a note that is in the database, or a new one that nobody wrote in:
\* :q, which asks nothing of such an editor, loses nothing.
THEOREM CleanCorrect == EditorSpec => []CleanMeansStored
<1>1. EditorInit => CleanMeansStored
  BY DEF EditorInit, CleanMeansStored
<1>2. CleanInv /\ [EditorNext]_editorVars => CleanMeansStored'
  BY CleanInvNext
<1>3. CleanInv <=> EditorInv /\ CleanMeansStored
  BY DEF CleanInv
<1> QED BY <1>1, <1>2, <1>3, EditorInvHolds, PTL DEF EditorSpec

LEMMA StraysNext ==
    ASSUME EditorInv, [EditorNext]_editorVars
    PROVE  [ /\ CursorsInText => CursorsInText' \/ NextMatchKey
             /\ screen' = "crashed" => ~CursorInText ]_editorVars
<1>1. screen = "editor" => (CursorsInText <=> InPlace(e))
  BY DEF CursorsInText, CursorInText, InPlace, In
<1>2. screen' = "editor" => (CursorsInText' <=> InPlace(e'))
  BY DEF CursorsInText, CursorInText, InPlace, In
<1>3. screen' # "editor" => CursorsInText'
  BY DEF CursorsInText, CursorInText
<1>4. CASE openEditor \/ openEditorFromAction
  <2>1. InPlace(e') /\ screen' = "editor"
    BY <1>4, NewNoteOpens, NoteOpens DEF openEditor, openEditorFromAction
  <2> QED BY <1>2, <2>1
<1>5. CASE Presses
  <2>1. screen = "editor" /\ screen' = "editor" /\ (InPlace(e) => InPlace(e'))
    BY <1>5, PressesKeep DEF Keeps, Keep
  <2> QED BY <1>1, <1>2, <2>1
<1>6. CASE NextMatchKey
  <2>1. screen' = "editor"
    BY <1>6 DEF NextMatchKey, Become, Editing, Keep
  <2> QED BY <1>6, <2>1
<1>7. CASE Save
  <2>1. /\ screen = "editor"
        /\ \/ screen' \in {"list", "disconnected"}
           \/ screen' = "editor" /\ e' = e
           \/ screen' = "editor" /\ e' = [e EXCEPT !.dirty = FALSE]
    BY <1>7, SaveStores
  <2>2. CASE screen' = "editor" /\ e' = [e EXCEPT !.dirty = FALSE]
    <3> DEFINE a == [e EXCEPT !.dirty = FALSE]
    <3>1. BufferOK(e)
      BY <2>1 DEF EditorInv
    <3>2. a.lines = e.lines /\ a.undo = e.undo /\ a.row = e.row /\ a.col = e.col
      BY <3>1, CleanIsOK
    <3>3. e' = a
      BY <2>2
    <3> HIDE DEF a
    <3>4. InPlace(e) => InPlace(e')
      BY <3>2, <3>3 DEF InPlace, In
    <3> QED BY <1>1, <1>2, <2>1, <2>2, <3>4
  <2>3. CASE screen' = "editor" /\ e' = e
    BY <1>1, <1>2, <2>1, <2>3
  <2>4. CASE screen' \in {"list", "disconnected"}
    BY <1>3, <2>4
  <2> QED BY <2>1, <2>2, <2>3, <2>4
<1>8. CASE TryQuit
  <2>1. screen = "editor"
    BY <1>8 DEF TryQuit, Prompted, Editing
  <2>2. CASE e.dirty
    <3>1. e' = e /\ screen' = screen
      BY <1>8, <2>2 DEF TryQuit, Become, Keep
    <3> QED BY <1>1, <1>2, <2>1, <3>1
  <2>3. CASE ~e.dirty
    BY <1>3, <1>8, <2>3 DEF TryQuit, CloseEditor
  <2> QED BY <2>2, <2>3
<1>9. CASE ForceQuit \/ EditorDisconnected \/ EditorLastKey
  BY <1>3, <1>9 DEF ForceQuit, CloseEditor, EditorDisconnected, EditorLastKey
<1>10. CASE LostKey
  <2>1. screen = "editor" /\ screen' = "crashed" /\ BufferOK(e)
    BY <1>10 DEF LostKey, EditorInv
  <2>2. ~In(e)
    <3> SUFFICES ASSUME In(e) PROVE FALSE
      OBVIOUS
    <3>1. e \in Buffers
      BY <2>1 DEF BufferOK
    <3>2. InText(e) /\ e.col <= Len(Line(e))
      BY <3>1, InIsInText
    <3>3. ~CanBackspace(e)
      BY <1>10, <3>2 DEF LostKey
    <3>4. e.col > 0 /\ Line(e) = <<>>
      BY <3>2, <3>3 DEF CanBackspace
    <3>5. e.col \in Nat /\ Len(<<>>) = 0
      BY <3>1 DEF Buffers
    <3> QED BY <3>2, <3>4, <3>5
  <2>3. ~CursorInText
    BY <2>1, <2>2 DEF CursorInText, In
  <2> QED BY <1>3, <2>1, <2>3
<1>11. CASE UNCHANGED editorVars
  BY <1>11
<1> QED BY <1>4, <1>5, <1>6, <1>7, <1>8, <1>9, <1>10, <1>11 DEF EditorNext, Presses

\* However long the text, the undo stack and the list of matches: a key other than
\* the jump to the next match keeps the cursor, and those that undo returns to, in
\* the text, and only with a cursor outside of it does a key end the program.
THEOREM StrayCorrect == EditorSpec => OnlySearchStrays
<1>1. EditorInv /\ [EditorNext]_editorVars =>
        [ /\ CursorsInText => CursorsInText' \/ NextMatchKey
          /\ screen' = "crashed" => ~CursorInText ]_editorVars
  BY StraysNext
<1> QED BY <1>1, EditorInvHolds, PTL DEF EditorSpec, OnlySearchStrays

===============================================================================
