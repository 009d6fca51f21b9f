------------------------------- MODULE MCEditor --------------------------------
(***************************************************************************)
(* No note, or one whose two lines are a list item and a letter.  Letters  *)
(* are typed; blanks come from tabs and joined lines.  One undo is enough  *)
(* for each operation to be undone, after a save and after a search.       *)
(***************************************************************************)
EXTENDS Editor

MCTexts == { << <<Bullet>>, <<Letter>> >> }
MCTyped == {Letter}
MCReference == <<Letter>>
MCQueries == { <<Letter>> }

================================================================================
