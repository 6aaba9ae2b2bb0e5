------------------------------ MODULE MCNotes ------------------------------
(***************************************************************************)
(* Instances of NoteBook for TLC.                                          *)
(***************************************************************************)
EXTENDS NoteBook

CONSTANTS ann, n1, b1, b2, t1, work, home

\* One note of ann's, with two blocks and a tag.
OneNote == [n \in {n1} |-> [author |-> ann, parent |-> NoNote, list |-> <<b1, b2>>]]
TwoBlocks == [b \in {b1, b2} |-> n1]

OneTag == [t \in {t1} |-> [owner |-> ann, name |-> work]]
Tagged == {<<n1, t1>>}

AllOps == {"CreateNote", "UpdateNote", "DeleteNote", "CreateTag", "UpdateTag", "DeleteTag"}
=============================================================================
