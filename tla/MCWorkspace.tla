---------------------------- MODULE MCWorkspace ----------------------------
(***************************************************************************)
(* Instances of Workspace for TLC.                                         *)
(***************************************************************************)
EXTENDS Workspace

CONSTANTS ann, eve, n1, n2, b1, b2, t1, t2, work, home, a1, v1

\* A note of each of two users: ann's has a block with an attachment and a tag.
TwoNotes ==
    [n \in {n1, n2} |-> [author |-> IF n = n1 THEN ann ELSE eve, parent |-> NoNote,
                         list |-> IF n = n1 THEN <<b1>> ELSE <<>>]]
OneBlock == [b \in {b1} |-> n1]
TwoTags == [t \in {t1, t2} |-> [owner |-> IF t = t1 THEN ann ELSE eve, name |-> work]]
Tagged == {<<n1, t1>>}
OneAttachment == [a \in {a1} |-> b1]
Pictures == [u \in {ann, eve} |-> IF u = ann THEN v1 ELSE ElsewhereAvatar]

NoteOps == {"CreateNote", "UpdateNote", "DeleteNote"}
TagOps == {"CreateTag", "UpdateTag", "DeleteTag"}
FileOps == {"UploadAttachment", "GetAttachment", "DeleteAttachment", "UpdateAvatar"}
DeleteOnly == {"DeleteNote"}
AllOps == NoteOps \cup TagOps \cup FileOps
=============================================================================
