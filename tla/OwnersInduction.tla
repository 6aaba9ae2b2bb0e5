-------------------------- MODULE OwnersInduction --------------------------
(***************************************************************************)
(* Two more inductive invariants of Workspace.  Of ownership: what the     *)
(* foreign keys promise, and for every request whose rows it holds on to.  *)
(* Of stray blocks: what an update that has its note to itself knows of    *)
(* the blocks of the note.                                                 *)
(***************************************************************************)
EXTENDS NotesInduction

\* A row refers to rows that are there.
RowsRefer ==
    /\ \A b \in DOMAIN blocks : Made(b) /\ blocks[b] \in DOMAIN notes
    /\ \A a \in DOMAIN attachments : attachments[a] \in DOMAIN blocks

\* Whatever note the block is in, is the user's as long as it is there.
BlockStillOwn(user, b) ==
    Made(b) /\ \A n \in NoteIds : BlockOf(b, n) => NoteStillOwn(user, n)

\* The blocks a request has read, and the ones it is about to insert.
HoldsBlocks(r) ==
    /\ \A b \in tx[r].old \cup tx[r].inserted : b = r \/ Made(b)
    /\ (req[r].op = "UpdateNote" /\ tx[r].inserted # {}) =>
          /\ req[r].note \in DOMAIN notes
          /\ Lock("share", <<"note", req[r].note>>) \in locks[r]

\* A row under the name of a request in hand is the one it has stored.
HoldsRows(r) == pc[r] \notin Final =>
    /\ r \in DOMAIN attachments =>
          /\ pc[r] = "takeBack" /\ req[r].op = "UploadAttachment"
          /\ attachments[r] = req[r].block
    /\ \A u \in Users : avatars[u] = r =>
          pc[r] \in {"erasePicture", "takeBackPicture"} /\ req[r].user = u

\* What checkBlockOwner has let through.
OwnerChecked(r) ==
    LET a == req[r].attachment
    IN  /\ req[r].op = "UploadAttachment"
               /\ pc[r] \in {"putFile", "insertAttachment", "takeBack"} =>
              BlockStillOwn(req[r].user, req[r].block)
        /\ pc[r] = "readBlockOwner" /\ a \in DOMAIN attachments =>
              attachments[a] \in tx[r].old
        /\ req[r].op = "DeleteAttachment" /\ pc[r] = "eraseAttachment"
               /\ a \in DOMAIN attachments =>
              BlockStillOwn(req[r].user, attachments[a])

HoldsOwn(r) == HoldsBlocks(r) /\ HoldsRows(r) /\ OwnerChecked(r)

OwnersInv == RowsRefer /\ \A r \in Requests : HoldsOwn(r)
----------------------------------------------------------------------------

Listed(b) == blocks[b] \in DOMAIN notes /\ b \in ToSet(notes[blocks[b]].list)

\* An update whose note no other update has touched has read all the blocks of
\* the note, and from the delete on it keeps the ones it lists and no other.
HasAll(r) == req[r].op = "UpdateNote" =>
    /\ tx[r].inserted \subseteq ToSet(req[r].blocks)
    /\ req[r].note \notin overlapped =>
          \A b \in BlocksUnder({req[r].note}) :
              /\ pc[r] \in {"readTags"} \cup InTransaction => b \in tx[r].old
              /\ pc[r] \in {"deleteTags", "insertTags", "commit"} =>
                    b \in ToSet(req[r].blocks) \cup tx[r].deleted

StrayInv ==
    /\ Overlapping \subseteq overlapped
    /\ \A b \in DOMAIN blocks : Listed(b) \/ blocks[b] \in overlapped
    /\ \A r \in Requests : HasAll(r)
=============================================================================
