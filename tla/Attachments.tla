----------------------------- MODULE Attachments -----------------------------
(***************************************************************************)
(* UploadAttachment, GetAttachment and DeleteAttachment.  An upload stores *)
(* the file and then the row, and takes the file back when the row is      *)
(* refused; a delete removes the row and then the file.                    *)
(***************************************************************************)
EXTENDS FileStore

SeenBlocks == DOMAIN StartBlocks \cup DOMAIN blocks

SeenAttachments == DOMAIN StartAttachments \cup DOMAIN attachments

\* checkBlockOwner: the author of the note the block is in.
OwnBlock(user, b) == b \in DOMAIN blocks /\ OwnNote(user, blocks[b])

\* UploadAttachment.  The type of the file is looked at after the owner.
UploadBegin(r) ==
    /\ \E user \in Users, b \in SeenBlocks, allowed \in BOOLEAN :
          Admit(r, [op |-> "UploadAttachment", user |-> user, block |-> b,
                    allowed |-> allowed],
                "readOwner")
    /\ UNCHANGED FileVars

UploadReadOwner(r) ==
    /\ At(r, "UploadAttachment", "readOwner")
    /\ Goto(r, IF OwnBlock(req[r].user, req[r].block) /\ req[r].allowed THEN "putFile"
                                                                        ELSE "rejected")
    /\ UNCHANGED <<Tables, locks, tx, FileVars>>

UploadPutFile(r) ==
    /\ At(r, "UploadAttachment", "putFile")
    /\ PutFile(r)
    /\ Goto(r, "insertAttachment")
    /\ UNCHANGED <<Tables, locks, tx, attachments, avatars, unheard>>

UploadInsert(r) ==
    /\ At(r, "UploadAttachment", "insertAttachment")
    /\ ~Waits(r)
    /\ req[r].block \in DOMAIN blocks
    /\ attachments' = With(attachments, r, req[r].block)
    /\ Ends(r, "done")
    /\ UNCHANGED <<Tables, avatars, files, unheard>>

\* The insert is refused, by the foreign key or by a fault ...
UploadRefused(r) ==
    /\ At(r, "UploadAttachment", "insertAttachment")
    /\ Faults \/ req[r].block \notin DOMAIN blocks
    /\ Goto(r, "takeBack")
    /\ UNCHANGED <<Tables, locks, tx, FileVars>>

\* ... or it takes effect and its answer is lost.
UploadUnheard(r) ==
    /\ At(r, "UploadAttachment", "insertAttachment")
    /\ Faults
    /\ ~Waits(r)
    /\ req[r].block \in DOMAIN blocks
    /\ attachments' = With(attachments, r, req[r].block)
    /\ unheard' = unheard \cup {r}
    /\ Goto(r, "takeBack")
    /\ UNCHANGED <<Tables, locks, tx, avatars, files>>

UploadTakeBack(r) ==
    /\ At(r, "UploadAttachment", "takeBack")
    /\ DeleteFile(r)
    /\ Ends(r, "failed")
    /\ UNCHANGED <<Tables, attachments, avatars, unheard>>

----------------------------------------------------------------------------
(***************************************************************************)
(* readOwnAttachment: the row, then the author of its block                *)
(***************************************************************************)

ReadAttachmentBegin(r) ==
    /\ \E op \in {"GetAttachment", "DeleteAttachment"}, user \in Users, a \in SeenAttachments :
          Admit(r, [op |-> op, user |-> user, attachment |-> a], "readAttachment")
    /\ UNCHANGED FileVars

ReadAttachment(r) ==
    LET a == req[r].attachment
    IN  /\ pc[r] = "readAttachment"
        /\ \/ /\ a \in DOMAIN attachments
              /\ tx' = [tx EXCEPT ![r].old = {attachments[a]}]
              /\ Goto(r, "readBlockOwner")
           \/ /\ a \notin DOMAIN attachments
              /\ Goto(r, "rejected")
              /\ UNCHANGED tx
        /\ UNCHANGED <<Tables, locks, FileVars>>

\* Variant: nobody asks whose block it is.
ReadBlockOwnerOfAnyone(r) ==
    /\ pc[r] = "readBlockOwner"
    /\ Goto(r, IF req[r].op = "GetAttachment" THEN "getFile" ELSE "eraseAttachment")
    /\ UNCHANGED <<Tables, locks, tx, FileVars>>

\* Any error of the call is answered as "not found", a fault too.
ReadBlockOwner(r) ==
    /\ pc[r] = "readBlockOwner"
    /\ \/ /\ \A b \in tx[r].old : OwnBlock(req[r].user, b)
          /\ Goto(r, IF req[r].op = "GetAttachment" THEN "getFile" ELSE "eraseAttachment")
          /\ UNCHANGED <<locks, tx>>
       \/ /\ Faults \/ \E b \in tx[r].old : ~OwnBlock(req[r].user, b)
          /\ Ends(r, "rejected")
    /\ UNCHANGED <<Tables, FileVars>>

\* NoSuchKey is answered like a missing row.
GetFile(r) ==
    /\ At(r, "GetAttachment", "getFile")
    /\ Ends(r, IF req[r].attachment \in files THEN "done" ELSE "rejected")
    /\ UNCHANGED <<Tables, FileVars>>

\* Variant: the file goes first, the row after it.
DeleteAttachmentFileFirst(r) ==
    /\ At(r, "DeleteAttachment", "eraseAttachment")
    /\ req[r].attachment \in DOMAIN attachments
    /\ DeleteFile(req[r].attachment)
    /\ Goto(r, "eraseFile")
    /\ UNCHANGED <<Tables, locks, tx, attachments, avatars, unheard>>

\* The row of a delete that came second is gone: not found.
DeleteAttachmentRow(r) ==
    LET a == req[r].attachment
    IN  /\ At(r, "DeleteAttachment", "eraseAttachment")
        /\ attachments' = Without(attachments, {a})
        /\ \/ a \in DOMAIN attachments /\ Goto(r, "eraseFile") /\ UNCHANGED <<locks, tx>>
           \/ a \notin DOMAIN attachments /\ Ends(r, "rejected")
        /\ UNCHANGED <<Tables, avatars, files, unheard>>

\* The row is deleted and the answer of the database is lost.
DeleteAttachmentUnheard(r) ==
    /\ At(r, "DeleteAttachment", "eraseAttachment")
    /\ Faults
    /\ attachments' = Without(attachments, {req[r].attachment})
    /\ Ends(r, "failed")
    /\ UNCHANGED <<Tables, avatars, files, unheard>>

DeleteAttachmentFile(r) ==
    /\ At(r, "DeleteAttachment", "eraseFile")
    /\ DeleteFile(req[r].attachment)
    /\ Ends(r, "done")
    /\ UNCHANGED <<Tables, attachments, avatars, unheard>>

----------------------------------------------------------------------------

AttachmentsBegin(r) == UploadBegin(r) \/ ReadAttachmentBegin(r)

AttachmentsStep(r) ==
    \/ UploadReadOwner(r) \/ UploadPutFile(r) \/ UploadInsert(r)
    \/ UploadRefused(r) \/ UploadUnheard(r) \/ UploadTakeBack(r)
    \/ ReadAttachment(r) \/ ReadBlockOwner(r) \/ GetFile(r)
    \/ DeleteAttachmentRow(r) \/ DeleteAttachmentUnheard(r) \/ DeleteAttachmentFile(r)
=============================================================================
