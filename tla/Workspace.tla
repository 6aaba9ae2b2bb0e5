------------------------------ MODULE Workspace ------------------------------
(***************************************************************************)
(* Notes, tags, attachments and avatars together: the handlers share the   *)
(* tables, and a block that is deleted takes its attachments with it       *)
(* (ON DELETE CASCADE), but not their files.                               *)
(***************************************************************************)
EXTENDS NoteBook, Attachments, Avatars

VARIABLE overlapped     \* history: notes that had two updates in hand at once

workspaceVars == <<vars, FileVars, overlapped>>

WorkspaceInit == StoreInit /\ FileInit /\ overlapped = {}

\* attachments.block_id REFERENCES blocks ON DELETE CASCADE: in the transaction
\* that deletes the block.
CascadeToAttachments ==
    attachments' = [a \in {a \in DOMAIN attachments : attachments[a] \in DOMAIN blocks'}
                      |-> attachments[a]]

NoteBookBegin(r) == Begin(r) /\ UNCHANGED FileVars

NoteBookStep(r) ==
    /\ Advance(r)
    /\ CascadeToAttachments
    /\ UNCHANGED <<avatars, files, unheard>>

WorkspaceBegin(r) == NoteBookBegin(r) \/ AttachmentsBegin(r) \/ UpdateAvatarBegin(r)

\* What a request in hand does of itself; a call that fails is no part of it.
WorkspaceStep(r) == NoteBookStep(r) \/ AttachmentsStep(r) \/ AvatarsStep(r)

UpdatesInHand(n) == {r \in InFlight : req[r].op = "UpdateNote" /\ req[r].note = n}

Overlapping == {n \in NoteIds : Cardinality(UpdatesInHand(n)) > 1}

WorkspaceNext ==
    /\ \/ \E r \in Requests :
             \/ WorkspaceBegin(r)
             \/ WorkspaceStep(r)
             \/ Drop(r) /\ UNCHANGED FileVars
       \/ Quiescent /\ UNCHANGED FileVars
    /\ overlapped' = overlapped \cup Overlapping'

WorkspaceSpec == WorkspaceInit /\ [][WorkspaceNext]_workspaceVars

----------------------------------------------------------------------------

NoteBookInput ==
    [op: {"none"}]
    \cup [op: {"CreateNote"}, user: Users, parent: NoteIds \cup {NoNote}]
    \cup [op: {"UpdateNote"}, user: Users, note: NoteIds, blocks: Seq(BlockIds),
          tagIds: {Keep} \cup SUBSET TagIds]
    \cup [op: {"DeleteNote"}, user: Users, note: NoteIds]
    \cup [op: {"CreateTag"}, user: Users, name: Names]
    \cup [op: {"UpdateTag"}, user: Users, tag: TagIds, name: Names]
    \cup [op: {"DeleteTag"}, user: Users, tag: TagIds]

Tx == [old: SUBSET BlockIds, tags: SUBSET TagIds, at: Nat \ {0},
       inserted: SUBSET BlockIds, deleted: SUBSET BlockIds]

Row == ({"note"} \X NoteIds) \cup ({"block"} \X BlockIds) \cup ({"tag"} \X TagIds)
       \cup ({"noteTag"} \X NoteIds \X TagIds)

Locked == [mode: {"share", "write", "erase"}, row: Row]

NoteBookLabel == Over \cup {"readParent", "insertNote", "readNote", "readBlocks", "readTags",
                    "upsert", "update", "deleteBlocks", "deleteTags", "insertTags",
                    "commit", "erase", "cascade", "insertTag", "readTag", "updateTag",
                    "eraseTag", "untag"}

AttachmentIds == DOMAIN StartAttachments \cup Requests

AvatarNames == StartFiles \cup Requests \cup {NoAvatar, ElsewhereAvatar}

Input ==
    NoteBookInput
    \cup [op: {"UploadAttachment"}, user: Users, block: BlockIds, allowed: BOOLEAN]
    \cup [op: {"GetAttachment", "DeleteAttachment"}, user: Users, attachment: AttachmentIds]
    \cup [op: {"UpdateAvatar"}, user: Users, was: AvatarNames]

Label == NoteBookLabel \cup {"readOwner", "putFile", "insertAttachment", "takeBack",
                            "readAttachment", "readBlockOwner", "getFile",
                            "eraseAttachment", "eraseFile", "readUser", "putPicture",
                            "updateAvatar", "takeBackPicture", "erasePicture"}

TableTypes ==
    /\ notes \in [DOMAIN notes -> Note] /\ DOMAIN notes \subseteq NoteIds
    /\ blocks \in [DOMAIN blocks -> NoteIds] /\ DOMAIN blocks \subseteq BlockIds
    /\ tags \in [DOMAIN tags -> Tag] /\ DOMAIN tags \subseteq TagIds
    /\ noteTags \subseteq NoteIds \X TagIds

RequestTypes ==
    /\ DOMAIN locks = Requests
    /\ \A r \in Requests : locks[r] \subseteq Locked
    /\ tx \in [Requests -> Tx]
    /\ req \in [Requests -> Input]
    /\ pc \in [Requests -> Label]

FileTypes ==
    /\ attachments \in [DOMAIN attachments -> BlockIds]
    /\ DOMAIN attachments \subseteq AttachmentIds
    /\ avatars \in [Users -> AvatarNames]
    /\ files \subseteq Keys
    /\ unheard \subseteq Requests

\* The tables are functions on the ids of their rows.
TypeOK == TableTypes /\ RequestTypes /\ FileTypes /\ overlapped \subseteq NoteIds

AuthorOf(n) == IF n \in DOMAIN notes THEN notes[n].author ELSE NoNote

\* Whatever fails and whatever overlaps, a row never names a file that is not
\* there: the file is stored before the row and removed after it.  The one
\* exception is a row whose insert was reported as failed; its file is taken
\* back (UploadAttachment, DeleteAttachment, UpdateAvatar).
RowsHaveFiles ==
    /\ \A a \in DOMAIN attachments \ unheard : a \in files
    /\ \A u \in Users :
          avatars[u] \in files \cup unheard \cup {NoAvatar, ElsewhereAvatar}

\* A request of somebody else never takes away the attachments of a note, or
\* the files behind them, directly or through a cascade; nor an avatar
\* (readOwnAttachment, checkBlockOwner, UpdateAvatar).
OnlyTheOwner ==
    [][\A r \in Requests : (pc'[r] # pc[r] /\ req[r].op # "none") =>
          /\ \A a \in DOMAIN attachments :
                req[r].user # AuthorOf(blocks[attachments[a]]) =>
                    /\ a \in DOMAIN attachments'
                    /\ a \in files => a \in files'
          /\ \A u \in Users \ {req[r].user} :
                /\ avatars'[u] = avatars[u]
                /\ avatars[u] \in files => avatars[u] \in files']_workspaceVars

\* A block of a note that does not list it is out of reach: updates compare with
\* the listed blocks only ("blocks that are not in the array are deleted",
\* docs/openapi.yaml:410).  Whatever fails, the only blocks that get lost belong
\* to a note two updates of which overlapped.
StrayOnlyByOverlap ==
    InFlight = {} =>
        \A b \in DOMAIN blocks :
            \/ blocks[b] \in DOMAIN notes /\ b \in ToSet(notes[blocks[b]].list)
            \/ blocks[b] \in overlapped

\* The files of a note go with it ("the notes below it, its blocks and its files
\* are deleted", docs/openapi.yaml:438): once nothing is in hand, every file is
\* named by a row.
FilesNamed ==
    InFlight = {} => files \subseteq DOMAIN attachments \cup {avatars[u] : u \in Users}
=============================================================================
