-------------------------------- MODULE Notes --------------------------------
(***************************************************************************)
(* CreateNote, UpdateNote and DeleteNote.  UpdateNote saves a whole note:  *)
(* it reads the note, its blocks and its tags, decides what to insert,     *)
(* keep and delete, and only then opens a transaction to write it.         *)
(***************************************************************************)
EXTENDS NoteStore

\* Block ids and tag ids a client may have seen, and r for a new block.
BlockLists(r) ==
    {list \in SeqOf(DOMAIN StartBlocks \cup DOMAIN blocks \cup {r}, MaxBlocks) :
        Cardinality({i \in DOMAIN list : list[i] = r}) <= 1}

TagChoices == {Keep} \cup SUBSET (DOMAIN StartTags \cup DOMAIN tags)

SeenNotes == DOMAIN StartNotes \cup DOMAIN notes

\* CreateNote: a parent must be a note of the same user.
CreateNoteBegin(r) ==
    \E user \in Users, parent \in SeenNotes \cup {NoNote} :
        Admit(r, [op |-> "CreateNote", user |-> user, parent |-> parent],
              IF parent = NoNote THEN "insertNote" ELSE "readParent")

\* Variant: anybody's note will do.
CreateNoteReadParentOfAnyone(r) ==
    /\ At(r, "CreateNote", "readParent")
    /\ Goto(r, IF req[r].parent \in DOMAIN notes THEN "insertNote" ELSE "rejected")
    /\ UNCHANGED <<Tables, locks, tx>>

CreateNoteReadParent(r) ==
    /\ At(r, "CreateNote", "readParent")
    /\ Goto(r, IF OwnNote(req[r].user, req[r].parent) THEN "insertNote" ELSE "rejected")
    /\ UNCHANGED <<Tables, locks, tx>>

CreateNoteInsert(r) ==
    /\ At(r, "CreateNote", "insertNote")
    /\ ~Waits(r)
    /\ req[r].parent \in DOMAIN notes \cup {NoNote}
    /\ notes' = With(notes, r, [author |-> req[r].user, parent |-> req[r].parent,
                                list |-> <<>>])
    /\ Completes(r)
    /\ UNCHANGED <<blocks, tags, noteTags>>

\* The parent was deleted since: the foreign key refuses the row.
CreateNoteOrphan(r) ==
    /\ At(r, "CreateNote", "insertNote")
    /\ req[r].parent \notin DOMAIN notes \cup {NoNote}
    /\ RollsBack(r)

----------------------------------------------------------------------------
(***************************************************************************)
(* UpdateNote                                                              *)
(***************************************************************************)

UpdateNoteBegin(r) ==
    \E user \in Users, n \in SeenNotes, list \in BlockLists(r), tagIds \in TagChoices :
        Admit(r, [op |-> "UpdateNote", user |-> user, note |-> n,
                  blocks |-> list, tagIds |-> tagIds],
              "readNote")

UpdateNoteRead(r) ==
    /\ At(r, "UpdateNote", "readNote")
    /\ Goto(r, IF OwnNote(req[r].user, req[r].note) THEN "readBlocks" ELSE "rejected")
    /\ UNCHANGED <<Tables, locks, tx>>

\* Every block that is not new must be one of the note's.
UpdateNoteReadBlocks(r) ==
    LET old == ReadBlocks(req[r].note)
    IN  /\ At(r, "UpdateNote", "readBlocks")
        /\ tx' = [tx EXCEPT ![r].old = old]
        /\ Goto(r, IF ToSet(req[r].blocks) \subseteq old \cup {r} THEN "readTags"
                                                                  ELSE "rejected")
        /\ UNCHANGED <<Tables, locks>>

\* The first statement of the transaction, or the next one in the loop over the
\* blocks of the request.
NextUpsert(r, i) == IF i <= Len(req[r].blocks) THEN "upsert" ELSE "update"

\* noteTags: the tags the note has, or the ones asked for, if they are all the
\* user's.
UpdateNoteReadTags(r) ==
    LET asked == req[r].tagIds
        found == IF asked = Keep THEN ReadNoteTags(req[r].note)
                                 ELSE ReadUserTags(req[r].user, asked)
    IN  /\ At(r, "UpdateNote", "readTags")
        /\ tx' = [tx EXCEPT ![r].tags = found]
        /\ Goto(r, IF asked \in {Keep, found} THEN NextUpsert(r, 1) ELSE "rejected")
        /\ UNCHANGED <<Tables, locks>>

\* Variant: the statement is sent to the pool instead of the transaction, and
\* commits at once.
UpsertExistingOutsideTx(r) ==
    /\ At(r, "UpdateNote", "upsert")
    /\ ~Waits(r)
    /\ req[r].blocks[tx[r].at] \in DOMAIN blocks \cup tx[r].inserted
    /\ tx' = [tx EXCEPT ![r].at = @ + 1]
    /\ Goto(r, NextUpsert(r, tx[r].at + 1))
    /\ UNCHANGED <<Tables, locks>>

\* ON CONFLICT DO UPDATE: the block is there and gets the new content.
UpsertExisting(r) ==
    /\ At(r, "UpdateNote", "upsert")
    /\ Locks(r)
    /\ req[r].blocks[tx[r].at] \in DOMAIN blocks \cup tx[r].inserted
    /\ tx' = [tx EXCEPT ![r].at = @ + 1]
    /\ Goto(r, NextUpsert(r, tx[r].at + 1))
    /\ UNCHANGED Tables

\* INSERT: the block is new, or another update has deleted it since.
UpsertMissing(r) ==
    LET b == req[r].blocks[tx[r].at]
    IN  /\ At(r, "UpdateNote", "upsert")
        /\ Locks(r)
        /\ b \notin DOMAIN blocks \cup tx[r].inserted
        /\ req[r].note \in DOMAIN notes
        /\ tx' = [tx EXCEPT ![r].at = @ + 1, ![r].inserted = @ \cup {b}]
        /\ Goto(r, NextUpsert(r, tx[r].at + 1))
        /\ UNCHANGED Tables

\* The note is gone: the foreign key refuses the block.
UpsertOrphan(r) ==
    /\ At(r, "UpdateNote", "upsert")
    /\ ~Waits(r)
    /\ req[r].blocks[tx[r].at] \notin DOMAIN blocks \cup tx[r].inserted
    /\ req[r].note \notin DOMAIN notes
    /\ RollsBack(r)

\* Variant: the statement is sent to the pool instead of the transaction.
UpdateNoteRowOutsideTx(r) ==
    /\ At(r, "UpdateNote", "update")
    /\ ~Waits(r)
    /\ notes' = [m \in DOMAIN notes |->
                   IF m = req[r].note THEN [notes[m] EXCEPT !.list = req[r].blocks]
                                      ELSE notes[m]]
    /\ Goto(r, IF tx[r].old \subseteq ToSet(req[r].blocks) THEN "deleteTags"
                                                           ELSE "deleteBlocks")
    /\ UNCHANGED <<blocks, tags, noteTags, locks, tx>>

\* UPDATE notes: nobody looks whether the row was still there.
UpdateNoteRow(r) ==
    /\ At(r, "UpdateNote", "update")
    /\ Locks(r)
    /\ Goto(r, IF tx[r].old \subseteq ToSet(req[r].blocks) THEN "deleteTags"
                                                           ELSE "deleteBlocks")
    /\ UNCHANGED <<Tables, tx>>

\* Variant: blocks that are no longer listed stay.
DeleteBlocksNone(r) ==
    /\ At(r, "UpdateNote", "deleteBlocks")
    /\ Locks(r)
    /\ Goto(r, "deleteTags")
    /\ UNCHANGED <<Tables, tx>>

DeleteBlocks(r) ==
    /\ At(r, "UpdateNote", "deleteBlocks")
    /\ Locks(r)
    /\ tx' = [tx EXCEPT ![r].deleted = (tx[r].old \ ToSet(req[r].blocks)) \cap DOMAIN blocks]
    /\ Goto(r, "deleteTags")
    /\ UNCHANGED Tables

DeleteNoteTags(r) ==
    /\ At(r, "UpdateNote", "deleteTags")
    /\ Locks(r)
    /\ Goto(r, "insertTags")
    /\ UNCHANGED <<Tables, tx>>

CreateNoteTags(r) ==
    /\ At(r, "UpdateNote", "insertTags")
    /\ Locks(r)
    /\ tx[r].tags \subseteq DOMAIN tags
    /\ tx[r].tags # {} => req[r].note \in DOMAIN notes
    /\ Goto(r, "commit")
    /\ UNCHANGED <<Tables, tx>>

\* A tag, or the note, is gone: the foreign key refuses the pair.
CreateNoteTagsOrphan(r) ==
    /\ At(r, "UpdateNote", "insertTags")
    /\ ~Waits(r)
    /\ \/ ~(tx[r].tags \subseteq DOMAIN tags)
       \/ tx[r].tags # {} /\ req[r].note \notin DOMAIN notes
    /\ RollsBack(r)

Commit(r) ==
    LET n == req[r].note
        written == IF n \in DOMAIN notes THEN {n} ELSE {}
    IN  /\ At(r, "UpdateNote", "commit")
        /\ notes' = [m \in DOMAIN notes |->
                       IF m \in written THEN [notes[m] EXCEPT !.list = req[r].blocks]
                                        ELSE notes[m]]
        /\ blocks' = [b \in (DOMAIN blocks \cup tx[r].inserted) \ tx[r].deleted |->
                        IF b \in DOMAIN blocks THEN blocks[b] ELSE n]
        /\ noteTags' = {p \in noteTags : p[1] # n} \cup (written \X tx[r].tags)
        /\ Completes(r)
        /\ UNCHANGED tags

----------------------------------------------------------------------------
(***************************************************************************)
(* DeleteNote                                                              *)
(***************************************************************************)

DeleteNoteBegin(r) ==
    \E user \in Users, n \in SeenNotes :
        Admit(r, [op |-> "DeleteNote", user |-> user, note |-> n], "readNote")

DeleteNoteRead(r) ==
    /\ At(r, "DeleteNote", "readNote")
    /\ Goto(r, IF OwnNote(req[r].user, req[r].note) THEN "erase" ELSE "rejected")
    /\ UNCHANGED <<Tables, locks, tx>>

\* DELETE FROM notes locks the row first; the foreign keys then cascade.
DeleteNoteErase(r) ==
    /\ At(r, "DeleteNote", "erase")
    /\ Locks(r)
    /\ Goto(r, "cascade")
    /\ UNCHANGED <<Tables, tx>>

DeleteNoteCascade(r) ==
    LET under == Subtree(req[r].note)
    IN  /\ At(r, "DeleteNote", "cascade")
        /\ ~Waits(r)
        /\ notes' = Without(notes, under)
        /\ blocks' = Without(blocks, BlocksUnder(under))
        /\ noteTags' = {p \in noteTags : p[1] \notin under}
        /\ Completes(r)
        /\ UNCHANGED tags

----------------------------------------------------------------------------

NotesBegin(r) == CreateNoteBegin(r) \/ UpdateNoteBegin(r) \/ DeleteNoteBegin(r)

NotesStep(r) ==
    \/ CreateNoteReadParent(r) \/ CreateNoteInsert(r) \/ CreateNoteOrphan(r)
    \/ UpdateNoteRead(r) \/ UpdateNoteReadBlocks(r) \/ UpdateNoteReadTags(r)
    \/ UpsertExisting(r) \/ UpsertMissing(r) \/ UpsertOrphan(r)
    \/ UpdateNoteRow(r) \/ DeleteBlocks(r) \/ DeleteNoteTags(r)
    \/ CreateNoteTags(r) \/ CreateNoteTagsOrphan(r) \/ Commit(r)
    \/ DeleteNoteRead(r) \/ DeleteNoteErase(r) \/ DeleteNoteCascade(r)
=============================================================================
