----------------------------- MODULE OwnerProofs -----------------------------
(***************************************************************************)
(* A theorem about Workspace, for every value of its constants: the files  *)
(* of a user are lost in requests of that user only.                       *)
(*                                                                         *)
(* A handler asks once whose the block is, and its answer is used after    *)
(* any number of steps of others.  It stays right because a block never    *)
(* changes its note and a note never its author, and because no id is      *)
(* used twice.                                                             *)
(***************************************************************************)
EXTENDS OwnersInduction, NotesProofs, FilesProofs, FiniteSetTheorems

\* The three invariants together: each step may use all of them.
OwnershipInv == WorkspaceInv /\ FilesInv /\ OwnersInv

----------------------------------------------------------------------------
(***************************************************************************)
(* The other requests                                                      *)
(***************************************************************************)

\* What a step of r leaves to the others: ids it makes known are its own, and a
\* note goes only while no other transaction has it locked.
Respects(r) ==
    /\ \A n \in DOMAIN notes' :
          n = r \/ (n \in DOMAIN notes /\ notes'[n].author = notes[n].author)
    /\ \A q \in Requests \ {r} : \A n \in DOMAIN notes \ DOMAIN notes' :
          Lock("share", <<"note", n>>) \notin locks[q]
    /\ \A b \in BlockIds, n \in NoteIds : BlockOf(b, n)' => BlockOf(b, n) \/ b = r
    /\ \A a \in DOMAIN attachments' :
          \/ a \in DOMAIN attachments /\ attachments'[a] = attachments[a]
          \/ a = r /\ pc[r] \notin Past
    /\ \A u \in Users : avatars'[u] \in {avatars[u], r}

\* An answer of checkBlockOwner stays right.
LEMMA BlockOwnerStays ==
  ASSUME NEW r \in Requests, OnlyBy(r), Respects(r), NEW user, NEW b \in BlockIds,
         BlockStillOwn(user, b)
  PROVE  BlockStillOwn(user, b)'
<1>1. Made(b)' /\ b # r
  BY MadeStays DEF BlockStillOwn
<1>2. ASSUME NEW n \in NoteIds, BlockOf(b, n)'
      PROVE  NoteStillOwn(user, n)'
  <2>1. NoteStillOwn(user, n)
    BY <1>1, <1>2 DEF Respects, BlockStillOwn
  <2>2. QED
    BY <2>1, MadeStays DEF NoteStillOwn, Respects
<1>3. QED
  BY <1>1, <1>2 DEF BlockStillOwn

LEMMA OthersHold ==
  ASSUME OwnershipInv, NEW r \in Requests, OnlyBy(r), Respects(r), NEW q \in Requests \ {r}
  PROVE  HoldsOwn(q)'
<1>1. HoldsOwn(q) /\ Writing(q) /\ RequestTypes /\ FileTypes
  BY DEF OwnershipInv, OwnersInv, WorkspaceInv, NotesInv
<1>2. pc'[q] = pc[q] /\ req'[q] = req[q] /\ tx'[q] = tx[q] /\ locks'[q] = locks[q]
  BY DEF OnlyBy
<1>3. HoldsBlocks(q)'
  <2>1. \A b : Made(b) => Made(b)'
    BY MadeStays
  <2>2. QED
    BY <1>1, <1>2, <2>1 DEF HoldsOwn, HoldsBlocks, Respects
<1>4. HoldsRows(q)'
  BY <1>1, <1>2 DEF HoldsOwn, HoldsRows, Respects
<1>5. OwnerChecked(q)'
  <2> DEFINE a == req[q].attachment
  <2>1. \A user : \A b \in BlockIds : BlockStillOwn(user, b) => BlockStillOwn(user, b)'
    BY BlockOwnerStays
  <2>2. (req[q].op = "UploadAttachment"
            /\ pc[q] \in {"putFile", "insertAttachment", "takeBack"} =>
                BlockStillOwn(req[q].user, req[q].block))'
    BY <1>1, <1>2, <2>1, InputTypes DEF HoldsOwn, OwnerChecked
  <2>3. ASSUME req[q].op \in {"GetAttachment", "DeleteAttachment"}, a \in DOMAIN attachments'
        PROVE  a \in DOMAIN attachments /\ attachments'[a] = attachments[a]
               /\ attachments[a] \in BlockIds
    <3>1. pc[r] \notin Past => a # r
      BY <2>3, KeyIsFresh DEF AttachmentKey, OwnershipInv
    <3>2. QED
      BY <1>1, <2>3, <3>1 DEF Respects, FileTypes
  <2>4. (pc[q] = "readBlockOwner" /\ a \in DOMAIN attachments => attachments[a] \in tx[q].old)'
    <3>1. pc[q] = "readBlockOwner" => req[q].op \in {"GetAttachment", "DeleteAttachment"}
      BY <1>1 DEF Writing
    <3>2. QED
      BY <1>1, <1>2, <2>3, <3>1 DEF HoldsOwn, OwnerChecked
  <2>5. (req[q].op = "DeleteAttachment" /\ pc[q] = "eraseAttachment"
            /\ a \in DOMAIN attachments => BlockStillOwn(req[q].user, attachments[a]))'
    BY <1>1, <1>2, <2>1, <2>3 DEF HoldsOwn, OwnerChecked
  <2>6. QED
    BY <2>2, <2>4, <2>5 DEF OwnerChecked
<1>6. QED
  BY <1>3, <1>4, <1>5 DEF HoldsOwn

----------------------------------------------------------------------------
(***************************************************************************)
(* The shapes of a step                                                    *)
(***************************************************************************)

LEMMA StepHolds ==
  ASSUME OwnershipInv, NEW r \in Requests, OnlyBy(r), Respects(r), RowsRefer', HoldsOwn(r)'
  PROVE  OwnersInv'
  BY OthersHold DEF OwnersInv

\* A request over has nothing to hold.
LEMMA EndingHolds ==
  ASSUME OwnershipInv, NEW r \in Requests, pc[r] \notin Over, NEW how \in Final, Ends(r, how),
         Respects(r), RowsRefer'
  PROVE  OwnersInv'
<1>1. RequestTypes
  BY DEF OwnershipInv, WorkspaceInv, NotesInv
<1>2. pc'[r] = how /\ req'[r] = NoInput /\ tx'[r] = NoTx
  BY <1>1 DEF Ends, RequestTypes
<1>3. OnlyBy(r)
  BY <1>1 DEF Ends, OnlyBy, RequestTypes, Final, Over
<1>4. HoldsOwn(r)'
  BY <1>2 DEF HoldsOwn, HoldsBlocks, HoldsRows, OwnerChecked, NoInput, NoTx, Final
<1>5. QED
  BY <1>3, <1>4, StepHolds

\* Notes and blocks stay, attachments at most go, and what the request has read
\* or is about to write is known.
LEMMA QuietRespects ==
  ASSUME OwnershipInv, NEW r \in Requests, OnlyBy(r), UNCHANGED <<notes, blocks>>,
         \A a \in DOMAIN attachments' :
             \/ a \in DOMAIN attachments /\ attachments'[a] = attachments[a]
             \/ a = r /\ pc[r] \notin Past /\ attachments'[a] \in DOMAIN blocks,
         \A u \in Users : avatars'[u] \in {avatars[u], r},
         req'[r].op = "UpdateNote" =>
             \A b \in tx'[r].old \cup tx'[r].inserted : b = r \/ BlockOf(b, req'[r].note)
  PROVE  Respects(r) /\ RowsRefer'
<1>1. \A b \in BlockIds, n \in NoteIds : BlockOf(b, n)' => BlockOf(b, n) \/ b = r
  BY DEF BlockOf, OnlyBy
<1>2. \A id : Made(id) => Made(id)'
  BY MadeStays
<1>3. RowsRefer'
  BY <1>2 DEF OwnershipInv, OwnersInv, RowsRefer
<1>4. QED
  BY <1>1, <1>3 DEF Respects

LEMMA QuietEndingHolds ==
  ASSUME OwnershipInv, NEW r \in Requests, pc[r] \notin Over, NEW how \in Final, Ends(r, how),
         UNCHANGED <<notes, blocks>>,
         \A a \in DOMAIN attachments' :
             \/ a \in DOMAIN attachments /\ attachments'[a] = attachments[a]
             \/ a = r /\ pc[r] \notin Past /\ attachments'[a] \in DOMAIN blocks,
         UNCHANGED avatars
  PROVE  OwnersInv'
<1>1. RequestTypes
  BY DEF OwnershipInv, WorkspaceInv, NotesInv
<1>2. req'[r] = NoInput
  BY <1>1 DEF Ends, RequestTypes
<1>3. OnlyBy(r)
  BY <1>1 DEF Ends, OnlyBy, RequestTypes, Final, Over
<1>4. Respects(r) /\ RowsRefer'
  BY <1>2, <1>3, QuietRespects DEF NoInput
<1>5. QED
  BY <1>4, EndingHolds

\* A request that has not stored its row yet comes to its next call.
LEMMA MovingHolds ==
  ASSUME OwnershipInv, NEW r \in Requests, OnlyBy(r), pc[r] \notin Past,
         UNCHANGED <<notes, blocks, avatars>>,
         \A a \in DOMAIN attachments' :
             a \in DOMAIN attachments /\ attachments'[a] = attachments[a],
         req'[r].op = "UpdateNote" =>
             \A b \in tx'[r].old \cup tx'[r].inserted : b = r \/ BlockOf(b, req'[r].note),
         HoldsBlocks(r)', OwnerChecked(r)'
  PROVE  OwnersInv'
<1>1. Respects(r) /\ RowsRefer'
  BY QuietRespects
<1>2. HoldsRows(r)'
  <2>1. ~AttachmentKey(r) /\ \A u \in Users : ~AvatarKey(u, r)
    BY KeyIsFresh DEF OwnershipInv
  <2>2. r \notin DOMAIN attachments /\ \A u \in Users : avatars[u] # r
    BY <2>1 DEF AttachmentKey, AvatarKey
  <2>3. QED
    BY <2>2 DEF HoldsRows
<1>3. QED
  BY <1>1, <1>2, StepHolds DEF HoldsOwn

\* The labels at which OwnerChecked says something.
Asked == {"putFile", "insertAttachment", "takeBack", "readBlockOwner", "eraseAttachment"}

LEMMA ArrivingHolds ==
  ASSUME OwnershipInv, NEW r \in Requests, UNCHANGED FileVars,
         NEW input, NEW next, next \notin Asked, Admit(r, input, next)
  PROVE  OwnersInv'
<1>1. RequestTypes /\ tx[r] = NoTx
  BY DEF OwnershipInv, WorkspaceInv, NotesInv, IdleInv, Admit
<1>2. /\ pc[r] = "idle" /\ pc'[r] = next /\ tx'[r] = NoTx
      /\ UNCHANGED <<notes, blocks, attachments, avatars>>
  BY <1>1 DEF Admit, RequestTypes, Tables, FileVars
<1>3. OnlyBy(r)
  BY <1>1 DEF Admit, OnlyBy, RequestTypes, Final
<1>4. HoldsBlocks(r)' /\ OwnerChecked(r)'
  BY <1>2 DEF HoldsBlocks, OwnerChecked, NoTx, Asked
<1>5. QED
  BY <1>2, <1>3, <1>4, MovingHolds DEF NoTx, Past

LEMMA BeginHolds ==
  ASSUME OwnershipInv, NEW r \in Requests, WorkspaceBegin(r)
  PROVE  OwnersInv'
<1>1. UNCHANGED FileVars
  BY DEF WorkspaceBegin, NoteBookBegin, AttachmentsBegin, UploadBegin, ReadAttachmentBegin,
         UpdateAvatarBegin
<1>2. \E next \in Label \ Asked : \E input : Admit(r, input, next)
  <2> USE DEF Label, NoteBookLabel, Over, Asked
  <2>1. CASE CreateNoteBegin(r) \/ UpdateNoteBegin(r) \/ DeleteNoteBegin(r)
    BY <2>1 DEF CreateNoteBegin, UpdateNoteBegin, DeleteNoteBegin
  <2>2. CASE TagsBegin(r)
    BY <2>2 DEF TagsBegin, CreateTagBegin, UpdateTagBegin, DeleteTagBegin
  <2>3. CASE UploadBegin(r) \/ ReadAttachmentBegin(r) \/ UpdateAvatarBegin(r)
    BY <2>3 DEF UploadBegin, ReadAttachmentBegin, UpdateAvatarBegin
  <2>4. QED
    BY <2>1, <2>2, <2>3
       DEF WorkspaceBegin, NoteBookBegin, Begin, NotesBegin, AttachmentsBegin
<1>3. QED
  BY <1>1, <1>2, ArrivingHolds

----------------------------------------------------------------------------
(***************************************************************************)
(* Notes and tags                                                          *)
(***************************************************************************)

\* Blocks that stay keep their attachments.
LEMMA CascadeRespects ==
  ASSUME CascadeToAttachments
  PROVE  \A a \in DOMAIN attachments' :
             a \in DOMAIN attachments /\ attachments'[a] = attachments[a]
  BY DEF CascadeToAttachments

\* What the request has read stays known.
LEMMA KnownByRequest ==
  ASSUME NEW r \in Requests, req[r].op = "UpdateNote"
  PROVE  \A b \in tx[r].old \cup tx[r].inserted : BlockOf(b, req[r].note)
  BY DEF BlockOf

\* A handler of the notes API comes to its next call and learns of no new block.
LEMMA NoteBookMovingHolds ==
  ASSUME OwnershipInv, NEW r \in Requests, pc[r] \notin Past, pc[r] \notin Over,
         UNCHANGED <<notes, blocks, avatars, req>>, CascadeToAttachments,
         pc' = pc \/ \E next \in NoteBookLabel : pc' = [pc EXCEPT ![r] = next],
         pc[r] \notin Asked,
         \A q \in Requests \ {r} : locks'[q] = locks[q] /\ tx'[q] = tx[q],
         locks[r] \subseteq locks'[r],
         tx'[r].old \cup tx'[r].inserted \subseteq tx[r].old \cup tx[r].inserted,
         tx'[r].inserted = tx[r].inserted
  PROVE  OwnersInv'
<1>1. RequestTypes /\ HoldsBlocks(r)
  BY DEF OwnershipInv, WorkspaceInv, NotesInv, OwnersInv, HoldsOwn
<1>2. OnlyBy(r)
  BY <1>1 DEF OnlyBy, RequestTypes, Final, Over
<1>3. \A id : Made(id) => Made(id)'
  BY <1>2, MadeStays
<1>4. HoldsBlocks(r)'
  BY <1>1, <1>3 DEF HoldsBlocks
<1>5. OwnerChecked(r)'
  BY <1>1 DEF OwnerChecked, Asked, NoteBookLabel, Over, RequestTypes
<1>6. QED
  BY <1>2, <1>4, <1>5, CascadeRespects, KnownByRequest, MovingHolds

LEMMA NoteCallHolds ==
  ASSUME OwnershipInv, NEW r \in Requests, CascadeToAttachments, UNCHANGED avatars,
         \/ CreateNoteReadParent(r) \/ UpdateNoteRead(r) \/ DeleteNoteRead(r)
         \/ UpdateTagRead(r) \/ DeleteTagRead(r) \/ UpdateNoteReadTags(r)
         \/ UpsertExisting(r) \/ UpdateNoteRow(r) \/ DeleteBlocks(r) \/ DeleteNoteTags(r)
         \/ CreateNoteTags(r) \/ DeleteNoteErase(r) \/ DeleteTagErase(r)
  PROVE  OwnersInv'
<1> USE DEF At, Goto, Tables
<1>1. /\ pc[r] \notin Past /\ pc[r] \notin Over /\ pc[r] \notin Asked
      /\ UNCHANGED <<notes, blocks, req>>
  BY DEF CreateNoteReadParent, UpdateNoteRead, DeleteNoteRead, UpdateTagRead, DeleteTagRead,
         UpdateNoteReadTags, UpsertExisting, UpdateNoteRow, DeleteBlocks, DeleteNoteTags,
         CreateNoteTags, DeleteNoteErase, DeleteTagErase, Past, Over, Asked
<1>2. \E next \in NoteBookLabel : pc' = [pc EXCEPT ![r] = next]
  BY DEF CreateNoteReadParent, UpdateNoteRead, DeleteNoteRead, UpdateTagRead, DeleteTagRead,
         UpdateNoteReadTags, UpsertExisting, UpdateNoteRow, DeleteBlocks, DeleteNoteTags,
         CreateNoteTags, DeleteNoteErase, DeleteTagErase, NextUpsert, NoteBookLabel, Over
<1>3. UNCHANGED locks \/ Locks(r)
  BY DEF CreateNoteReadParent, UpdateNoteRead, DeleteNoteRead, UpdateTagRead, DeleteTagRead,
         UpdateNoteReadTags, UpsertExisting, UpdateNoteRow, DeleteBlocks, DeleteNoteTags,
         CreateNoteTags, DeleteNoteErase, DeleteTagErase
<1>4. \/ UNCHANGED tx
      \/ \E found : tx' = [tx EXCEPT ![r].tags = found]
      \/ tx' = [tx EXCEPT ![r].at = @ + 1]
      \/ \E gone : tx' = [tx EXCEPT ![r].deleted = gone]
  BY DEF CreateNoteReadParent, UpdateNoteRead, DeleteNoteRead, UpdateTagRead, DeleteTagRead,
         UpdateNoteReadTags, UpsertExisting, UpdateNoteRow, DeleteBlocks, DeleteNoteTags,
         CreateNoteTags, DeleteNoteErase, DeleteTagErase
<1>5. NotesInv /\ RequestTypes
  BY DEF OwnershipInv, WorkspaceInv, NotesInv
<1>6. locks[r] \subseteq locks'[r] /\ \A q \in Requests \ {r} : locks'[q] = locks[q]
  BY <1>3, <1>5, StatementLocks
<1>7. /\ tx'[r].old = tx[r].old /\ tx'[r].inserted = tx[r].inserted
      /\ \A q \in Requests \ {r} : tx'[q] = tx[q]
  BY <1>4, <1>5 DEF RequestTypes, Tx
<1>8. QED
  BY <1>1, <1>2, <1>6, <1>7, NoteBookMovingHolds

LEMMA LockSomeHolds ==
  ASSUME OwnershipInv, NEW r \in Requests, CascadeToAttachments, UNCHANGED avatars, LockSome(r)
  PROVE  OwnersInv'
<1>1. RequestTypes
  BY DEF OwnershipInv, WorkspaceInv, NotesInv
<1>2. /\ pc[r] \notin Over
      /\ UNCHANGED <<notes, blocks, req, pc, tx>>
      /\ \E l : locks' = [locks EXCEPT ![r] = @ \cup {l}]
  BY DEF LockSome, Tables
<1>3. pc[r] \notin Past /\ pc[r] \notin Asked
  <2>1. Remaining(r) # {}
    BY DEF LockSome
  <2>2. Needed(r) # {}
    BY <2>1 DEF Remaining
  <2>3. pc[r] # "insertAttachment"
    <3>1. PICK l \in Remaining(r) : Free(l, r)
      BY DEF LockSome
    <3>2. PICK m \in Remaining(r) : ~Free(m, r)
      BY DEF LockSome, Waits
    <3>3. l # m /\ {l, m} \subseteq Needed(r)
      BY <3>1, <3>2 DEF Remaining
    <3>4. pc[r] = "insertAttachment" =>
             Needed(r) \subseteq {Lock("share", <<"block", req[r].block>>)}
      BY DEF Needed
    <3>5. QED
      BY <3>3, <3>4
  <2>4. QED
    BY <2>2, <2>3 DEF Needed, Past, Asked
<1>4. /\ locks[r] \subseteq locks'[r]
      /\ \A q \in Requests \ {r} : locks'[q] = locks[q]
  BY <1>1, <1>2 DEF RequestTypes
<1>5. QED
  BY <1>2, <1>3, <1>4, NoteBookMovingHolds

\* The blocks UpdateNote has read are there, so their names are taken.
LEMMA UpdateNoteReadBlocksHolds ==
  ASSUME OwnershipInv, NEW r \in Requests, CascadeToAttachments, UNCHANGED avatars,
         UpdateNoteReadBlocks(r)
  PROVE  OwnersInv'
<1> DEFINE old == ReadBlocks(req[r].note)
<1> USE DEF At, Goto, Tables
<1>1. /\ NotesInv /\ RequestTypes /\ RowsRefer /\ HoldsBlocks(r)
      /\ Writing(r) /\ ListedBlocksExist
  BY DEF OwnershipInv, WorkspaceInv, NotesInv, OwnersInv, HoldsOwn
<1>2. /\ pc[r] = "readBlocks" /\ req[r].op = "UpdateNote"
      /\ UNCHANGED <<notes, blocks, locks, req>>
      /\ \E next \in {"readTags", "rejected"} : pc' = [pc EXCEPT ![r] = next]
  BY DEF UpdateNoteReadBlocks
<1>3. /\ tx'[r].old = old /\ tx'[r].inserted = tx[r].inserted
      /\ \A q \in Requests \ {r} : tx'[q] = tx[q]
  BY <1>1 DEF UpdateNoteReadBlocks, RequestTypes, Tx
<1>4. OnlyBy(r)
  BY <1>1, <1>2, <1>3 DEF OnlyBy, RequestTypes, Final
<1>5. \A b \in old : Made(b) /\ BlockOf(b, req[r].note)
  BY <1>1 DEF ReadBlocks, ListedBlocksExist, RowsRefer, BlockOf
<1>6. tx[r].inserted = {}
  BY <1>1, <1>2 DEF Writing
<1>7. \A id : Made(id) => Made(id)'
  BY <1>4, MadeStays
<1>8. HoldsBlocks(r)' /\ OwnerChecked(r)'
  BY <1>1, <1>2, <1>3, <1>5, <1>6, <1>7 DEF HoldsBlocks, OwnerChecked, RequestTypes
<1>9. QED
  BY <1>2, <1>3, <1>4, <1>5, <1>6, <1>8, CascadeRespects, MovingHolds DEF Past

\* The foreign key finds the note and keeps it there until the update commits.
LEMMA UpsertMissingHolds ==
  ASSUME OwnershipInv, NEW r \in Requests, CascadeToAttachments, UNCHANGED avatars,
         UpsertMissing(r)
  PROVE  OwnersInv'
<1> DEFINE b == req[r].blocks[tx[r].at]
           n == req[r].note
<1> USE DEF At, Goto, Tables
<1>1. /\ NotesInv /\ RequestTypes /\ HoldsBlocks(r) /\ Writing(r)
  BY DEF OwnershipInv, WorkspaceInv, NotesInv, OwnersInv, HoldsOwn
<1>2. /\ pc[r] = "upsert" /\ req[r].op = "UpdateNote" /\ Locks(r)
      /\ UNCHANGED <<notes, blocks, req>>
      /\ n \in DOMAIN notes /\ b \notin DOMAIN blocks \cup tx[r].inserted
      /\ tx' = [tx EXCEPT ![r].at = @ + 1, ![r].inserted = @ \cup {b}]
      /\ \E next \in {"upsert", "update"} : pc' = [pc EXCEPT ![r] = next]
  BY DEF UpsertMissing, NextUpsert
<1>3. /\ tx'[r].old = tx[r].old /\ tx'[r].inserted = tx[r].inserted \cup {b}
      /\ \A q \in Requests \ {r} : tx'[q] = tx[q]
  BY <1>1, <1>2 DEF RequestTypes, Tx
<1>4. Lock("share", <<"note", n>>) \in locks'[r]
      /\ \A q \in Requests \ {r} : locks'[q] = locks[q]
  <2>1. n \in {m \in {n} : b \notin DOMAIN blocks \cup tx[r].inserted /\ m \in DOMAIN notes}
    BY <1>2
  <2>2. Lock("share", <<"note", n>>) \in NeededByUpsert(r)
    BY <2>1 DEF NeededByUpsert
  <2>3. Lock("share", <<"note", n>>) \in Needed(r)
    BY <1>2, <2>2 DEF Needed
  <2>4. QED
    BY <1>1, <1>2, <2>3, StatementLocks
<1>5. OnlyBy(r)
  BY <1>1, <1>2, <1>3, <1>4 DEF OnlyBy, RequestTypes, Final
<1>6. b \in tx[r].old \cup {r}
  <2>1. req[r].blocks \in Seq(BlockIds) /\ tx[r].at \in 1..Len(req[r].blocks)
    BY <1>1, <1>2, InputTypes DEF Writing, RequestTypes, Tx
  <2>2. b \in ToSet(req[r].blocks)
    BY <2>1 DEF ToSet
  <2>3. QED
    BY <1>1, <1>2, <2>2 DEF Writing, InTransaction
<1>7. \A id : Made(id) => Made(id)'
  BY <1>5, MadeStays
<1>8. HoldsBlocks(r)' /\ OwnerChecked(r)'
  BY <1>1, <1>2, <1>3, <1>4, <1>6, <1>7 DEF HoldsBlocks, OwnerChecked, RequestTypes
<1>9. \A c \in tx'[r].old \cup tx'[r].inserted : c = r \/ BlockOf(c, n)
  BY <1>2, <1>3, <1>6, KnownByRequest
<1>10. QED
  BY <1>2, <1>5, <1>8, <1>9, CascadeRespects, MovingHolds DEF Past

\* Answers that leave notes and blocks as they are.
LEMMA NoteAnswerHolds ==
  ASSUME OwnershipInv, NEW r \in Requests, CascadeToAttachments, UNCHANGED avatars,
         \/ CreateNoteOrphan(r) \/ UpsertOrphan(r) \/ CreateNoteTagsOrphan(r)
         \/ CreateTagInsert(r) \/ CreateTagTaken(r) \/ UpdateTagRow(r) \/ UpdateTagTaken(r)
         \/ DeleteTagCascade(r) \/ Victim(r)
  PROVE  OwnersInv'
<1>1. /\ pc[r] \notin Over /\ UNCHANGED <<notes, blocks>>
      /\ \E how \in Final : Ends(r, how)
  BY DEF CreateNoteOrphan, UpsertOrphan, CreateNoteTagsOrphan, CreateTagInsert, CreateTagTaken,
         UpdateTagRow, UpdateTagTaken, DeleteTagCascade, Victim, WaitsFor, Completes, RollsBack,
         Tables, At, Over, Final
<1>2. QED
  BY <1>1, CascadeRespects, QuietEndingHolds

LEMMA CreateNoteInsertHolds ==
  ASSUME OwnershipInv, NEW r \in Requests, CascadeToAttachments, UNCHANGED avatars,
         CreateNoteInsert(r)
  PROVE  OwnersInv'
<1>1. /\ pc[r] \notin Over /\ Completes(r) /\ blocks' = blocks
      /\ DOMAIN notes \subseteq DOMAIN notes'
      /\ \A n \in DOMAIN notes' : n = r \/ (n \in DOMAIN notes /\ notes'[n] = notes[n])
  BY DEF CreateNoteInsert, With, At, Over
<1>2. RequestTypes /\ RowsRefer
  BY DEF OwnershipInv, WorkspaceInv, NotesInv, OwnersInv
<1>3. req'[r] = NoInput
  BY <1>1, <1>2 DEF Completes, Ends, RequestTypes
<1>4. OnlyBy(r)
  BY <1>1, <1>2 DEF Completes, Ends, OnlyBy, RequestTypes, Final, Over
<1>5. Respects(r)
  <2>1. \A b \in BlockIds, n \in NoteIds : BlockOf(b, n)' => BlockOf(b, n)
    BY <1>1, <1>3, <1>4 DEF BlockOf, OnlyBy, NoInput
  <2>2. QED
    BY <1>1, <2>1, CascadeRespects DEF Respects
<1>6. RowsRefer'
  BY <1>1, <1>2, <1>4, MadeStays, CascadeRespects DEF RowsRefer
<1>7. QED
  BY <1>1, <1>5, <1>6, EndingHolds DEF Completes, Final

\* A block that comes with an update had been in the note before, or is new.
LEMMA CommitHolds ==
  ASSUME OwnershipInv, NEW r \in Requests, CascadeToAttachments, UNCHANGED avatars, Commit(r)
  PROVE  OwnersInv'
<1> DEFINE n == req[r].note
<1>1. RequestTypes /\ RowsRefer /\ HoldsBlocks(r)
  BY DEF OwnershipInv, WorkspaceInv, NotesInv, OwnersInv, HoldsOwn
<1>2. /\ pc[r] = "commit" /\ req[r].op = "UpdateNote" /\ Completes(r)
      /\ DOMAIN notes' = DOMAIN notes
      /\ \A m \in DOMAIN notes : notes'[m].author = notes[m].author
  BY DEF Commit, At
<1>3. \A b \in DOMAIN blocks' :
          \/ b \in DOMAIN blocks /\ blocks'[b] = blocks[b]
          \/ b \in tx[r].inserted /\ blocks'[b] = n
  BY DEF Commit
<1>4. pc'[r] \in Final /\ req'[r] = NoInput
  BY <1>1, <1>2 DEF Completes, Ends, Final, RequestTypes
<1>5. OnlyBy(r)
  BY <1>1, <1>2 DEF Completes, Ends, OnlyBy, RequestTypes, Final, Over
<1>6. Respects(r)
  <2>1. \A b \in DOMAIN blocks' : BlockOf(b, blocks'[b])
    BY <1>2, <1>3, BlocksKnown, KnownByRequest
  <2>2. \A b \in BlockIds, m \in NoteIds : BlockOf(b, m)' => BlockOf(b, m)
    BY <1>4, <1>5, <2>1 DEF BlockOf, OnlyBy, NoInput
  <2>3. QED
    BY <1>2, <2>2, CascadeRespects DEF Respects
<1>7. RowsRefer'
  <2>1. ASSUME NEW b \in DOMAIN blocks'
        PROVE  Made(b)' /\ blocks'[b] \in DOMAIN notes'
    <3>1. CASE b \in DOMAIN blocks /\ blocks'[b] = blocks[b]
      BY <1>1, <1>2, <1>5, <3>1, MadeStays DEF RowsRefer
    <3>2. CASE b \in tx[r].inserted /\ blocks'[b] = n
      <4>1. n \in DOMAIN notes /\ (b = r \/ Made(b))
        BY <1>1, <1>2, <3>2 DEF HoldsBlocks
      <4>2. Made(r)'
        BY <1>4 DEF Made, Final
      <4>3. QED
        BY <1>2, <1>5, <3>2, <4>1, <4>2, MadeStays
    <3>3. QED
      BY <1>3, <3>1, <3>2
  <2>2. QED
    BY <2>1 DEF RowsRefer, CascadeToAttachments
<1>8. QED
  BY <1>2, <1>6, <1>7, EndingHolds DEF Completes, Final, Over

\* The notes of a delete are locked against whoever is about to refer to them.
LEMMA DeleteNoteCascadeHolds ==
  ASSUME OwnershipInv, NEW r \in Requests, CascadeToAttachments, UNCHANGED avatars,
         DeleteNoteCascade(r)
  PROVE  OwnersInv'
<1> DEFINE under == Subtree(req[r].note)
<1>1. RequestTypes /\ RowsRefer /\ LocksInv
  BY DEF OwnershipInv, WorkspaceInv, NotesInv, OwnersInv
<1>2. /\ pc[r] = "cascade" /\ ~Waits(r) /\ Completes(r)
      /\ DOMAIN notes' = DOMAIN notes \ under
      /\ \A m \in DOMAIN notes' : notes'[m] = notes[m]
      /\ DOMAIN blocks' = DOMAIN blocks \ BlocksUnder(under)
      /\ \A b \in DOMAIN blocks' : blocks'[b] = blocks[b]
  BY DEF DeleteNoteCascade, At, Without
<1>3. req'[r] = NoInput
  BY <1>1, <1>2 DEF Completes, Ends, RequestTypes
<1>4. OnlyBy(r)
  BY <1>1, <1>2 DEF Completes, Ends, OnlyBy, RequestTypes, Final, Over
<1>5. ASSUME NEW q \in Requests \ {r}, NEW m \in under
      PROVE  Lock("share", <<"note", m>>) \notin locks[q]
  <2>1. Lock("erase", <<"note", m>>) \in Needed(r)
    BY <1>2 DEF Needed, NeededByCascade
  <2>2. Conflict(Lock("erase", <<"note", m>>), Lock("share", <<"note", m>>))
    BY DEF Conflict, Lock
  <2>3. QED
    BY <1>1, <1>2, <2>1, <2>2, NeededIsFree
<1>6. Respects(r)
  <2>1. \A b \in BlockIds, m \in NoteIds : BlockOf(b, m)' => BlockOf(b, m)
    BY <1>2, <1>3, <1>4 DEF BlockOf, OnlyBy, NoInput
  <2>2. QED
    BY <1>2, <1>5, <2>1, CascadeRespects DEF Respects
<1>7. RowsRefer'
  BY <1>1, <1>2, <1>4, MadeStays DEF RowsRefer, CascadeToAttachments, BlocksUnder
<1>8. QED
  BY <1>2, <1>6, <1>7, EndingHolds DEF Completes, Final, Over

LEMMA NoteBookHolds ==
  ASSUME OwnershipInv, NEW r \in Requests, NoteBookStep(r)
  PROVE  OwnersInv'
<1>1. CascadeToAttachments /\ UNCHANGED avatars /\ Advance(r)
  BY DEF NoteBookStep
<1>2. QED
  BY <1>1, NoteCallHolds, LockSomeHolds, UpdateNoteReadBlocksHolds, UpsertMissingHolds,
     NoteAnswerHolds, CreateNoteInsertHolds, CommitHolds, DeleteNoteCascadeHolds
     DEF Advance, NotesStep, TagsStep

----------------------------------------------------------------------------
(***************************************************************************)
(* Attachments                                                             *)
(***************************************************************************)

\* What checkBlockOwner finds will not change.
LEMMA OwnBlockStays ==
  ASSUME OwnershipInv, NEW user, NEW b, OwnBlock(user, b)
  PROVE  BlockStillOwn(user, b)
<1>1. /\ b \in DOMAIN blocks /\ b \in BlockIds /\ blocks[b] \in NoteIds
      /\ blocks[b] \in DOMAIN notes /\ notes[blocks[b]].author = user
      /\ Made(b) /\ Made(blocks[b])
  BY DEF OwnBlock, OwnNote, OwnershipInv, WorkspaceInv, NotesInv, TableTypes, MadeInv, OwnersInv,
         RowsRefer
<1>2. \A n \in NoteIds : BlockOf(b, n) => n = blocks[b]
  BY <1>1, BlocksKnown DEF OwnershipInv, WorkspaceInv, NotesInv, BlockOfInv
<1>3. QED
  BY <1>1, <1>2 DEF BlockStillOwn, NoteStillOwn

\* A request about files that has not stored its row yet comes to its next call.
LEMMA FileMovingHolds ==
  ASSUME OwnershipInv, NEW r \in Requests, pc[r] \notin Past,
         UNCHANGED <<Tables, locks, tx, avatars>>,
         \A q \in Requests \ {r} : pc'[q] = pc[q] /\ req'[q] = req[q],
         req'[r].op = req[r].op, req[r].op # "UpdateNote",
         \A a \in DOMAIN attachments' :
             a \in DOMAIN attachments /\ attachments'[a] = attachments[a],
         OwnerChecked(r)'
  PROVE  OwnersInv'
<1>1. OnlyBy(r)
  BY DEF OnlyBy, Past, Final
<1>2. HoldsBlocks(r)
  BY DEF OwnershipInv, OwnersInv, HoldsOwn
<1>3. HoldsBlocks(r)'
  BY <1>1, <1>2, MadeStays DEF HoldsBlocks
<1>4. QED
  BY <1>1, <1>3, MovingHolds DEF Tables

LEMMA UploadHolds ==
  ASSUME OwnershipInv, NEW r \in Requests,
         UploadReadOwner(r) \/ UploadPutFile(r) \/ UploadRefused(r)
  PROVE  OwnersInv'
<1> USE DEF At, Goto, FileVars
<1>1. PICK next : pc' = [pc EXCEPT ![r] = next]
  BY DEF UploadReadOwner, UploadPutFile, UploadRefused
<1>2. /\ pc[r] \in {"readOwner", "putFile", "insertAttachment"} /\ req[r].op = "UploadAttachment"
      /\ UNCHANGED <<Tables, locks, tx, req, avatars, attachments>>
  BY DEF UploadReadOwner, UploadPutFile, UploadRefused
<1>3. RequestTypes /\ OwnerChecked(r)
  BY DEF OwnershipInv, WorkspaceInv, NotesInv, OwnersInv, HoldsOwn
<1>4. pc'[r] = next /\ \A q \in Requests \ {r} : pc'[q] = pc[q]
  BY <1>1, <1>3 DEF RequestTypes
<1>5. /\ next \in {"putFile", "insertAttachment", "takeBack", "rejected"}
      /\ next # "rejected" => BlockStillOwn(req[r].user, req[r].block)
  BY <1>2, <1>3, <1>4, OwnBlockStays
     DEF UploadReadOwner, UploadPutFile, UploadRefused, OwnerChecked, RequestTypes
<1>6. next # "rejected" => BlockStillOwn(req[r].user, req[r].block)'
  <2>1. \A b, n : BlockOf(b, n)' => BlockOf(b, n)
    BY <1>2 DEF BlockOf, Tables
  <2>2. \A id : Made(id) => Made(id)'
    BY <1>2, <1>4 DEF Made, Final
  <2>3. QED
    BY <1>2, <1>5, <2>1, <2>2 DEF BlockStillOwn, NoteStillOwn, Tables
<1>7. OwnerChecked(r)'
  BY <1>2, <1>4, <1>5, <1>6 DEF OwnerChecked
<1>8. QED
  BY <1>2, <1>4, <1>7, FileMovingHolds DEF Past

\* The row names the block that was asked about, and the name of the request.
LEMMA UploadUnheardHolds ==
  ASSUME OwnershipInv, NEW r \in Requests, UploadUnheard(r)
  PROVE  OwnersInv'
<1> USE DEF At, Goto
<1>1. /\ pc[r] = "insertAttachment" /\ req[r].op = "UploadAttachment"
      /\ pc' = [pc EXCEPT ![r] = "takeBack"] /\ req[r].block \in DOMAIN blocks
      /\ UNCHANGED <<Tables, locks, tx, req, avatars>>
      /\ attachments' = With(attachments, r, req[r].block)
  BY DEF UploadUnheard
<1>2. RequestTypes /\ HoldsBlocks(r) /\ HoldsRows(r) /\ OwnerChecked(r)
  BY DEF OwnershipInv, WorkspaceInv, NotesInv, OwnersInv, HoldsOwn
<1>3. pc'[r] = "takeBack" /\ \A q \in Requests \ {r} : pc'[q] = pc[q]
  BY <1>1, <1>2 DEF RequestTypes
<1>4. OnlyBy(r)
  BY <1>1, <1>3 DEF OnlyBy, Final
<1>5. /\ attachments'[r] = req[r].block
      /\ \A a \in DOMAIN attachments' :
             \/ a \in DOMAIN attachments /\ attachments'[a] = attachments[a]
             \/ a = r /\ pc[r] \notin Past /\ attachments'[a] \in DOMAIN blocks
  BY <1>1 DEF With, Past
<1>6. Respects(r) /\ RowsRefer'
  BY <1>1, <1>4, <1>5, QuietRespects DEF Tables
<1>7. HoldsBlocks(r)' /\ HoldsRows(r)'
  BY <1>1, <1>2, <1>3, <1>4, <1>5, MadeStays DEF HoldsBlocks, HoldsRows, Final
<1>8. OwnerChecked(r)'
  <2>1. BlockStillOwn(req[r].user, req[r].block)
    BY <1>1, <1>2 DEF OwnerChecked
  <2>2. req[r].block \in BlockIds
    BY <1>1, <1>2, InputTypes
  <2>3. \A user : \A b \in BlockIds : BlockStillOwn(user, b) => BlockStillOwn(user, b)'
    BY <1>4, <1>6, BlockOwnerStays
  <2>4. BlockStillOwn(req[r].user, req[r].block)'
    BY <1>1, <2>1, <2>2, <2>3
  <2>5. QED
    BY <1>1, <1>3, <2>4 DEF OwnerChecked
<1>9. QED
  BY <1>4, <1>6, <1>7, <1>8, StepHolds DEF HoldsOwn

LEMMA ReadAttachmentHolds ==
  ASSUME OwnershipInv, NEW r \in Requests, ReadAttachment(r)
  PROVE  OwnersInv'
<1> USE DEF Goto
<1> DEFINE a == req[r].attachment
<1>1. /\ pc[r] = "readAttachment"
      /\ UNCHANGED <<Tables, locks, req, avatars, attachments>>
  BY DEF ReadAttachment, FileVars
<1>2. /\ RequestTypes /\ HoldsBlocks(r) /\ RowsRefer
      /\ req[r].op \in {"GetAttachment", "DeleteAttachment"}
  BY <1>1 DEF OwnershipInv, WorkspaceInv, NotesInv, Writing, OwnersInv, HoldsOwn
<1>3. /\ \A q \in Requests \ {r} : pc'[q] = pc[q] /\ tx'[q] = tx[q]
      /\ tx'[r].inserted = tx[r].inserted
      /\ \/ /\ a \in DOMAIN attachments
            /\ pc'[r] = "readBlockOwner" /\ tx'[r].old = {attachments[a]}
         \/ pc'[r] = "rejected" /\ tx'[r].old = tx[r].old
  BY <1>2 DEF ReadAttachment, RequestTypes, Tx
<1>4. OnlyBy(r)
  BY <1>1, <1>3 DEF OnlyBy, Final
<1>5. HoldsBlocks(r)' /\ OwnerChecked(r)'
  <2>1. \A id : Made(id) => Made(id)'
    BY <1>4, MadeStays
  <2>2. \A b \in DOMAIN blocks : Made(b)
    BY <1>2 DEF RowsRefer
  <2>3. tx'[r].old \subseteq DOMAIN blocks \cup tx[r].old
    BY <1>2, <1>3 DEF RowsRefer
  <2>4. QED
    BY <1>1, <1>2, <1>3, <2>1, <2>2, <2>3 DEF HoldsBlocks, OwnerChecked
<1>6. QED
  BY <1>1, <1>2, <1>4, <1>5, MovingHolds DEF Tables, Past

LEMMA FileAnswerHolds ==
  ASSUME OwnershipInv, NEW r \in Requests,
         \/ UploadInsert(r) \/ UploadTakeBack(r) \/ GetFile(r) \/ DeleteAttachmentUnheard(r)
         \/ DeleteAttachmentFile(r) \/ UpdateAvatarTakeBack(r) \/ UpdateAvatarErase(r)
  PROVE  OwnersInv'
<1>1. /\ pc[r] \notin Over /\ UNCHANGED <<notes, blocks, avatars>>
      /\ \E how \in Final : Ends(r, how)
  BY DEF UploadInsert, UploadTakeBack, GetFile, DeleteAttachmentUnheard, DeleteAttachmentFile,
         UpdateAvatarTakeBack, UpdateAvatarErase, Tables, FileVars, At, Over, Final
<1>2. \A a \in DOMAIN attachments' :
         \/ a \in DOMAIN attachments /\ attachments'[a] = attachments[a]
         \/ a = r /\ pc[r] \notin Past /\ attachments'[a] \in DOMAIN blocks
  BY DEF UploadInsert, UploadTakeBack, GetFile, DeleteAttachmentUnheard, DeleteAttachmentFile,
         UpdateAvatarTakeBack, UpdateAvatarErase, FileVars, With, Without, At, Past
<1>3. QED
  BY <1>1, <1>2, QuietEndingHolds

LEMMA ReadBlockOwnerHolds ==
  ASSUME OwnershipInv, NEW r \in Requests, ReadBlockOwner(r)
  PROVE  OwnersInv'
<1> USE DEF Goto
<1> DEFINE a == req[r].attachment
<1>1. pc[r] = "readBlockOwner" /\ UNCHANGED <<Tables, FileVars>>
  BY DEF ReadBlockOwner
<1>2. CASE Ends(r, "rejected")
  BY <1>1, <1>2, QuietEndingHolds DEF Tables, FileVars, Over, Final
<1>3. CASE ~Ends(r, "rejected")
  <2>1. PICK next \in {"getFile", "eraseAttachment"} : pc' = [pc EXCEPT ![r] = next]
    BY <1>3 DEF ReadBlockOwner
  <2>2. /\ UNCHANGED <<Tables, locks, tx, req, attachments, avatars>>
        /\ \A b \in tx[r].old : OwnBlock(req[r].user, b)
    BY <1>1, <1>3 DEF ReadBlockOwner, FileVars
  <2>3. /\ RequestTypes /\ OwnerChecked(r)
        /\ req[r].op \in {"GetAttachment", "DeleteAttachment"}
    BY <1>1 DEF OwnershipInv, WorkspaceInv, NotesInv, Writing, OwnersInv, HoldsOwn
  <2>4. pc'[r] = next /\ \A q \in Requests \ {r} : pc'[q] = pc[q]
    BY <2>1, <2>3 DEF RequestTypes
  <2>5. OwnerChecked(r)'
    <3>1. a \in DOMAIN attachments => BlockStillOwn(req[r].user, attachments[a])
      BY <1>1, <2>2, <2>3, OwnBlockStays DEF OwnerChecked
    <3>2. /\ \A b, n : BlockOf(b, n)' => BlockOf(b, n)
          /\ \A id : Made(id) => Made(id)'
      BY <1>1, <2>2, <2>4 DEF BlockOf, Tables, Made, Final
    <3>3. a \in DOMAIN attachments => BlockStillOwn(req[r].user, attachments[a])'
      BY <2>2, <3>1, <3>2 DEF BlockStillOwn, NoteStillOwn, Tables
    <3>4. QED
      BY <2>2, <2>4, <3>3 DEF OwnerChecked
  <2>6. QED
    BY <1>1, <2>2, <2>3, <2>4, <2>5, FileMovingHolds DEF Past
<1>4. QED
  BY <1>2, <1>3

LEMMA DeleteAttachmentRowHolds ==
  ASSUME OwnershipInv, NEW r \in Requests, DeleteAttachmentRow(r)
  PROVE  OwnersInv'
<1>1. /\ pc[r] = "eraseAttachment" /\ req[r].op = "DeleteAttachment"
      /\ UNCHANGED <<Tables, avatars>>
      /\ \A a \in DOMAIN attachments' :
             a \in DOMAIN attachments /\ attachments'[a] = attachments[a]
  BY DEF DeleteAttachmentRow, At, Without
<1>2. CASE Ends(r, "rejected")
  BY <1>1, <1>2, QuietEndingHolds DEF Tables, Over, Final
<1>3. CASE Goto(r, "eraseFile") /\ UNCHANGED <<locks, tx>>
  <2>1. RequestTypes
    BY DEF OwnershipInv, WorkspaceInv, NotesInv
  <2>2. /\ pc'[r] = "eraseFile" /\ req' = req
        /\ \A q \in Requests \ {r} : pc'[q] = pc[q]
    BY <1>3, <2>1 DEF Goto, RequestTypes
  <2>3. OwnerChecked(r)'
    BY <2>2 DEF OwnerChecked
  <2>4. QED
    BY <1>1, <1>3, <2>2, <2>3, FileMovingHolds DEF Past
<1>4. QED
  BY <1>2, <1>3 DEF DeleteAttachmentRow

----------------------------------------------------------------------------
(***************************************************************************)
(* Avatars                                                                 *)
(***************************************************************************)

LEMMA PictureHolds ==
  ASSUME OwnershipInv, NEW r \in Requests, UpdateAvatarRead(r) \/ UpdateAvatarPutFile(r)
  PROVE  OwnersInv'
<1> USE DEF At, Goto, FileVars
<1>1. RequestTypes
  BY DEF OwnershipInv, WorkspaceInv, NotesInv
<1>2. /\ pc[r] \in {"readUser", "putPicture"} /\ req[r].op = "UpdateAvatar"
      /\ UNCHANGED <<Tables, locks, tx, avatars, attachments>>
      /\ \E next \in {"putPicture", "updateAvatar"} : pc' = [pc EXCEPT ![r] = next]
      /\ \/ req' = req
         \/ \E k : req' = [req EXCEPT ![r].was = k]
  BY DEF UpdateAvatarRead, UpdateAvatarPutFile
<1>3. req[r] \in [op : {"UpdateAvatar"}, user : Users, was : AvatarNames]
  BY <1>1, <1>2, InputTypes
<1>4. /\ pc'[r] \in {"putPicture", "updateAvatar"} /\ req'[r].op = "UpdateAvatar"
      /\ \A q \in Requests \ {r} : pc'[q] = pc[q] /\ req'[q] = req[q]
  BY <1>1, <1>2, <1>3 DEF RequestTypes
<1>5. OwnerChecked(r)'
  BY <1>4 DEF OwnerChecked
<1>6. QED
  BY <1>2, <1>4, <1>5, FileMovingHolds DEF Past

LEMMA NamingPictureHolds ==
  ASSUME OwnershipInv, NEW r \in Requests, UpdateAvatarRow(r) \/ UpdateAvatarRefused(r)
  PROVE  OwnersInv'
<1> DEFINE user == req[r].user
<1> USE DEF At, Goto
<1>1. /\ pc[r] = "updateAvatar" /\ req[r].op = "UpdateAvatar"
      /\ UNCHANGED <<Tables, locks, tx, req, attachments>>
      /\ \E next \in {"erasePicture", "takeBackPicture"} : pc' = [pc EXCEPT ![r] = next]
      /\ avatars' = avatars \/ avatars' = [avatars EXCEPT ![user] = r]
  BY DEF UpdateAvatarRow, UpdateAvatarRefused
<1>2. RequestTypes /\ FileTypes /\ HoldsBlocks(r) /\ user \in Users
  BY <1>1, InputTypes DEF OwnershipInv, WorkspaceInv, NotesInv, OwnersInv, HoldsOwn
<1>3. pc'[r] \in {"erasePicture", "takeBackPicture"} /\ \A q \in Requests \ {r} : pc'[q] = pc[q]
  BY <1>1, <1>2 DEF RequestTypes
<1>4. OnlyBy(r)
  BY <1>1, <1>3 DEF OnlyBy, Final
<1>5. \A u \in Users : avatars'[u] = avatars[u] \/ (u = user /\ avatars'[u] = r)
  BY <1>1, <1>2 DEF FileTypes
<1>6. Respects(r) /\ RowsRefer'
  BY <1>1, <1>4, <1>5, QuietRespects DEF Tables
<1>7. r \notin DOMAIN attachments /\ \A u \in Users : avatars[u] # r
  <2>1. ~AttachmentKey(r) /\ \A u \in Users : ~AvatarKey(u, r)
    BY <1>1, KeyIsFresh DEF OwnershipInv, Past
  <2>2. QED
    BY <2>1 DEF AttachmentKey, AvatarKey
<1>8. HoldsRows(r)' /\ OwnerChecked(r)'
  BY <1>1, <1>3, <1>5, <1>7 DEF HoldsRows, OwnerChecked
<1>9. HoldsBlocks(r)'
  BY <1>1, <1>2, <1>4, MadeStays DEF HoldsBlocks
<1>10. QED
  BY <1>4, <1>6, <1>8, <1>9, StepHolds DEF HoldsOwn

----------------------------------------------------------------------------
(***************************************************************************)
(* The invariant                                                           *)
(***************************************************************************)

LEMMA OwnersInitially == WorkspaceInit => OwnersInv
<1> SUFFICES ASSUME WorkspaceInit PROVE OwnersInv
  OBVIOUS
<1> USE IdsAssumption, StartAssumption, StartFilesAssumption
        DEF WorkspaceInit, StoreInit, FileInit
<1>1. RowsRefer
  BY DEF RowsRefer, Made
<1>2. ASSUME NEW r \in Requests
      PROVE  HoldsOwn(r)
  <2>1. HoldsBlocks(r) /\ OwnerChecked(r)
    BY DEF HoldsBlocks, OwnerChecked, NoTx, NoInput
  <2>2. r \notin DOMAIN attachments /\ \A u \in Users : avatars[u] # r
    BY DEF StartFiles
  <2>3. QED
    BY <2>1, <2>2 DEF HoldsOwn, HoldsRows
<1>3. QED
  BY <1>1, <1>2 DEF OwnersInv

LEMMA OwnersStutter ==
  ASSUME OwnersInv, UNCHANGED <<vars, FileVars>>
  PROVE  OwnersInv'
<1> USE DEF vars, FileVars
<1>1. RowsRefer'
  BY DEF OwnersInv, RowsRefer, Made
<1>2. ASSUME NEW r \in Requests
      PROVE  HoldsOwn(r)'
  <2>1. HoldsBlocks(r)' /\ HoldsRows(r)'
    BY DEF OwnersInv, HoldsOwn, HoldsBlocks, HoldsRows, Made
  <2>2. OwnerChecked(r)'
    BY DEF OwnersInv, HoldsOwn, OwnerChecked, BlockStillOwn, BlockOf, NoteStillOwn, Made
  <2>3. QED
    BY <2>1, <2>2 DEF HoldsOwn
<1>3. QED
  BY <1>1, <1>2 DEF OwnersInv

LEMMA OwnersStep == OwnershipInv /\ [WorkspaceNext]_workspaceVars => OwnersInv'
<1> SUFFICES ASSUME OwnershipInv, [WorkspaceNext]_workspaceVars PROVE OwnersInv'
  OBVIOUS
<1>1. ASSUME NEW r \in Requests, AttachmentsStep(r) PROVE OwnersInv'
  BY <1>1, UploadHolds, UploadUnheardHolds, ReadAttachmentHolds, ReadBlockOwnerHolds,
     FileAnswerHolds, DeleteAttachmentRowHolds DEF AttachmentsStep
<1>2. ASSUME NEW r \in Requests, AvatarsStep(r) PROVE OwnersInv'
  BY <1>2, PictureHolds, NamingPictureHolds, FileAnswerHolds DEF AvatarsStep
<1>3. ASSUME NEW r \in Requests, Drop(r), UNCHANGED FileVars PROVE OwnersInv'
  BY <1>3, QuietEndingHolds DEF Drop, RollsBack, FileVars, Tables, Final
<1>4. QED
  BY <1>1, <1>2, <1>3, BeginHolds, NoteBookHolds, OwnersStutter
     DEF WorkspaceNext, WorkspaceStep, Quiescent, workspaceVars, OwnershipInv

LEMMA WorkspaceSpec_Ownership == WorkspaceSpec => []OwnershipInv
<1>1. WorkspaceInit => OwnershipInv
  BY WorkspaceInit_Inv, FilesInitially, OwnersInitially DEF OwnershipInv
<1>2. OwnershipInv /\ [WorkspaceNext]_workspaceVars => OwnershipInv'
  BY WorkspaceNext_Inv, FilesStep, OwnersStep DEF OwnershipInv
<1>3. QED
  BY <1>1, <1>2, PTL DEF WorkspaceSpec

----------------------------------------------------------------------------
(***************************************************************************)
(* Who takes files away                                                    *)
(***************************************************************************)

\* What is somebody else's stays: attachments and their files ...
LeavesOthersAttachments(r) ==
    \A a \in DOMAIN attachments : req[r].user # AuthorOf(blocks[attachments[a]]) =>
        /\ a \in DOMAIN attachments'
        /\ a \in files => a \in files'

\* ... and avatars.
LeavesOthersAvatars(r) ==
    \A u \in Users \ {req[r].user} :
        /\ avatars'[u] = avatars[u]
        /\ avatars[u] \in files => avatars[u] \in files'

\* The user of a block that is still the user's is the author of its note.
LEMMA StillOwnAuthor ==
  ASSUME OwnershipInv, NEW user, NEW a \in DOMAIN attachments, BlockStillOwn(user, attachments[a])
  PROVE  user = AuthorOf(blocks[attachments[a]])
<1> DEFINE b == attachments[a]
<1>1. b \in DOMAIN blocks /\ blocks[b] \in DOMAIN notes /\ blocks[b] \in NoteIds
  BY DEF OwnershipInv, OwnersInv, RowsRefer, WorkspaceInv, NotesInv, TableTypes
<1>2. BlockOf(b, blocks[b])
  BY <1>1, BlocksKnown
<1>3. QED
  BY <1>1, <1>2 DEF BlockStillOwn, NoteStillOwn, AuthorOf

\* An update deletes blocks of its note, and a cascade reaches notes of one
\* author.
LEMMA NoteStepLeavesAttachments ==
  ASSUME OwnershipInv, NEW r \in Requests, NoteBookStep(r)
  PROVE  LeavesOthersAttachments(r)
<1>1. /\ NotesInv /\ RowsRefer /\ TableTypes /\ RequestTypes /\ Checked(r) /\ Writing(r)
      /\ Belongings /\ BlockOfInv
  BY DEF OwnershipInv, WorkspaceInv, NotesInv, OwnersInv
<1>2. /\ Advance(r) /\ UNCHANGED <<files, avatars>>
      /\ \A a \in DOMAIN attachments :
             attachments[a] \in DOMAIN blocks' => a \in DOMAIN attachments'
  BY DEF NoteBookStep, CascadeToAttachments
<1>3. SUFFICES ASSUME NEW a \in DOMAIN attachments, attachments[a] \notin DOMAIN blocks'
               PROVE  req[r].user = AuthorOf(blocks[attachments[a]])
  BY <1>2 DEF LeavesOthersAttachments
<1> DEFINE b == attachments[a]
<1>4. /\ b \in DOMAIN blocks /\ b \in BlockIds
      /\ blocks[b] \in DOMAIN notes /\ blocks[b] \in NoteIds
  BY <1>1 DEF RowsRefer, TableTypes
<1>5. Commit(r) \/ DeleteNoteCascade(r)
  BY <1>2, <1>3, <1>4
     DEF Advance, NotesStep, TagsStep, LockSome, Victim, CreateNoteReadParent, CreateNoteInsert,
         CreateNoteOrphan, UpdateNoteRead, UpdateNoteReadBlocks, UpdateNoteReadTags,
         UpsertExisting, UpsertMissing, UpsertOrphan, UpdateNoteRow, DeleteBlocks,
         DeleteNoteTags, CreateNoteTags, CreateNoteTagsOrphan, DeleteNoteRead, DeleteNoteErase,
         CreateTagInsert, CreateTagTaken, UpdateTagRead, UpdateTagRow, UpdateTagTaken,
         DeleteTagRead, DeleteTagErase, DeleteTagCascade, RollsBack, Tables
<1>6. CASE Commit(r)
  <2>1. pc[r] = "commit" /\ req[r].op = "UpdateNote" /\ b \in tx[r].deleted
    BY <1>3, <1>4, <1>6 DEF Commit, At
  <2>2. BlockOf(b, req[r].note)
    BY <1>1, <2>1, KnownByRequest DEF Writing, InTransaction
  <2>3. BlockOf(b, blocks[b]) /\ req[r].note \in NoteIds
    BY <1>1, <1>4, <2>1, BlocksKnown, InputTypes
  <2>4. blocks[b] = req[r].note
    BY <1>1, <1>4, <2>2, <2>3 DEF BlockOfInv
  <2>5. QED
    BY <1>1, <1>4, <2>1, <2>4 DEF Checked, InTransaction, NoteStillOwn, AuthorOf
<1>7. CASE DeleteNoteCascade(r)
  <2>1. /\ pc[r] = "cascade" /\ req[r].op = "DeleteNote"
        /\ blocks[b] \in Subtree(req[r].note)
    BY <1>3, <1>4, <1>7 DEF DeleteNoteCascade, At, Without, BlocksUnder
  <2>2. req[r].note \in DOMAIN notes => notes[req[r].note].author = req[r].user
    BY <1>1, <2>1 DEF Checked, NoteStillOwn
  <2>3. NoNote \notin DOMAIN notes
    BY <1>1, IdsAssumption DEF TableTypes
  <2>4. \A m \in Subtree(req[r].note) : notes[m].author = req[r].user
    BY <1>1, <2>2, <2>3, SubtreeOfOneAuthor
  <2>5. QED
    BY <1>4, <2>1, <2>4 DEF AuthorOf
<1>8. QED
  BY <1>5, <1>6, <1>7

\* A delete of an attachment, and the compensation of an upload.
LEMMA AttachmentStepLeavesAttachments ==
  ASSUME OwnershipInv, NEW r \in Requests, AttachmentsStep(r)
  PROVE  LeavesOthersAttachments(r)
<1>1. HoldsRows(r) /\ OwnerChecked(r) /\ CallsInv
  BY DEF OwnershipInv, OwnersInv, HoldsOwn, FilesInv
<1>2. CASE DeleteAttachmentRow(r) \/ DeleteAttachmentUnheard(r)
  <2>1. /\ req[r].op = "DeleteAttachment" /\ pc[r] = "eraseAttachment" /\ UNCHANGED files
        /\ DOMAIN attachments' = DOMAIN attachments \ {req[r].attachment}
    BY <1>2 DEF DeleteAttachmentRow, DeleteAttachmentUnheard, At, Without
  <2>2. QED
    BY <1>1, <2>1, StillOwnAuthor DEF LeavesOthersAttachments, OwnerChecked
<1>3. CASE UploadTakeBack(r)
  <2>1. /\ req[r].op = "UploadAttachment" /\ pc[r] = "takeBack"
        /\ files' = files \ {r} /\ attachments' = attachments
    BY <1>3 DEF UploadTakeBack, At, DeleteFile
  <2>2. r \in DOMAIN attachments => BlockStillOwn(req[r].user, attachments[r])
    BY <1>1, <2>1 DEF HoldsRows, OwnerChecked, Final
  <2>3. QED
    BY <2>1, <2>2, StillOwnAuthor DEF LeavesOthersAttachments
<1>4. CASE DeleteAttachmentFile(r)
  BY <1>1, <1>4 DEF DeleteAttachmentFile, At, DeleteFile, LeavesOthersAttachments, CallsInv
<1>5. CASE UploadInsert(r) \/ UploadUnheard(r)
  BY <1>5 DEF UploadInsert, UploadUnheard, With, LeavesOthersAttachments
<1>6. QED
  BY <1>2, <1>3, <1>4, <1>5
     DEF AttachmentsStep, UploadReadOwner, UploadPutFile, UploadRefused, ReadAttachment,
         ReadBlockOwner, GetFile, PutFile, FileVars, LeavesOthersAttachments

\* A new avatar removes the one the same user had.
LEMMA AvatarStepLeavesAttachments ==
  ASSUME OwnershipInv, NEW r \in Requests, AvatarsStep(r)
  PROVE  LeavesOthersAttachments(r)
<1>1. FilesTypeInv /\ KeysInv /\ HoldsRows(r) /\ CallsInv
  BY DEF OwnershipInv, OwnersInv, HoldsOwn, FilesInv
<1>2. CASE UpdateAvatarErase(r)
  <2>1. /\ req[r].op = "UpdateAvatar" /\ UNCHANGED attachments
        /\ files \ {req[r].was} \subseteq files'
    BY <1>2 DEF UpdateAvatarErase, At, DeleteFile
  <2>2. AvatarKey(req[r].user, req[r].was) /\ req[r].user \in Users
    BY <1>1, <2>1 DEF AvatarKey, FilesTypeInv
  <2>3. req[r].was \notin DOMAIN attachments
    BY <1>1, <2>2 DEF KeysInv, AttachmentKey, FilesTypeInv
  <2>4. QED
    BY <2>1, <2>3 DEF LeavesOthersAttachments
<1>3. CASE UpdateAvatarTakeBack(r)
  <2>1. /\ pc[r] = "takeBackPicture" /\ UNCHANGED attachments
        /\ files' = files \ {r}
    BY <1>3 DEF UpdateAvatarTakeBack, At, DeleteFile
  <2>2. QED
    BY <1>1, <2>1 DEF HoldsRows, Final, LeavesOthersAttachments
<1>4. QED
  BY <1>2, <1>3
     DEF AvatarsStep, UpdateAvatarRead, UpdateAvatarPutFile, UpdateAvatarRow,
         UpdateAvatarRefused, PutFile, FileVars, LeavesOthersAttachments

\* The file of an attachment is no avatar, and an avatar is one user's.
LEMMA FileStepLeavesAvatars ==
  ASSUME OwnershipInv, NEW r \in Requests, AttachmentsStep(r) \/ AvatarsStep(r)
  PROVE  LeavesOthersAvatars(r)
<1>1. FilesTypeInv /\ KeysInv /\ HoldsRows(r) /\ CallsInv /\ FileTypes
  BY DEF OwnershipInv, OwnersInv, HoldsOwn, FilesInv, WorkspaceInv
<1>2. CASE DeleteAttachmentFile(r)
  <2>1. /\ req[r].op = "DeleteAttachment" /\ UNCHANGED avatars
        /\ files' = files \ {req[r].attachment}
    BY <1>2 DEF DeleteAttachmentFile, At, DeleteFile
  <2>2. AttachmentKey(req[r].attachment) /\ req[r].attachment \in Keys
    BY <1>1, <2>1 DEF AttachmentKey, FilesTypeInv
  <2>3. \A u \in Users : avatars[u] # req[r].attachment
    BY <1>1, <2>2 DEF KeysInv, AvatarKey
  <2>4. QED
    BY <2>1, <2>3 DEF LeavesOthersAvatars
<1>3. CASE UploadTakeBack(r) \/ UpdateAvatarTakeBack(r)
  <2>1. /\ pc[r] \in {"takeBack", "takeBackPicture"} /\ UNCHANGED avatars
        /\ files' = files \ {r}
    BY <1>3 DEF UploadTakeBack, UpdateAvatarTakeBack, At, DeleteFile
  <2>2. \A u \in Users \ {req[r].user} : avatars[u] # r
    BY <1>1, <2>1 DEF HoldsRows, Final
  <2>3. QED
    BY <2>1, <2>2 DEF LeavesOthersAvatars
<1>4. CASE UpdateAvatarErase(r)
  <2>1. /\ req[r].op = "UpdateAvatar" /\ UNCHANGED avatars
        /\ files \ {req[r].was} \subseteq files'
    BY <1>4 DEF UpdateAvatarErase, At, DeleteFile
  <2>2. AvatarKey(req[r].user, req[r].was) /\ req[r].user \in Users
    BY <1>1, <2>1 DEF AvatarKey, FilesTypeInv
  <2>3. ASSUME NEW u \in Users \ {req[r].user}, avatars[u] \in files
        PROVE  avatars[u] # req[r].was
    <3>1. avatars[u] \in Keys /\ AvatarKey(u, avatars[u])
      BY <1>1, <2>3 DEF FileTypes, AvatarKey
    <3>2. QED
      BY <1>1, <2>2, <2>3, <3>1 DEF KeysInv
  <2>4. QED
    BY <2>1, <2>3 DEF LeavesOthersAvatars
<1>5. CASE UpdateAvatarRow(r) \/ UpdateAvatarRefused(r)
  <2>1. /\ avatars' = avatars \/ avatars' = [avatars EXCEPT ![req[r].user] = r]
        /\ UNCHANGED files
    BY <1>5 DEF UpdateAvatarRow, UpdateAvatarRefused
  <2>2. QED
    BY <1>1, <2>1 DEF FileTypes, LeavesOthersAvatars
<1>6. CASE AttachmentsStep(r) /\ ~UploadTakeBack(r) /\ ~DeleteAttachmentFile(r)
  BY <1>6
     DEF AttachmentsStep, UploadReadOwner, UploadPutFile, UploadInsert, UploadRefused,
         UploadUnheard, ReadAttachment, ReadBlockOwner, GetFile, DeleteAttachmentRow,
         DeleteAttachmentUnheard, PutFile, FileVars, LeavesOthersAvatars
<1>7. QED
  BY <1>2, <1>3, <1>4, <1>5, <1>6
     DEF AvatarsStep, UpdateAvatarRead, UpdateAvatarPutFile, PutFile, FileVars,
         LeavesOthersAvatars

\* A step moves the request that takes it, and no other.
LEMMA StepMovesOne ==
  ASSUME OwnershipInv, NEW q \in Requests, WorkspaceStep(q), NEW r \in Requests \ {q}
  PROVE  pc'[r] = pc[r]
<1>1. pc \in [Requests -> Label]
  BY DEF OwnershipInv, WorkspaceInv, NotesInv, RequestTypes
<1>2. CASE NotesStep(q) \/ TagsStep(q)
  BY <1>1, <1>2, NotesStepMovesOne
<1>3. CASE LockSome(q) \/ Victim(q)
  BY <1>1, <1>3 DEF LockSome, Victim, RollsBack, Ends
<1>4. CASE AttachmentsStep(q) \/ AvatarsStep(q)
  <2>1. \E next : pc' = [pc EXCEPT ![q] = next]
    BY <1>4
       DEF AttachmentsStep, UploadReadOwner, UploadPutFile, UploadInsert, UploadRefused,
           UploadUnheard, UploadTakeBack, ReadAttachment, ReadBlockOwner, GetFile,
           DeleteAttachmentRow, DeleteAttachmentUnheard, DeleteAttachmentFile, AvatarsStep,
           UpdateAvatarRead, UpdateAvatarPutFile, UpdateAvatarRow, UpdateAvatarRefused,
           UpdateAvatarTakeBack, UpdateAvatarErase, Goto, Ends
  <2>2. QED
    BY <1>1, <2>1
<1>5. QED
  BY <1>2, <1>3, <1>4 DEF WorkspaceStep, NoteBookStep, Advance

\* Whatever overlaps and fails, attachments, their files and avatars are taken
\* away in requests of their user only: checkBlockOwner, asked once and without
\* a lock, still holds when the row is deleted, a cascade reaches blocks of one
\* author, and the file a compensation removes is the request's own.
THEOREM FilesAreTheOwners == WorkspaceSpec => OnlyTheOwner
<1>1. OwnershipInv /\ [WorkspaceNext]_workspaceVars
        => [\A r \in Requests : (pc'[r] # pc[r] /\ req[r].op # "none") =>
              /\ \A a \in DOMAIN attachments :
                    req[r].user # AuthorOf(blocks[attachments[a]]) =>
                        /\ a \in DOMAIN attachments'
                        /\ a \in files => a \in files'
              /\ \A u \in Users \ {req[r].user} :
                    /\ avatars'[u] = avatars[u]
                    /\ avatars[u] \in files => avatars[u] \in files']_workspaceVars
  <2> SUFFICES ASSUME OwnershipInv, WorkspaceNext, NEW r \in Requests, pc'[r] # pc[r]
               PROVE  LeavesOthersAttachments(r) /\ LeavesOthersAvatars(r)
    BY DEF LeavesOthersAttachments, LeavesOthersAvatars
  <2>1. CASE UNCHANGED FileVars
    BY <2>1 DEF FileVars, LeavesOthersAttachments, LeavesOthersAvatars
  <2>2. CASE \E q \in Requests : WorkspaceStep(q)
    <3>1. PICK q \in Requests : WorkspaceStep(q)
      BY <2>2
    <3>2. q = r
      BY <3>1, StepMovesOne
    <3>3. CASE NoteBookStep(r)
      BY <3>3, NoteStepLeavesAttachments DEF NoteBookStep, LeavesOthersAvatars
    <3>4. CASE AttachmentsStep(r) \/ AvatarsStep(r)
      BY <3>4, AttachmentStepLeavesAttachments, AvatarStepLeavesAttachments,
         FileStepLeavesAvatars
    <3>5. QED
      BY <3>1, <3>2, <3>3, <3>4 DEF WorkspaceStep
  <2>3. QED
    BY <2>1, <2>2
       DEF WorkspaceNext, WorkspaceBegin, NoteBookBegin, AttachmentsBegin, UploadBegin,
           ReadAttachmentBegin, UpdateAvatarBegin
<1>2. QED
  BY <1>1, WorkspaceSpec_Ownership, PTL DEF WorkspaceSpec, OnlyTheOwner

----------------------------------------------------------------------------
(***************************************************************************)
(* Stray blocks                                                            *)
(***************************************************************************)

\* Every invariant so far holds before and after the step, and the step has taken
\* down the notes with two updates in hand.
Around ==
    /\ OwnershipInv /\ OwnershipInv'
    /\ StrayInv
    /\ overlapped' = overlapped \cup Overlapping'

\* Two updates of one note overlap.
LEMMA TwoUpdatesOverlap ==
  ASSUME NEW n \in NoteIds, NEW q \in UpdatesInHand(n), NEW r \in UpdatesInHand(n) \ {q}
  PROVE  n \in Overlapping
<1> DEFINE S == UpdatesInHand(n)
<1>1. IsFiniteSet(S)
  BY IdsAssumption, FS_Subset DEF UpdatesInHand, InFlight
<1>2. Cardinality(S) \in Nat
  BY <1>1, FS_CardinalityType
<1>3. Cardinality(S) # 0
  BY <1>1, FS_EmptySet
<1>4. Cardinality(S) # 1
  BY <1>1, FS_Singleton
<1>5. Cardinality(S) > 1
  BY <1>2, <1>3, <1>4
<1>6. QED
  BY <1>5 DEF Overlapping

\* A step that adds no block and rewrites no list.
Additionless ==
    /\ \A b \in DOMAIN blocks' : b \in DOMAIN blocks /\ blocks'[b] = blocks[b]
    /\ \A n \in DOMAIN notes \cap DOMAIN notes' : notes'[n].list = notes[n].list

LEMMA ShrinkingStray ==
  ASSUME Around, NEW r \in Requests, OnlyBy(r), Additionless, HasAll(r)'
  PROVE  StrayInv'
<1>1. Overlapping' \subseteq overlapped' /\ overlapped \subseteq overlapped'
  BY DEF Around
<1>2. ASSUME NEW b \in DOMAIN blocks'
      PROVE  Listed(b)' \/ blocks'[b] \in overlapped'
  <2>1. blocks'[b] = blocks[b] /\ (Listed(b) \/ blocks[b] \in overlapped)
    BY DEF Around, StrayInv, Additionless
  <2>2. blocks'[b] \in DOMAIN notes'
    BY DEF Around, OwnershipInv, OwnersInv, RowsRefer
  <2>3. QED
    BY <1>1, <2>1, <2>2 DEF Listed, Additionless
<1>3. ASSUME NEW q \in Requests \ {r} PROVE HasAll(q)'
  <2>1. HasAll(q) /\ pc'[q] = pc[q] /\ req'[q] = req[q] /\ tx'[q] = tx[q]
    BY DEF Around, StrayInv, OnlyBy
  <2>2. \A n : BlocksUnder({n})' \subseteq BlocksUnder({n})
    BY DEF BlocksUnder, Additionless
  <2>3. QED
    BY <1>1, <2>1, <2>2 DEF HasAll
<1>4. QED
  BY <1>1, <1>2, <1>3 DEF StrayInv

\* A request that is no update, any more or at all, has nothing to know.
LEMMA OtherwiseStray ==
  ASSUME Around, NEW r \in Requests, OnlyBy(r), Additionless, req'[r].op # "UpdateNote"
  PROVE  StrayInv'
<1>1. HasAll(r)'
  BY DEF HasAll
<1>2. QED
  BY <1>1, ShrinkingStray

LEMMA EndingStray ==
  ASSUME Around, NEW r \in Requests, pc[r] \notin Over, NEW how, Ends(r, how), Additionless
  PROVE  StrayInv'
<1>1. RequestTypes
  BY DEF Around, OwnershipInv, WorkspaceInv, NotesInv
<1>2. OnlyBy(r) /\ req'[r].op # "UpdateNote"
  BY <1>1 DEF Ends, OnlyBy, RequestTypes, Final, Over, NoInput
<1>3. QED
  BY <1>2, OtherwiseStray

\* A handler that comes to its next call knows what it knew, or what it has just
\* found out.
LEMMA MovingStray ==
  ASSUME Around, NEW r \in Requests, pc[r] \notin Over, UNCHANGED <<notes, blocks, req>>,
         \A q \in Requests \ {r} : pc'[q] = pc[q] /\ tx'[q] = tx[q] /\ locks'[q] = locks[q],
         tx'[r].inserted \subseteq tx[r].inserted \cup ToSet(req[r].blocks),
         req[r].op = "UpdateNote" /\ req[r].note \notin overlapped =>
             \A b \in BlocksUnder({req[r].note}) :
                 /\ pc'[r] \in {"readTags"} \cup InTransaction => b \in tx'[r].old
                 /\ pc'[r] \in {"deleteTags", "insertTags", "commit"} =>
                       b \in ToSet(req[r].blocks) \cup tx'[r].deleted
  PROVE  StrayInv'
<1>1. OnlyBy(r)
  BY DEF OnlyBy, Final, Over
<1>2. Additionless
  BY DEF Additionless
<1>3. HasAll(r) /\ overlapped \subseteq overlapped'
  BY DEF Around, StrayInv
<1>4. BlocksUnder({req[r].note})' = BlocksUnder({req[r].note})
  BY DEF BlocksUnder
<1>5. HasAll(r)'
  BY <1>3, <1>4 DEF HasAll
<1>6. QED
  BY <1>1, <1>2, <1>5, ShrinkingStray

\* An update that arrives has read nothing.
LEMMA BeginStray ==
  ASSUME Around, NEW r \in Requests, NEW input, NEW next, Admit(r, input, next),
         input.op = "UpdateNote" => next = "readNote"
  PROVE  StrayInv'
<1>1. RequestTypes /\ tx[r] = NoTx
  BY DEF Around, OwnershipInv, WorkspaceInv, NotesInv, IdleInv, Admit
<1>2. /\ pc[r] = "idle" /\ pc'[r] = next /\ req'[r] = input /\ tx'[r] = NoTx
      /\ UNCHANGED <<notes, blocks>>
  BY <1>1 DEF Admit, RequestTypes, Tables
<1>3. OnlyBy(r)
  BY <1>1 DEF Admit, OnlyBy, RequestTypes, Final
<1>4. Additionless
  BY <1>2 DEF Additionless
<1>5. HasAll(r)'
  BY <1>2 DEF HasAll, NoTx, InTransaction
<1>6. QED
  BY <1>3, <1>4, <1>5, ShrinkingStray

LEMMA WorkspaceBeginStray ==
  ASSUME Around, NEW r \in Requests, WorkspaceBegin(r)
  PROVE  StrayInv'
<1>1. CASE CreateNoteBegin(r)
  <2>1. PICK user \in Users, parent \in SeenNotes \cup {NoNote} :
            Admit(r, [op |-> "CreateNote", user |-> user, parent |-> parent],
                  IF parent = NoNote THEN "insertNote" ELSE "readParent")
    BY <1>1 DEF CreateNoteBegin
  <2>2. [op |-> "CreateNote", user |-> user, parent |-> parent].op = "CreateNote"
    OBVIOUS
  <2>3. QED
    BY <2>1, <2>2, BeginStray
<1>2. CASE UpdateNoteBegin(r)
  BY <1>2, BeginStray DEF UpdateNoteBegin
<1>3. CASE DeleteNoteBegin(r)
  BY <1>3, BeginStray DEF DeleteNoteBegin
<1>4. CASE CreateTagBegin(r)
  BY <1>4, BeginStray DEF CreateTagBegin
<1>5. CASE UpdateTagBegin(r)
  BY <1>5, BeginStray DEF UpdateTagBegin
<1>6. CASE DeleteTagBegin(r)
  BY <1>6, BeginStray DEF DeleteTagBegin
<1>7. CASE UploadBegin(r)
  BY <1>7, BeginStray DEF UploadBegin
<1>8. CASE ReadAttachmentBegin(r)
  BY <1>8, BeginStray DEF ReadAttachmentBegin
<1>9. CASE UpdateAvatarBegin(r)
  <2>1. PICK user \in Users, allowed \in BOOLEAN :
            Admit(r, [op |-> "UpdateAvatar", user |-> user, was |-> NoAvatar],
                  IF allowed THEN "readUser" ELSE "rejected")
    BY <1>9 DEF UpdateAvatarBegin
  <2>2. [op |-> "UpdateAvatar", user |-> user, was |-> NoAvatar].op = "UpdateAvatar"
    OBVIOUS
  <2>3. QED
    BY <2>1, <2>2, BeginStray
<1>10. QED
  BY <1>1, <1>2, <1>3, <1>4, <1>5, <1>6, <1>7, <1>8, <1>9
     DEF WorkspaceBegin, NoteBookBegin, Begin, NotesBegin, TagsBegin, AttachmentsBegin

\* Reading the blocks: as long as the note has had one update at a time, all its
\* blocks are listed.
LEMMA ReadBlocksStray ==
  ASSUME Around, NEW r \in Requests, UpdateNoteReadBlocks(r)
  PROVE  StrayInv'
<1>1. RequestTypes /\ HasAll(r)
  BY DEF Around, OwnershipInv, WorkspaceInv, NotesInv, StrayInv
<1>2. /\ pc[r] = "readBlocks" /\ UNCHANGED <<notes, blocks, locks, req>>
      /\ \E next \in {"readTags", "rejected"} : pc' = [pc EXCEPT ![r] = next]
      /\ tx' = [tx EXCEPT ![r].old = ReadBlocks(req[r].note)]
  BY DEF UpdateNoteReadBlocks, At, Goto, Tables
<1>3. /\ tx'[r].old = ReadBlocks(req[r].note) /\ tx'[r].inserted = tx[r].inserted
      /\ pc'[r] \in {"readTags", "rejected"}
      /\ \A q \in Requests \ {r} : pc'[q] = pc[q] /\ tx'[q] = tx[q] /\ locks'[q] = locks[q]
  BY <1>1, <1>2 DEF RequestTypes, Tx
<1>4. req[r].note \notin overlapped => BlocksUnder({req[r].note}) \subseteq tx'[r].old
  BY <1>3 DEF Around, StrayInv, Listed, BlocksUnder, ReadBlocks
<1>5. QED
  BY <1>2, <1>3, <1>4, MovingStray DEF Over

\* The loop inserts blocks of the list only.
LEMMA UpsertMissingStray ==
  ASSUME Around, NEW r \in Requests, UpsertMissing(r)
  PROVE  StrayInv'
<1> DEFINE b == req[r].blocks[tx[r].at]
<1>1. RequestTypes /\ HasAll(r) /\ Writing(r) /\ NotesInv
  BY DEF Around, OwnershipInv, WorkspaceInv, NotesInv, StrayInv
<1>2. /\ pc[r] = "upsert" /\ req[r].op = "UpdateNote" /\ Locks(r)
      /\ UNCHANGED <<notes, blocks, req>>
      /\ tx' = [tx EXCEPT ![r].at = @ + 1, ![r].inserted = @ \cup {b}]
      /\ \E next \in {"upsert", "update"} : pc' = [pc EXCEPT ![r] = next]
  BY DEF UpsertMissing, NextUpsert, At, Goto, Tables
<1>3. /\ tx'[r].old = tx[r].old /\ tx'[r].inserted = tx[r].inserted \cup {b}
      /\ pc'[r] \in {"upsert", "update"}
      /\ \A q \in Requests \ {r} : pc'[q] = pc[q] /\ tx'[q] = tx[q]
  BY <1>1, <1>2 DEF RequestTypes, Tx
<1>4. \A q \in Requests \ {r} : locks'[q] = locks[q]
  BY <1>1, <1>2, StatementLocks
<1>5. b \in ToSet(req[r].blocks)
  <2>1. req[r].blocks \in Seq(BlockIds) /\ tx[r].at \in 1..Len(req[r].blocks)
    BY <1>1, <1>2, InputTypes DEF Writing, RequestTypes, Tx
  <2>2. QED
    BY <2>1 DEF ToSet
<1>6. req[r].note \notin overlapped => BlocksUnder({req[r].note}) \subseteq tx'[r].old
  BY <1>1, <1>2, <1>3 DEF HasAll, InTransaction
<1>7. QED
  BY <1>2, <1>3, <1>4, <1>5, <1>6, MovingStray DEF Over

\* The delete takes all blocks the request does not list, as far as the request
\* has read them.
LEMMA DeleteBlocksStray ==
  ASSUME Around, NEW r \in Requests, DeleteBlocks(r)
  PROVE  StrayInv'
<1> DEFINE gone == (tx[r].old \ ToSet(req[r].blocks)) \cap DOMAIN blocks
<1>1. RequestTypes /\ HasAll(r) /\ NotesInv
  BY DEF Around, OwnershipInv, WorkspaceInv, NotesInv, StrayInv
<1>2. /\ pc[r] = "deleteBlocks" /\ req[r].op = "UpdateNote" /\ Locks(r)
      /\ UNCHANGED <<notes, blocks, req>>
      /\ tx' = [tx EXCEPT ![r].deleted = gone]
      /\ pc' = [pc EXCEPT ![r] = "deleteTags"]
  BY DEF DeleteBlocks, At, Goto, Tables
<1>3. /\ tx'[r].old = tx[r].old /\ tx'[r].inserted = tx[r].inserted
      /\ tx'[r].deleted = gone
      /\ \A q \in Requests \ {r} : pc'[q] = pc[q] /\ tx'[q] = tx[q]
  BY <1>1, <1>2 DEF RequestTypes, Tx
<1>4. \A q \in Requests \ {r} : locks'[q] = locks[q]
  BY <1>1, <1>2, StatementLocks
<1>5. req[r].note \notin overlapped => BlocksUnder({req[r].note}) \subseteq tx[r].old
  BY <1>1, <1>2 DEF HasAll, InTransaction
<1>6. req[r].note \notin overlapped =>
          BlocksUnder({req[r].note}) \subseteq ToSet(req[r].blocks) \cup gone
  BY <1>5 DEF BlocksUnder
<1>7. QED
  BY <1>2, <1>3, <1>4, <1>5, <1>6, MovingStray DEF Over

\* The update of the row goes on to the delete unless there is nothing to delete.
LEMMA UpdateNoteRowStray ==
  ASSUME Around, NEW r \in Requests, UpdateNoteRow(r)
  PROVE  StrayInv'
<1>1. RequestTypes /\ HasAll(r) /\ NotesInv
  BY DEF Around, OwnershipInv, WorkspaceInv, NotesInv, StrayInv
<1>2. /\ pc[r] = "update" /\ req[r].op = "UpdateNote" /\ Locks(r)
      /\ UNCHANGED <<notes, blocks, req, tx>>
      /\ \/ pc' = [pc EXCEPT ![r] = "deleteTags"] /\ tx[r].old \subseteq ToSet(req[r].blocks)
         \/ pc' = [pc EXCEPT ![r] = "deleteBlocks"]
  BY DEF UpdateNoteRow, At, Goto, Tables
<1>3. /\ \A q \in Requests \ {r} : pc'[q] = pc[q] /\ locks'[q] = locks[q]
      /\ \/ pc'[r] = "deleteTags" /\ tx[r].old \subseteq ToSet(req[r].blocks)
         \/ pc'[r] = "deleteBlocks"
  BY <1>1, <1>2, StatementLocks DEF RequestTypes
<1>4. req[r].note \notin overlapped => BlocksUnder({req[r].note}) \subseteq tx[r].old
  BY <1>1, <1>2 DEF HasAll, InTransaction
<1>5. QED
  BY <1>2, <1>3, <1>4, MovingStray DEF Over

\* Calls after which the request knows what it knew before.
LEMMA NoteCallStray ==
  ASSUME Around, NEW r \in Requests,
         \/ CreateNoteReadParent(r) \/ UpdateNoteRead(r) \/ DeleteNoteRead(r)
         \/ UpdateTagRead(r) \/ DeleteTagRead(r) \/ UpdateNoteReadTags(r)
         \/ UpsertExisting(r) \/ DeleteNoteTags(r) \/ CreateNoteTags(r)
         \/ DeleteNoteErase(r) \/ DeleteTagErase(r)
  PROVE  StrayInv'
<1>1. RequestTypes /\ HasAll(r) /\ NotesInv
  BY DEF Around, OwnershipInv, WorkspaceInv, NotesInv, StrayInv
<1>2. /\ pc[r] \notin Over
      /\ UNCHANGED <<notes, blocks, req>>
  BY DEF CreateNoteReadParent, UpdateNoteRead, DeleteNoteRead, UpdateTagRead, DeleteTagRead,
         UpdateNoteReadTags, UpsertExisting, DeleteNoteTags, CreateNoteTags,
         DeleteNoteErase, DeleteTagErase, Over, At, Goto, Tables
<1>3. UNCHANGED locks \/ Locks(r)
  BY DEF CreateNoteReadParent, UpdateNoteRead, DeleteNoteRead, UpdateTagRead, DeleteTagRead,
         UpdateNoteReadTags, UpsertExisting, DeleteNoteTags, CreateNoteTags,
         DeleteNoteErase, DeleteTagErase
<1>4. \/ UNCHANGED tx
      \/ \E found : tx' = [tx EXCEPT ![r].tags = found]
      \/ tx' = [tx EXCEPT ![r].at = @ + 1]
  BY DEF CreateNoteReadParent, UpdateNoteRead, DeleteNoteRead, UpdateTagRead, DeleteTagRead,
         UpdateNoteReadTags, UpsertExisting, DeleteNoteTags, CreateNoteTags,
         DeleteNoteErase, DeleteTagErase
<1>5. PICK next :
          /\ pc' = [pc EXCEPT ![r] = next]
          /\ req[r].op = "UpdateNote" /\ next \in {"readTags"} \cup InTransaction =>
                pc[r] \in {"readTags"} \cup InTransaction
          /\ req[r].op = "UpdateNote" /\ next \in {"deleteTags", "insertTags", "commit"} =>
                pc[r] \in {"deleteTags", "insertTags", "commit"}
  BY DEF CreateNoteReadParent, UpdateNoteRead, DeleteNoteRead, UpdateTagRead, DeleteTagRead,
         UpdateNoteReadTags, UpsertExisting, DeleteNoteTags, CreateNoteTags,
         DeleteNoteErase, DeleteTagErase, NextUpsert, InTransaction, At, Goto
<1>6. /\ tx'[r].old = tx[r].old /\ tx'[r].inserted = tx[r].inserted
      /\ tx'[r].deleted = tx[r].deleted /\ pc'[r] = next
      /\ \A q \in Requests \ {r} : tx'[q] = tx[q] /\ pc'[q] = pc[q] /\ locks'[q] = locks[q]
  BY <1>1, <1>3, <1>4, <1>5, StatementLocks DEF RequestTypes, Tx
<1>7. QED
  BY <1>1, <1>2, <1>5, <1>6, MovingStray DEF HasAll

\* A statement that waits knows what it knew before.
LEMMA LockSomeStray ==
  ASSUME Around, NEW r \in Requests, LockSome(r)
  PROVE  StrayInv'
<1>1. RequestTypes /\ HasAll(r)
  BY DEF Around, OwnershipInv, WorkspaceInv, NotesInv, StrayInv
<1>2. /\ pc[r] \notin Over /\ UNCHANGED <<notes, blocks, req, tx, pc>>
      /\ \A q \in Requests \ {r} : locks'[q] = locks[q]
  BY <1>1 DEF LockSome, Tables, RequestTypes
<1>3. QED
  BY <1>1, <1>2, MovingStray DEF HasAll

\* Answers that add no block and rewrite no list.
LEMMA NoteAnswerStray ==
  ASSUME Around, NEW r \in Requests,
         \/ CreateNoteInsert(r) \/ CreateNoteOrphan(r) \/ UpsertOrphan(r)
         \/ CreateNoteTagsOrphan(r) \/ DeleteNoteCascade(r) \/ CreateTagInsert(r)
         \/ CreateTagTaken(r) \/ UpdateTagRow(r) \/ UpdateTagTaken(r) \/ DeleteTagCascade(r)
         \/ Victim(r) \/ Drop(r)
  PROVE  StrayInv'
<1>1. MadeInv
  BY DEF Around, OwnershipInv, WorkspaceInv, NotesInv
<1>2. pc[r] \notin Over /\ \E how : Ends(r, how)
  BY DEF CreateNoteInsert, CreateNoteOrphan, UpsertOrphan, CreateNoteTagsOrphan,
         DeleteNoteCascade, CreateTagInsert, CreateTagTaken, UpdateTagRow, UpdateTagTaken,
         DeleteTagCascade, Victim, WaitsFor, Drop, Completes, RollsBack, At, Over
<1>3. CASE CreateNoteInsert(r)
  <2>1. r \notin DOMAIN notes
    BY <1>1, <1>2 DEF MadeInv, Made, Final, Over
  <2>2. Additionless
    BY <1>3, <2>1 DEF CreateNoteInsert, With, Additionless
  <2>3. QED
    BY <1>2, <2>2, EndingStray
<1>4. CASE DeleteNoteCascade(r)
  <2>1. Additionless
    BY <1>4 DEF DeleteNoteCascade, Without, Additionless
  <2>2. QED
    BY <1>2, <2>1, EndingStray
<1>5. CASE ~CreateNoteInsert(r) /\ ~DeleteNoteCascade(r)
  <2>1. UNCHANGED <<notes, blocks>>
    BY <1>5
       DEF CreateNoteOrphan, UpsertOrphan, CreateNoteTagsOrphan, CreateTagInsert,
           CreateTagTaken, UpdateTagRow, UpdateTagTaken, DeleteTagCascade, Victim, Drop,
           RollsBack, Tables
  <2>2. Additionless
    BY <2>1 DEF Additionless
  <2>3. QED
    BY <1>2, <2>2, EndingStray
<1>6. QED
  BY <1>3, <1>4, <1>5

\* What a commit leaves of the note is what it lists, if the note was the
\* update's alone; if it was not, that is on record.
LEMMA CommitStray ==
  ASSUME Around, NEW r \in Requests, Commit(r)
  PROVE  StrayInv'
<1> DEFINE n == req[r].note
<1>1. /\ RequestTypes /\ RowsRefer /\ RowsRefer' /\ HasAll(r) /\ Overlapping \subseteq overlapped
      /\ overlapped \subseteq overlapped' /\ Overlapping' \subseteq overlapped'
  BY DEF Around, OwnershipInv, WorkspaceInv, NotesInv, OwnersInv, StrayInv
<1>2. /\ pc[r] = "commit" /\ req[r].op = "UpdateNote" /\ Completes(r)
      /\ DOMAIN notes' = DOMAIN notes
      /\ \A m \in DOMAIN notes : m # n => notes'[m] = notes[m]
      /\ DOMAIN blocks' = (DOMAIN blocks \cup tx[r].inserted) \ tx[r].deleted
      /\ \A b \in DOMAIN blocks' :
             blocks'[b] = IF b \in DOMAIN blocks THEN blocks[b] ELSE n
  BY DEF Commit, At
<1>3. n \in DOMAIN notes => notes'[n].list = req[r].blocks
  <2>1. \A m \in DOMAIN notes : notes[m] \in Note
    BY DEF Around, OwnershipInv, WorkspaceInv, NotesInv, TableTypes
  <2>2. QED
    BY <2>1 DEF Commit, Note
<1>4. OnlyBy(r) /\ req'[r].op # "UpdateNote"
  BY <1>1, <1>2 DEF Completes, Ends, OnlyBy, RequestTypes, Final, Over, NoInput
<1>5. ASSUME NEW b \in DOMAIN blocks', ~(blocks'[b] \in overlapped')
      PROVE  Listed(b)'
  <2>1. CASE b \in DOMAIN blocks /\ blocks[b] # n
    <3>1. blocks'[b] = blocks[b] /\ Listed(b)
      BY <1>1, <1>2, <1>5, <2>1 DEF Around, StrayInv
    <3>2. QED
      BY <1>2, <2>1, <3>1 DEF Listed
  <2>2. CASE b \in DOMAIN blocks /\ blocks[b] = n
    <3>1. b \in ToSet(req[r].blocks)
      BY <1>1, <1>2, <1>5, <2>2 DEF HasAll, BlocksUnder
    <3>2. n \in DOMAIN notes
      BY <1>1, <2>2 DEF RowsRefer
    <3>3. QED
      BY <1>2, <1>3, <2>2, <3>1, <3>2 DEF Listed
  <2>3. CASE b \notin DOMAIN blocks
    <3>1. blocks'[b] = n /\ b \in ToSet(req[r].blocks)
      BY <1>1, <1>2, <2>3 DEF HasAll
    <3>2. n \in DOMAIN notes
      BY <1>1, <1>2, <3>1 DEF RowsRefer
    <3>3. QED
      BY <1>2, <1>3, <3>1, <3>2 DEF Listed
  <2>4. QED
    BY <2>1, <2>2, <2>3
<1>6. ASSUME NEW q \in Requests \ {r} PROVE HasAll(q)'
  <2>1. HasAll(q) /\ pc'[q] = pc[q] /\ req'[q] = req[q] /\ tx'[q] = tx[q]
    BY <1>4 DEF Around, StrayInv, OnlyBy
  <2>2. CASE req[q].note # n
    <3>1. \A m : m # n => BlocksUnder({m})' \subseteq BlocksUnder({m})
      BY <1>2 DEF BlocksUnder
    <3>2. QED
      BY <1>1, <2>1, <2>2, <3>1 DEF HasAll
  <2>3. CASE req[q].note = n /\ req[q].op = "UpdateNote" /\ pc[q] \notin Over
    <3>1. n \in NoteIds
      BY <1>1, <1>2, InputTypes
    <3>2. q \in UpdatesInHand(n) /\ r \in UpdatesInHand(n)
      BY <1>2, <2>3 DEF UpdatesInHand, InFlight, Over
    <3>3. n \in overlapped'
      BY <1>1, <3>1, <3>2, TwoUpdatesOverlap
    <3>4. QED
      BY <2>1, <2>3, <3>3 DEF HasAll
  <2>4. CASE req[q].op # "UpdateNote" \/ pc[q] \in Over
    BY <2>1, <2>4 DEF HasAll, Over, InTransaction
  <2>5. QED
    BY <2>2, <2>3, <2>4
<1>7. HasAll(r)'
  BY <1>4 DEF HasAll
<1>8. QED
  BY <1>1, <1>5, <1>6, <1>7 DEF StrayInv

\* Attachments and avatars have no part in it.
LEMMA FileStepStray ==
  ASSUME Around, NEW r \in Requests, AttachmentsStep(r) \/ AvatarsStep(r)
  PROVE  StrayInv'
<1> DEFINE Proceeds == UNCHANGED locks /\ \E next : pc' = [pc EXCEPT ![r] = next]
<1>1. RequestTypes /\ Writing(r)
  BY DEF Around, OwnershipInv, WorkspaceInv, NotesInv
<1>2. UNCHANGED <<notes, blocks>> /\ pc[r] \notin Over /\ req[r].op # "UpdateNote"
  BY <1>1
     DEF AttachmentsStep, UploadReadOwner, UploadPutFile, UploadInsert, UploadRefused,
         UploadUnheard, UploadTakeBack, ReadAttachment, ReadBlockOwner, GetFile,
         DeleteAttachmentRow, DeleteAttachmentUnheard, DeleteAttachmentFile, AvatarsStep,
         UpdateAvatarRead, UpdateAvatarPutFile, UpdateAvatarRow, UpdateAvatarRefused,
         UpdateAvatarTakeBack, UpdateAvatarErase, Tables, At, Over, Writing, FileVars
<1>3. Additionless
  BY <1>2 DEF Additionless
<1>4. ASSUME Proceeds, req' = req, UNCHANGED tx \/ \E old : tx' = [tx EXCEPT ![r].old = old]
      PROVE  StrayInv'
  <2>1. OnlyBy(r)
    BY <1>1, <1>2, <1>4 DEF OnlyBy, RequestTypes, Final, Over
  <2>2. QED
    BY <1>2, <1>3, <1>4, <2>1, OtherwiseStray
<1>5. ASSUME \E how : Ends(r, how) PROVE StrayInv'
  BY <1>2, <1>3, <1>5, EndingStray
<1>6. CASE \/ UploadReadOwner(r) \/ UploadPutFile(r) \/ UploadRefused(r) \/ UploadUnheard(r)
           \/ UpdateAvatarPutFile(r) \/ UpdateAvatarRow(r) \/ UpdateAvatarRefused(r)
  BY <1>4, <1>6
     DEF UploadReadOwner, UploadPutFile, UploadRefused, UploadUnheard, UpdateAvatarPutFile,
         UpdateAvatarRow, UpdateAvatarRefused, Goto
<1>7. CASE ReadAttachment(r)
  <2>1. Proceeds /\ req' = req
    BY <1>7 DEF ReadAttachment, Goto
  <2>2. UNCHANGED tx \/ tx' = [tx EXCEPT ![r].old = {attachments[req[r].attachment]}]
    BY <1>7 DEF ReadAttachment
  <2>3. QED
    BY <1>4, <2>1, <2>2
<1>8. CASE UpdateAvatarRead(r)
  <2>1. req[r] \in [op : {"UpdateAvatar"}, user : Users, was : AvatarNames]
    BY <1>1, <1>8, InputTypes DEF UpdateAvatarRead, At
  <2>2. req'[r].op = "UpdateAvatar" /\ OnlyBy(r)
    BY <1>1, <1>2, <1>8, <2>1 DEF UpdateAvatarRead, OnlyBy, RequestTypes, Final, Over
  <2>3. QED
    BY <1>3, <2>2, OtherwiseStray
<1>9. CASE ReadBlockOwner(r) \/ DeleteAttachmentRow(r)
  <2>1. \/ Proceeds /\ UNCHANGED <<req, tx>>
        \/ \E how : Ends(r, how)
    BY <1>9 DEF ReadBlockOwner, DeleteAttachmentRow, Goto
  <2>2. QED
    BY <1>4, <1>5, <2>1
<1>10. CASE \/ UploadInsert(r) \/ UploadTakeBack(r) \/ GetFile(r)
            \/ DeleteAttachmentUnheard(r) \/ DeleteAttachmentFile(r)
            \/ UpdateAvatarTakeBack(r) \/ UpdateAvatarErase(r)
  <2>1. \E how : Ends(r, how)
    BY <1>10
       DEF UploadInsert, UploadTakeBack, GetFile, DeleteAttachmentUnheard,
           DeleteAttachmentFile, UpdateAvatarTakeBack, UpdateAvatarErase
  <2>2. QED
    BY <1>5, <2>1
<1>11. QED
  BY <1>6, <1>7, <1>8, <1>9, <1>10 DEF AttachmentsStep, AvatarsStep

LEMMA StrayInitially == WorkspaceInit => StrayInv
<1> SUFFICES ASSUME WorkspaceInit PROVE StrayInv
  OBVIOUS
<1> USE DEF WorkspaceInit, StoreInit
<1>1. Overlapping = {}
  <2>1. \A n : UpdatesInHand(n) = {}
    BY DEF UpdatesInHand, InFlight, Over
  <2>2. Cardinality({}) = 0
    BY FS_EmptySet
  <2>3. QED
    BY <2>1, <2>2 DEF Overlapping
<1>2. \A b \in DOMAIN blocks : Listed(b)
  BY StartAssumption DEF Listed
<1>3. \A r \in Requests : HasAll(r)
  BY DEF HasAll, NoInput
<1>4. QED
  BY <1>1, <1>2, <1>3 DEF StrayInv

LEMMA StrayStutter ==
  ASSUME StrayInv, UNCHANGED vars, overlapped \subseteq overlapped',
         Overlapping' \subseteq overlapped'
  PROVE  StrayInv'
<1> USE DEF vars
<1>1. \A b \in DOMAIN blocks' : Listed(b)' \/ blocks'[b] \in overlapped'
  BY DEF StrayInv, Listed
<1>2. \A r \in Requests : HasAll(r)'
  BY DEF StrayInv, HasAll, BlocksUnder
<1>3. QED
  BY <1>1, <1>2 DEF StrayInv

LEMMA StrayStep ==
  ASSUME OwnershipInv, OwnershipInv', StrayInv, [WorkspaceNext]_workspaceVars
  PROVE  StrayInv'
<1>1. CASE UNCHANGED workspaceVars
  <2>1. UNCHANGED vars /\ overlapped' = overlapped
    BY <1>1 DEF workspaceVars
  <2>2. Overlapping' = Overlapping
    BY <2>1 DEF Overlapping, UpdatesInHand, InFlight, vars
  <2>3. QED
    BY <2>1, <2>2, StrayStutter DEF StrayInv
<1>2. CASE WorkspaceNext
  <2>1. Around
    BY <1>2 DEF Around, WorkspaceNext
  <2>2. ASSUME NEW r \in Requests, NoteBookStep(r) PROVE StrayInv'
    <3>1. CASE NotesStep(r)
      BY <2>1, <3>1, NoteCallStray, NoteAnswerStray, ReadBlocksStray, UpsertMissingStray,
         UpdateNoteRowStray, DeleteBlocksStray, CommitStray DEF NotesStep
    <3>2. CASE TagsStep(r)
      BY <2>1, <3>2, NoteCallStray, NoteAnswerStray DEF TagsStep
    <3>3. CASE LockSome(r) \/ Victim(r)
      BY <2>1, <3>3, LockSomeStray, NoteAnswerStray
    <3>4. QED
      BY <2>2, <3>1, <3>2, <3>3 DEF NoteBookStep, Advance
  <2>3. CASE Quiescent
    BY <2>1, <2>3, StrayStutter DEF Quiescent, Around
  <2>4. QED
    BY <1>2, <2>1, <2>2, <2>3, WorkspaceBeginStray, FileStepStray, NoteAnswerStray
       DEF WorkspaceNext, WorkspaceStep
<1>3. QED
  BY <1>1, <1>2

\* Whatever fails, a block is lost from its note's list only if two updates of
\* the note overlapped: an update that has its note to itself has read all the
\* blocks of the note, and deletes those it does not list (UpdateNote).
THEOREM StraysComeFromOverlaps == WorkspaceSpec => []StrayOnlyByOverlap
<1>1. WorkspaceInit => StrayInv
  BY StrayInitially
<1>2. OwnershipInv /\ OwnershipInv' /\ StrayInv /\ [WorkspaceNext]_workspaceVars => StrayInv'
  BY StrayStep
<1>3. StrayInv => StrayOnlyByOverlap
  BY DEF StrayInv, Listed, StrayOnlyByOverlap
<1>4. QED
  BY <1>1, <1>2, <1>3, WorkspaceSpec_Ownership, PTL DEF WorkspaceSpec
=============================================================================
