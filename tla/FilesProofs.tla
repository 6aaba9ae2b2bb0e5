----------------------------- MODULE FilesProofs -----------------------------
(***************************************************************************)
(* Theorems about Workspace, for every value of its constants: rows keep   *)
(* their files.                                                            *)
(*                                                                         *)
(* The danger is a DeleteFile that comes late: of a compensation, of a     *)
(* delete, of a new avatar.  The invariant follows the keys.  Whoever may  *)
(* still delete a key knows it from a row, so two things have to be shown: *)
(* a key never belongs to two rows, and by the time of the delete no row   *)
(* has the key any more, nor ever will.                                    *)
(***************************************************************************)
EXTENDS Workspace, TLAPS

\* The request has stored its row, or will not.
Past == {"takeBack", "takeBackPicture", "erasePicture", "done", "rejected", "failed"}

\* A row of attachments has the key, or a request in hand knows it from one.
AttachmentKey(k) ==
    \/ k \in DOMAIN StartAttachments \cup DOMAIN attachments
    \/ \E r \in Requests :
          req[r].op \in {"GetAttachment", "DeleteAttachment"} /\ req[r].attachment = k

\* The same for the row of a user.
AvatarKey(u, k) ==
    \/ k \in {StartAvatars[u], avatars[u]}
    \/ \E r \in Requests :
          req[r].op = "UpdateAvatar" /\ req[r].user = u /\ req[r].was = k

\* The functions keep their domains and their keys.
FilesTypeInv ==
    /\ DOMAIN pc = Requests
    /\ DOMAIN req = Requests
    /\ DOMAIN attachments \subseteq Keys
    /\ avatars \in [Users -> Keys \cup {NoAvatar, ElsewhereAvatar}]
    /\ \A r \in Requests :
          /\ req[r].op = "UpdateAvatar" =>
                req[r] \in [op : {"UpdateAvatar"}, user : Users, was : AvatarNames]
          /\ req[r].op \in {"GetAttachment", "DeleteAttachment"} =>
                req[r].attachment \in Keys

\* A key is known from one table only, and from one row, and if it is the key
\* of a request that request has come past the storing of its row.
KeysInv ==
    \A k \in Keys :
        /\ \A u \in Users : AvatarKey(u, k) =>
              ~AttachmentKey(k) /\ \A v \in Users : AvatarKey(v, k) => u = v
        /\ k \in Requests /\ (AttachmentKey(k) \/ \E u \in Users : AvatarKey(u, k)) =>
              pc[k] \in Past

\* The file is there when its row is stored, and no row that was heard of has
\* it when it is deleted.
CallsInv ==
    \A r \in Requests :
        /\ pc[r] \in {"insertAttachment", "updateAvatar"} => r \in files
        /\ pc[r] \in {"takeBack", "takeBackPicture"} =>
              \/ r \in unheard
              \/ r \notin DOMAIN attachments /\ \A u \in Users : avatars[u] # r
        /\ pc[r] = "eraseFile" =>
              /\ req[r].op = "DeleteAttachment"
              /\ req[r].attachment \notin DOMAIN attachments
        /\ pc[r] = "erasePicture" =>
              /\ req[r].op = "UpdateAvatar"
              /\ avatars[req[r].user] # req[r].was

FilesInv == FilesTypeInv /\ KeysInv /\ CallsInv /\ RowsHaveFiles

----------------------------------------------------------------------------
(***************************************************************************)
(* Calm steps: no file is stored or removed, no row named, and nobody      *)
(* comes to the point of doing so.                                         *)
(***************************************************************************)

\* The calls that store a row or remove a file.
Loud == {"insertAttachment", "updateAvatar", "takeBack", "takeBackPicture",
         "eraseFile", "erasePicture"}

CalmRequest(r) ==
    /\ pc[r] \in Past => pc'[r] \in Past
    /\ pc'[r] \in Loud => pc'[r] = pc[r] /\ req'[r] = req[r]
    /\ \/ req'[r] = req[r]
       \/ req'[r].op \notin {"GetAttachment", "DeleteAttachment", "UpdateAvatar"}
       \/ /\ req'[r].op \in {"GetAttachment", "DeleteAttachment"}
          /\ req'[r].attachment \in SeenAttachments
       \/ \E u \in Users : \E k \in {avatars[u], NoAvatar} :
             req'[r] = [op |-> "UpdateAvatar", user |-> u, was |-> k]

Calm ==
    /\ DOMAIN pc' = Requests
    /\ DOMAIN req' = Requests
    /\ DOMAIN attachments' \subseteq DOMAIN attachments
    /\ UNCHANGED <<avatars, files, unheard>>
    /\ \A r \in Requests : CalmRequest(r)

LEMMA NamesAreKeys ==
  ASSUME FilesTypeInv
  PROVE  /\ SeenAttachments \subseteq Keys
         /\ \A u \in Users : avatars[u] \in Keys \cup {NoAvatar, ElsewhereAvatar}
         /\ NoAvatar \notin Keys /\ ElsewhereAvatar \notin Keys
         /\ Requests \subseteq Keys
         /\ AvatarNames = Keys \cup {NoAvatar, ElsewhereAvatar}
  BY StartFilesAssumption DEF FilesTypeInv, SeenAttachments, Keys, StartFiles, AvatarNames

LEMMA CalmKeeps ==
  ASSUME FilesInv, Calm
  PROVE  FilesInv'
<1> USE DEF FilesInv
<1>1. FilesTypeInv'
  BY NamesAreKeys DEF Calm, CalmRequest, FilesTypeInv, AvatarNames
<1>2. ASSUME NEW k \in Keys, AttachmentKey(k)'
      PROVE  AttachmentKey(k)
  BY <1>2 DEF AttachmentKey, Calm, CalmRequest, SeenAttachments
<1>3. ASSUME NEW k \in Keys, NEW u \in Users, AvatarKey(u, k)'
      PROVE  AvatarKey(u, k)
  BY <1>3, NamesAreKeys DEF AvatarKey, Calm, CalmRequest
<1>4. KeysInv'
  BY <1>2, <1>3 DEF KeysInv, Calm, CalmRequest
<1>5. CallsInv'
  BY DEF CallsInv, Calm, CalmRequest, Loud
<1>6. RowsHaveFiles'
  BY DEF RowsHaveFiles, Calm
<1>7. QED
  BY <1>1, <1>4, <1>5, <1>6

----------------------------------------------------------------------------
(***************************************************************************)
(* What is calm                                                            *)
(***************************************************************************)

\* A handler comes to its next call, or to its end.
Moves(r) == pc[r] \notin Past /\ \E next \in Label \ Loud : Goto(r, next)

Answers(r) == \E how \in {"done", "rejected", "failed"} : Ends(r, how)

RowsOnlyGo ==
    DOMAIN attachments' \subseteq DOMAIN attachments /\ UNCHANGED <<avatars, files, unheard>>

LEMMA MovingIsCalm ==
  ASSUME FilesTypeInv, RowsOnlyGo, NEW r \in Requests, Moves(r) \/ Answers(r)
  PROVE  Calm
  BY DEF FilesTypeInv, RowsOnlyGo, Moves, Answers, Goto, Ends, Calm, CalmRequest, Past, Loud,
         NoInput

LEMMA RestingIsCalm ==
  ASSUME FilesTypeInv, RowsOnlyGo, UNCHANGED <<req, pc>>
  PROVE  Calm
  BY DEF FilesTypeInv, RowsOnlyGo, Calm, CalmRequest

\* The handler of a request that has arrived has done nothing yet.
LEMMA ArrivingIsCalm ==
  ASSUME FilesTypeInv, RowsOnlyGo, NEW r \in Requests, NEW input, NEW next \in Label \ Loud,
         Admit(r, input, next),
         \/ input.op \notin {"GetAttachment", "DeleteAttachment", "UpdateAvatar"}
         \/ /\ input.op \in {"GetAttachment", "DeleteAttachment"}
            /\ input.attachment \in SeenAttachments
         \/ \E u \in Users : input = [op |-> "UpdateAvatar", user |-> u, was |-> NoAvatar]
  PROVE  Calm
  BY DEF FilesTypeInv, RowsOnlyGo, Admit, Calm, CalmRequest, Past, Loud

LEMMA NotesMove ==
  ASSUME NEW r \in Requests, NotesStep(r)
  PROVE  Moves(r) \/ Answers(r)
<1> USE DEF Moves, Answers, Completes, Label, NoteBookLabel, Over, Loud, Past, At, NextUpsert
<1>1. CASE CreateNoteReadParent(r) \/ CreateNoteInsert(r) \/ CreateNoteOrphan(r)
  BY <1>1 DEF CreateNoteReadParent, CreateNoteInsert, CreateNoteOrphan, RollsBack
<1>2. CASE UpdateNoteRead(r) \/ UpdateNoteReadBlocks(r) \/ UpdateNoteReadTags(r)
  BY <1>2 DEF UpdateNoteRead, UpdateNoteReadBlocks, UpdateNoteReadTags
<1>3. CASE UpsertExisting(r) \/ UpsertMissing(r) \/ UpsertOrphan(r)
  BY <1>3 DEF UpsertExisting, UpsertMissing, UpsertOrphan, RollsBack
<1>4. CASE UpdateNoteRow(r) \/ DeleteBlocks(r) \/ DeleteNoteTags(r)
  BY <1>4 DEF UpdateNoteRow, DeleteBlocks, DeleteNoteTags
<1>5. CASE CreateNoteTags(r) \/ CreateNoteTagsOrphan(r) \/ Commit(r)
  BY <1>5 DEF CreateNoteTags, CreateNoteTagsOrphan, Commit, RollsBack
<1>6. CASE DeleteNoteRead(r) \/ DeleteNoteErase(r) \/ DeleteNoteCascade(r)
  BY <1>6 DEF DeleteNoteRead, DeleteNoteErase, DeleteNoteCascade
<1>7. QED
  BY <1>1, <1>2, <1>3, <1>4, <1>5, <1>6 DEF NotesStep

LEMMA TagsMove ==
  ASSUME NEW r \in Requests, TagsStep(r)
  PROVE  Moves(r) \/ Answers(r)
<1> USE DEF Moves, Answers, Completes, Label, NoteBookLabel, Over, Loud, Past, At
<1>1. CASE CreateTagInsert(r) \/ CreateTagTaken(r)
  BY <1>1 DEF CreateTagInsert, CreateTagTaken
<1>2. CASE UpdateTagRead(r) \/ UpdateTagRow(r) \/ UpdateTagTaken(r)
  BY <1>2 DEF UpdateTagRead, UpdateTagRow, UpdateTagTaken
<1>3. CASE DeleteTagRead(r) \/ DeleteTagErase(r) \/ DeleteTagCascade(r)
  BY <1>3 DEF DeleteTagRead, DeleteTagErase, DeleteTagCascade
<1>4. QED
  BY <1>1, <1>2, <1>3 DEF TagsStep

LEMMA BeginningIsCalm ==
  ASSUME FilesTypeInv, NEW r \in Requests, WorkspaceBegin(r)
  PROVE  Calm
<1> USE ArrivingIsCalm DEF Label, NoteBookLabel, Over, Loud
<1>1. RowsOnlyGo
  BY DEF WorkspaceBegin, NoteBookBegin, AttachmentsBegin, UploadBegin, ReadAttachmentBegin,
         UpdateAvatarBegin, RowsOnlyGo, FileVars
<1>2. CASE NotesBegin(r)
  BY <1>1, <1>2 DEF NotesBegin, CreateNoteBegin, UpdateNoteBegin, DeleteNoteBegin
<1>3. CASE TagsBegin(r)
  BY <1>1, <1>3 DEF TagsBegin, CreateTagBegin, UpdateTagBegin, DeleteTagBegin
<1>4. CASE UploadBegin(r)
  BY <1>1, <1>4 DEF UploadBegin
<1>5. CASE ReadAttachmentBegin(r)
  BY <1>1, <1>5 DEF ReadAttachmentBegin
<1>6. CASE UpdateAvatarBegin(r)
  BY <1>1, <1>6 DEF UpdateAvatarBegin
<1>7. QED
  BY <1>2, <1>3, <1>4, <1>5, <1>6
     DEF WorkspaceBegin, NoteBookBegin, Begin, AttachmentsBegin

LEMMA NoteBookIsCalm ==
  ASSUME FilesTypeInv, NEW r \in Requests, NoteBookStep(r)
  PROVE  Calm
<1>1. RowsOnlyGo
  BY DEF NoteBookStep, CascadeToAttachments, RowsOnlyGo
<1>2. CASE NotesStep(r) \/ TagsStep(r)
  BY <1>1, <1>2, NotesMove, TagsMove, MovingIsCalm
<1>3. CASE LockSome(r)
  BY <1>1, <1>3, RestingIsCalm DEF LockSome
<1>4. CASE Victim(r)
  BY <1>1, <1>4, MovingIsCalm DEF Victim, RollsBack, Answers
<1>5. QED
  BY <1>2, <1>3, <1>4 DEF NoteBookStep, Advance

LEMMA ReadingIsCalm ==
  ASSUME FilesTypeInv, NEW r \in Requests,
         \/ UploadReadOwner(r) \/ ReadAttachment(r) \/ ReadBlockOwner(r) \/ GetFile(r)
         \/ DeleteAttachmentUnheard(r)
  PROVE  Calm
<1>1. RowsOnlyGo
  BY DEF UploadReadOwner, ReadAttachment, ReadBlockOwner, GetFile, DeleteAttachmentUnheard,
         RowsOnlyGo, FileVars, Without
<1>2. Moves(r) \/ Answers(r)
  BY DEF UploadReadOwner, ReadAttachment, ReadBlockOwner, GetFile, DeleteAttachmentUnheard,
         Moves, Answers, Label, NoteBookLabel, Over, Loud, Past, At
<1>3. QED
  BY <1>1, <1>2, MovingIsCalm

LEMMA ReadingUserIsCalm ==
  ASSUME FilesTypeInv, NEW r \in Requests, UpdateAvatarRead(r)
  PROVE  Calm
  BY DEF FilesTypeInv, UpdateAvatarRead, FileVars, Calm, CalmRequest, Past, Loud, At

----------------------------------------------------------------------------
(***************************************************************************)
(* What is not: uploads                                                    *)
(***************************************************************************)

\* Until a request has stored its row, nobody knows its key.
LEMMA KeyIsFresh ==
  ASSUME FilesInv, NEW r \in Requests, pc[r] \notin Past
  PROVE  ~AttachmentKey(r) /\ \A u \in Users : ~AvatarKey(u, r)
  BY NamesAreKeys DEF FilesInv, KeysInv

LEMMA StoringKeeps ==
  ASSUME FilesInv, NEW r \in Requests, UploadPutFile(r) \/ UpdateAvatarPutFile(r)
  PROVE  FilesInv'
<1> USE DEF FilesInv, UploadPutFile, UpdateAvatarPutFile, PutFile, Goto, At
<1>1. FilesTypeInv'
  BY DEF FilesTypeInv
<1>2. \A k : AttachmentKey(k)' => AttachmentKey(k)
  BY DEF AttachmentKey
<1>3. \A k, u : AvatarKey(u, k)' => AvatarKey(u, k)
  BY DEF AvatarKey
<1>4. KeysInv'
  BY <1>2, <1>3, KeyIsFresh DEF KeysInv, FilesTypeInv, Past
<1>5. CallsInv'
  BY DEF CallsInv, FilesTypeInv
<1>6. RowsHaveFiles'
  BY DEF RowsHaveFiles
<1>7. QED
  BY <1>1, <1>4, <1>5, <1>6

LEMMA InsertingKeeps ==
  ASSUME FilesInv, NEW r \in Requests, UploadInsert(r) \/ UploadUnheard(r)
  PROVE  FilesInv'
<1> USE DEF FilesInv, At
<1>1. /\ pc[r] = "insertAttachment"
      /\ r \in files
      /\ DOMAIN attachments' = DOMAIN attachments \cup {r}
      /\ UNCHANGED <<avatars, files>>
  BY DEF UploadInsert, UploadUnheard, With, CallsInv
<1>2. \/ pc' = [pc EXCEPT ![r] = "done"] /\ req' = [req EXCEPT ![r] = NoInput]
         /\ unheard' = unheard
      \/ pc' = [pc EXCEPT ![r] = "takeBack"] /\ req' = req
         /\ unheard' = unheard \cup {r}
  BY DEF UploadInsert, UploadUnheard, Ends, Goto
<1>3. ~AttachmentKey(r) /\ \A u \in Users : ~AvatarKey(u, r)
  BY <1>1, KeyIsFresh DEF Past
<1>4. FilesTypeInv'
  BY <1>1, <1>2, NamesAreKeys DEF FilesTypeInv, NoInput
<1>5. \A k : AttachmentKey(k)' => AttachmentKey(k) \/ k = r
  BY <1>1, <1>2 DEF AttachmentKey, FilesTypeInv, NoInput
<1>6. \A k, u : AvatarKey(u, k)' => AvatarKey(u, k)
  BY <1>1, <1>2 DEF AvatarKey, FilesTypeInv, NoInput
<1>7. KeysInv'
  BY <1>1, <1>2, <1>3, <1>5, <1>6 DEF KeysInv, FilesTypeInv, Past
<1>8. \A q \in Requests : pc[q] = "eraseFile" => req[q].attachment # r
  BY <1>3 DEF CallsInv, AttachmentKey
<1>9. CallsInv'
  BY <1>1, <1>2, <1>8 DEF CallsInv, FilesTypeInv
<1>10. RowsHaveFiles'
  BY <1>1, <1>2 DEF RowsHaveFiles
<1>11. QED
  BY <1>4, <1>7, <1>9, <1>10

LEMMA RefusingKeeps ==
  ASSUME FilesInv, NEW r \in Requests, UploadRefused(r)
  PROVE  FilesInv'
<1> USE DEF FilesInv, UploadRefused, Goto, At, FileVars
<1>1. r \notin DOMAIN attachments /\ \A u \in Users : avatars[u] # r
  BY KeyIsFresh DEF AttachmentKey, AvatarKey, Past
<1>2. FilesTypeInv'
  BY DEF FilesTypeInv
<1>3. \A k : AttachmentKey(k)' => AttachmentKey(k)
  BY DEF AttachmentKey
<1>4. \A k, u : AvatarKey(u, k)' => AvatarKey(u, k)
  BY DEF AvatarKey
<1>5. KeysInv'
  BY <1>3, <1>4 DEF KeysInv, FilesTypeInv, Past
<1>6. CallsInv'
  BY <1>1 DEF CallsInv, FilesTypeInv
<1>7. RowsHaveFiles'
  BY DEF RowsHaveFiles
<1>8. QED
  BY <1>2, <1>5, <1>6, <1>7

\* The file of a request is removed only while no row that was heard of has it.
LEMMA TakingBackKeeps ==
  ASSUME FilesInv, NEW r \in Requests, UploadTakeBack(r) \/ UpdateAvatarTakeBack(r)
  PROVE  FilesInv'
<1> USE DEF FilesInv, UploadTakeBack, UpdateAvatarTakeBack, DeleteFile, At
<1>1. /\ pc[r] \in {"takeBack", "takeBackPicture"}
      /\ pc' = [pc EXCEPT ![r] = "failed"]
      /\ req' = [req EXCEPT ![r] = NoInput]
      /\ files' = files \ {r}
      /\ UNCHANGED <<attachments, avatars, unheard>>
  BY DEF Ends
<1>2. FilesTypeInv'
  BY <1>1 DEF FilesTypeInv, NoInput
<1>3. \A k : AttachmentKey(k)' => AttachmentKey(k)
  BY <1>1 DEF AttachmentKey, FilesTypeInv, NoInput
<1>4. \A k, u : AvatarKey(u, k)' => AvatarKey(u, k)
  BY <1>1 DEF AvatarKey, FilesTypeInv, NoInput
<1>5. KeysInv'
  BY <1>1, <1>3, <1>4 DEF KeysInv, FilesTypeInv, Past
<1>6. CallsInv'
  BY <1>1 DEF CallsInv, FilesTypeInv
<1>7. RowsHaveFiles'
  BY <1>1 DEF RowsHaveFiles, CallsInv
<1>8. QED
  BY <1>2, <1>5, <1>6, <1>7

----------------------------------------------------------------------------
(***************************************************************************)
(* What is not: deletes of attachments, and avatars                        *)
(***************************************************************************)

LEMMA DeletingRowKeeps ==
  ASSUME FilesInv, NEW r \in Requests, DeleteAttachmentRow(r)
  PROVE  FilesInv'
<1> USE DEF FilesInv, At
<1>1. RowsOnlyGo
  BY DEF DeleteAttachmentRow, Without, RowsOnlyGo
<1>2. CASE Ends(r, "rejected")
  BY <1>1, <1>2, MovingIsCalm, CalmKeeps DEF Answers
<1>3. CASE Goto(r, "eraseFile")
  <2> USE <1>3 DEF DeleteAttachmentRow, Without, Goto
  <2>1. FilesTypeInv'
    BY <1>1 DEF FilesTypeInv, RowsOnlyGo
  <2>2. \A k : AttachmentKey(k)' => AttachmentKey(k)
    BY DEF AttachmentKey
  <2>3. \A k, u : AvatarKey(u, k)' => AvatarKey(u, k)
    BY DEF AvatarKey
  <2>4. KeysInv'
    BY <2>2, <2>3 DEF KeysInv, FilesTypeInv, Past
  <2>5. CallsInv'
    BY DEF CallsInv, FilesTypeInv
  <2>6. RowsHaveFiles'
    BY DEF RowsHaveFiles
  <2>7. QED
    BY <2>1, <2>4, <2>5, <2>6
<1>4. QED
  BY <1>2, <1>3 DEF DeleteAttachmentRow

LEMMA DeletingFileKeeps ==
  ASSUME FilesInv, NEW r \in Requests, DeleteAttachmentFile(r)
  PROVE  FilesInv'
<1> DEFINE a == req[r].attachment
<1> USE DEF FilesInv, DeleteAttachmentFile, DeleteFile, At
<1>1. /\ pc[r] = "eraseFile"
      /\ pc' = [pc EXCEPT ![r] = "done"]
      /\ req' = [req EXCEPT ![r] = NoInput]
      /\ files' = files \ {a}
      /\ UNCHANGED <<attachments, avatars, unheard>>
  BY DEF Ends
<1>2. a \in Keys /\ AttachmentKey(a) /\ a \notin DOMAIN attachments
  BY DEF FilesTypeInv, AttachmentKey, CallsInv
<1>3. \A u \in Users : avatars[u] # a
  BY <1>2 DEF KeysInv, AvatarKey
<1>4. a \in Requests => pc[a] \in Past
  BY <1>2 DEF KeysInv
<1>5. FilesTypeInv'
  BY <1>1 DEF FilesTypeInv, NoInput
<1>6. \A k : AttachmentKey(k)' => AttachmentKey(k)
  BY <1>1 DEF AttachmentKey, FilesTypeInv, NoInput
<1>7. \A k, u : AvatarKey(u, k)' => AvatarKey(u, k)
  BY <1>1 DEF AvatarKey, FilesTypeInv, NoInput
<1>8. KeysInv'
  BY <1>1, <1>6, <1>7 DEF KeysInv, FilesTypeInv, Past
<1>9. CallsInv'
  BY <1>1, <1>4 DEF CallsInv, FilesTypeInv, Past
<1>10. RowsHaveFiles'
  BY <1>1, <1>2, <1>3 DEF RowsHaveFiles
<1>11. QED
  BY <1>5, <1>8, <1>9, <1>10

LEMMA NamingPictureKeeps ==
  ASSUME FilesInv, NEW r \in Requests, UpdateAvatarRow(r) \/ UpdateAvatarRefused(r)
  PROVE  FilesInv'
<1> DEFINE user == req[r].user
<1> USE DEF FilesInv, At
<1>1. /\ pc[r] = "updateAvatar"
      /\ r \in files
      /\ user \in Users
      /\ req[r].op = "UpdateAvatar"
      /\ UNCHANGED <<attachments, files, req>>
  BY DEF UpdateAvatarRow, UpdateAvatarRefused, Goto, CallsInv, FilesTypeInv
<1>2. ~AttachmentKey(r) /\ \A u \in Users : ~AvatarKey(u, r)
  BY <1>1, KeyIsFresh DEF Past
<1>3. \/ /\ pc' = [pc EXCEPT ![r] = "erasePicture"]
         /\ avatars' = [avatars EXCEPT ![user] = r]
         /\ unheard' = unheard
      \/ /\ pc' = [pc EXCEPT ![r] = "takeBackPicture"]
         /\ UNCHANGED <<avatars, unheard>>
      \/ /\ pc' = [pc EXCEPT ![r] = "takeBackPicture"]
         /\ avatars' = [avatars EXCEPT ![user] = r]
         /\ unheard' = unheard \cup {r}
  BY DEF UpdateAvatarRow, UpdateAvatarRefused, Goto
<1>4. FilesTypeInv'
  BY <1>1, <1>3, NamesAreKeys DEF FilesTypeInv
<1>5. \A k : AttachmentKey(k)' => AttachmentKey(k)
  BY <1>1 DEF AttachmentKey
<1>6. ASSUME NEW u \in Users, NEW k \in Keys, AvatarKey(u, k)'
      PROVE  AvatarKey(u, k) \/ (u = user /\ k = r)
  BY <1>1, <1>3, <1>6 DEF AvatarKey, FilesTypeInv
<1>7. KeysInv'
  BY <1>1, <1>2, <1>3, <1>5, <1>6 DEF KeysInv, FilesTypeInv, Past
<1>8. r \notin DOMAIN attachments /\ \A u \in Users : avatars[u] # r
  BY <1>2 DEF AttachmentKey, AvatarKey
<1>9. \A q \in Requests : req[q].op = "UpdateAvatar" => req[q].was # r
  BY <1>2 DEF AvatarKey, FilesTypeInv
<1>10. CallsInv'
  BY <1>1, <1>3, <1>8, <1>9 DEF CallsInv, FilesTypeInv
<1>11. RowsHaveFiles'
  BY <1>1, <1>3 DEF RowsHaveFiles, FilesTypeInv
<1>12. QED
  BY <1>4, <1>7, <1>10, <1>11

LEMMA ErasingPictureKeeps ==
  ASSUME FilesInv, NEW r \in Requests, UpdateAvatarErase(r)
  PROVE  FilesInv'
<1> DEFINE k0 == req[r].was
<1> USE DEF FilesInv, At
<1>1. /\ pc[r] = "erasePicture"
      /\ pc' = [pc EXCEPT ![r] = "done"]
      /\ req' = [req EXCEPT ![r] = NoInput]
      /\ files' = files \ {k0} \/ files' = files
      /\ UNCHANGED <<attachments, avatars, unheard>>
  BY DEF UpdateAvatarErase, DeleteFile, Ends
<1>2. /\ req[r].op = "UpdateAvatar"
      /\ req[r].user \in Users
      /\ k0 \in Keys \cup {NoAvatar, ElsewhereAvatar}
      /\ AvatarKey(req[r].user, k0)
      /\ avatars[req[r].user] # k0
  BY <1>1, NamesAreKeys DEF FilesTypeInv, AvatarKey, CallsInv
<1>3. k0 \notin DOMAIN attachments
  BY <1>2 DEF KeysInv, AttachmentKey, FilesTypeInv
<1>4. \A u \in Users : avatars[u] = k0 => k0 \notin Keys
  BY <1>2 DEF KeysInv, AvatarKey
<1>5. k0 \in Requests => pc[k0] \in Past
  BY <1>2, NamesAreKeys DEF KeysInv
<1>6. FilesTypeInv'
  BY <1>1 DEF FilesTypeInv, NoInput
<1>7. \A k : AttachmentKey(k)' => AttachmentKey(k)
  BY <1>1 DEF AttachmentKey, FilesTypeInv, NoInput
<1>8. \A k, u : AvatarKey(u, k)' => AvatarKey(u, k)
  BY <1>1 DEF AvatarKey, FilesTypeInv, NoInput
<1>9. KeysInv'
  BY <1>1, <1>7, <1>8 DEF KeysInv, FilesTypeInv, Past
<1>10. CallsInv'
  BY <1>1, <1>5 DEF CallsInv, FilesTypeInv, Past
<1>11. RowsHaveFiles'
  BY <1>1, <1>2, <1>3, <1>4 DEF RowsHaveFiles
<1>12. QED
  BY <1>6, <1>9, <1>10, <1>11

----------------------------------------------------------------------------

LEMMA FilesInitially == WorkspaceInit => FilesInv
<1> SUFFICES ASSUME WorkspaceInit PROVE FilesInv
  OBVIOUS
<1> USE StartFilesAssumption
    DEF WorkspaceInit, StoreInit, FileInit, NoInput, Keys, StartFiles, FilesInv
<1>1. FilesTypeInv
  BY DEF FilesTypeInv
<1>2. \A k : AttachmentKey(k) <=> k \in DOMAIN StartAttachments
  BY DEF AttachmentKey
<1>3. \A k : \A u \in Users : AvatarKey(u, k) <=> k = StartAvatars[u]
  BY DEF AvatarKey
<1>4. KeysInv
  BY <1>2, <1>3 DEF KeysInv
<1>5. CallsInv
  BY DEF CallsInv
<1>6. RowsHaveFiles
  BY DEF RowsHaveFiles
<1>7. QED
  BY <1>1, <1>4, <1>5, <1>6

LEMMA FilesStep == FilesInv /\ [WorkspaceNext]_workspaceVars => FilesInv'
<1> SUFFICES ASSUME FilesInv, [WorkspaceNext]_workspaceVars PROVE FilesInv'
  OBVIOUS
<1>1. FilesTypeInv
  BY DEF FilesInv
<1>2. ASSUME NEW r \in Requests, WorkspaceBegin(r) PROVE FilesInv'
  BY <1>1, <1>2, BeginningIsCalm, CalmKeeps
<1>3. ASSUME NEW r \in Requests, NoteBookStep(r) PROVE FilesInv'
  BY <1>1, <1>3, NoteBookIsCalm, CalmKeeps
<1>4. ASSUME NEW r \in Requests, AttachmentsStep(r) PROVE FilesInv'
  <2>1. CASE \/ UploadReadOwner(r) \/ ReadAttachment(r) \/ ReadBlockOwner(r) \/ GetFile(r)
             \/ DeleteAttachmentUnheard(r)
    BY <1>1, <2>1, ReadingIsCalm, CalmKeeps
  <2>2. QED
    BY <1>4, <2>1, StoringKeeps, InsertingKeeps, RefusingKeeps, TakingBackKeeps,
       DeletingRowKeeps, DeletingFileKeeps DEF AttachmentsStep
<1>5. ASSUME NEW r \in Requests, AvatarsStep(r) PROVE FilesInv'
  <2>1. CASE UpdateAvatarRead(r)
    BY <1>1, <2>1, ReadingUserIsCalm, CalmKeeps
  <2>2. QED
    BY <1>5, <2>1, StoringKeeps, NamingPictureKeeps, TakingBackKeeps, ErasingPictureKeeps
       DEF AvatarsStep
<1>6. ASSUME NEW r \in Requests, Drop(r), UNCHANGED FileVars PROVE FilesInv'
  <2>1. RowsOnlyGo /\ Answers(r)
    BY <1>6 DEF Drop, RollsBack, Answers, FileVars, RowsOnlyGo
  <2>2. QED
    BY <1>1, <2>1, MovingIsCalm, CalmKeeps
<1>7. ASSUME UNCHANGED <<vars, FileVars>> PROVE FilesInv'
  BY <1>1, <1>7, RestingIsCalm, CalmKeeps DEF vars, FileVars, RowsOnlyGo
<1>8. QED
  BY <1>2, <1>3, <1>4, <1>5, <1>6, <1>7
     DEF WorkspaceNext, WorkspaceStep, Quiescent, workspaceVars

\* Rows never name a file that is gone, whatever requests overlap or fail,
\* except the rows whose insert was reported as failed (UploadAttachment,
\* DeleteAttachment, UpdateAvatar).
THEOREM FilesStay == WorkspaceSpec => []RowsHaveFiles
<1>1. FilesInv => RowsHaveFiles
  BY DEF FilesInv
<1>2. QED
  BY <1>1, FilesInitially, FilesStep, PTL DEF WorkspaceSpec
=============================================================================
