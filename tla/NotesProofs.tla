----------------------------- MODULE NotesProofs -----------------------------
(***************************************************************************)
(* Theorems about Workspace, for every value of its constants: its types,  *)
(* what holds of notes, blocks and tags, and that notes and tags implement *)
(* NoteDocuments.                                                          *)
(***************************************************************************)
EXTENDS NotesInduction, TLAPS

----------------------------------------------------------------------------
(***************************************************************************)
(* Types                                                                   *)
(***************************************************************************)

\* The fields of an input, by its operation.
LEMMA InputTypes ==
  ASSUME RequestTypes, NEW r \in Requests
  PROVE  /\ req[r].op = "CreateNote" =>
               req[r].user \in Users /\ req[r].parent \in NoteIds \cup {NoNote}
         /\ req[r].op = "UpdateNote" =>
               /\ req[r].user \in Users /\ req[r].note \in NoteIds
               /\ req[r].blocks \in Seq(BlockIds)
               /\ req[r].tagIds \in {Keep} \cup SUBSET TagIds
         /\ req[r].op = "DeleteNote" => req[r].user \in Users /\ req[r].note \in NoteIds
         /\ req[r].op = "CreateTag" => req[r].user \in Users /\ req[r].name \in Names
         /\ req[r].op = "UpdateTag" =>
               req[r].user \in Users /\ req[r].tag \in TagIds /\ req[r].name \in Names
         /\ req[r].op = "DeleteTag" => req[r].user \in Users /\ req[r].tag \in TagIds
         /\ req[r].op = "UploadAttachment" => req[r].block \in BlockIds
         /\ req[r].op = "UpdateAvatar" =>
               req[r] \in [op : {"UpdateAvatar"}, user : Users, was : AvatarNames]
<1>1. req[r] \in Input
  BY DEF RequestTypes
<1>2. QED
  BY <1>1 DEF Input, NoteBookInput

LEMMA MovingTypes ==
  ASSUME RequestTypes, NEW r \in Requests, NEW next \in Label, Goto(r, next),
         UNCHANGED <<locks, tx>>
  PROVE  RequestTypes'
  BY DEF RequestTypes, Goto

LEMMA EndingTypes ==
  ASSUME RequestTypes, NEW r \in Requests, NEW how \in Over, Ends(r, how)
  PROVE  RequestTypes'
<1>1. NoInput \in Input
  BY DEF NoInput, Input, NoteBookInput
<1>2. NoTx \in Tx
  BY DEF NoTx, Tx
<1>3. how \in Label
  BY DEF Label, NoteBookLabel
<1>4. QED
  BY <1>1, <1>2, <1>3 DEF RequestTypes, Ends

LEMMA AdmittingTypes ==
  ASSUME RequestTypes, NEW r \in Requests, NEW input \in Input, NEW next \in Label,
         Admit(r, input, next)
  PROVE  RequestTypes'
  BY DEF RequestTypes, Admit

LEMMA NeededTypes ==
  ASSUME TableTypes, RequestTypes, NEW r \in Requests, Writing(r)
  PROVE  Needed(r) \subseteq Locked
<1>1. /\ DOMAIN notes \subseteq NoteIds /\ DOMAIN blocks \subseteq BlockIds
      /\ DOMAIN tags \subseteq TagIds /\ noteTags \subseteq NoteIds \X TagIds
  BY DEF TableTypes
<1>2. \A n \in NoteIds : \A mode \in {"share", "write", "erase"} :
          Lock(mode, <<"note", n>>) \in Locked
  BY DEF Lock, Locked, Row
<1>3. \A b \in BlockIds : \A mode \in {"share", "write", "erase"} :
          Lock(mode, <<"block", b>>) \in Locked
  BY DEF Lock, Locked, Row
<1>4. \A t \in TagIds : \A mode \in {"share", "write", "erase"} :
          Lock(mode, <<"tag", t>>) \in Locked
  BY DEF Lock, Locked, Row
<1>5. \A p \in noteTags : Lock("erase", <<"noteTag", p[1], p[2]>>) \in Locked
  BY <1>1 DEF Lock, Locked, Row
<1>6. CASE pc[r] = "upsert"
  <2>1. req[r].blocks[tx[r].at] \in BlockIds
    <3>1. req[r].blocks \in Seq(BlockIds) /\ tx[r].at \in 1..Len(req[r].blocks)
      BY <1>6, InputTypes DEF Writing, RequestTypes, Tx
    <3>2. QED
      BY <3>1
  <2>2. QED
    BY <1>1, <1>2, <1>3, <1>6, <2>1 DEF Needed, NeededByUpsert
<1>7. CASE pc[r] = "cascade"
  <2>1. Subtree(req[r].note) \subseteq DOMAIN notes
    BY DEF Subtree
  <2>2. QED
    BY <1>1, <1>2, <1>3, <1>5, <1>7, <2>1 DEF Needed, NeededByCascade, BlocksUnder
<1>8. CASE pc[r] \in {"insertTag", "updateTag", "eraseTag", "untag", "insertTags"}
  BY <1>1, <1>4, <1>5, <1>8 DEF Needed, NeededByRename, SameName
<1>9. CASE pc[r] \in {"update", "deleteBlocks", "deleteTags", "insertNote", "erase",
                      "insertAttachment"}
  BY <1>1, <1>2, <1>3, <1>5, <1>9 DEF Needed
<1>10. CASE pc[r] \notin {"upsert", "cascade", "insertTag", "updateTag", "eraseTag", "untag",
                          "insertTags", "update", "deleteBlocks", "deleteTags",
                          "insertNote", "erase", "insertAttachment"}
  BY <1>10 DEF Needed
<1>11. QED
  BY <1>6, <1>7, <1>8, <1>9, <1>10

----------------------------------------------------------------------------
(***************************************************************************)
(* The other requests                                                      *)
(***************************************************************************)

\* Only request r moves, and it was not over yet.
OnlyBy(r) ==
    /\ pc[r] \notin Final
    /\ \A q \in Requests \ {r} :
          /\ pc'[q] = pc[q] /\ req'[q] = req[q] /\ tx'[q] = tx[q] /\ locks'[q] = locks[q]

\* Rows appear under the name r only, keep their owners, and do not go while
\* another transaction has them locked.
OthersRespected(r) ==
    /\ \A n \in DOMAIN notes' :
          n = r \/ (n \in DOMAIN notes /\ notes'[n].author = notes[n].author)
    /\ \A t \in DOMAIN tags' :
          t = r \/ (t \in DOMAIN tags /\ tags'[t].owner = tags[t].owner)
    /\ \A q \in Requests \ {r} :
          /\ \A t \in DOMAIN tags \ DOMAIN tags' : Lock("share", <<"tag", t>>) \notin locks[q]
          /\ \A b \in DOMAIN blocks \ DOMAIN blocks' :
                Lock("write", <<"block", b>>) \notin locks[q]

LEMMA MadeStays ==
  ASSUME NEW r \in Requests, OnlyBy(r), NEW id, Made(id)
  PROVE  Made(id)' /\ id # r
  BY DEF OnlyBy, Made

LEMMA OthersKeep ==
  ASSUME NotesInv, NEW r \in Requests, OnlyBy(r), OthersRespected(r),
         NEW q \in Requests \ {r}
  PROVE  Checked(q)' /\ Writing(q)'
<1>1. Checked(q) /\ Writing(q)
  BY DEF NotesInv
<1>2. pc'[q] = pc[q] /\ req'[q] = req[q] /\ tx'[q] = tx[q] /\ locks'[q] = locks[q]
  BY DEF OnlyBy
<1>3. \A user, n : NoteStillOwn(user, n) => NoteStillOwn(user, n)'
  BY MadeStays DEF NoteStillOwn, OthersRespected
<1>4. \A user, t : TagStillOwn(user, t) => TagStillOwn(user, t)'
  BY MadeStays DEF TagStillOwn, OthersRespected
<1>5. Checked(q)'
  <2>1. (req[q].op = "CreateNote" /\ req[q].parent # NoNote =>
          /\ Made(req[q].parent)
          /\ pc[q] = "insertNote" => NoteStillOwn(req[q].user, req[q].parent))'
    BY <1>1, <1>2, <1>3, MadeStays DEF Checked
  <2>2. (req[q].op = "UpdateNote" =>
          /\ Made(req[q].note)
          /\ pc[q] \in {"readBlocks", "readTags"} \cup InTransaction =>
                NoteStillOwn(req[q].user, req[q].note)
          /\ pc[q] \in InTransaction =>
                /\ req[q].tagIds \in {Keep, tx[q].tags}
                /\ \A t \in tx[q].tags : TagStillOwn(req[q].user, t)
          /\ pc[q] = "commit" =>
                \A t \in tx[q].tags :
                    t \in DOMAIN tags /\ Lock("share", <<"tag", t>>) \in locks[q])'
    BY <1>1, <1>2, <1>3, <1>4, MadeStays DEF Checked, OthersRespected
  <2>3. (req[q].op = "DeleteNote" =>
          /\ Made(req[q].note)
          /\ pc[q] \in {"erase", "cascade"} => NoteStillOwn(req[q].user, req[q].note))'
    BY <1>1, <1>2, <1>3, MadeStays DEF Checked
  <2>4. (req[q].op = "UpdateTag" =>
          /\ Made(req[q].tag)
          /\ pc[q] = "updateTag" => TagStillOwn(req[q].user, req[q].tag))'
    BY <1>1, <1>2, <1>4, MadeStays DEF Checked
  <2>5. (req[q].op = "DeleteTag" =>
          /\ Made(req[q].tag)
          /\ pc[q] \in {"eraseTag", "untag"} => TagStillOwn(req[q].user, req[q].tag)
          /\ pc[q] = "untag" /\ req[q].tag \in DOMAIN tags =>
                Lock("erase", <<"tag", req[q].tag>>) \in locks[q])'
    BY <1>1, <1>2, <1>4, MadeStays DEF Checked, OthersRespected
  <2>6. QED
    BY <2>1, <2>2, <2>3, <2>4, <2>5 DEF Checked
<1>6. Writing(q)'
  BY <1>1, <1>2 DEF Writing, OthersRespected
<1>7. QED
  BY <1>5, <1>6

----------------------------------------------------------------------------
(***************************************************************************)
(* The three shapes of a step: a request arrives, comes to its next call,  *)
(* or ends                                                                 *)
(***************************************************************************)

LEMMA RequestsAreNoStart ==
  /\ \A n \in DOMAIN StartNotes : Made(n)
  /\ \A t \in DOMAIN StartTags : Made(t)
  BY IdsAssumption DEF Made

\* A block that is there has been in its note.
LEMMA BlocksKnown ==
  ASSUME NEW b \in DOMAIN blocks
  PROVE  BlockOf(b, blocks[b])
  BY DEF BlockOf

LEMMA BlocksUnchanged ==
  ASSUME NotesInv, NEW r \in Requests, OnlyBy(r),
         \A b \in BlockIds, n \in NoteIds : BlockOf(b, n)' => BlockOf(b, n),
         \/ pc'[r] \in Final
         \/ req'[r] = req[r]
         \/ pc[r] = "idle"
         \/ req[r].op # "UpdateNote"
  PROVE  BlockOfInv'
<1>1. pc[r] = "idle" => \A n \in NoteIds : ~BlockOf(r, n)
  BY DEF NotesInv, BlockOfInv, IdleInv, NoInput, BlockIds, Final
<1>2. SUFFICES ASSUME NEW b \in BlockIds, NEW n \in NoteIds, BlockOf(b, n)'
               PROVE  /\ \A m \in NoteIds : BlockOf(b, m)' => m = n
                      /\ b \in Requests /\ pc'[b] \notin Final =>
                            req'[b].op = "UpdateNote" /\ req'[b].note = n
  BY DEF BlockOfInv
<1>3. BlockOf(b, n)
  BY <1>2
<1>4. QED
  BY <1>1, <1>2, <1>3 DEF NotesInv, BlockOfInv, OnlyBy

LEMMA ArrivingKeeps ==
  ASSUME NotesInv, NEW r \in Requests, NEW input \in Input, NEW next \in Label,
         Admit(r, input, next),
         next \notin {"idle", "upsert"},
         next \in {"readAttachment", "readBlockOwner"} =>
             input.op \in {"GetAttachment", "DeleteAttachment"},
         input.op = "CreateNote" /\ input.parent # NoNote =>
             Made(input.parent) /\ next # "insertNote",
         input.op = "UpdateNote" => Made(input.note) /\ next = "readNote",
         input.op = "DeleteNote" => Made(input.note) /\ next = "readNote",
         input.op \in {"UpdateTag", "DeleteTag"} => Made(input.tag) /\ next = "readTag"
  PROVE  NotesInv'
<1> USE DEF NotesInv
<1>1. /\ req' = [req EXCEPT ![r] = input]
      /\ pc' = [pc EXCEPT ![r] = next]
      /\ pc[r] = "idle"
      /\ UNCHANGED <<notes, blocks, tags, noteTags, locks, tx>>
  BY DEF Admit, Tables
<1>2. OnlyBy(r)
  BY <1>1 DEF OnlyBy, RequestTypes, Final
<1>3. OthersRespected(r)
  BY <1>1 DEF OthersRespected
<1>4. TableTypes'
  BY <1>1 DEF TableTypes
<1>5. RequestTypes'
  BY AdmittingTypes
<1>6. tx[r] = NoTx /\ req[r] = NoInput
  BY <1>1 DEF IdleInv
<1>7. IdleInv'
  BY <1>1 DEF IdleInv, RequestTypes
<1>8. MadeInv'
  BY <1>1, <1>2, MadeStays DEF MadeInv
<1>9. LocksInv'
  BY <1>1 DEF LocksInv
<1>10. BlockOfInv'
  <2>1. \A b \in BlockIds, n \in NoteIds : BlockOf(b, n)' => BlockOf(b, n)
    BY <1>1, <1>6 DEF BlockOf, NoTx, RequestTypes
  <2>2. QED
    BY <1>1, <1>2, <2>1, BlocksUnchanged
<1>11. Checked(r)'
  <2>1. \A id : Made(id) => Made(id)'
    BY <1>2, MadeStays
  <2>2. QED
    BY <1>1, <2>1 DEF Checked, RequestTypes, InTransaction
<1>12. Writing(r)'
  BY <1>1, <1>6 DEF Writing, NoTx, RequestTypes, InTransaction
<1>13. Belongings' /\ ListedBlocksExist'
  BY <1>1 DEF Belongings, ListedBlocksExist, OwnNote, OwnTag
<1>14. QED
  BY <1>2, <1>3, <1>4, <1>5, <1>7, <1>8, <1>9, <1>10, <1>11, <1>12, <1>13, OthersKeep

\* A request comes to its next call; what it has read, written and locked is
\* left to the caller.
LEMMA MovingKeeps ==
  ASSUME NotesInv, NEW r \in Requests, pc[r] \notin Over, pc'[r] # "idle",
         UNCHANGED Tables, OnlyBy(r), RequestTypes', LocksInv', BlockOfInv',
         Checked(r)', Writing(r)'
  PROVE  NotesInv'
<1> USE DEF NotesInv, Tables
<1>1. OthersRespected(r)
  BY DEF OthersRespected
<1>2. TableTypes'
  BY DEF TableTypes
<1>3. IdleInv'
  BY DEF IdleInv, OnlyBy
<1>4. MadeInv'
  BY MadeStays DEF MadeInv
<1>5. Belongings' /\ ListedBlocksExist'
  BY DEF Belongings, ListedBlocksExist, OwnNote, OwnTag
<1>6. QED
  BY <1>1, <1>2, <1>3, <1>4, <1>5, OthersKeep

\* A request ends, and with it its transaction.
LEMMA EndingKeeps ==
  ASSUME NotesInv, NEW r \in Requests, NEW how \in Final, Ends(r, how),
         pc[r] \notin Over, OthersRespected(r),
         TableTypes', Belongings', ListedBlocksExist',
         \A b \in DOMAIN blocks' : BlockOf(b, blocks'[b])
  PROVE  NotesInv'
<1> USE DEF NotesInv
<1>1. /\ pc' = [pc EXCEPT ![r] = how]
      /\ locks' = [locks EXCEPT ![r] = {}]
      /\ tx' = [tx EXCEPT ![r] = NoTx]
      /\ req' = [req EXCEPT ![r] = NoInput]
  BY DEF Ends
<1>2. OnlyBy(r)
  BY <1>1 DEF OnlyBy, RequestTypes, Final, Over
<1>3. RequestTypes'
  BY EndingTypes DEF Final, Over
<1>4. IdleInv'
  BY <1>1 DEF IdleInv, RequestTypes, Final
<1>5. MadeInv'
  <2>1. Made(r)'
    BY <1>1 DEF Made, RequestTypes
  <2>2. QED
    BY <1>2, <2>1, MadeStays DEF MadeInv, OthersRespected
<1>6. LocksInv'
  BY <1>1 DEF LocksInv, RequestTypes
<1>7. BlockOfInv'
  <2>1. \A b \in BlockIds, n \in NoteIds : BlockOf(b, n)' => BlockOf(b, n)
    BY <1>1 DEF BlockOf, NoInput, RequestTypes
  <2>2. QED
    BY <1>1, <1>2, <2>1, BlocksUnchanged DEF RequestTypes
<1>8. Checked(r)' /\ Writing(r)'
  BY <1>1 DEF Checked, Writing, NoInput, RequestTypes, Final
<1>9. QED
  BY <1>2, <1>3, <1>4, <1>5, <1>6, <1>7, <1>8, OthersKeep

\* The tables stay as they are: a rollback, or an answer.
LEMMA ClosingKeeps ==
  ASSUME NotesInv, NEW r \in Requests, NEW how \in Final, Ends(r, how),
         pc[r] \notin Over, UNCHANGED Tables
  PROVE  NotesInv'
<1> USE DEF Tables
<1>1. OthersRespected(r)
  BY DEF OthersRespected
<1>2. TableTypes' /\ Belongings' /\ ListedBlocksExist'
  BY DEF NotesInv, TableTypes, Belongings, ListedBlocksExist, OwnNote, OwnTag
<1>3. \A b \in DOMAIN blocks' : BlockOf(b, blocks'[b])
  BY BlocksKnown
<1>4. QED
  BY <1>1, <1>2, <1>3, EndingKeeps

----------------------------------------------------------------------------
(***************************************************************************)
(* Locks                                                                   *)
(***************************************************************************)

\* A statement that runs conflicts with no lock of another transaction.
LEMMA NeededIsFree ==
  ASSUME LocksInv, NEW r \in Requests, ~Waits(r), NEW l \in Needed(r),
         NEW q \in Requests \ {r}, NEW held \in locks[q]
  PROVE  ~Conflict(l, held)
<1>1. CASE l \in locks[r]
  BY <1>1 DEF LocksInv
<1>2. CASE l \notin locks[r]
  BY <1>2 DEF Waits, Remaining, Free
<1>3. QED
  BY <1>1, <1>2

LEMMA ConflictSymmetric ==
  ASSUME NEW a, NEW b
  PROVE  Conflict(a, b) <=> Conflict(b, a)
<1>1. {a.mode, b.mode} = {b.mode, a.mode}
  OBVIOUS
<1>2. QED
  BY <1>1 DEF Conflict

LEMMA LockingKeeps ==
  ASSUME LocksInv, DOMAIN locks = Requests, NEW r \in Requests, NEW more,
         locks' = [locks EXCEPT ![r] = @ \cup more],
         \A l \in more : \A q \in Requests \ {r} : \A held \in locks[q] : ~Conflict(l, held)
  PROVE  LocksInv'
  BY ConflictSymmetric DEF LocksInv

LEMMA StatementLocks ==
  ASSUME NotesInv, NEW r \in Requests, Locks(r)
  PROVE  /\ LocksInv'
         /\ DOMAIN locks' = Requests
         /\ locks'[r] = locks[r] \cup Needed(r)
         /\ locks'[r] \subseteq Locked
         /\ \A q \in Requests \ {r} : locks'[q] = locks[q]
<1> USE DEF NotesInv, RequestTypes, Locks
<1>1. LocksInv'
  BY NeededIsFree, LockingKeeps
<1>2. Needed(r) \subseteq Locked
  BY NeededTypes
<1>3. QED
  BY <1>1, <1>2

LEMMA LockSomeKeeps ==
  ASSUME NotesInv, NEW r \in Requests, LockSome(r)
  PROVE  NotesInv'
<1> USE DEF NotesInv
<1>1. PICK l \in Remaining(r) : Free(l, r) /\ locks' = [locks EXCEPT ![r] = @ \cup {l}]
  BY DEF LockSome
<1>2. pc[r] \notin Over /\ UNCHANGED <<notes, blocks, tags, noteTags, tx, req, pc>>
  BY DEF LockSome, Tables
<1>3. LocksInv'
  <2>1. \A q \in Requests \ {r} : \A held \in locks[q] : ~Conflict(l, held)
    BY <1>1 DEF Free
  <2>2. QED
    BY <1>1, <2>1, ConflictSymmetric DEF LocksInv, RequestTypes
<1>4. OnlyBy(r)
  BY <1>1, <1>2 DEF OnlyBy, RequestTypes, Over, Final
<1>5. RequestTypes'
  <2>1. l \in Locked
    BY NeededTypes DEF Remaining
  <2>2. QED
    BY <1>1, <1>2, <2>1 DEF RequestTypes
<1>6. BlockOfInv'
  BY <1>2 DEF BlockOfInv, BlockOf
<1>7. locks[r] \subseteq locks'[r]
  BY <1>1 DEF RequestTypes
<1>8. Checked(r)'
  BY <1>2, <1>7 DEF Checked, NoteStillOwn, TagStillOwn, Made
<1>9. Writing(r)'
  BY <1>2, <1>7 DEF Writing
<1>10. QED
  BY <1>2, <1>3, <1>4, <1>5, <1>6, <1>8, <1>9, MovingKeeps DEF Tables, Over

----------------------------------------------------------------------------
(***************************************************************************)
(* Checks before the transaction                                           *)
(***************************************************************************)

\* A handler that has read decides; nothing is locked.
LEMMA ReadingKeeps ==
  ASSUME NotesInv, NEW r \in Requests, pc[r] \notin Over,
         NEW next \in Label \ {"idle"}, Goto(r, next),
         UNCHANGED <<Tables, locks>>, tx' \in [Requests -> Tx],
         \A q \in Requests \ {r} : tx'[q] = tx[q],
         \A b \in tx'[r].old \cup tx'[r].inserted :
             b \in tx[r].old \cup tx[r].inserted \/ BlockOf(b, req[r].note),
         Checked(r)', Writing(r)'
  PROVE  NotesInv'
<1> USE DEF NotesInv
<1>1. pc' = [pc EXCEPT ![r] = next] /\ req' = req
  BY DEF Goto
<1>2. OnlyBy(r)
  BY <1>1 DEF OnlyBy, RequestTypes, Final, Over
<1>3. RequestTypes'
  BY <1>1 DEF RequestTypes
<1>4. LocksInv'
  BY DEF LocksInv
<1>5. BlockOfInv'
  <2>1. \A b \in BlockIds, n \in NoteIds : BlockOf(b, n)' => BlockOf(b, n)
    BY <1>1 DEF BlockOf, Tables
  <2>2. QED
    BY <1>1, <1>2, <2>1, BlocksUnchanged
<1>6. QED
  BY <1>1, <1>2, <1>3, <1>4, <1>5, MovingKeeps DEF RequestTypes, Over

LEMMA NotesReadingKeeps ==
  ASSUME NotesInv, NEW r \in Requests,
         CreateNoteReadParent(r) \/ UpdateNoteRead(r) \/ DeleteNoteRead(r)
  PROVE  NotesInv'
<1> USE DEF NotesInv
<1>1. PICK next \in {"insertNote", "readBlocks", "erase", "rejected"} : Goto(r, next)
  BY DEF CreateNoteReadParent, UpdateNoteRead, DeleteNoteRead
<1>2. /\ UNCHANGED <<notes, blocks, tags, noteTags, locks, tx>>
      /\ pc[r] \in {"readParent", "readNote"}
      /\ pc' = [pc EXCEPT ![r] = next] /\ req' = req
  BY <1>1 DEF CreateNoteReadParent, UpdateNoteRead, DeleteNoteRead, Goto, At, Tables
<1>3. next \in Label \ {"idle"} /\ pc[r] \notin Over
  BY <1>2 DEF Label, NoteBookLabel, Over
<1>4. pc'[r] = next
  BY <1>2 DEF RequestTypes
<1>5. \A id : Made(id) => Made(id)'
  BY <1>2 DEF Made, Final, RequestTypes
<1>6. Checked(r)'
  <2>1. next = "insertNote" =>
           req[r].op = "CreateNote" /\ OwnNote(req[r].user, req[r].parent)
    BY <1>2, <1>4 DEF CreateNoteReadParent, UpdateNoteRead, DeleteNoteRead, Goto, At, RequestTypes
  <2>2. next = "readBlocks" =>
           req[r].op = "UpdateNote" /\ OwnNote(req[r].user, req[r].note)
    BY <1>2, <1>4 DEF CreateNoteReadParent, UpdateNoteRead, DeleteNoteRead, Goto, At, RequestTypes
  <2>3. next = "erase" =>
           req[r].op = "DeleteNote" /\ OwnNote(req[r].user, req[r].note)
    BY <1>2, <1>4 DEF CreateNoteReadParent, UpdateNoteRead, DeleteNoteRead, Goto, At, RequestTypes
  <2>4. Checked(r)
    OBVIOUS
  <2>5. QED
    BY <1>2, <1>4, <1>5, <2>1, <2>2, <2>3, <2>4
       DEF Checked, OwnNote, NoteStillOwn, InTransaction
<1>7. Writing(r)'
  <2>1. next = "readBlocks" => pc[r] = "readNote"
    BY <1>2, <1>4 DEF CreateNoteReadParent, UpdateNoteRead, DeleteNoteRead, Goto, At, RequestTypes
  <2>2. Writing(r)
    OBVIOUS
  <2>3. QED
    BY <1>2, <1>4, <2>1, <2>2 DEF Writing, InTransaction
<1>8. QED
  BY <1>1, <1>2, <1>3, <1>6, <1>7, ReadingKeeps DEF RequestTypes, Tables

LEMMA UpdateNoteReadBlocksKeeps ==
  ASSUME NotesInv, NEW r \in Requests, UpdateNoteReadBlocks(r)
  PROVE  NotesInv'
<1> USE DEF NotesInv, At
<1> DEFINE old == ReadBlocks(req[r].note)
<1>1. PICK next \in {"readTags", "rejected"} :
         Goto(r, next) /\ (next = "readTags" => ToSet(req[r].blocks) \subseteq old \cup {r})
  BY DEF UpdateNoteReadBlocks
<1>2. /\ UNCHANGED <<notes, blocks, tags, noteTags, locks>>
      /\ pc[r] = "readBlocks" /\ req[r].op = "UpdateNote"
      /\ pc' = [pc EXCEPT ![r] = next] /\ req' = req
      /\ tx' = [tx EXCEPT ![r].old = old]
  BY <1>1 DEF UpdateNoteReadBlocks, Goto, Tables
<1>3. next \in Label \ {"idle"} /\ pc[r] \notin Over
  BY <1>2 DEF Label, NoteBookLabel, Over
<1>4. pc'[r] = next
  BY <1>2 DEF RequestTypes
<1>5. old \subseteq BlockIds /\ \A b \in old : BlockOf(b, req[r].note)
  BY DEF ReadBlocks, ListedBlocksExist, BlockOf, TableTypes
<1>6. /\ tx' \in [Requests -> Tx]
      /\ \A q \in Requests \ {r} : tx'[q] = tx[q]
      /\ tx'[r] = [tx[r] EXCEPT !.old = old]
      /\ tx'[r].old = old /\ tx'[r].inserted = tx[r].inserted
      /\ tx'[r].deleted = tx[r].deleted /\ tx'[r].at = tx[r].at
  BY <1>2, <1>5 DEF RequestTypes, Tx
<1>7. \A id : Made(id) => Made(id)'
  BY <1>2 DEF Made, Final, RequestTypes
<1>8. Checked(r)'
  <2>1. Checked(r)
    OBVIOUS
  <2>2. QED
    BY <1>2, <1>4, <1>7, <2>1 DEF Checked, NoteStillOwn, InTransaction
<1>9. Writing(r)'
  <2>1. Writing(r)
    OBVIOUS
  <2>2. QED
    BY <1>1, <1>2, <1>4, <1>6, <2>1 DEF Writing, InTransaction
<1>10. QED
  BY <1>1, <1>2, <1>3, <1>5, <1>6, <1>8, <1>9, ReadingKeeps DEF Tables

LEMMA UpdateNoteReadTagsKeeps ==
  ASSUME NotesInv, NEW r \in Requests, UpdateNoteReadTags(r)
  PROVE  NotesInv'
<1> USE DEF NotesInv, At
<1> DEFINE found == IF req[r].tagIds = Keep THEN ReadNoteTags(req[r].note)
                                           ELSE ReadUserTags(req[r].user, req[r].tagIds)
<1>1. PICK next \in {"upsert", "update", "rejected"} :
         /\ Goto(r, next)
         /\ next = "upsert" => 1 <= Len(req[r].blocks)
         /\ next = "update" => ~(1 <= Len(req[r].blocks))
         /\ next # "rejected" => req[r].tagIds \in {Keep, found}
  BY DEF UpdateNoteReadTags, NextUpsert
<1>2. /\ UNCHANGED <<notes, blocks, tags, noteTags, locks>>
      /\ pc[r] = "readTags" /\ req[r].op = "UpdateNote"
      /\ pc' = [pc EXCEPT ![r] = next] /\ req' = req
      /\ tx' = [tx EXCEPT ![r].tags = found]
  BY <1>1 DEF UpdateNoteReadTags, Goto, Tables
<1>3. next \in Label \ {"idle"} /\ pc[r] \notin Over
  BY <1>2 DEF Label, NoteBookLabel, Over
<1>4. pc'[r] = next
  BY <1>2 DEF RequestTypes
<1>5. found \subseteq DOMAIN tags
  BY DEF ReadNoteTags, ReadUserTags, OwnTag
<1>6. /\ tx' \in [Requests -> Tx]
      /\ \A q \in Requests \ {r} : tx'[q] = tx[q]
      /\ tx'[r].tags = found
      /\ tx'[r].old = tx[r].old /\ tx'[r].inserted = tx[r].inserted
      /\ tx'[r].deleted = tx[r].deleted /\ tx'[r].at = tx[r].at
  BY <1>2, <1>5 DEF RequestTypes, Tx, TableTypes
<1>7. \A id : Made(id) => Made(id)'
  BY <1>2 DEF Made, Final, RequestTypes
<1>8. Checked(r)'
  <2>1. Checked(r)
    OBVIOUS
  <2>2. \A t \in found : Made(t) /\ OwnTag(req[r].user, t)
    <3>1. CASE req[r].tagIds = Keep
      BY <1>2, <2>1, <3>1
         DEF ReadNoteTags, Checked, NoteStillOwn, Belongings, OwnTag, MadeInv
    <3>2. CASE req[r].tagIds # Keep
      BY <3>2 DEF ReadUserTags, OwnTag, MadeInv
    <3>3. QED
      BY <3>1, <3>2
  <2>3. QED
    BY <1>1, <1>2, <1>4, <1>6, <1>7, <2>1, <2>2
       DEF Checked, NoteStillOwn, TagStillOwn, OwnTag, InTransaction
<1>9. Writing(r)'
  <2>1. Writing(r)
    OBVIOUS
  <2>2. Len(req[r].blocks) \in Nat
    BY <1>2, InputTypes
  <2>3. QED
    BY <1>1, <1>2, <1>4, <1>6, <2>1, <2>2 DEF Writing, InTransaction
<1>10. QED
  BY <1>1, <1>2, <1>3, <1>6, <1>8, <1>9, ReadingKeeps DEF Tables

LEMMA TagsReadingKeeps ==
  ASSUME NotesInv, NEW r \in Requests, UpdateTagRead(r) \/ DeleteTagRead(r)
  PROVE  NotesInv'
<1> USE DEF NotesInv, At
<1>1. PICK next \in {"updateTag", "eraseTag", "rejected"} : Goto(r, next)
  BY DEF UpdateTagRead, DeleteTagRead
<1>2. /\ UNCHANGED <<notes, blocks, tags, noteTags, locks, tx>>
      /\ pc[r] = "readTag" /\ req[r].op \in {"UpdateTag", "DeleteTag"}
      /\ pc' = [pc EXCEPT ![r] = next] /\ req' = req
  BY <1>1 DEF UpdateTagRead, DeleteTagRead, Goto, Tables
<1>3. next \in Label \ {"idle"} /\ pc[r] \notin Over
  BY <1>2 DEF Label, NoteBookLabel, Over
<1>4. pc'[r] = next
  BY <1>2 DEF RequestTypes
<1>5. Checked(r)'
  <2>1. Checked(r) /\ \A id : Made(id) => Made(id)'
    BY <1>2 DEF Made, Final, RequestTypes
  <2>2. next # "rejected" => OwnTag(req[r].user, req[r].tag)
    BY <1>2, <1>4 DEF UpdateTagRead, DeleteTagRead, Goto, RequestTypes
  <2>3. QED
    BY <1>2, <1>4, <2>1, <2>2 DEF Checked, OwnTag, TagStillOwn
<1>6. Writing(r)'
  BY <1>2, <1>4 DEF Writing
<1>7. QED
  BY <1>1, <1>2, <1>3, <1>5, <1>6, ReadingKeeps DEF RequestTypes, Tables

----------------------------------------------------------------------------
(***************************************************************************)
(* Statements that take locks and keep them                                *)
(***************************************************************************)

LEMMA StatementKeeps ==
  ASSUME NotesInv, NEW r \in Requests, pc[r] \notin Over, Locks(r),
         NEW next \in Label \ {"idle"}, Goto(r, next),
         UNCHANGED Tables, tx' \in [Requests -> Tx],
         \A q \in Requests \ {r} : tx'[q] = tx[q],
         BlockOfInv', Checked(r)', Writing(r)'
  PROVE  NotesInv'
<1>1. pc' = [pc EXCEPT ![r] = next] /\ req' = req
  BY DEF Goto
<1>2. OnlyBy(r)
  BY <1>1, StatementLocks DEF OnlyBy, NotesInv, RequestTypes, Final, Over
<1>3. RequestTypes'
  BY <1>1, StatementLocks DEF NotesInv, RequestTypes
<1>4. QED
  BY <1>1, <1>2, <1>3, StatementLocks, MovingKeeps DEF NotesInv, RequestTypes, Over

\* Without a new block, blocks stay where they are.
LEMMA NoNewBlock ==
  ASSUME NotesInv, UNCHANGED <<blocks, req>>, NEW r \in Requests, NEW next, Goto(r, next),
         pc[r] \notin Final,
         \A q \in Requests :
             tx'[q].old \cup tx'[q].inserted \subseteq tx[q].old \cup tx[q].inserted
  PROVE  BlockOfInv'
<1>1. \A b, n : BlockOf(b, n)' => BlockOf(b, n)
  BY DEF BlockOf
<1>2. QED
  BY <1>1 DEF NotesInv, BlockOfInv, RequestTypes, Goto

LEMMA UpsertExistingKeeps ==
  ASSUME NotesInv, NEW r \in Requests, UpsertExisting(r)
  PROVE  NotesInv'
<1> USE DEF NotesInv, At
<1> DEFINE at == tx[r].at
           b == req[r].blocks[at]
<1>1. PICK next \in {"upsert", "update"} :
         /\ Goto(r, next)
         /\ next = "upsert" <=> at + 1 <= Len(req[r].blocks)
  BY DEF UpsertExisting, NextUpsert
<1>2. /\ UNCHANGED <<notes, blocks, tags, noteTags>>
      /\ pc[r] = "upsert" /\ req[r].op = "UpdateNote" /\ Locks(r)
      /\ pc' = [pc EXCEPT ![r] = next] /\ req' = req
      /\ b \in DOMAIN blocks \cup tx[r].inserted
      /\ tx' = [tx EXCEPT ![r].at = @ + 1]
  BY <1>1 DEF UpsertExisting, Goto, Tables
<1>3. next \in Label \ {"idle"} /\ pc[r] \notin Over
  BY <1>2 DEF Label, NoteBookLabel, Over
<1>4. pc'[r] = next
  BY <1>2 DEF RequestTypes
<1>5. at \in Nat \ {0} /\ Len(req[r].blocks) \in Nat
  BY <1>2, InputTypes DEF RequestTypes, Tx
<1>6. /\ tx' \in [Requests -> Tx]
      /\ \A q \in Requests \ {r} : tx'[q] = tx[q]
      /\ tx'[r].at = at + 1 /\ tx'[r].tags = tx[r].tags
      /\ tx'[r].old = tx[r].old /\ tx'[r].inserted = tx[r].inserted
      /\ tx'[r].deleted = tx[r].deleted
  <2> DEFINE new == [tx[r] EXCEPT !.at = at + 1]
  <2>1. tx[r] \in Tx /\ at + 1 \in Nat \ {0}
    BY <1>5 DEF RequestTypes
  <2>2. tx' = [tx EXCEPT ![r] = new]
    BY <1>2, <1>5
  <2>3. /\ new \in Tx
        /\ new.at = at + 1 /\ new.tags = tx[r].tags /\ new.old = tx[r].old
        /\ new.inserted = tx[r].inserted /\ new.deleted = tx[r].deleted
    BY <1>5, <2>1 DEF Tx
  <2>4. QED
    BY <2>2, <2>3 DEF RequestTypes
<1>7. \A id : Made(id) => Made(id)'
  BY <1>2 DEF Made, Final, RequestTypes
<1>8. locks[r] \subseteq locks'[r] /\ Lock("write", <<"block", b>>) \in locks'[r]
  BY <1>2, StatementLocks DEF Needed, NeededByUpsert
<1>9. Checked(r)'
  <2>1. Checked(r)
    OBVIOUS
  <2>2. QED
    BY <1>2, <1>4, <1>6, <1>7, <2>1 DEF Checked, NoteStillOwn, TagStillOwn, InTransaction
<1>10. Writing(r)'
  <2>1. Writing(r)
    OBVIOUS
  <2>2. \A i \in 1..Len(req[r].blocks) : i < at + 1 =>
            /\ req[r].blocks[i] \in DOMAIN blocks \cup tx[r].inserted
            /\ Lock("write", <<"block", req[r].blocks[i]>>) \in locks'[r]
    <3>1. SUFFICES ASSUME NEW i \in 1..Len(req[r].blocks), i < at + 1
                   PROVE  /\ req[r].blocks[i] \in DOMAIN blocks \cup tx[r].inserted
                          /\ Lock("write", <<"block", req[r].blocks[i]>>) \in locks'[r]
      OBVIOUS
    <3>2. CASE i = at
      BY <1>2, <1>8, <3>2
    <3>3. CASE i < at
      BY <1>2, <1>8, <2>1, <3>3 DEF Writing, InTransaction
    <3>4. QED
      BY <1>5, <3>1, <3>2, <3>3
  <2>3. QED
    BY <1>1, <1>2, <1>4, <1>5, <1>6, <1>8, <2>1, <2>2 DEF Writing, InTransaction
<1>11. BlockOfInv'
  BY <1>1, <1>2, <1>6, NoNewBlock DEF Final
<1>12. QED
  BY <1>1, <1>2, <1>3, <1>6, <1>9, <1>10, <1>11, StatementKeeps DEF Tables

LEMMA UpsertMissingKeeps ==
  ASSUME NotesInv, NEW r \in Requests, UpsertMissing(r)
  PROVE  NotesInv'
<1> USE DEF NotesInv, At
<1> DEFINE at == tx[r].at
           b == req[r].blocks[at]
<1>1. PICK next \in {"upsert", "update"} :
         /\ Goto(r, next)
         /\ next = "upsert" <=> at + 1 <= Len(req[r].blocks)
  BY DEF UpsertMissing, NextUpsert
<1>2. /\ UNCHANGED <<notes, blocks, tags, noteTags>>
      /\ pc[r] = "upsert" /\ req[r].op = "UpdateNote" /\ Locks(r)
      /\ pc' = [pc EXCEPT ![r] = next] /\ req' = req
      /\ tx' = [tx EXCEPT ![r].at = @ + 1, ![r].inserted = @ \cup {b}]
  BY <1>1 DEF UpsertMissing, Goto, Tables
<1>3. next \in Label \ {"idle"} /\ pc[r] \notin Over
  BY <1>2 DEF Label, NoteBookLabel, Over
<1>4. pc'[r] = next
  BY <1>2 DEF RequestTypes
<1>5. /\ at \in Nat \ {0} /\ Len(req[r].blocks) \in Nat
      /\ at \in DOMAIN req[r].blocks /\ b \in BlockIds
  BY <1>2, InputTypes DEF RequestTypes, Tx, Writing
<1>6. /\ tx' \in [Requests -> Tx]
      /\ \A q \in Requests \ {r} : tx'[q] = tx[q]
      /\ tx'[r].at = at + 1 /\ tx'[r].tags = tx[r].tags
      /\ tx'[r].old = tx[r].old /\ tx'[r].inserted = tx[r].inserted \cup {b}
      /\ tx'[r].deleted = tx[r].deleted
  <2> DEFINE new == [tx[r] EXCEPT !.at = at + 1, !.inserted = tx[r].inserted \cup {b}]
  <2>1. tx[r] \in Tx /\ at + 1 \in Nat \ {0}
    BY <1>5 DEF RequestTypes
  <2>2. tx' = [tx EXCEPT ![r] = new]
    BY <1>2, <1>5
  <2>3. /\ new \in Tx
        /\ new.at = at + 1 /\ new.tags = tx[r].tags /\ new.old = tx[r].old
        /\ new.inserted = tx[r].inserted \cup {b} /\ new.deleted = tx[r].deleted
    BY <1>5, <2>1 DEF Tx
  <2>4. QED
    BY <2>2, <2>3 DEF RequestTypes
<1>7. \A id : Made(id) => Made(id)'
  BY <1>2 DEF Made, Final, RequestTypes
<1>8. locks[r] \subseteq locks'[r] /\ Lock("write", <<"block", b>>) \in locks'[r]
  BY <1>2, StatementLocks DEF Needed, NeededByUpsert
<1>9. Checked(r)'
  <2>1. Checked(r)
    OBVIOUS
  <2>2. QED
    BY <1>2, <1>4, <1>6, <1>7, <2>1 DEF Checked, NoteStillOwn, TagStillOwn, InTransaction
<1>10. Writing(r)'
  <2>1. Writing(r)
    OBVIOUS
  <2>2. \A i \in 1..Len(req[r].blocks) : i < at + 1 =>
            /\ req[r].blocks[i] \in DOMAIN blocks \cup tx'[r].inserted
            /\ Lock("write", <<"block", req[r].blocks[i]>>) \in locks'[r]
    <3>1. SUFFICES ASSUME NEW i \in 1..Len(req[r].blocks), i < at + 1
                   PROVE  /\ req[r].blocks[i] \in DOMAIN blocks \cup tx'[r].inserted
                          /\ Lock("write", <<"block", req[r].blocks[i]>>) \in locks'[r]
      OBVIOUS
    <3>2. CASE i = at
      BY <1>6, <1>8, <3>2
    <3>3. CASE i < at
      BY <1>2, <1>6, <1>8, <2>1, <3>3 DEF Writing, InTransaction
    <3>4. QED
      BY <1>5, <3>1, <3>2, <3>3
  <2>3. QED
    BY <1>1, <1>2, <1>4, <1>5, <1>6, <1>8, <2>1, <2>2 DEF Writing, InTransaction
<1>11. BlockOfInv'
  <2>1. req[r].note \in NoteIds /\ pc[r] \notin Final /\ pc'[r] \notin Final
    BY <1>2, <1>4, InputTypes DEF Final
  <2>2. b \in tx[r].old \cup {r}
    BY <1>2, <1>5 DEF Writing, InTransaction, ToSet
  <2>3. BlockOf(b, req[r].note) \/ b = r
    BY <1>2, <2>2 DEF BlockOf
  <2>4. ASSUME NEW c \in BlockIds, NEW n \in NoteIds, BlockOf(c, n)'
        PROVE  BlockOf(c, n) \/ (c = r /\ n = req[r].note)
    <3>1. CASE c \in DOMAIN StartBlocks /\ StartBlocks[c] = n
      BY <3>1 DEF BlockOf
    <3>2. CASE c \in DOMAIN blocks /\ blocks[c] = n
      BY <3>2 DEF BlockOf
    <3>3. ASSUME NEW q \in Requests, req[q].op = "UpdateNote", req[q].note = n,
                 c \in tx'[q].old \cup tx'[q].inserted
          PROVE  BlockOf(c, n) \/ (c = r /\ n = req[r].note)
      BY <1>6, <2>3, <3>3 DEF BlockOf
    <3>4. QED
      BY <1>2, <2>4, <3>1, <3>2, <3>3 DEF BlockOf
  <2>5. \A n \in NoteIds : BlockOf(r, n) => n = req[r].note
    BY <2>1 DEF BlockOfInv, BlockIds
  <2>6. QED
    BY <1>2, <2>1, <2>4, <2>5 DEF BlockOfInv, RequestTypes
<1>12. QED
  BY <1>1, <1>2, <1>3, <1>6, <1>9, <1>10, <1>11, StatementKeeps DEF Tables

LEMMA UpdatingKeeps ==
  ASSUME NotesInv, NEW r \in Requests,
         UpdateNoteRow(r) \/ DeleteNoteTags(r) \/ CreateNoteTags(r)
  PROVE  NotesInv'
<1> USE DEF NotesInv, At
<1>1. PICK next \in {"deleteBlocks", "deleteTags", "insertTags", "commit"} :
         Goto(r, next) /\ (next = "commit" => CreateNoteTags(r))
  BY DEF UpdateNoteRow, DeleteNoteTags, CreateNoteTags
<1>2. /\ UNCHANGED <<notes, blocks, tags, noteTags, tx>>
      /\ pc[r] \in {"update", "deleteTags", "insertTags"}
      /\ req[r].op = "UpdateNote" /\ Locks(r)
      /\ pc' = [pc EXCEPT ![r] = next] /\ req' = req
  BY <1>1 DEF UpdateNoteRow, DeleteNoteTags, CreateNoteTags, Goto, Tables
<1>3. next \in Label \ {"idle"} /\ pc[r] \notin Over
  BY <1>2 DEF Label, NoteBookLabel, Over
<1>4. pc'[r] = next
  BY <1>2 DEF RequestTypes
<1>5. \A id : Made(id) => Made(id)'
  BY <1>2 DEF Made, Final, RequestTypes
<1>6. locks[r] \subseteq locks'[r]
  BY <1>2, StatementLocks
<1>7. Checked(r)'
  <2>1. Checked(r)
    OBVIOUS
  <2>2. next = "commit" =>
           \A t \in tx[r].tags : t \in DOMAIN tags /\ Lock("share", <<"tag", t>>) \in locks'[r]
    BY <1>1, <1>2, StatementLocks DEF CreateNoteTags, Needed
  <2>3. QED
    BY <1>2, <1>4, <1>5, <2>1, <2>2 DEF Checked, NoteStillOwn, TagStillOwn, InTransaction
<1>8. Writing(r)'
  <2>1. Writing(r)
    OBVIOUS
  <2>2. QED
    BY <1>2, <1>4, <1>6, <2>1 DEF Writing, InTransaction
<1>9. BlockOfInv'
  BY <1>1, <1>2, NoNewBlock DEF Final
<1>10. QED
  BY <1>1, <1>2, <1>3, <1>7, <1>8, <1>9, StatementKeeps DEF RequestTypes, Tables

LEMMA DeleteBlocksKeeps ==
  ASSUME NotesInv, NEW r \in Requests, DeleteBlocks(r)
  PROVE  NotesInv'
<1> USE DEF NotesInv, At
<1> DEFINE gone == (tx[r].old \ ToSet(req[r].blocks)) \cap DOMAIN blocks
<1>1. /\ UNCHANGED <<notes, blocks, tags, noteTags>>
      /\ pc[r] = "deleteBlocks" /\ req[r].op = "UpdateNote" /\ Locks(r)
      /\ Goto(r, "deleteTags")
      /\ pc' = [pc EXCEPT ![r] = "deleteTags"] /\ req' = req
      /\ tx' = [tx EXCEPT ![r].deleted = gone]
  BY DEF DeleteBlocks, Goto, Tables
<1>2. "deleteTags" \in Label \ {"idle"} /\ pc[r] \notin Over
  BY <1>1 DEF Label, NoteBookLabel, Over
<1>3. pc'[r] = "deleteTags"
  BY <1>1 DEF RequestTypes
<1>4. /\ tx' \in [Requests -> Tx]
      /\ \A q \in Requests \ {r} : tx'[q] = tx[q]
      /\ tx'[r].at = tx[r].at /\ tx'[r].tags = tx[r].tags
      /\ tx'[r].old = tx[r].old /\ tx'[r].inserted = tx[r].inserted
      /\ tx'[r].deleted = gone
  BY <1>1 DEF RequestTypes, Tx, TableTypes
<1>5. \A id : Made(id) => Made(id)'
  BY <1>1 DEF Made, Final, RequestTypes
<1>6. locks[r] \subseteq locks'[r]
      /\ \A b \in gone : Lock("erase", <<"block", b>>) \in locks'[r]
  BY <1>1, StatementLocks DEF Needed
<1>7. Checked(r)'
  <2>1. Checked(r)
    OBVIOUS
  <2>2. QED
    BY <1>1, <1>3, <1>4, <1>5, <2>1 DEF Checked, NoteStillOwn, TagStillOwn, InTransaction
<1>8. Writing(r)'
  <2>1. Writing(r)
    OBVIOUS
  <2>2. QED
    BY <1>1, <1>3, <1>4, <1>6, <2>1 DEF Writing, InTransaction
<1>9. BlockOfInv'
  BY <1>1, <1>4, NoNewBlock DEF Final
<1>10. QED
  BY <1>1, <1>2, <1>4, <1>7, <1>8, <1>9, StatementKeeps DEF Tables

LEMMA ErasingKeeps ==
  ASSUME NotesInv, NEW r \in Requests, DeleteNoteErase(r) \/ DeleteTagErase(r)
  PROVE  NotesInv'
<1> USE DEF NotesInv, At
<1>1. PICK next \in {"cascade", "untag"} : Goto(r, next)
  BY DEF DeleteNoteErase, DeleteTagErase
<1>2. /\ UNCHANGED <<notes, blocks, tags, noteTags, tx>>
      /\ \/ next = "cascade" /\ pc[r] = "erase" /\ req[r].op = "DeleteNote"
         \/ next = "untag" /\ pc[r] = "eraseTag" /\ req[r].op = "DeleteTag"
      /\ Locks(r)
      /\ pc' = [pc EXCEPT ![r] = next] /\ req' = req
  BY <1>1 DEF DeleteNoteErase, DeleteTagErase, Goto, Tables, RequestTypes
<1>3. next \in Label \ {"idle"} /\ pc[r] \notin Over
  BY <1>2 DEF Label, NoteBookLabel, Over
<1>4. pc'[r] = next
  BY <1>2 DEF RequestTypes
<1>5. \A id : Made(id) => Made(id)'
  BY <1>2 DEF Made, Final, RequestTypes
<1>6. Checked(r)'
  <2>1. Checked(r)
    OBVIOUS
  <2>2. pc[r] = "eraseTag" /\ req[r].tag \in DOMAIN tags =>
            Lock("erase", <<"tag", req[r].tag>>) \in locks'[r]
    BY <1>2, StatementLocks DEF Needed
  <2>3. QED
    BY <1>2, <1>4, <1>5, <2>1, <2>2 DEF Checked, NoteStillOwn, TagStillOwn
<1>7. Writing(r)'
  BY <1>2, <1>4 DEF Writing
<1>8. BlockOfInv'
  BY <1>1, <1>2, NoNewBlock DEF Final
<1>9. QED
  BY <1>1, <1>2, <1>3, <1>6, <1>7, <1>8, StatementKeeps DEF RequestTypes, Tables

----------------------------------------------------------------------------
(***************************************************************************)
(* Statements that end a request and change the tables                     *)
(***************************************************************************)

LEMMA EraseExcludes ==
  ASSUME LocksInv, NEW r \in Requests, NEW row, Lock("erase", row) \in locks[r],
         NEW q \in Requests \ {r}, NEW mode
  PROVE  Lock(mode, row) \notin locks[q]
<1>1. Conflict(Lock("erase", row), Lock(mode, row))
  BY DEF Conflict, Lock
<1>2. QED
  BY <1>1 DEF LocksInv

LEMMA CreateNoteInsertKeeps ==
  ASSUME NotesInv, NEW r \in Requests, CreateNoteInsert(r)
  PROVE  NotesInv'
<1> USE DEF NotesInv, At
<1> DEFINE new == [author |-> req[r].user, parent |-> req[r].parent, list |-> <<>>]
<1>1. /\ pc[r] = "insertNote" /\ req[r].op = "CreateNote"
      /\ req[r].parent \in DOMAIN notes \cup {NoNote}
      /\ DOMAIN notes' = DOMAIN notes \cup {r} /\ notes'[r] = new
      /\ notes' = [n \in DOMAIN notes' |-> notes'[n]]
      /\ \A n \in DOMAIN notes : n # r => notes'[n] = notes[n]
      /\ Completes(r)
      /\ UNCHANGED <<blocks, tags, noteTags>>
  BY DEF CreateNoteInsert, With
<1>2. pc[r] \notin Over /\ r \notin DOMAIN notes
  BY <1>1 DEF Over, MadeInv, Made, Final
<1>3. OthersRespected(r)
  BY <1>1 DEF OthersRespected
<1>4. TableTypes'
  <2>1. new \in Note
    BY <1>1, InputTypes DEF Note
  <2>2. QED
    BY <1>1, <2>1 DEF TableTypes, NoteIds
<1>5. Belongings'
  <2>1. req[r].parent # NoNote => OwnNote(req[r].user, req[r].parent)
    <3>1. Checked(r)
      OBVIOUS
    <3>2. QED
      BY <1>1, <3>1 DEF Checked, NoteStillOwn, OwnNote
  <2>2. QED
    BY <1>1, <1>2, <2>1 DEF Belongings, OwnNote, OwnTag
<1>6. ListedBlocksExist'
  <2>1. ToSet(new.list) = {}
    BY DEF ToSet
  <2>2. QED
    BY <1>1, <2>1 DEF ListedBlocksExist
<1>7. \A b \in DOMAIN blocks' : BlockOf(b, blocks'[b])
  BY <1>1, BlocksKnown
<1>8. QED
  BY <1>1, <1>2, <1>3, <1>4, <1>5, <1>6, <1>7, EndingKeeps DEF Completes, Final

LEMMA CommitKeeps ==
  ASSUME NotesInv, NEW r \in Requests, Commit(r)
  PROVE  NotesInv'
<1> USE DEF NotesInv, At
<1> DEFINE n == req[r].note
           written == IF n \in DOMAIN notes THEN {n} ELSE {}
<1>1. /\ pc[r] = "commit" /\ req[r].op = "UpdateNote"
      /\ DOMAIN notes' = DOMAIN notes
      /\ notes' = [m \in DOMAIN notes' |-> notes'[m]]
      /\ blocks' = [b \in DOMAIN blocks' |-> blocks'[b]]
      /\ \A m \in DOMAIN notes : m # n => notes'[m] = notes[m]
      /\ n \in DOMAIN notes => notes'[n] = [notes[n] EXCEPT !.list = req[r].blocks]
      /\ DOMAIN blocks' = (DOMAIN blocks \cup tx[r].inserted) \ tx[r].deleted
      /\ \A b \in DOMAIN blocks' : blocks'[b] = IF b \in DOMAIN blocks THEN blocks[b] ELSE n
      /\ noteTags' = {p \in noteTags : p[1] # n} \cup (written \X tx[r].tags)
      /\ Completes(r)
      /\ UNCHANGED tags
  BY DEF Commit
<1>2. pc[r] \notin Over /\ pc[r] \notin Final
  BY <1>1 DEF Over, Final
<1>3. /\ n \in NoteIds /\ req[r].blocks \in Seq(BlockIds) /\ Len(req[r].blocks) \in Nat
      /\ tx[r] \in Tx
  BY <1>1, InputTypes DEF RequestTypes
<1>4. n \in DOMAIN notes =>
         /\ notes[n] \in Note /\ notes'[n] \in Note
         /\ notes'[n].author = notes[n].author /\ notes'[n].parent = notes[n].parent
         /\ notes'[n].list = req[r].blocks
  BY <1>1, <1>3 DEF TableTypes, Note
<1>5. Checked(r) /\ Writing(r)
  OBVIOUS
<1>6. OthersRespected(r)
  <2>1. \A m \in DOMAIN notes' : m \in DOMAIN notes /\ notes'[m].author = notes[m].author
    BY <1>1, <1>4
  <2>2. \A b \in DOMAIN blocks \ DOMAIN blocks' : Lock("erase", <<"block", b>>) \in locks[r]
    BY <1>1, <1>5 DEF Writing, InTransaction
  <2>3. QED
    BY <1>1, <2>1, <2>2, EraseExcludes DEF OthersRespected
<1>7. TableTypes'
  <2>1. written \X tx[r].tags \subseteq NoteIds \X TagIds
    BY <1>3 DEF Tx
  <2>2. \A m \in DOMAIN notes' : notes'[m] \in Note
    BY <1>1, <1>4 DEF TableTypes
  <2>3. DOMAIN blocks' \subseteq BlockIds /\ \A b \in DOMAIN blocks' : blocks'[b] \in NoteIds
    BY <1>1, <1>3 DEF TableTypes, Tx
  <2>4. QED
    BY <1>1, <2>1, <2>2, <2>3 DEF TableTypes
<1>8. Belongings'
  <2>1. \A m \in DOMAIN notes : notes'[m].author = notes[m].author
                                   /\ notes'[m].parent = notes[m].parent
    BY <1>1, <1>4
  <2>2. \A t \in tx[r].tags : OwnTag(req[r].user, t)
    BY <1>1, <1>5 DEF Checked, TagStillOwn, OwnTag, InTransaction
  <2>3. n \in DOMAIN notes => notes[n].author = req[r].user
    BY <1>1, <1>5 DEF Checked, NoteStillOwn, InTransaction
  <2>4. QED
    BY <1>1, <2>1, <2>2, <2>3 DEF Belongings, OwnNote, OwnTag
<1>9. ListedBlocksExist'
  <2>1. SUFFICES ASSUME NEW m \in DOMAIN notes, NEW b \in ToSet(notes'[m].list)
                 PROVE  b \in DOMAIN blocks' /\ blocks'[b] = m
    BY <1>1 DEF ListedBlocksExist
  <2>2. CASE m # n
    <3>1. b \in DOMAIN blocks /\ blocks[b] = m
      BY <1>1, <2>1, <2>2 DEF ListedBlocksExist
    <3>2. m \in NoteIds /\ b \in BlockIds /\ BlockOf(b, m)
      BY <3>1 DEF TableTypes, BlockOf
    <3>3. b \notin tx[r].old
      BY <1>1, <1>3, <2>2, <3>2 DEF BlockOfInv, BlockOf
    <3>4. b \notin tx[r].deleted
      BY <1>1, <1>5, <3>3 DEF Writing, InTransaction
    <3>5. QED
      BY <1>1, <3>1, <3>4
  <2>3. CASE m = n
    <3>1. b \in ToSet(req[r].blocks)
      BY <1>4, <2>1, <2>3
    <3>2. PICK i \in 1..Len(req[r].blocks) : b = req[r].blocks[i]
      BY <1>3, <3>1 DEF ToSet
    <3>3. i < tx[r].at
      BY <1>1, <1>3, <1>5 DEF Writing, InTransaction, Tx
    <3>4. b \in DOMAIN blocks \cup tx[r].inserted /\ b \notin tx[r].deleted
      BY <1>1, <1>5, <3>1, <3>2, <3>3 DEF Writing, InTransaction
    <3>5. b \in BlockIds
      BY <1>3, <3>2
    <3>6. b \in DOMAIN blocks => blocks[b] = n
      <4>1. b \in tx[r].old \cup {r}
        BY <1>1, <1>5, <3>1 DEF Writing, InTransaction
      <4>2. BlockOf(b, n) \/ b = r
        BY <1>1, <4>1 DEF BlockOf
      <4>3. b \in DOMAIN blocks => BlockOf(b, blocks[b]) /\ blocks[b] \in NoteIds
        BY DEF TableTypes, BlockOf
      <4>4. QED
        BY <1>1, <1>2, <1>3, <3>5, <4>2, <4>3 DEF BlockOfInv
    <3>7. QED
      BY <1>1, <2>3, <3>4, <3>6
  <2>4. QED
    BY <2>2, <2>3
<1>10. \A b \in DOMAIN blocks' : BlockOf(b, blocks'[b])
  BY <1>1 DEF BlockOf
<1>11. QED
  BY <1>1, <1>2, <1>6, <1>7, <1>8, <1>9, <1>10, EndingKeeps DEF Completes, Final

LEMMA DeleteNoteCascadeKeeps ==
  ASSUME NotesInv, NEW r \in Requests, DeleteNoteCascade(r)
  PROVE  NotesInv'
<1> USE DEF NotesInv, At
<1> DEFINE under == Subtree(req[r].note)
<1>1. /\ pc[r] = "cascade" /\ req[r].op = "DeleteNote" /\ ~Waits(r)
      /\ DOMAIN notes' = DOMAIN notes \ under
      /\ notes' = [m \in DOMAIN notes' |-> notes'[m]]
      /\ blocks' = [b \in DOMAIN blocks' |-> blocks'[b]]
      /\ \A m \in DOMAIN notes' : notes'[m] = notes[m]
      /\ DOMAIN blocks' = DOMAIN blocks \ BlocksUnder(under)
      /\ \A b \in DOMAIN blocks' : blocks'[b] = blocks[b]
      /\ noteTags' = {p \in noteTags : p[1] \notin under}
      /\ Completes(r)
      /\ UNCHANGED tags
  BY DEF DeleteNoteCascade, Without
<1>2. pc[r] \notin Over
  BY <1>1 DEF Over
<1>3. OthersRespected(r)
  <2>1. ASSUME NEW q \in Requests \ {r}, NEW b \in DOMAIN blocks \ DOMAIN blocks'
        PROVE  Lock("write", <<"block", b>>) \notin locks[q]
    <3>1. Lock("erase", <<"block", b>>) \in Needed(r)
      BY <1>1 DEF Needed, NeededByCascade
    <3>2. Conflict(Lock("erase", <<"block", b>>), Lock("write", <<"block", b>>))
      BY DEF Conflict, Lock
    <3>3. QED
      BY <1>1, <3>1, <3>2, NeededIsFree
  <2>2. QED
    BY <1>1, <2>1 DEF OthersRespected
<1>4. TableTypes'
  BY <1>1 DEF TableTypes
<1>5. Belongings'
  <2>1. \A m \in DOMAIN notes : notes[m].parent \in under => m \in under
    BY DEF Subtree
  <2>2. QED
    BY <1>1, <2>1 DEF Belongings, OwnNote, OwnTag
<1>6. ListedBlocksExist'
  BY <1>1 DEF ListedBlocksExist, BlocksUnder
<1>7. \A b \in DOMAIN blocks' : BlockOf(b, blocks'[b])
  BY <1>1, BlocksKnown
<1>8. QED
  BY <1>1, <1>2, <1>3, <1>4, <1>5, <1>6, <1>7, EndingKeeps DEF Completes, Final

LEMMA CreateTagInsertKeeps ==
  ASSUME NotesInv, NEW r \in Requests, CreateTagInsert(r)
  PROVE  NotesInv'
<1> USE DEF NotesInv, At
<1> DEFINE new == [owner |-> req[r].user, name |-> req[r].name]
<1>1. /\ pc[r] = "insertTag" /\ req[r].op = "CreateTag"
      /\ DOMAIN tags' = DOMAIN tags \cup {r} /\ tags'[r] = new
      /\ tags' = [t \in DOMAIN tags' |-> tags'[t]]
      /\ \A t \in DOMAIN tags : t # r => tags'[t] = tags[t]
      /\ Completes(r)
      /\ UNCHANGED <<notes, blocks, noteTags>>
  BY DEF CreateTagInsert, With
<1>2. pc[r] \notin Over /\ r \notin DOMAIN tags
  BY <1>1 DEF Over, MadeInv, Made, Final
<1>3. OthersRespected(r)
  BY <1>1 DEF OthersRespected
<1>4. TableTypes'
  <2>1. new \in Tag
    BY <1>1, InputTypes DEF Tag
  <2>2. QED
    BY <1>1, <2>1 DEF TableTypes, TagIds
<1>5. Belongings'
  BY <1>1, <1>2 DEF Belongings, OwnNote, OwnTag
<1>6. ListedBlocksExist' /\ \A b \in DOMAIN blocks' : BlockOf(b, blocks'[b])
  BY <1>1, BlocksKnown DEF ListedBlocksExist
<1>7. QED
  BY <1>1, <1>2, <1>3, <1>4, <1>5, <1>6, EndingKeeps DEF Completes, Final

LEMMA UpdateTagRowKeeps ==
  ASSUME NotesInv, NEW r \in Requests, UpdateTagRow(r)
  PROVE  NotesInv'
<1> USE DEF NotesInv, At
<1>1. /\ pc[r] = "updateTag" /\ req[r].op = "UpdateTag"
      /\ Completes(r)
      /\ UNCHANGED <<notes, blocks, noteTags>>
  BY DEF UpdateTagRow
<1>2. /\ DOMAIN tags' = DOMAIN tags /\ tags' \in [DOMAIN tags -> Tag]
      /\ \A t \in DOMAIN tags : tags'[t].owner = tags[t].owner
  <2>1. req[r].name \in Names /\ tags \in [DOMAIN tags -> Tag]
    BY <1>1, InputTypes DEF TableTypes
  <2>2. CASE tags' = tags
    BY <2>1, <2>2
  <2>3. CASE tags' = [tags EXCEPT ![req[r].tag].name = req[r].name]
    BY <2>1, <2>3 DEF Tag
  <2>4. QED
    BY <2>2, <2>3 DEF UpdateTagRow
<1>3. pc[r] \notin Over
  BY <1>1 DEF Over
<1>4. OthersRespected(r)
  BY <1>1, <1>2 DEF OthersRespected
<1>5. TableTypes'
  BY <1>1, <1>2 DEF TableTypes
<1>6. Belongings'
  BY <1>1, <1>2 DEF Belongings, OwnNote, OwnTag
<1>7. ListedBlocksExist' /\ \A b \in DOMAIN blocks' : BlockOf(b, blocks'[b])
  BY <1>1, BlocksKnown DEF ListedBlocksExist
<1>8. QED
  BY <1>1, <1>3, <1>4, <1>5, <1>6, <1>7, EndingKeeps DEF Completes, Final

LEMMA DeleteTagCascadeKeeps ==
  ASSUME NotesInv, NEW r \in Requests, DeleteTagCascade(r)
  PROVE  NotesInv'
<1> USE DEF NotesInv, At
<1> DEFINE t0 == req[r].tag
<1>1. /\ pc[r] = "untag" /\ req[r].op = "DeleteTag"
      /\ DOMAIN tags' = DOMAIN tags \ {t0}
      /\ tags' = [t \in DOMAIN tags' |-> tags'[t]]
      /\ \A t \in DOMAIN tags' : tags'[t] = tags[t]
      /\ noteTags' = {p \in noteTags : p[2] # t0}
      /\ Completes(r)
      /\ UNCHANGED <<notes, blocks>>
  BY DEF DeleteTagCascade, Without
<1>2. pc[r] \notin Over
  BY <1>1 DEF Over
<1>3. OthersRespected(r)
  <2>1. t0 \in DOMAIN tags => Lock("erase", <<"tag", t0>>) \in locks[r]
    <3>1. Checked(r)
      OBVIOUS
    <3>2. QED
      BY <1>1, <3>1 DEF Checked
  <2>2. QED
    BY <1>1, <2>1, EraseExcludes DEF OthersRespected
<1>4. TableTypes'
  BY <1>1 DEF TableTypes
<1>5. Belongings'
  BY <1>1 DEF Belongings, OwnNote, OwnTag
<1>6. ListedBlocksExist' /\ \A b \in DOMAIN blocks' : BlockOf(b, blocks'[b])
  BY <1>1, BlocksKnown DEF ListedBlocksExist
<1>7. QED
  BY <1>1, <1>2, <1>3, <1>4, <1>5, <1>6, EndingKeeps DEF Completes, Final

----------------------------------------------------------------------------
(***************************************************************************)
(* Notes and tags: every step                                              *)
(***************************************************************************)

LEMMA RollingBackKeeps ==
  ASSUME NotesInv, NEW r \in Requests, pc[r] \notin Over, RollsBack(r)
  PROVE  NotesInv'
  BY ClosingKeeps DEF RollsBack, Final

LEMMA NotesStepKeeps ==
  ASSUME NotesInv, NEW r \in Requests, NotesStep(r)
  PROVE  NotesInv'
<1>1. CASE CreateNoteReadParent(r) \/ UpdateNoteRead(r) \/ DeleteNoteRead(r)
  BY <1>1, NotesReadingKeeps
<1>2. CASE UpdateNoteReadBlocks(r)
  BY <1>2, UpdateNoteReadBlocksKeeps
<1>3. CASE UpdateNoteReadTags(r)
  BY <1>3, UpdateNoteReadTagsKeeps
<1>4. CASE UpsertExisting(r)
  BY <1>4, UpsertExistingKeeps
<1>5. CASE UpsertMissing(r)
  BY <1>5, UpsertMissingKeeps
<1>6. CASE UpdateNoteRow(r) \/ DeleteNoteTags(r) \/ CreateNoteTags(r)
  BY <1>6, UpdatingKeeps
<1>7. CASE DeleteBlocks(r)
  BY <1>7, DeleteBlocksKeeps
<1>8. CASE DeleteNoteErase(r)
  BY <1>8, ErasingKeeps
<1>9. CASE CreateNoteInsert(r)
  BY <1>9, CreateNoteInsertKeeps
<1>10. CASE Commit(r)
  BY <1>10, CommitKeeps
<1>11. CASE DeleteNoteCascade(r)
  BY <1>11, DeleteNoteCascadeKeeps
<1>12. CASE CreateNoteOrphan(r) \/ UpsertOrphan(r) \/ CreateNoteTagsOrphan(r)
  BY <1>12, RollingBackKeeps
     DEF CreateNoteOrphan, UpsertOrphan, CreateNoteTagsOrphan, At, Over
<1>13. QED
  BY <1>1, <1>2, <1>3, <1>4, <1>5, <1>6, <1>7, <1>8, <1>9, <1>10, <1>11, <1>12
     DEF NotesStep

LEMMA TagsStepKeeps ==
  ASSUME NotesInv, NEW r \in Requests, TagsStep(r)
  PROVE  NotesInv'
<1>1. CASE CreateTagInsert(r)
  BY <1>1, CreateTagInsertKeeps
<1>2. CASE UpdateTagRow(r)
  BY <1>2, UpdateTagRowKeeps
<1>3. CASE UpdateTagRead(r) \/ DeleteTagRead(r)
  BY <1>3, TagsReadingKeeps
<1>4. CASE DeleteTagErase(r)
  BY <1>4, ErasingKeeps
<1>5. CASE DeleteTagCascade(r)
  BY <1>5, DeleteTagCascadeKeeps
<1>6. CASE CreateTagTaken(r) \/ UpdateTagTaken(r)
  BY <1>6, ClosingKeeps DEF CreateTagTaken, UpdateTagTaken, At, Over, Final
<1>7. QED
  BY <1>1, <1>2, <1>3, <1>4, <1>5, <1>6 DEF TagsStep

LEMMA AdvanceKeeps ==
  ASSUME NotesInv, NEW r \in Requests, Advance(r)
  PROVE  NotesInv'
<1>1. CASE Victim(r)
  BY <1>1, RollingBackKeeps DEF Victim, WaitsFor
<1>2. QED
  BY <1>1, NotesStepKeeps, TagsStepKeeps, LockSomeKeeps DEF Advance

LEMMA SeenIsMade ==
  ASSUME NotesInv
  PROVE  /\ SeenNotes \subseteq NoteIds /\ \A n \in SeenNotes : Made(n)
         /\ SeenTags \subseteq TagIds /\ \A t \in SeenTags : Made(t)
  BY RequestsAreNoStart
     DEF NotesInv, TableTypes, MadeInv, SeenNotes, SeenTags, NoteIds, TagIds

LEMMA NotesBeginKeeps ==
  ASSUME NotesInv, NEW r \in Requests, NotesBegin(r)
  PROVE  NotesInv'
<1>1. CASE CreateNoteBegin(r)
  <2>1. PICK user \in Users, parent \in SeenNotes \cup {NoNote} :
          Admit(r, [op |-> "CreateNote", user |-> user, parent |-> parent],
                IF parent = NoNote THEN "insertNote" ELSE "readParent")
    BY <1>1 DEF CreateNoteBegin
  <2> DEFINE input == [op |-> "CreateNote", user |-> user, parent |-> parent]
             next == IF parent = NoNote THEN "insertNote" ELSE "readParent"
  <2>2. input \in Input /\ next \in Label
    BY SeenIsMade DEF Input, NoteBookInput, Label, NoteBookLabel
  <2>3. parent # NoNote => Made(parent) /\ next # "insertNote"
    BY SeenIsMade
  <2>4. Admit(r, input, next) /\ next \in {"insertNote", "readParent"}
    BY <2>1
  <2>5. input.op = "CreateNote" /\ input.parent = parent
    OBVIOUS
  <2> HIDE DEF input, next
  <2>6. QED
    BY <2>2, <2>3, <2>4, <2>5, ArrivingKeeps
<1>2. CASE UpdateNoteBegin(r)
  <2>1. PICK user \in Users, n \in SeenNotes, list \in BlockLists(r), tagIds \in TagChoices :
          Admit(r, [op |-> "UpdateNote", user |-> user, note |-> n,
                    blocks |-> list, tagIds |-> tagIds], "readNote")
    BY <1>2 DEF UpdateNoteBegin
  <2> DEFINE input == [op |-> "UpdateNote", user |-> user, note |-> n,
                       blocks |-> list, tagIds |-> tagIds]
             ids == DOMAIN StartBlocks \cup DOMAIN blocks \cup {r}
  <2>2. list \in Seq(BlockIds)
    <3>1. PICK m \in 0..MaxBlocks : list \in [1..m -> ids]
      BY DEF BlockLists, SeqOf
    <3>2. ids \subseteq BlockIds
      BY DEF NotesInv, TableTypes, BlockIds
    <3>3. QED
      BY <3>1, <3>2, BoundsAssumption
  <2>3. tagIds \in {Keep} \cup SUBSET TagIds
    BY DEF TagChoices, NotesInv, TableTypes, TagIds
  <2>4. input \in Input /\ "readNote" \in Label
    BY <2>2, <2>3, SeenIsMade DEF Input, NoteBookInput, Label, NoteBookLabel
  <2>5. Admit(r, input, "readNote")
    BY <2>1
  <2>6. input.op = "UpdateNote" /\ input.note = n /\ Made(n)
    BY SeenIsMade
  <2> HIDE DEF input
  <2>7. QED
    BY <2>4, <2>5, <2>6, ArrivingKeeps
<1>3. CASE DeleteNoteBegin(r)
  <2>1. PICK user \in Users, n \in SeenNotes :
          Admit(r, [op |-> "DeleteNote", user |-> user, note |-> n], "readNote")
    BY <1>3 DEF DeleteNoteBegin
  <2>2. /\ [op |-> "DeleteNote", user |-> user, note |-> n] \in Input
        /\ "readNote" \in Label
        /\ Made(n)
    BY SeenIsMade DEF Input, NoteBookInput, Label, NoteBookLabel
  <2>3. QED
    BY <2>1, <2>2, ArrivingKeeps
<1>4. QED
  BY <1>1, <1>2, <1>3 DEF NotesBegin

LEMMA TagsBeginKeeps ==
  ASSUME NotesInv, NEW r \in Requests, TagsBegin(r)
  PROVE  NotesInv'
<1>1. CASE CreateTagBegin(r)
  <2>1. PICK user \in Users, name \in Names :
          Admit(r, [op |-> "CreateTag", user |-> user, name |-> name], "insertTag")
    BY <1>1 DEF CreateTagBegin
  <2>2. /\ [op |-> "CreateTag", user |-> user, name |-> name] \in Input
        /\ "insertTag" \in Label
    BY DEF Input, NoteBookInput, Label, NoteBookLabel
  <2>3. QED
    BY <2>1, <2>2, ArrivingKeeps
<1>2. CASE UpdateTagBegin(r)
  <2>1. PICK user \in Users, t \in SeenTags, name \in Names :
          Admit(r, [op |-> "UpdateTag", user |-> user, tag |-> t, name |-> name], "readTag")
    BY <1>2 DEF UpdateTagBegin
  <2>2. /\ [op |-> "UpdateTag", user |-> user, tag |-> t, name |-> name] \in Input
        /\ "readTag" \in Label
        /\ Made(t)
    BY SeenIsMade DEF Input, NoteBookInput, Label, NoteBookLabel
  <2>3. QED
    BY <2>1, <2>2, ArrivingKeeps
<1>3. CASE DeleteTagBegin(r)
  <2>1. PICK user \in Users, t \in SeenTags :
          Admit(r, [op |-> "DeleteTag", user |-> user, tag |-> t], "readTag")
    BY <1>3 DEF DeleteTagBegin
  <2>2. /\ [op |-> "DeleteTag", user |-> user, tag |-> t] \in Input
        /\ "readTag" \in Label
        /\ Made(t)
    BY SeenIsMade DEF Input, NoteBookInput, Label, NoteBookLabel
  <2>3. QED
    BY <2>1, <2>2, ArrivingKeeps
<1>4. QED
  BY <1>1, <1>2, <1>3 DEF TagsBegin

----------------------------------------------------------------------------
(***************************************************************************)
(* Attachments and avatars leave notes and tags alone                      *)
(***************************************************************************)

LEMMA FilesBeginKeeps ==
  ASSUME NotesInv, FileTypes, NEW r \in Requests,
         AttachmentsBegin(r) \/ UpdateAvatarBegin(r)
  PROVE  NotesInv'
<1>1. CASE UploadBegin(r)
  <2>1. PICK user \in Users, b \in SeenBlocks, allowed \in BOOLEAN :
          Admit(r, [op |-> "UploadAttachment", user |-> user, block |-> b,
                    allowed |-> allowed], "readOwner")
    BY <1>1 DEF UploadBegin
  <2>2. b \in BlockIds
    BY DEF NotesInv, TableTypes, SeenBlocks, BlockIds
  <2>3. /\ [op |-> "UploadAttachment", user |-> user, block |-> b, allowed |-> allowed]
              \in Input
        /\ "readOwner" \in Label
    BY <2>2 DEF Input, Label
  <2>4. QED
    BY <2>1, <2>3, ArrivingKeeps
<1>2. CASE ReadAttachmentBegin(r)
  <2>1. PICK op \in {"GetAttachment", "DeleteAttachment"}, user \in Users,
             a \in SeenAttachments :
          Admit(r, [op |-> op, user |-> user, attachment |-> a], "readAttachment")
    BY <1>2 DEF ReadAttachmentBegin
  <2>2. a \in AttachmentIds
    BY DEF FileTypes, SeenAttachments, AttachmentIds
  <2>3. [op |-> op, user |-> user, attachment |-> a] \in Input /\ "readAttachment" \in Label
    BY <2>2 DEF Input, Label
  <2>4. QED
    BY <2>1, <2>3, ArrivingKeeps
<1>3. CASE UpdateAvatarBegin(r)
  <2>1. PICK user \in Users, allowed \in BOOLEAN :
          Admit(r, [op |-> "UpdateAvatar", user |-> user, was |-> NoAvatar],
                IF allowed THEN "readUser" ELSE "rejected")
    BY <1>3 DEF UpdateAvatarBegin
  <2>2. PICK next \in {"readUser", "rejected"} :
          Admit(r, [op |-> "UpdateAvatar", user |-> user, was |-> NoAvatar], next)
    BY <2>1
  <2>3. /\ [op |-> "UpdateAvatar", user |-> user, was |-> NoAvatar] \in Input
        /\ next \in Label
    BY DEF Input, Label, NoteBookLabel, Over, AvatarNames
  <2>4. QED
    BY <2>2, <2>3, ArrivingKeeps
<1>4. QED
  BY <1>1, <1>2, <1>3 DEF AttachmentsBegin

FileOps == {"UploadAttachment", "GetAttachment", "DeleteAttachment", "UpdateAvatar"}

\* A step of a request for a file, that is not its last one.
LEMMA FileCallKeeps ==
  ASSUME NotesInv, NEW r \in Requests, pc[r] \notin Over, UNCHANGED <<Tables, locks>>,
         req[r].op \in FileOps,
         NEW input \in Input, input.op = req[r].op, req' = [req EXCEPT ![r] = input],
         NEW local \in Tx, tx' = [tx EXCEPT ![r] = local],
         NEW next \in Label \ {"idle", "upsert"}, pc' = [pc EXCEPT ![r] = next],
         next \in {"readAttachment", "readBlockOwner"} =>
             req[r].op \in {"GetAttachment", "DeleteAttachment"}
  PROVE  NotesInv'
<1> USE DEF NotesInv, FileOps
<1>1. OnlyBy(r)
  BY DEF OnlyBy, RequestTypes, Over, Final
<1>2. RequestTypes'
  BY DEF RequestTypes
<1>3. /\ req'[r].op = req[r].op /\ pc'[r] = next
      /\ \A q \in Requests \ {r} : req'[q] = req[q] /\ tx'[q] = tx[q]
  BY DEF RequestTypes
<1>4. LocksInv'
  BY DEF LocksInv
<1>5. BlockOfInv'
  <2>1. \A b \in BlockIds, n \in NoteIds : BlockOf(b, n)' => BlockOf(b, n)
    BY <1>3 DEF BlockOf, Tables
  <2>2. QED
    BY <1>1, <2>1, BlocksUnchanged
<1>6. Checked(r)' /\ Writing(r)'
  BY <1>3 DEF Checked, Writing
<1>7. QED
  BY <1>1, <1>2, <1>3, <1>4, <1>5, <1>6, MovingKeeps

LEMMA FileGotoKeeps ==
  ASSUME NotesInv, NEW r \in Requests, pc[r] \notin Over, UNCHANGED <<Tables, locks, tx>>,
         req[r].op \in FileOps, NEW next \in Label \ {"idle", "upsert", "readAttachment",
                                                      "readBlockOwner"},
         Goto(r, next)
  PROVE  NotesInv'
<1>1. req[r] \in Input /\ tx[r] \in Tx
  BY DEF NotesInv, RequestTypes
<1>2. /\ req' = [req EXCEPT ![r] = req[r]] /\ tx' = [tx EXCEPT ![r] = tx[r]]
      /\ pc' = [pc EXCEPT ![r] = next]
  BY DEF NotesInv, RequestTypes, Goto
<1>3. QED
  BY <1>1, <1>2, FileCallKeeps

LEMMA ReadAttachmentKeeps ==
  ASSUME NotesInv, FileTypes, NEW r \in Requests, ReadAttachment(r)
  PROVE  NotesInv'
<1> DEFINE a == req[r].attachment
           local == [tx[r] EXCEPT !.old = {attachments[a]}]
<1>1. /\ pc[r] = "readAttachment" /\ pc[r] \notin Over
      /\ UNCHANGED <<Tables, locks>>
      /\ req[r].op \in {"GetAttachment", "DeleteAttachment"}
  BY DEF ReadAttachment, Over, NotesInv, Writing
<1>2. CASE a \in DOMAIN attachments
  <2>1. local \in Tx
    BY <1>2 DEF FileTypes, NotesInv, RequestTypes, Tx
  <2>2. /\ tx' = [tx EXCEPT ![r] = local] /\ pc' = [pc EXCEPT ![r] = "readBlockOwner"]
        /\ req' = [req EXCEPT ![r] = req[r]] /\ req[r] \in Input
        /\ "readBlockOwner" \in Label
    BY <1>2 DEF ReadAttachment, Goto, NotesInv, RequestTypes, Label
  <2> HIDE DEF local
  <2>3. QED
    BY <1>1, <2>1, <2>2, FileCallKeeps DEF FileOps
<1>3. CASE a \notin DOMAIN attachments
  BY <1>1, <1>3, FileGotoKeeps DEF ReadAttachment, FileOps, Label, NoteBookLabel, Over
<1>4. QED
  BY <1>2, <1>3

LEMMA AttachmentsStepKeeps ==
  ASSUME NotesInv, FileTypes, NEW r \in Requests, AttachmentsStep(r)
  PROVE  NotesInv'
<1> USE DEF At, Over, FileOps
<1>1. CASE UploadReadOwner(r)
  <2>1. PICK next \in {"putFile", "rejected"} : Goto(r, next)
    BY <1>1 DEF UploadReadOwner
  <2>2. QED
    BY <1>1, <2>1, FileGotoKeeps DEF UploadReadOwner, Label, NoteBookLabel
<1>2. CASE UploadPutFile(r) \/ UploadRefused(r) \/ UploadUnheard(r)
  <2>1. PICK next \in {"insertAttachment", "takeBack"} : Goto(r, next)
    BY <1>2 DEF UploadPutFile, UploadRefused, UploadUnheard
  <2>2. QED
    BY <1>2, <2>1, FileGotoKeeps
       DEF UploadPutFile, UploadRefused, UploadUnheard, Label, NoteBookLabel
<1>3. CASE UploadInsert(r) \/ UploadTakeBack(r) \/ GetFile(r)
           \/ DeleteAttachmentUnheard(r) \/ DeleteAttachmentFile(r)
  <2>1. PICK how \in Final : Ends(r, how)
    BY <1>3 DEF UploadInsert, UploadTakeBack, GetFile, DeleteAttachmentUnheard,
                DeleteAttachmentFile, Final
  <2>2. QED
    BY <1>3, <2>1, ClosingKeeps
       DEF UploadInsert, UploadTakeBack, GetFile, DeleteAttachmentUnheard,
           DeleteAttachmentFile
<1>4. CASE ReadAttachment(r)
  BY <1>4, ReadAttachmentKeeps
<1>5. CASE ReadBlockOwner(r)
  <2>1. /\ pc[r] = "readBlockOwner" /\ UNCHANGED Tables
        /\ req[r].op \in {"GetAttachment", "DeleteAttachment"}
    BY <1>5 DEF ReadBlockOwner, NotesInv, Writing
  <2>2. CASE Ends(r, "rejected")
    BY <2>1, <2>2, ClosingKeeps DEF Final
  <2>3. CASE UNCHANGED <<locks, tx>> /\ \E next \in {"getFile", "eraseAttachment"} : Goto(r, next)
    BY <2>1, <2>3, FileGotoKeeps DEF Label, NoteBookLabel
  <2>4. QED
    BY <1>5, <2>2, <2>3 DEF ReadBlockOwner
<1>6. CASE DeleteAttachmentRow(r)
  <2>1. CASE Ends(r, "rejected")
    BY <1>6, <2>1, ClosingKeeps DEF DeleteAttachmentRow, Final
  <2>2. CASE UNCHANGED <<locks, tx>> /\ Goto(r, "eraseFile")
    BY <1>6, <2>2, FileGotoKeeps DEF DeleteAttachmentRow, Label, NoteBookLabel
  <2>3. QED
    BY <1>6, <2>1, <2>2 DEF DeleteAttachmentRow
<1>7. QED
  BY <1>1, <1>2, <1>3, <1>4, <1>5, <1>6 DEF AttachmentsStep

LEMMA AvatarsStepKeeps ==
  ASSUME NotesInv, FileTypes, NEW r \in Requests, AvatarsStep(r)
  PROVE  NotesInv'
<1> USE DEF At, Over, FileOps
<1>1. CASE UpdateAvatarRead(r)
  <2> DEFINE input == [req[r] EXCEPT !.was = avatars[req[r].user]]
  <2>1. /\ pc[r] = "readUser" /\ req[r].op = "UpdateAvatar"
        /\ UNCHANGED <<Tables, locks, tx>>
        /\ pc' = [pc EXCEPT ![r] = "putPicture"]
        /\ req' = [req EXCEPT ![r] = input]
    BY <1>1 DEF UpdateAvatarRead
  <2>2. input \in [op : {"UpdateAvatar"}, user : Users, was : AvatarNames]
    BY <2>1, InputTypes DEF NotesInv, FileTypes
  <2>3. input \in Input /\ input.op = req[r].op
    BY <2>1, <2>2 DEF Input
  <2>4. /\ tx[r] \in Tx /\ tx' = [tx EXCEPT ![r] = tx[r]]
        /\ "putPicture" \in Label
    BY <2>1 DEF NotesInv, RequestTypes, Label
  <2> HIDE DEF input
  <2>5. QED
    BY <2>1, <2>3, <2>4, FileCallKeeps
<1>2. CASE UpdateAvatarPutFile(r) \/ UpdateAvatarRow(r) \/ UpdateAvatarRefused(r)
  <2>1. PICK next \in {"updateAvatar", "erasePicture", "takeBackPicture"} : Goto(r, next)
    BY <1>2 DEF UpdateAvatarPutFile, UpdateAvatarRow, UpdateAvatarRefused
  <2>2. QED
    BY <1>2, <2>1, FileGotoKeeps
       DEF UpdateAvatarPutFile, UpdateAvatarRow, UpdateAvatarRefused, Label, NoteBookLabel
<1>3. CASE UpdateAvatarTakeBack(r) \/ UpdateAvatarErase(r)
  BY <1>3, ClosingKeeps DEF UpdateAvatarTakeBack, UpdateAvatarErase, Final
<1>4. QED
  BY <1>1, <1>2, <1>3 DEF AvatarsStep

----------------------------------------------------------------------------
(***************************************************************************)
(* The invariant                                                           *)
(***************************************************************************)

WorkspaceInv == NotesInv /\ FileTypes /\ overlapped \subseteq NoteIds

LEMMA WorkspaceInit_Inv == WorkspaceInit => WorkspaceInv
<1> SUFFICES ASSUME WorkspaceInit PROVE WorkspaceInv
  OBVIOUS
<1> USE IdsAssumption, StartAssumption, StartFilesAssumption
        DEF WorkspaceInit, StoreInit, FileInit
<1>1. TableTypes
  BY DEF TableTypes, NoteIds, BlockIds, TagIds
<1>2. RequestTypes
  <2>1. NoTx \in Tx /\ NoInput \in Input /\ "idle" \in Label
    BY DEF NoTx, Tx, NoInput, Input, NoteBookInput, Label, NoteBookLabel, Over
  <2>2. QED
    BY <2>1 DEF RequestTypes
<1>3. FileTypes
  <2>1. attachments \in [DOMAIN attachments -> BlockIds] /\ DOMAIN attachments \subseteq AttachmentIds
    BY DEF AttachmentIds, BlockIds
  <2>2. avatars \in [Users -> AvatarNames]
    BY DEF AvatarNames
  <2>3. QED
    BY <2>1, <2>2 DEF FileTypes, Keys
<1>4. MadeInv
  BY RequestsAreNoStart DEF MadeInv
<1>5. IdleInv /\ LocksInv
  BY DEF IdleInv, LocksInv
<1>6. \A r \in Requests : Checked(r) /\ Writing(r)
  BY DEF Checked, Writing, NoInput
<1>7. BlockOfInv
  BY DEF BlockOfInv, BlockOf, NoInput
<1>8. Belongings /\ ListedBlocksExist
  BY DEF Belongings, ListedBlocksExist, OwnNote, OwnTag
<1>9. QED
  BY <1>1, <1>2, <1>3, <1>4, <1>5, <1>6, <1>7, <1>8 DEF WorkspaceInv, NotesInv

LEMMA StutteringKeeps ==
  ASSUME NotesInv, UNCHANGED vars
  PROVE  NotesInv'
<1> USE DEF NotesInv, vars
<1>1. TableTypes' /\ RequestTypes' /\ IdleInv' /\ MadeInv' /\ LocksInv'
  BY DEF TableTypes, RequestTypes, IdleInv, MadeInv, Made, LocksInv
<1>2. BlockOfInv'
  BY DEF BlockOfInv, BlockOf
<1>3. \A r \in Requests : Checked(r)' /\ Writing(r)'
  BY DEF Checked, Writing, NoteStillOwn, TagStillOwn, Made
<1>4. Belongings' /\ ListedBlocksExist'
  BY DEF Belongings, ListedBlocksExist, OwnNote, OwnTag
<1>5. QED
  BY <1>1, <1>2, <1>3, <1>4

\* The rows of files name blocks, and requests that stored something.
LEMMA FileTypesKept ==
  ASSUME NotesInv, NotesInv', FileTypes, WorkspaceNext
  PROVE  FileTypes'
<1> USE DEF FileTypes, NotesInv, At
<1>1. Requests \subseteq AttachmentIds /\ Requests \subseteq AvatarNames /\ Requests \subseteq Keys
  BY DEF AttachmentIds, AvatarNames, Keys
<1>2. CASE UNCHANGED FileVars
  BY <1>2 DEF FileVars
<1>3. ASSUME NEW r \in Requests, NoteBookStep(r)
      PROVE  FileTypes'
  BY <1>3 DEF NoteBookStep, CascadeToAttachments
<1>4. ASSUME NEW r \in Requests, UploadInsert(r) \/ UploadUnheard(r)
      PROVE  FileTypes'
  <2>1. req[r].block \in BlockIds
    BY <1>4, InputTypes DEF UploadInsert, UploadUnheard
  <2>2. attachments' = With(attachments, r, req[r].block)
    BY <1>4 DEF UploadInsert, UploadUnheard
  <2>3. attachments' \in [DOMAIN attachments' -> BlockIds]
        /\ DOMAIN attachments' \subseteq AttachmentIds
    BY <1>1, <2>1, <2>2 DEF With
  <2>4. QED
    BY <1>4, <2>3 DEF UploadInsert, UploadUnheard
<1>5. ASSUME NEW r \in Requests, DeleteAttachmentRow(r) \/ DeleteAttachmentUnheard(r)
      PROVE  FileTypes'
  BY <1>5 DEF DeleteAttachmentRow, DeleteAttachmentUnheard, Without
<1>6. ASSUME NEW r \in Requests, UploadReadOwner(r) \/ UploadPutFile(r) \/ UploadRefused(r)
             \/ UploadTakeBack(r) \/ ReadAttachment(r) \/ ReadBlockOwner(r) \/ GetFile(r)
             \/ DeleteAttachmentFile(r)
      PROVE  FileTypes'
  BY <1>1, <1>6
     DEF UploadReadOwner, UploadPutFile, UploadRefused, UploadTakeBack, ReadAttachment,
         ReadBlockOwner, GetFile, DeleteAttachmentFile, PutFile, DeleteFile, FileVars
<1>7. ASSUME NEW r \in Requests, AvatarsStep(r)
      PROVE  FileTypes'
  <2>1. CASE UpdateAvatarRead(r)
    BY <2>1 DEF UpdateAvatarRead, FileVars
  <2>2. CASE UpdateAvatarRow(r) \/ UpdateAvatarRefused(r)
    BY <1>1, <2>2 DEF UpdateAvatarRow, UpdateAvatarRefused
  <2>3. CASE UpdateAvatarPutFile(r) \/ UpdateAvatarTakeBack(r) \/ UpdateAvatarErase(r)
    BY <1>1, <2>3
       DEF UpdateAvatarPutFile, UpdateAvatarTakeBack, UpdateAvatarErase, PutFile, DeleteFile
  <2>4. QED
    BY <1>7, <2>1, <2>2, <2>3 DEF AvatarsStep
<1>8. ASSUME NEW r \in Requests, AttachmentsStep(r)
      PROVE  FileTypes'
  BY <1>4, <1>5, <1>6, <1>8 DEF AttachmentsStep
<1>9. ASSUME NEW r \in Requests, WorkspaceBegin(r)
      PROVE  UNCHANGED FileVars
  BY <1>9 DEF WorkspaceBegin, NoteBookBegin, AttachmentsBegin, UploadBegin,
              ReadAttachmentBegin, UpdateAvatarBegin
<1>10. QED
  BY <1>2, <1>3, <1>7, <1>8, <1>9 DEF WorkspaceNext, WorkspaceStep

LEMMA WorkspaceNext_Inv == WorkspaceInv /\ [WorkspaceNext]_workspaceVars => WorkspaceInv'
<1> SUFFICES ASSUME WorkspaceInv, [WorkspaceNext]_workspaceVars
             PROVE  WorkspaceInv'
  OBVIOUS
<1> USE DEF WorkspaceInv
<1>1. CASE WorkspaceNext
  <2>1. NotesInv'
    <3>1. ASSUME NEW r \in Requests, WorkspaceBegin(r)
          PROVE  NotesInv'
      BY <3>1, NotesBeginKeeps, TagsBeginKeeps, FilesBeginKeeps
         DEF WorkspaceBegin, NoteBookBegin, Begin
    <3>2. ASSUME NEW r \in Requests, WorkspaceStep(r)
          PROVE  NotesInv'
      BY <3>2, AdvanceKeeps, AttachmentsStepKeeps, AvatarsStepKeeps
         DEF WorkspaceStep, NoteBookStep
    <3>3. ASSUME NEW r \in Requests, Drop(r)
          PROVE  NotesInv'
      BY <3>3, RollingBackKeeps DEF Drop
    <3>4. CASE Quiescent
      BY <3>4, StutteringKeeps DEF Quiescent
    <3>5. QED
      BY <1>1, <3>1, <3>2, <3>3, <3>4 DEF WorkspaceNext
  <2>2. overlapped' \subseteq NoteIds
    BY <1>1 DEF WorkspaceNext, Overlapping
  <2>3. QED
    BY <1>1, <2>1, <2>2, FileTypesKept
<1>2. CASE UNCHANGED workspaceVars
  BY <1>2, StutteringKeeps DEF workspaceVars, FileVars, FileTypes
<1>3. QED
  BY <1>1, <1>2

LEMMA WorkspaceSpec_Inv == WorkspaceSpec => []WorkspaceInv
  BY WorkspaceInit_Inv, WorkspaceNext_Inv, PTL DEF WorkspaceSpec

\* The tables, and what every handler holds on to, have their types; no row
\* refers to an id that is not one.
THEOREM WorkspaceTypes == WorkspaceSpec => []TypeOK
<1>1. WorkspaceInv => TypeOK
  BY DEF WorkspaceInv, NotesInv, TypeOK
<1>2. QED
  BY <1>1, WorkspaceSpec_Inv, PTL

\* However requests overlap and fail, a note hangs below a note of its author
\* and has tags of its author: the checks of CreateNote and UpdateNote are made
\* without a lock, but a row keeps its owner and an id never comes back.
THEOREM NotesBelong == WorkspaceSpec => []Belongings
<1>1. WorkspaceInv => Belongings
  BY DEF WorkspaceInv, NotesInv
<1>2. QED
  BY <1>1, WorkspaceSpec_Inv, PTL

\* However updates and deletes overlap and fail, every block a note lists is
\* there and is in that note: the transaction of Repo.UpdateNote locks each
\* block it lists until it commits, and restores one that was deleted.
THEOREM ListedBlocksStay == WorkspaceSpec => []ListedBlocksExist
<1>1. WorkspaceInv => ListedBlocksExist
  BY DEF WorkspaceInv, NotesInv
<1>2. QED
  BY <1>1, WorkspaceSpec_Inv, PTL

----------------------------------------------------------------------------
(***************************************************************************)
(* Who changes a note                                                      *)
(***************************************************************************)

\* What is somebody else's stays as it is.
LeavesOthersNotes(r) ==
    \A n \in DOMAIN notes : req[r].user # notes[n].author =>
        /\ n \in DOMAIN notes' /\ notes'[n] = notes[n]
        /\ {p \in noteTags' : p[1] = n} = {p \in noteTags : p[1] = n}

\* The notes of one author are closed under the cascade.
LEMMA SubtreeOfOneAuthor ==
  ASSUME Belongings, NEW user, NEW n, n \in DOMAIN notes => notes[n].author = user,
         NoNote \notin DOMAIN notes
  PROVE  \A m \in Subtree(n) : notes[m].author = user
<1> DEFINE own == {m \in DOMAIN notes : notes[m].author = user}
<1>1. \A m \in DOMAIN notes : notes[m].parent \in own => m \in own
  BY DEF Belongings, OwnNote
<1>2. own \in SUBSET DOMAIN notes
  OBVIOUS
<1>3. \A m \in Subtree(n) : m \in own
  BY <1>1, <1>2 DEF Subtree
<1>4. QED
  BY <1>3

LEMMA NotesStepLeavesOthers ==
  ASSUME NotesInv, NEW r \in Requests, NotesStep(r)
  PROVE  LeavesOthersNotes(r)
<1> USE DEF NotesInv, LeavesOthersNotes, At
<1>1. CASE UNCHANGED Tables
  BY <1>1 DEF Tables
<1>2. CASE CreateNoteInsert(r)
  BY <1>2 DEF CreateNoteInsert, With, MadeInv, Made, Final
<1>3. CASE Commit(r)
  <2>1. Checked(r)
    OBVIOUS
  <2>2. req[r].note \in DOMAIN notes => notes[req[r].note].author = req[r].user
    BY <1>3, <2>1 DEF Commit, Checked, NoteStillOwn, InTransaction
  <2>3. ASSUME NEW n \in DOMAIN notes, req[r].user # notes[n].author
        PROVE  /\ n \in DOMAIN notes' /\ notes'[n] = notes[n]
               /\ {p \in noteTags' : p[1] = n} = {p \in noteTags : p[1] = n}
    <3>1. n # req[r].note
      BY <2>2, <2>3
    <3>2. QED
      BY <1>3, <3>1 DEF Commit
  <2>4. QED
    BY <2>3
<1>4. CASE DeleteNoteCascade(r)
  <2>1. Checked(r) /\ NoNote \notin DOMAIN notes
    BY IdsAssumption DEF TableTypes
  <2>2. req[r].note \in DOMAIN notes => notes[req[r].note].author = req[r].user
    BY <1>4, <2>1 DEF DeleteNoteCascade, Checked, NoteStillOwn
  <2>3. \A n \in Subtree(req[r].note) : notes[n].author = req[r].user
    BY <2>1, <2>2, SubtreeOfOneAuthor
  <2>4. QED
    BY <1>4, <2>3 DEF DeleteNoteCascade, Without
<1>5. QED
  BY <1>1, <1>2, <1>3, <1>4
     DEF NotesStep, CreateNoteReadParent, CreateNoteOrphan, UpdateNoteRead,
         UpdateNoteReadBlocks, UpdateNoteReadTags, UpsertExisting, UpsertMissing,
         UpsertOrphan, UpdateNoteRow, DeleteBlocks, DeleteNoteTags, CreateNoteTags,
         CreateNoteTagsOrphan, DeleteNoteRead, DeleteNoteErase, RollsBack, Tables

LEMMA TagsStepLeavesOthers ==
  ASSUME NotesInv, NEW r \in Requests, TagsStep(r)
  PROVE  LeavesOthersNotes(r)
<1> USE DEF NotesInv, LeavesOthersNotes, At
<1>1. CASE UNCHANGED <<notes, noteTags>>
  BY <1>1
<1>2. CASE DeleteTagCascade(r)
  <2>1. Checked(r)
    OBVIOUS
  <2>2. req[r].tag \in DOMAIN tags => tags[req[r].tag].owner = req[r].user
    BY <1>2, <2>1 DEF DeleteTagCascade, Checked, TagStillOwn
  <2>3. \A p \in noteTags : p[2] = req[r].tag => notes[p[1]].author = req[r].user
    BY <2>2 DEF Belongings, OwnTag
  <2>4. QED
    BY <1>2, <2>3 DEF DeleteTagCascade
<1>3. QED
  BY <1>1, <1>2
     DEF TagsStep, CreateTagInsert, CreateTagTaken, UpdateTagRead, UpdateTagRow,
         UpdateTagTaken, DeleteTagRead, DeleteTagErase, Tables

LEMMA FileStepsLeaveNotes ==
  ASSUME NEW r \in Requests,
         WorkspaceBegin(r) \/ AttachmentsStep(r) \/ AvatarsStep(r)
  PROVE  UNCHANGED Tables
<1>1. CASE WorkspaceBegin(r)
  BY <1>1
     DEF WorkspaceBegin, NoteBookBegin, Begin, NotesBegin, CreateNoteBegin, UpdateNoteBegin,
         DeleteNoteBegin, TagsBegin, CreateTagBegin, UpdateTagBegin, DeleteTagBegin,
         AttachmentsBegin, UploadBegin, ReadAttachmentBegin, UpdateAvatarBegin, Admit
<1>2. CASE AttachmentsStep(r)
  BY <1>2
     DEF AttachmentsStep, UploadReadOwner, UploadPutFile, UploadInsert, UploadRefused,
         UploadUnheard, UploadTakeBack, ReadAttachment, ReadBlockOwner, GetFile,
         DeleteAttachmentRow, DeleteAttachmentUnheard, DeleteAttachmentFile
<1>3. CASE AvatarsStep(r)
  BY <1>3
     DEF AvatarsStep, UpdateAvatarRead, UpdateAvatarPutFile, UpdateAvatarRow,
         UpdateAvatarRefused, UpdateAvatarTakeBack, UpdateAvatarErase
<1>4. QED
  BY <1>1, <1>2, <1>3

\* A step of the notes API moves the request that takes it, and no other.
LEMMA NotesStepMovesOne ==
  ASSUME NEW q \in Requests, NotesStep(q) \/ TagsStep(q), NEW r \in Requests \ {q},
         pc \in [Requests -> Label]
  PROVE  pc'[r] = pc[r]
<1>1. \/ \E how \in Over : Ends(q, how)
      \/ \E next \in Label : Goto(q, next)
  BY DEF NotesStep, CreateNoteReadParent, CreateNoteInsert, CreateNoteOrphan, UpdateNoteRead,
         UpdateNoteReadBlocks, UpdateNoteReadTags, UpsertExisting, UpsertMissing,
         UpsertOrphan, UpdateNoteRow, DeleteBlocks, DeleteNoteTags, CreateNoteTags,
         CreateNoteTagsOrphan, Commit, DeleteNoteRead, DeleteNoteErase, DeleteNoteCascade,
         TagsStep, CreateTagInsert, CreateTagTaken, UpdateTagRead, UpdateTagRow,
         UpdateTagTaken, DeleteTagRead, DeleteTagErase, DeleteTagCascade,
         RollsBack, Completes, NextUpsert, Over, Label, NoteBookLabel
<1>2. QED
  BY <1>1 DEF Ends, Goto

\* Whatever overlaps, a note changes, goes or loses its tags in a request of its
\* author only: readOwn, made before the statement, still holds when it runs,
\* and the notes and tags a cascade reaches have the same owner.
THEOREM NotesAreTheAuthors == WorkspaceSpec => OnlyTheAuthor
<1>1. WorkspaceInv /\ [WorkspaceNext]_workspaceVars
        => [\A r \in Requests : \A n \in DOMAIN notes :
              (pc'[r] # pc[r] /\ req[r].op # "none" /\ req[r].user # notes[n].author) =>
                  /\ n \in DOMAIN notes' /\ notes'[n] = notes[n]
                  /\ {p \in noteTags' : p[1] = n} = {p \in noteTags : p[1] = n}]_vars
  <2> SUFFICES ASSUME NotesInv, WorkspaceNext,
                      NEW r \in Requests, pc'[r] # pc[r]
               PROVE  LeavesOthersNotes(r)
    BY DEF LeavesOthersNotes, WorkspaceInv, workspaceVars
  <2>1. CASE UNCHANGED Tables
    BY <2>1 DEF LeavesOthersNotes, Tables
  <2>2. CASE \E q \in Requests : NotesStep(q) \/ TagsStep(q)
    <3>1. PICK q \in Requests : NotesStep(q) \/ TagsStep(q)
      BY <2>2
    <3>2. q = r
      BY <3>1, NotesStepMovesOne DEF NotesInv, RequestTypes
    <3>3. QED
      BY <3>1, <3>2, NotesStepLeavesOthers, TagsStepLeavesOthers
  <2>3. QED
    BY <2>1, <2>2, FileStepsLeaveNotes
       DEF WorkspaceNext, WorkspaceStep, NoteBookStep, Advance, LockSome, Victim, Drop,
           RollsBack, Quiescent, vars, Tables
<1>2. QED
  BY <1>1, WorkspaceSpec_Inv, PTL DEF WorkspaceSpec, OnlyTheAuthor

----------------------------------------------------------------------------
(***************************************************************************)
(* Workspace implements NoteDocuments                                      *)
(***************************************************************************)

\* What GetNote shows of a note.
Page(n) == [author |-> notes[n].author, parent |-> notes[n].parent,
            shown |-> notes[n].list, tags |-> ReadNoteTags(n)]

\* Every listed block is there, so that all of the list is shown.
LEMMA LibraryPages == NotesInv => library = [n \in DOMAIN notes |-> Page(n)]
<1> SUFFICES ASSUME NotesInv PROVE library = [n \in DOMAIN notes |-> Page(n)]
  OBVIOUS
<1>1. ASSUME NEW n \in DOMAIN notes
      PROVE  Shown(n) = notes[n].list
  <2>1. notes[n].list \in Seq(BlockIds)
    BY DEF NotesInv, TableTypes, Note
  <2>2. \A i \in DOMAIN notes[n].list : notes[n].list[i] \in DOMAIN blocks
    BY DEF NotesInv, ListedBlocksExist, ToSet
  <2>3. notes[n].list = [i \in DOMAIN notes[n].list |-> notes[n].list[i]]
    BY <2>1
  <2>4. {i \in DOMAIN notes[n].list : notes[n].list[i] \in DOMAIN blocks}
           = DOMAIN notes[n].list
    BY <2>2
  <2>5. QED
    BY <2>3, <2>4 DEF Shown
<1>2. QED
  BY <1>1 DEF library, Page

LEMMA NextLibraryPages == (NotesInv => library = [n \in DOMAIN notes |-> Page(n)])'
  BY LibraryPages, PTL

\* The same pages before and after make the same library.
LEMMA LibraryStays ==
  ASSUME NotesInv, NotesInv', DOMAIN notes' = DOMAIN notes,
         \A n \in DOMAIN notes :
            /\ notes'[n].author = notes[n].author /\ notes'[n].parent = notes[n].parent
            /\ notes'[n].list = notes[n].list
            /\ ReadNoteTags(n)' = ReadNoteTags(n)
  PROVE  library' = library
<1>1. library' = [n \in DOMAIN notes' |-> Page(n)']
  BY NextLibraryPages
<1>2. library = [n \in DOMAIN notes |-> Page(n)]
  BY LibraryPages
<1>3. \A n \in DOMAIN notes : Page(n)' = Page(n)
  BY DEF Page
<1>4. QED
  BY <1>1, <1>2, <1>3

LEMMA LibraryUntouched ==
  ASSUME UNCHANGED Tables
  PROVE  library' = library /\ tags' = tags
  BY DEF Tables, library, Shown, ReadNoteTags

----------------------------------------------------------------------------
(***************************************************************************)
(* Calls and their answers                                                 *)
(***************************************************************************)

LEMMA OthersWait ==
  ASSUME NotesInv, NEW r \in Requests,
         \A q \in Requests \ {r} : pc'[q] = pc[q] /\ req'[q] = req[q]
  PROVE  /\ wanted' = [wanted EXCEPT ![r] = WantedOf(r)']
         /\ answer' = [answer EXCEPT ![r] = AnswerOf(r)']
         /\ \A q \in Requests : wanted[q] = WantedOf(q) /\ answer[q] = AnswerOf(q)
<1>1. \A q \in Requests \ {r} : WantedOf(q)' = WantedOf(q) /\ AnswerOf(q)' = AnswerOf(q)
  BY DEF WantedOf, AnswerOf
<1>2. QED
  BY <1>1 DEF wanted, answer

\* A call that has not answered yet, and moves on.
LEMMA GoingOnIsSilent ==
  ASSUME NotesInv, NEW r \in Requests, pc[r] \notin Over, UNCHANGED Tables,
         req' = req, NEW next, next \notin Over, pc' = [pc EXCEPT ![r] = next]
  PROVE  UNCHANGED Documents!documentVars
<1>1. \A q \in Requests : WantedOf(q)' = WantedOf(q) /\ AnswerOf(q)' = AnswerOf(q)
  BY DEF WantedOf, AnswerOf, Over, NotesInv, RequestTypes
<1>2. QED
  BY <1>1, LibraryUntouched DEF Documents!documentVars, wanted, answer

LEMMA AnsweringIsAnswered ==
  ASSUME NotesInv, NEW r \in Requests, pc[r] \notin Over, req[r].op \in DocumentOps,
         \A q \in Requests \ {r} : pc'[q] = pc[q] /\ req'[q] = req[q],
         NEW ways, pc'[r] \in ways, pc'[r] \in Final
  PROVE  Documents!Answered(r, ways) /\ wanted[r] = req[r]
<1>1. /\ WantedOf(r)' = NoInput /\ AnswerOf(r)' = pc'[r]
      /\ WantedOf(r) = req[r] /\ AnswerOf(r) = "awaited"
  BY DEF WantedOf, AnswerOf, Over, Final
<1>2. QED
  BY <1>1, OthersWait DEF Documents!Answered

\* A statement that has changed the tables, whether its answer arrives or not.
LEMMA CompletingIsMade ==
  ASSUME NotesInv, NEW r \in Requests, pc[r] \notin Over, req[r].op \in DocumentOps,
         Completes(r)
  PROVE  Documents!Made(r) /\ wanted[r] = req[r]
<1>1. PICK how \in {"done", "failed"} : Ends(r, how)
  BY DEF Completes
<1>2. /\ \A q \in Requests \ {r} : pc'[q] = pc[q] /\ req'[q] = req[q]
      /\ pc'[r] \in {"done", "failed"}
  BY <1>1 DEF Ends, NotesInv, RequestTypes
<1>3. QED
  BY <1>2, AnsweringIsAnswered DEF Documents!Made, Final

\* Calls about other things come and go.
LEMMA OtherCallsAreElsewhere ==
  ASSUME NotesInv, NEW r \in Requests, UNCHANGED Tables, pc[r] \notin Final,
         \A q \in Requests \ {r} : pc'[q] = pc[q] /\ req'[q] = req[q],
         req[r].op \notin DocumentOps, req'[r].op \notin DocumentOps
  PROVE  Documents!Next
<1>1. /\ WantedOf(r)' = NoInput /\ WantedOf(r) = NoInput
      /\ AnswerOf(r) \in {"none", "awaited"}
  BY DEF WantedOf, AnswerOf, Over, Final
<1>2. wanted' = wanted
  BY <1>1, OthersWait DEF wanted
<1>3. Documents!Elsewhere(r)
  BY <1>1, <1>2, OthersWait, LibraryUntouched DEF Documents!Elsewhere
<1>4. QED
  BY <1>3 DEF Documents!Next

\* The tables stay as they are, and the client is told.
LEMMA RefusingIsRefuse ==
  ASSUME NotesInv, NEW r \in Requests, UNCHANGED Tables, pc[r] \notin Over,
         \A q \in Requests \ {r} : pc'[q] = pc[q] /\ req'[q] = req[q],
         pc'[r] \in {"rejected", "failed"},
         req'[r] \in {req[r], NoInput}
  PROVE  Documents!Next
<1>1. CASE req[r].op \in DocumentOps
  <2>1. Documents!Refuse(r)
    BY <1>1, AnsweringIsAnswered, LibraryUntouched DEF Documents!Refuse, Final
  <2>2. QED
    BY <2>1 DEF Documents!Next
<1>2. CASE req[r].op \notin DocumentOps
  BY <1>2, OtherCallsAreElsewhere DEF DocumentOps, NoInput, Over, Final
<1>3. QED
  BY <1>1, <1>2

LEMMA ArrivingIsAsk ==
  ASSUME NotesInv, NEW r \in Requests, NEW input, NEW next, Admit(r, input, next),
         next \notin Over \/ input.op \notin DocumentOps
  PROVE  Documents!Next
<1>1. /\ UNCHANGED Tables /\ pc[r] = "idle"
      /\ pc'[r] = next /\ req'[r] = input /\ req[r] = NoInput
      /\ \A q \in Requests \ {r} : pc'[q] = pc[q] /\ req'[q] = req[q]
  BY DEF Admit, NotesInv, RequestTypes, IdleInv
<1>2. CASE next \notin Over
  <2>1. AnswerOf(r) = "none" /\ AnswerOf(r)' = "awaited"
    BY <1>1, <1>2 DEF AnswerOf, Over
  <2>2. Documents!Ask(r)
    BY <1>1, <2>1, OthersWait, LibraryUntouched DEF Documents!Ask, wanted
  <2>3. QED
    BY <2>2 DEF Documents!Next
<1>3. CASE input.op \notin DocumentOps
  BY <1>1, <1>3, OtherCallsAreElsewhere DEF NoInput, DocumentOps, Final
<1>4. QED
  BY <1>2, <1>3

----------------------------------------------------------------------------
(***************************************************************************)
(* The statements that change what is shown                                *)
(***************************************************************************)

LEMMA CreateNoteInsertIsWrite ==
  ASSUME NotesInv, NotesInv', NEW r \in Requests, CreateNoteInsert(r)
  PROVE  Documents!Next
<1> DEFINE new == [author |-> req[r].user, parent |-> req[r].parent, list |-> <<>>]
<1>1. /\ pc[r] = "insertNote" /\ req[r].op = "CreateNote"
      /\ DOMAIN notes' = DOMAIN notes \cup {r} /\ notes'[r] = new
      /\ \A n \in DOMAIN notes : n # r => notes'[n] = notes[n]
      /\ Completes(r)
      /\ UNCHANGED <<blocks, tags, noteTags>>
  BY DEF CreateNoteInsert, With, At
<1>2. pc[r] \notin Over /\ r \notin DOMAIN notes
  BY <1>1 DEF Over, NotesInv, MadeInv, Made, Final
<1>3. /\ library = [n \in DOMAIN notes |-> Page(n)]
      /\ library' = [n \in DOMAIN notes' |-> Page(n)']
  BY LibraryPages, NextLibraryPages
<1>4. \A n \in DOMAIN notes : Page(n)' = Page(n)
  BY <1>1, <1>2 DEF Page, ReadNoteTags
<1>5. Page(r)' = [author |-> req[r].user, parent |-> req[r].parent, shown |-> <<>>, tags |-> {}]
  <2>1. \A t : <<r, t>> \notin noteTags
    BY <1>2 DEF NotesInv, Belongings
  <2>2. ReadNoteTags(r)' = {}
    BY <1>1, <2>1 DEF ReadNoteTags
  <2>3. QED
    BY <1>1, <2>2 DEF Page
<1>6. Documents!Made(r) /\ wanted[r] = req[r]
  BY <1>1, <1>2, CompletingIsMade DEF DocumentOps
<1>7. req[r].parent = NoNote \/ Documents!Own(req[r].user, req[r].parent)
  <2>1. Checked(r) /\ req[r].parent \in DOMAIN notes \cup {NoNote}
    BY DEF NotesInv, CreateNoteInsert
  <2>2. QED
    BY <1>1, <1>3, <2>1 DEF Checked, NoteStillOwn, Documents!Own, Page
<1>8. library' = [d \in DOMAIN library \cup {r} |->
                    IF d = r THEN [author |-> req[r].user, parent |-> req[r].parent,
                                   shown |-> <<>>, tags |-> {}]
                             ELSE library[d]]
  BY <1>1, <1>2, <1>3, <1>4, <1>5
<1>9. Documents!Write(r)
  BY <1>1, <1>2, <1>3, <1>6, <1>7, <1>8 DEF Documents!Write
<1>10. QED
  BY <1>9 DEF Documents!Next

\* What an update saves is one list, shown nowhere else, and tags of its user.
LEMMA CommitIsSave ==
  ASSUME NotesInv, NotesInv', NEW r \in Requests, Commit(r), req[r].note \in DOMAIN notes
  PROVE  Documents!Next
<1>0. PICK n \in DOMAIN notes : n = req[r].note
  OBVIOUS
<1>1. /\ pc[r] = "commit" /\ req[r].op = "UpdateNote"
      /\ DOMAIN notes' = DOMAIN notes
      /\ \A m \in DOMAIN notes : m # n => notes'[m] = notes[m]
      /\ notes'[n] = [notes[n] EXCEPT !.list = req[r].blocks]
      /\ noteTags' = {p \in noteTags : p[1] # n} \cup ({n} \X tx[r].tags)
      /\ Completes(r)
      /\ UNCHANGED tags
  BY <1>0 DEF Commit, At
<1>2. pc[r] \notin Over
  BY <1>1 DEF Over
<1>3. /\ library = [m \in DOMAIN notes |-> Page(m)]
      /\ library' = [m \in DOMAIN notes' |-> Page(m)']
  BY LibraryPages, NextLibraryPages
<1>4. /\ notes[n].author = req[r].user
      /\ req[r].tagIds \in {Keep, tx[r].tags}
      /\ \A t \in tx[r].tags : t \in DOMAIN tags /\ tags[t].owner = req[r].user
  <2>1. Checked(r)
    BY DEF NotesInv
  <2>2. QED
    BY <1>0, <1>1, <2>1 DEF Checked, NoteStillOwn, TagStillOwn, InTransaction
<1>5. \A m \in DOMAIN notes : m # n => Page(m)' = Page(m)
  <2>1. \A m, t : m # n => (<<m, t>> \in noteTags' <=> <<m, t>> \in noteTags)
    BY <1>1
  <2>2. QED
    BY <1>1, <2>1 DEF Page, ReadNoteTags
<1>6. Page(n)' = [author |-> notes[n].author, parent |-> notes[n].parent,
                  shown |-> req[r].blocks, tags |-> tx[r].tags]
  <2>1. \A t : <<n, t>> \in noteTags' <=> t \in tx[r].tags
    BY <1>1
  <2>2. ReadNoteTags(n)' = tx[r].tags
    BY <1>1, <1>4, <2>1 DEF ReadNoteTags
  <2>3. notes[n] \in Note
    BY DEF NotesInv, TableTypes
  <2>4. /\ notes'[n].author = notes[n].author /\ notes'[n].parent = notes[n].parent
        /\ notes'[n].list = req[r].blocks
    BY <1>1, <2>3 DEF Note
  <2>5. QED
    BY <2>2, <2>4 DEF Page
<1>7. library' = [library EXCEPT ![n].shown = req[r].blocks, ![n].tags = tx[r].tags]
  <2>1. library[n] = [author |-> notes[n].author, parent |-> notes[n].parent,
                      shown |-> notes[n].list, tags |-> ReadNoteTags(n)]
    BY <1>3 DEF Page
  <2>2. Page(n)' = [library[n] EXCEPT !.shown = req[r].blocks, !.tags = tx[r].tags]
    <3> DEFINE saved == [library[n] EXCEPT !.shown = req[r].blocks]
    <3>1. saved = [author |-> notes[n].author, parent |-> notes[n].parent,
                   shown |-> req[r].blocks, tags |-> ReadNoteTags(n)]
      BY <2>1
    <3>2. [library[n] EXCEPT !.shown = req[r].blocks, !.tags = tx[r].tags]
             = [saved EXCEPT !.tags = tx[r].tags]
      OBVIOUS
    <3> HIDE DEF saved
    <3>3. [saved EXCEPT !.tags = tx[r].tags]
             = [author |-> notes[n].author, parent |-> notes[n].parent,
                shown |-> req[r].blocks, tags |-> tx[r].tags]
      BY <3>1
    <3>4. QED
      BY <1>6, <3>2, <3>3
  <2>3. library' = [m \in DOMAIN notes |->
                       IF m = n THEN [library[n] EXCEPT !.shown = req[r].blocks,
                                                        !.tags = tx[r].tags]
                                ELSE library[m]]
    BY <1>1, <1>3, <1>5, <2>2
  <2>4. QED
    BY <1>3, <2>3
<1>8. \A e \in DOMAIN library \ {n}, i \in DOMAIN req[r].blocks :
          req[r].blocks[i] \notin Documents!BlocksOf(e)
  <2>1. SUFFICES ASSUME NEW e \in DOMAIN notes, e # n, NEW i \in DOMAIN req[r].blocks,
                        NEW j \in DOMAIN notes[e].list, req[r].blocks[i] = notes[e].list[j]
                 PROVE  FALSE
    BY <1>3 DEF Documents!BlocksOf, Page
  <2>2. notes'[n].list = req[r].blocks /\ notes'[e].list = notes[e].list
    <3>1. notes[n] \in Note
      BY DEF NotesInv, TableTypes
    <3>2. QED
      BY <1>1, <2>1, <3>1 DEF Note
  <2>3. /\ req[r].blocks[i] \in ToSet(notes'[n].list)
        /\ notes[e].list[j] \in ToSet(notes'[e].list)
    BY <2>2 DEF ToSet
  <2>4. blocks'[req[r].blocks[i]] = n /\ blocks'[notes[e].list[j]] = e
    <3>1. ListedBlocksExist'
      BY DEF NotesInv
    <3>2. n \in DOMAIN notes' /\ e \in DOMAIN notes'
      BY <1>0, <1>1
    <3>3. QED
      BY <2>3, <3>1, <3>2 DEF ListedBlocksExist
  <2>5. QED
    BY <2>1, <2>4
<1>9. Documents!Made(r) /\ wanted[r] = req[r]
  BY <1>1, <1>2, CompletingIsMade DEF DocumentOps
<1>10. Documents!Own(req[r].user, n)
  BY <1>0, <1>3, <1>4 DEF Documents!Own, Page
<1>11. tx[r].tags \in SUBSET Documents!OwnLabels(req[r].user)
  BY <1>4 DEF Documents!OwnLabels
<1>12. Documents!Save(r)
  BY <1>0, <1>1, <1>4, <1>7, <1>8, <1>9, <1>10, <1>11 DEF Documents!Save
<1>13. QED
  BY <1>12 DEF Documents!Next

\* The note is gone: nothing but blocks nobody shows is left behind.
LEMMA CommitIsMiss ==
  ASSUME NotesInv, NotesInv', NEW r \in Requests, Commit(r), req[r].note \notin DOMAIN notes
  PROVE  Documents!Next
<1> DEFINE n == req[r].note
<1>1. /\ pc[r] = "commit" /\ req[r].op = "UpdateNote"
      /\ DOMAIN notes' = DOMAIN notes
      /\ \A m \in DOMAIN notes : notes'[m] = notes[m]
      /\ noteTags' = {p \in noteTags : p[1] # n}
      /\ Completes(r)
      /\ UNCHANGED tags
  BY DEF Commit, At
<1>2. \A m \in DOMAIN notes : ReadNoteTags(m)' = ReadNoteTags(m)
  BY <1>1 DEF ReadNoteTags
<1>3. library' = library
  BY <1>1, <1>2, LibraryStays
<1>4. Documents!Made(r) /\ wanted[r] = req[r]
  BY <1>1, CompletingIsMade DEF DocumentOps, Over
<1>5. DOMAIN library = DOMAIN notes
  BY DEF library
<1>6. Documents!Miss(r)
  BY <1>1, <1>3, <1>4, <1>5 DEF Documents!Miss
<1>7. QED
  BY <1>6 DEF Documents!Next

\* The cascade takes the note and those below it, all of one author.
LEMMA DeleteNoteCascadeIsTrash ==
  ASSUME NotesInv, NotesInv', NEW r \in Requests, DeleteNoteCascade(r)
  PROVE  Documents!Next
<1> DEFINE n == req[r].note
           under == Subtree(n)
<1>1. /\ pc[r] = "cascade" /\ req[r].op = "DeleteNote"
      /\ DOMAIN notes' = DOMAIN notes \ under
      /\ \A m \in DOMAIN notes' : notes'[m] = notes[m]
      /\ noteTags' = {p \in noteTags : p[1] \notin under}
      /\ Completes(r)
      /\ UNCHANGED tags
  BY DEF DeleteNoteCascade, Without, At
<1>2. /\ library = [m \in DOMAIN notes |-> Page(m)]
      /\ library' = [m \in DOMAIN notes' |-> Page(m)']
  BY LibraryPages, NextLibraryPages
<1>3. \A m \in DOMAIN notes \ under : Page(m)' = Page(m)
  <2>1. \A m, t : m \notin under => (<<m, t>> \in noteTags' <=> <<m, t>> \in noteTags)
    BY <1>1
  <2>2. QED
    BY <1>1, <2>1 DEF Page, ReadNoteTags
<1>4. Documents!Made(r) /\ wanted[r] = req[r]
  BY <1>1, CompletingIsMade DEF DocumentOps, Over
<1>5. DOMAIN library = DOMAIN notes
  BY DEF library
<1>6. CASE n \in DOMAIN notes
  <2>1. Documents!Below(n) = under
    BY <1>2, <1>6 DEF Documents!Below, Subtree, Page
  <2>2. notes[n].author = req[r].user
    <3>1. Checked(r)
      BY DEF NotesInv
    <3>2. QED
      BY <1>1, <1>6, <3>1 DEF Checked, NoteStillOwn
  <2>3. \A m \in under : m \in DOMAIN notes /\ notes[m].author = req[r].user
    <3>1. Belongings /\ NoNote \notin DOMAIN notes
      BY IdsAssumption DEF NotesInv, TableTypes
    <3>2. QED
      BY <2>2, <3>1, SubtreeOfOneAuthor DEF Subtree
  <2>4. \A m \in DOMAIN notes :
            notes[m].author = req[r].user => Documents!Own(req[r].user, m)
    BY <1>2 DEF Documents!Own, Page
  <2>5. library' = [e \in DOMAIN library \ under |-> library[e]]
    BY <1>1, <1>2, <1>3
  <2>6. Documents!Trash(r)
    BY <1>1, <1>4, <1>6, <2>1, <2>2, <2>3, <2>4, <2>5 DEF Documents!Trash
  <2>7. QED
    BY <2>6 DEF Documents!Next
<1>7. CASE n \notin DOMAIN notes
  <2>1. under = {}
    BY <1>7 DEF Subtree
  <2>2. library' = library
    BY <1>1, <1>2, <1>3, <2>1
  <2>3. Documents!Miss(r)
    BY <1>1, <1>4, <1>5, <1>7, <2>2 DEF Documents!Miss
  <2>4. QED
    BY <2>3 DEF Documents!Next
<1>8. QED
  BY <1>6, <1>7

LEMMA CreateTagInsertIsAddLabel ==
  ASSUME NotesInv, NotesInv', NEW r \in Requests, CreateTagInsert(r)
  PROVE  Documents!Next
<1>1. /\ pc[r] = "insertTag" /\ req[r].op = "CreateTag"
      /\ SameName(req[r].user, req[r].name) = {}
      /\ tags' = With(tags, r, [owner |-> req[r].user, name |-> req[r].name])
      /\ Completes(r)
      /\ UNCHANGED <<notes, blocks, noteTags>>
  BY DEF CreateTagInsert, At
<1>2. r \notin DOMAIN tags
  BY <1>1 DEF NotesInv, MadeInv, Made, Final
<1>3. \A n \in DOMAIN notes : ReadNoteTags(n)' = ReadNoteTags(n)
  <2>1. \A n : <<n, r>> \notin noteTags
    BY <1>2 DEF NotesInv, Belongings, OwnTag
  <2>2. DOMAIN tags' = DOMAIN tags \cup {r}
    BY <1>1 DEF With
  <2>3. QED
    BY <1>1, <2>1, <2>2 DEF ReadNoteTags
<1>4. library' = library
  BY <1>1, <1>3, LibraryStays
<1>5. Documents!Made(r) /\ wanted[r] = req[r]
  BY <1>1, CompletingIsMade DEF DocumentOps, Over
<1>6. Documents!Named(req[r].user, req[r].name) = {}
  BY <1>1 DEF Documents!Named, Documents!OwnLabels, SameName
<1>7. Documents!AddLabel(r)
  BY <1>1, <1>2, <1>4, <1>5, <1>6 DEF Documents!AddLabel, With
<1>8. QED
  BY <1>7 DEF Documents!Next

LEMMA UpdateTagRowIsRename ==
  ASSUME NotesInv, NotesInv', NEW r \in Requests, UpdateTagRow(r)
  PROVE  Documents!Next
<1> DEFINE t == req[r].tag
<1>1. /\ pc[r] = "updateTag" /\ req[r].op = "UpdateTag"
      /\ t \in DOMAIN tags => SameName(req[r].user, req[r].name) \subseteq {t}
      /\ t \in DOMAIN tags => tags' = [tags EXCEPT ![t].name = req[r].name]
      /\ t \notin DOMAIN tags => tags' = tags
      /\ Completes(r)
      /\ UNCHANGED <<notes, blocks, noteTags>>
  BY DEF UpdateTagRow, At
<1>2. DOMAIN tags' = DOMAIN tags
  BY <1>1
<1>3. \A n \in DOMAIN notes : ReadNoteTags(n)' = ReadNoteTags(n)
  BY <1>1, <1>2 DEF ReadNoteTags
<1>4. library' = library
  BY <1>1, <1>3, LibraryStays
<1>5. Documents!Made(r) /\ wanted[r] = req[r]
  BY <1>1, CompletingIsMade DEF DocumentOps, Over
<1>6. CASE t \in DOMAIN tags
  <2>1. tags[t].owner = req[r].user
    <3>1. Checked(r)
      BY DEF NotesInv
    <3>2. QED
      BY <1>1, <1>6, <3>1 DEF Checked, TagStillOwn
  <2>2. t \in Documents!OwnLabels(req[r].user)
    BY <1>6, <2>1 DEF Documents!OwnLabels
  <2>3. Documents!Named(req[r].user, req[r].name) \subseteq {t}
    BY <1>1, <1>6 DEF Documents!Named, Documents!OwnLabels, SameName
  <2>4. Documents!RenameLabel(r)
    BY <1>1, <1>4, <1>5, <1>6, <2>2, <2>3 DEF Documents!RenameLabel
  <2>5. QED
    BY <2>4 DEF Documents!Next
<1>7. CASE t \notin DOMAIN tags
  <2>1. Documents!Miss(r)
    BY <1>1, <1>4, <1>5, <1>7 DEF Documents!Miss
  <2>2. QED
    BY <2>1 DEF Documents!Next
<1>8. QED
  BY <1>6, <1>7

LEMMA DeleteTagCascadeIsRemove ==
  ASSUME NotesInv, NotesInv', NEW r \in Requests, DeleteTagCascade(r)
  PROVE  Documents!Next
<1>0. PICK t : t = req[r].tag
  OBVIOUS
<1>1. /\ pc[r] = "untag" /\ req[r].op = "DeleteTag"
      /\ tags' = [k \in DOMAIN tags \ {t} |-> tags[k]]
      /\ noteTags' = {p \in noteTags : p[2] # t}
      /\ Completes(r)
      /\ UNCHANGED <<notes, blocks>>
  BY <1>0 DEF DeleteTagCascade, Without, At
<1>2. Documents!Made(r) /\ wanted[r] = req[r]
  BY <1>1, CompletingIsMade DEF DocumentOps, Over
<1>3. \A n \in DOMAIN notes : ReadNoteTags(n)' = ReadNoteTags(n) \ {t}
  BY <1>1 DEF ReadNoteTags
<1>4. CASE t \in DOMAIN tags
  <2>1. tags[t].owner = req[r].user
    <3>1. Checked(r)
      BY DEF NotesInv
    <3>2. QED
      BY <1>0, <1>1, <1>4, <3>1 DEF Checked, TagStillOwn
  <2>2. t \in Documents!OwnLabels(req[r].user)
    BY <1>4, <2>1 DEF Documents!OwnLabels
  <2>3. /\ library = [n \in DOMAIN notes |-> Page(n)]
        /\ library' = [n \in DOMAIN notes |-> Page(n)']
    BY <1>1, LibraryPages, NextLibraryPages
  <2>4. \A n \in DOMAIN notes : Page(n)' = [Page(n) EXCEPT !.tags = @ \ {t}]
    <3>1. SUFFICES ASSUME NEW n \in DOMAIN notes
                   PROVE  Page(n)' = [Page(n) EXCEPT !.tags = @ \ {t}]
      OBVIOUS
    <3>2. Page(n) = [author |-> notes[n].author, parent |-> notes[n].parent,
                     shown |-> notes[n].list, tags |-> ReadNoteTags(n)]
      BY DEF Page
    <3>3. Page(n)' = [author |-> notes[n].author, parent |-> notes[n].parent,
                      shown |-> notes[n].list, tags |-> ReadNoteTags(n) \ {t}]
      BY <1>1, <1>3 DEF Page
    <3>4. QED
      BY <3>2, <3>3
  <2>5. library' = [n \in DOMAIN library |-> [library[n] EXCEPT !.tags = @ \ {t}]]
    BY <2>3, <2>4
  <2>6. Documents!RemoveLabel(r)
    BY <1>0, <1>1, <1>2, <2>2, <2>5 DEF Documents!RemoveLabel
  <2>7. QED
    BY <2>6 DEF Documents!Next
<1>5. CASE t \notin DOMAIN tags
  <2>1. tags' = tags
    BY <1>1, <1>5 DEF NotesInv, TableTypes
  <2>2. \A n \in DOMAIN notes : ReadNoteTags(n)' = ReadNoteTags(n)
    BY <1>3, <1>5 DEF ReadNoteTags
  <2>3. library' = library
    BY <1>1, <2>2, LibraryStays
  <2>4. Documents!Miss(r)
    BY <1>0, <1>1, <1>2, <1>5, <2>1, <2>3 DEF Documents!Miss
  <2>5. QED
    BY <2>4 DEF Documents!Next
<1>6. QED
  BY <1>4, <1>5

----------------------------------------------------------------------------
(***************************************************************************)
(* Every other step, and the theorem                                       *)
(***************************************************************************)

LEMMA RollingBackIsRefuse ==
  ASSUME NotesInv, NEW r \in Requests, pc[r] \notin Over, UNCHANGED Tables,
         NEW how \in {"rejected", "failed"}, Ends(r, how)
  PROVE  Documents!Next
<1>1. /\ \A q \in Requests \ {r} : pc'[q] = pc[q] /\ req'[q] = req[q]
      /\ pc'[r] = how /\ req'[r] = NoInput
  BY DEF Ends, NotesInv, RequestTypes
<1>2. QED
  BY <1>1, RefusingIsRefuse

\* A handler that has read something goes on, or rejects.
LEMMA GoingIsAllowed ==
  ASSUME NotesInv, NEW r \in Requests, pc[r] \notin Over, UNCHANGED Tables,
         NEW next, next \notin Over \/ next = "rejected", Goto(r, next)
  PROVE  Documents!Next \/ UNCHANGED Documents!documentVars
<1>1. /\ \A q \in Requests \ {r} : pc'[q] = pc[q] /\ req'[q] = req[q]
      /\ pc' = [pc EXCEPT ![r] = next] /\ pc'[r] = next /\ req' = req
  BY DEF Goto, NotesInv, RequestTypes
<1>2. CASE next \notin Over
  BY <1>1, <1>2, GoingOnIsSilent
<1>3. CASE next = "rejected"
  BY <1>1, <1>3, RefusingIsRefuse
<1>4. QED
  BY <1>2, <1>3

LEMMA NotesStepIsAllowed ==
  ASSUME NotesInv, NotesInv', NEW r \in Requests, NotesStep(r)
  PROVE  Documents!Next \/ UNCHANGED Documents!documentVars
<1> USE DEF At, Over
<1>1. CASE CreateNoteReadParent(r) \/ UpdateNoteRead(r) \/ DeleteNoteRead(r)
  BY <1>1, GoingIsAllowed DEF CreateNoteReadParent, UpdateNoteRead, DeleteNoteRead
<1>2. CASE UpdateNoteReadBlocks(r) \/ UpdateNoteReadTags(r)
  BY <1>2, GoingIsAllowed DEF UpdateNoteReadBlocks, UpdateNoteReadTags, NextUpsert
<1>3. CASE UpsertExisting(r) \/ UpsertMissing(r)
  BY <1>3, GoingIsAllowed DEF UpsertExisting, UpsertMissing, NextUpsert
<1>4. CASE \/ UpdateNoteRow(r) \/ DeleteBlocks(r) \/ DeleteNoteTags(r)
           \/ CreateNoteTags(r) \/ DeleteNoteErase(r)
  BY <1>4, GoingIsAllowed
     DEF UpdateNoteRow, DeleteBlocks, DeleteNoteTags, CreateNoteTags, DeleteNoteErase
<1>5. CASE CreateNoteOrphan(r) \/ UpsertOrphan(r) \/ CreateNoteTagsOrphan(r)
  BY <1>5, RollingBackIsRefuse
     DEF CreateNoteOrphan, UpsertOrphan, CreateNoteTagsOrphan, RollsBack
<1>6. CASE CreateNoteInsert(r)
  BY <1>6, CreateNoteInsertIsWrite
<1>7. CASE Commit(r)
  BY <1>7, CommitIsSave, CommitIsMiss
<1>8. CASE DeleteNoteCascade(r)
  BY <1>8, DeleteNoteCascadeIsTrash
<1>9. QED
  BY <1>1, <1>2, <1>3, <1>4, <1>5, <1>6, <1>7, <1>8 DEF NotesStep

LEMMA TagsStepIsAllowed ==
  ASSUME NotesInv, NotesInv', NEW r \in Requests, TagsStep(r)
  PROVE  Documents!Next \/ UNCHANGED Documents!documentVars
<1> USE DEF At, Over
<1>1. CASE UpdateTagRead(r) \/ DeleteTagRead(r) \/ DeleteTagErase(r)
  BY <1>1, GoingIsAllowed DEF UpdateTagRead, DeleteTagRead, DeleteTagErase
<1>2. CASE CreateTagTaken(r) \/ UpdateTagTaken(r)
  BY <1>2, RollingBackIsRefuse DEF CreateTagTaken, UpdateTagTaken
<1>3. QED
  BY <1>1, <1>2, CreateTagInsertIsAddLabel, UpdateTagRowIsRename, DeleteTagCascadeIsRemove
     DEF TagsStep

LEMMA BeginningIsAsk ==
  ASSUME NotesInv, NEW r \in Requests, WorkspaceBegin(r)
  PROVE  Documents!Next
<1> USE ArrivingIsAsk DEF Over, DocumentOps
<1>1. CASE CreateNoteBegin(r)
  BY <1>1 DEF CreateNoteBegin
<1>2. CASE UpdateNoteBegin(r)
  BY <1>2 DEF UpdateNoteBegin
<1>3. CASE DeleteNoteBegin(r)
  BY <1>3 DEF DeleteNoteBegin
<1>4. CASE TagsBegin(r)
  BY <1>4 DEF TagsBegin, CreateTagBegin, UpdateTagBegin, DeleteTagBegin
<1>5. CASE AttachmentsBegin(r)
  BY <1>5 DEF AttachmentsBegin, UploadBegin, ReadAttachmentBegin
<1>6. CASE UpdateAvatarBegin(r)
  BY <1>6 DEF UpdateAvatarBegin
<1>7. QED
  BY <1>1, <1>2, <1>3, <1>4, <1>5, <1>6
     DEF WorkspaceBegin, NoteBookBegin, Begin, NotesBegin

\* A request for a file or a picture is about no document.
LEMMA FileStepsAreElsewhere ==
  ASSUME NotesInv, NEW r \in Requests, AttachmentsStep(r) \/ AvatarsStep(r)
  PROVE  Documents!Next
<1>1. UNCHANGED Tables
  BY FileStepsLeaveNotes
<1>2. pc[r] \notin Final /\ req[r].op \in FileOps
  BY DEF AttachmentsStep, UploadReadOwner, UploadPutFile, UploadInsert, UploadRefused,
         UploadUnheard, UploadTakeBack, ReadAttachment, ReadBlockOwner, GetFile,
         DeleteAttachmentRow, DeleteAttachmentUnheard, DeleteAttachmentFile, AvatarsStep,
         UpdateAvatarRead, UpdateAvatarPutFile, UpdateAvatarRow, UpdateAvatarRefused,
         UpdateAvatarTakeBack, UpdateAvatarErase, At, FileOps, Final, NotesInv, Writing
<1>3. /\ \E next : pc' = [pc EXCEPT ![r] = next]
      /\ \/ req' = req
         \/ req' = [req EXCEPT ![r] = NoInput]
         \/ /\ req[r].op = "UpdateAvatar"
            /\ req' = [req EXCEPT ![r].was = avatars[req[r].user]]
  BY DEF AttachmentsStep, UploadReadOwner, UploadPutFile, UploadInsert, UploadRefused,
         UploadUnheard, UploadTakeBack, ReadAttachment, ReadBlockOwner, GetFile,
         DeleteAttachmentRow, DeleteAttachmentUnheard, DeleteAttachmentFile, AvatarsStep,
         UpdateAvatarRead, UpdateAvatarPutFile, UpdateAvatarRow, UpdateAvatarRefused,
         UpdateAvatarTakeBack, UpdateAvatarErase, At, Goto, Ends
<1>4. \A q \in Requests \ {r} : pc'[q] = pc[q] /\ req'[q] = req[q]
  BY <1>3 DEF NotesInv, RequestTypes
<1>5. req'[r].op \in FileOps \cup {"none"}
  <2>1. req[r].op = "UpdateAvatar" =>
            req[r] \in [op : {"UpdateAvatar"}, user : Users, was : AvatarNames]
    BY InputTypes DEF NotesInv
  <2>2. QED
    BY <1>2, <1>3, <2>1 DEF NotesInv, RequestTypes, NoInput, FileOps
<1>6. QED
  BY <1>1, <1>2, <1>4, <1>5, OtherCallsAreElsewhere DEF FileOps, DocumentOps

LEMMA DocumentsInit == WorkspaceInit => Documents!Init
<1> SUFFICES ASSUME WorkspaceInit PROVE Documents!Init
  OBVIOUS
<1>1. NotesInv
  BY WorkspaceInit_Inv DEF WorkspaceInv
<1>2. StoreInit
  BY DEF WorkspaceInit
<1>3. library = firstLibrary
  BY <1>1, <1>2, LibraryPages DEF StoreInit, Page, firstLibrary, ReadNoteTags
<1>4. wanted = [r \in Requests |-> NoInput] /\ answer = [r \in Requests |-> "none"]
  BY <1>2 DEF StoreInit, wanted, WantedOf, answer, AnswerOf, Over
<1>5. QED
  BY <1>2, <1>3, <1>4 DEF StoreInit, Documents!Init

LEMMA WorkspaceStepIsAllowed ==
  ASSUME NotesInv, NotesInv', WorkspaceNext
  PROVE  Documents!Next \/ UNCHANGED Documents!documentVars
<1>1. ASSUME NEW r \in Requests, LockSome(r)
      PROVE  UNCHANGED Documents!documentVars
  BY <1>1, LibraryUntouched
     DEF LockSome, Tables, Documents!documentVars, wanted, WantedOf, answer, AnswerOf
<1>2. ASSUME NEW r \in Requests, pc[r] \notin Over, RollsBack(r)
      PROVE  Documents!Next
  BY <1>2, RollingBackIsRefuse DEF RollsBack
<1>3. ASSUME NEW r \in Requests, Victim(r) \/ Drop(r)
      PROVE  Documents!Next
  BY <1>2, <1>3 DEF Victim, WaitsFor, Drop
<1>4. ASSUME UNCHANGED vars
      PROVE  UNCHANGED Documents!documentVars
  BY <1>4, LibraryUntouched
     DEF vars, Tables, Documents!documentVars, wanted, WantedOf, answer, AnswerOf
<1>5. QED
  BY <1>1, <1>3, <1>4, NotesStepIsAllowed, TagsStepIsAllowed, BeginningIsAsk,
     FileStepsAreElsewhere
     DEF WorkspaceNext, WorkspaceStep, NoteBookStep, Advance, Quiescent

\* Whatever overlaps and fails, GetNote shows what NoteDocuments lets it show:
\* an update is seen as a whole from its commit on, a cascade takes all of a
\* subtree of one author, and an answer tells what has become of the wish
\* (Repo.UpdateNote, DeleteNote and the statements of tags, each one commit).
THEOREM DocumentsAreAtomic == WorkspaceSpec => ImplementsDocuments
<1>1. WorkspaceInit => Documents!Init
  BY DocumentsInit
<1>2. WorkspaceInv /\ WorkspaceInv' /\ [WorkspaceNext]_workspaceVars
        => [Documents!Next]_Documents!documentVars
  <2> SUFFICES ASSUME NotesInv, NotesInv', [WorkspaceNext]_workspaceVars
               PROVE  Documents!Next \/ UNCHANGED Documents!documentVars
    BY DEF WorkspaceInv
  <2>1. CASE UNCHANGED workspaceVars
    BY <2>1, LibraryUntouched
       DEF workspaceVars, vars, Tables, Documents!documentVars, wanted, WantedOf, answer,
           AnswerOf
  <2>2. QED
    BY <2>1, WorkspaceStepIsAllowed
<1>3. QED
  BY <1>1, <1>2, WorkspaceSpec_Inv, PTL DEF WorkspaceSpec, ImplementsDocuments, Documents!Spec
=============================================================================
