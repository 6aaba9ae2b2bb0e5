--------------------------- MODULE NotesInduction ---------------------------
(***************************************************************************)
(* The inductive invariant of notes and tags in Workspace: what a handler  *)
(* knows of the rows it has read, and what the locks of its transaction    *)
(* protect until it commits.                                               *)
(***************************************************************************)
EXTENDS Workspace

Final == {"done", "rejected", "failed"}

\* A row with this id will not be created any more: it was, or never will be.
Made(id) == id \in Requests => pc[id] \in Final

MadeInv ==
    /\ \A n \in DOMAIN notes : Made(n)
    /\ \A t \in DOMAIN tags : Made(t)

\* No two transactions hold locks that do not go together.
LocksInv ==
    \A q, r \in Requests : q # r =>
        \A a \in locks[q], b \in locks[r] : ~Conflict(a, b)

\* A row that is there is of the user; one that is gone does not come back.
NoteStillOwn(user, n) == Made(n) /\ (n \in DOMAIN notes => notes[n].author = user)

TagStillOwn(user, t) == Made(t) /\ (t \in DOMAIN tags => tags[t].owner = user)

InTransaction == {"upsert", "update", "deleteBlocks", "deleteTags", "insertTags", "commit"}

\* What a request has checked stays true, although it checks without a lock; a
\* tag it is about to hang on a note, or to delete, is locked.
Checked(r) ==
    /\ req[r].op = "CreateNote" /\ req[r].parent # NoNote =>
          /\ Made(req[r].parent)
          /\ pc[r] = "insertNote" => NoteStillOwn(req[r].user, req[r].parent)
    /\ req[r].op = "UpdateNote" =>
          /\ Made(req[r].note)
          /\ pc[r] \in {"readBlocks", "readTags"} \cup InTransaction =>
                NoteStillOwn(req[r].user, req[r].note)
          /\ pc[r] \in InTransaction =>
                /\ req[r].tagIds \in {Keep, tx[r].tags}
                /\ \A t \in tx[r].tags : TagStillOwn(req[r].user, t)
          /\ pc[r] = "commit" =>
                \A t \in tx[r].tags :
                    t \in DOMAIN tags /\ Lock("share", <<"tag", t>>) \in locks[r]
    /\ req[r].op = "DeleteNote" =>
          /\ Made(req[r].note)
          /\ pc[r] \in {"erase", "cascade"} => NoteStillOwn(req[r].user, req[r].note)
    /\ req[r].op = "UpdateTag" =>
          /\ Made(req[r].tag)
          /\ pc[r] = "updateTag" => TagStillOwn(req[r].user, req[r].tag)
    /\ req[r].op = "DeleteTag" =>
          /\ Made(req[r].tag)
          /\ pc[r] \in {"eraseTag", "untag"} => TagStillOwn(req[r].user, req[r].tag)
          /\ pc[r] = "untag" /\ req[r].tag \in DOMAIN tags =>
                Lock("erase", <<"tag", req[r].tag>>) \in locks[r]

\* The note a block is, was or is about to be in.
BlockOf(b, n) ==
    \/ b \in DOMAIN StartBlocks /\ StartBlocks[b] = n
    \/ b \in DOMAIN blocks /\ blocks[b] = n
    \/ \E q \in Requests :
          /\ req[q].op = "UpdateNote" /\ req[q].note = n
          /\ b \in tx[q].old \cup tx[q].inserted

\* A block never changes its note, also when it is deleted and comes back.
BlockOfInv ==
    \A b \in BlockIds, n \in NoteIds : BlockOf(b, n) =>
        /\ \A m \in NoteIds : BlockOf(b, m) => m = n
        /\ b \in Requests /\ pc[b] \notin Final =>
              req[b].op = "UpdateNote" /\ req[b].note = n

\* What an update has written is locked until it commits: a block it lists is
\* there, or will be, and a block it deletes is not one it lists.
Writing(r) ==
    /\ pc[r] = "upsert" => req[r].op = "UpdateNote"
    /\ pc[r] \in {"readAttachment", "readBlockOwner"} =>
          req[r].op \in {"GetAttachment", "DeleteAttachment"}
    /\ req[r].op = "UpdateNote" =>
        /\ pc[r] \in {"readNote", "readBlocks", "readTags"} =>
              tx[r].at = 1 /\ tx[r].inserted = {} /\ tx[r].deleted = {}
        /\ pc[r] \in {"readTags"} \cup InTransaction =>
              ToSet(req[r].blocks) \subseteq tx[r].old \cup {r}
        /\ pc[r] = "upsert" => tx[r].at <= Len(req[r].blocks)
        /\ pc[r] \in InTransaction \ {"upsert"} => tx[r].at > Len(req[r].blocks)
        /\ pc[r] \in InTransaction =>
              /\ \A i \in 1..Len(req[r].blocks) : i < tx[r].at =>
                    /\ req[r].blocks[i] \in DOMAIN blocks \cup tx[r].inserted
                    /\ Lock("write", <<"block", req[r].blocks[i]>>) \in locks[r]
              /\ \A b \in tx[r].deleted :
                    /\ b \in tx[r].old /\ b \notin ToSet(req[r].blocks)
                    /\ Lock("erase", <<"block", b>>) \in locks[r]

IdleInv == \A r \in Requests : pc[r] = "idle" => tx[r] = NoTx /\ req[r] = NoInput

NotesInv ==
    /\ TableTypes
    /\ RequestTypes
    /\ IdleInv
    /\ MadeInv
    /\ LocksInv
    /\ BlockOfInv
    /\ \A r \in Requests : Checked(r) /\ Writing(r)
    /\ Belongings
    /\ ListedBlocksExist
=============================================================================
