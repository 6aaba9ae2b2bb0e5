------------------------------ MODULE NoteBook ------------------------------
(***************************************************************************)
(* The notes API: notes and tags over the tables they share.  Requests     *)
(* interleave at their statements, wait for each other's row locks, fail   *)
(* and roll back.                                                          *)
(***************************************************************************)
EXTENDS Notes, Tags

Begin(r) == NotesBegin(r) \/ TagsBegin(r)

\* What a request in hand does of itself, the database included.
Advance(r) == NotesStep(r) \/ TagsStep(r) \/ LockSome(r) \/ Victim(r)

\* No request is being handled: the server waits.
Quiescent == InFlight = {} /\ UNCHANGED vars

Next ==
    \/ \E r \in Requests : Begin(r) \/ Advance(r) \/ Drop(r)
    \/ Quiescent

Spec == StoreInit /\ [][Next]_vars

\* The goroutine of a request is scheduled, and the database answers.
FairSpec == Spec /\ \A r \in Requests : WF_vars(Advance(r))

----------------------------------------------------------------------------

\* Every block a note lists is there and is the note's own, however updates of
\* the note overlap: one that keeps a block another deletes brings it back, or
\* is aborted (Repo.UpdateNote, upsert_block.sql).
ListedBlocksExist ==
    \A n \in DOMAIN notes : \A b \in ToSet(notes[n].list) :
        b \in DOMAIN blocks /\ blocks[b] = n

\* A note hangs below a note of its author and has tags of its author, although
\* owners are checked before the transaction (CreateNote, noteTags).
Belongings ==
    /\ \A n \in DOMAIN notes :
          notes[n].parent # NoNote => OwnNote(notes[n].author, notes[n].parent)
    /\ \A p \in noteTags : p[1] \in DOMAIN notes /\ OwnTag(notes[p[1]].author, p[2])

\* A note is changed or deleted, and its tags changed, in requests of its author
\* only; deletes reach no further through the cascades (readOwn checks, ON
\* DELETE CASCADE).
OnlyTheAuthor ==
    [][\A r \in Requests : \A n \in DOMAIN notes :
          (pc'[r] # pc[r] /\ req[r].op # "none" /\ req[r].user # notes[n].author) =>
              /\ n \in DOMAIN notes' /\ notes'[n] = notes[n]
              /\ {p \in noteTags' : p[1] = n} = {p \in noteTags : p[1] = n}]_vars

\* Every request ends: whoever waits for a lock gets it or is told that it never
\* will (the deferred Rollback, the deadlock detector).
EveryRequestEnds ==
    \A r \in Requests : r \in InFlight ~> r \notin InFlight

----------------------------------------------------------------------------
(***************************************************************************)
(* The notes API implements NoteDocuments                                  *)
(***************************************************************************)

\* The blocks GetNote finds, each at its place in block_ids.
Shown(n) ==
    [i \in {i \in DOMAIN notes[n].list : notes[n].list[i] \in DOMAIN blocks} |->
        notes[n].list[i]]

library ==
    [n \in DOMAIN notes |->
        [author |-> notes[n].author, parent |-> notes[n].parent,
         shown |-> Shown(n), tags |-> ReadNoteTags(n)]]

firstLibrary ==
    [n \in DOMAIN StartNotes |->
        [author |-> StartNotes[n].author, parent |-> StartNotes[n].parent,
         shown |-> StartNotes[n].list,
         tags |-> {t \in DOMAIN StartTags : <<n, t>> \in StartNoteTags}]]

DocumentOps ==
    {"CreateNote", "UpdateNote", "DeleteNote", "CreateTag", "UpdateTag", "DeleteTag"}

WantedOf(r) ==
    IF pc[r] \in Over \/ req[r].op \notin DocumentOps THEN NoInput ELSE req[r]

wanted == [r \in Requests |-> WantedOf(r)]

AnswerOf(r) ==
    IF pc[r] = "idle" THEN "none" ELSE IF pc[r] \in Over THEN pc[r] ELSE "awaited"

answer == [r \in Requests |-> AnswerOf(r)]

Documents == INSTANCE NoteDocuments
                 WITH Calls <- Requests, FirstLibrary <- firstLibrary, FirstLabels <- StartTags,
                      Nowhere <- NoNote, AsBefore <- Keep, NoWish <- NoInput,
                      labels <- tags

\* Whatever overlaps and fails, what GetNote shows of all notes changes as if
\* each request that succeeds did its work in one step, and each other one did
\* the same or nothing (CreateNote, UpdateNote, DeleteNote, the handlers of tags).
ImplementsDocuments == Documents!Spec
=============================================================================
