----------------------------- MODULE NoteStore -----------------------------
(***************************************************************************)
(* The tables of the notes API (notes, blocks, tags, note_tags), the       *)
(* requests being handled, and the row locks their statements take.        *)
(*                                                                         *)
(* Postgres runs every statement outside Begin in a transaction of its     *)
(* own, and the statements of UpdateNote in one.  A transaction keeps the  *)
(* locks its statements took until it ends, a statement waits for locks    *)
(* that are not free, and what a transaction wrote is seen by others once  *)
(* it has committed (isolation READ COMMITTED, the default).               *)
(*                                                                         *)
(* A request r that creates a note, a block or a tag names it r: uuids     *)
(* never repeat.                                                           *)
(***************************************************************************)
EXTENDS Naturals, FiniteSets, SequencesExt, Relation

CONSTANTS
    Requests,       \* requests the server handles, numbered as they arrive
    Users,          \* whom Authenticate may find in the access token
    StartNotes, StartBlocks, StartTags, StartNoteTags,  \* the tables at first
    Names,          \* the values of tags.name
    Ops,            \* the operations clients call in this instance
    MaxBlocks,      \* bound on the length of a block list in a request
    MaxInFlight,    \* how many requests may be handled at once
    Faults,         \* TRUE: any call may fail
    Keep,           \* tag_ids is not in the request
    NoNote          \* parent_note_id IS NULL

VARIABLES
    notes,          \* notes: id to author, parent and block_ids
    blocks,         \* blocks: id to note_id
    tags,           \* tags: id to created_by and name
    noteTags,       \* note_tags: pairs of a note and a tag
    locks,          \* the row locks each request holds
    tx,             \* what a handler has read and its transaction has written
    req,            \* the input of each request
    pc              \* the call each request makes next, or how it ended

Tables == <<notes, blocks, tags, noteTags>>

vars == <<notes, blocks, tags, noteTags, locks, tx, req, pc>>

NoteIds == DOMAIN StartNotes \cup Requests

BlockIds == DOMAIN StartBlocks \cup Requests

TagIds == DOMAIN StartTags \cup Requests

Note == [author: Users, parent: NoteIds \cup {NoNote}, list: Seq(BlockIds)]

Tag == [owner: Users, name: Names]

ASSUME IdsAssumption ==
    /\ Requests \subseteq Nat
    /\ IsFiniteSet(Requests)
    /\ NoNote \notin NoteIds
    /\ Requests \cap (DOMAIN StartNotes \cup DOMAIN StartBlocks \cup DOMAIN StartTags) = {}

\* The tables at first are ones the program can have left.
ASSUME StartAssumption ==
    /\ StartNotes \in [DOMAIN StartNotes -> Note]
    /\ StartBlocks \in [DOMAIN StartBlocks -> DOMAIN StartNotes]
    /\ StartTags \in [DOMAIN StartTags -> Tag]
    /\ StartNoteTags \subseteq (DOMAIN StartNotes) \X (DOMAIN StartTags)
    /\ \A n \in DOMAIN StartNotes :
          /\ ToSet(StartNotes[n].list) = {b \in DOMAIN StartBlocks : StartBlocks[b] = n}
          /\ StartNotes[n].parent # NoNote =>
                /\ StartNotes[n].parent \in DOMAIN StartNotes
                /\ StartNotes[StartNotes[n].parent].author = StartNotes[n].author
    /\ \A p \in StartNoteTags : StartNotes[p[1]].author = StartTags[p[2]].owner

ASSUME BoundsAssumption ==
    /\ MaxBlocks \in Nat
    /\ MaxInFlight \in Nat
    /\ Faults \in BOOLEAN

\* The locals of a handler: blocks and tags it has read, the position in its
\* block list, and the rows its transaction has inserted and deleted.
NoTx == [old |-> {}, tags |-> {}, at |-> 1, inserted |-> {}, deleted |-> {}]

NoInput == [op |-> "none"]

StoreInit ==
    /\ notes = StartNotes
    /\ blocks = StartBlocks
    /\ tags = StartTags
    /\ noteTags = StartNoteTags
    /\ locks = [r \in Requests |-> {}]
    /\ tx = [r \in Requests |-> NoTx]
    /\ req = [r \in Requests |-> NoInput]
    /\ pc = [r \in Requests |-> "idle"]

----------------------------------------------------------------------------
(***************************************************************************)
(* Requests                                                                *)
(***************************************************************************)

Over == {"idle", "done", "rejected", "failed"}

InFlight == {r \in Requests : pc[r] \notin Over}

\* A request arrives; its handler runs up to its first repository call.
Admit(r, input, next) ==
    /\ pc[r] = "idle"
    /\ input.op \in Ops
    /\ \A q \in Requests : q < r => pc[q] # "idle"
    /\ Cardinality(InFlight) < MaxInFlight
    /\ req' = [req EXCEPT ![r] = input]
    /\ pc' = [pc EXCEPT ![r] = next]
    /\ UNCHANGED <<Tables, locks, tx>>

At(r, op, label) == req[r].op = op /\ pc[r] = label

Goto(r, next) ==
    /\ pc' = [pc EXCEPT ![r] = next]
    /\ UNCHANGED req

\* A transaction ends, and with it the request, answered as how says; its locks
\* and the locals of its handler are gone.  "failed" is an internal error, after
\* a rollback.
Ends(r, how) ==
    /\ pc' = [pc EXCEPT ![r] = how]
    /\ locks' = [locks EXCEPT ![r] = {}]
    /\ tx' = [tx EXCEPT ![r] = NoTx]
    /\ req' = [req EXCEPT ![r] = NoInput]

\* The database has done what was asked; its answer may be lost all the same.
Completes(r) == \E how \in {"done"} \cup (IF Faults THEN {"failed"} ELSE {}) : Ends(r, how)

\* Variant: whoever is aborted starts over, from its first call.
RollsBackAndRetries(r) ==
    LET first == [CreateNote |-> "readParent", UpdateNote |-> "readNote",
                  DeleteNote |-> "readNote", CreateTag |-> "insertTag",
                  UpdateTag |-> "readTag", DeleteTag |-> "readTag"]
    IN  /\ pc' = [pc EXCEPT ![r] = first[req[r].op]]
        /\ locks' = [locks EXCEPT ![r] = {}]
        /\ tx' = [tx EXCEPT ![r] = NoTx]
        /\ UNCHANGED <<Tables, req>>

RollsBack(r) ==
    /\ Ends(r, "failed")
    /\ UNCHANGED Tables

----------------------------------------------------------------------------
(***************************************************************************)
(* Rows                                                                    *)
(***************************************************************************)

Without(table, ids) == [x \in DOMAIN table \ ids |-> table[x]]

With(table, id, row) == [x \in DOMAIN table \cup {id} |-> IF x = id THEN row ELSE table[x]]

\* What a handler's check of the author lets through.
OwnNote(user, n) == n \in DOMAIN notes /\ notes[n].author = user

OwnTag(user, t) == t \in DOMAIN tags /\ tags[t].owner = user

\* The join of block_ids with the table blocks.
ReadBlocks(n) ==
    IF n \in DOMAIN notes THEN ToSet(notes[n].list) \cap DOMAIN blocks ELSE {}

ReadNoteTags(n) == {t \in DOMAIN tags : <<n, t>> \in noteTags}

\* Variant: tags of other users are found too.
ReadUserTagsOfAnyone(user, ids) == ids \cap DOMAIN tags

ReadUserTags(user, ids) == {t \in ids : OwnTag(user, t)}

\* A note and the notes below it: the smallest set with the note in it that has
\* every note whose parent it has.
Subtree(n) ==
    LET Closed(S) == \A m \in DOMAIN notes : notes[m].parent \in S => m \in S
    IN  {m \in DOMAIN notes :
            /\ n \in DOMAIN notes
            /\ \A S \in SUBSET DOMAIN notes : (n \in S /\ Closed(S)) => m \in S}

BlocksUnder(ids) == {b \in DOMAIN blocks : blocks[b] \in ids}

----------------------------------------------------------------------------
(***************************************************************************)
(* Row locks                                                               *)
(***************************************************************************)

Lock(mode, row) == [mode |-> mode, row |-> row]

\* KEY SHARE, taken by a row that refers to this one, goes with itself and with
\* NO KEY UPDATE; FOR UPDATE, taken by a delete, goes with nothing.
Conflict(a, b) ==
    /\ a.row = b.row
    /\ {a.mode, b.mode} \notin {{"share"}, {"share", "write"}}

Free(l, r) == \A q \in Requests \ {r} : \A held \in locks[q] : ~Conflict(l, held)

\* What the next statement of r needs locked.  A row that is not there needs no
\* lock, except an inserted one: nobody else may insert it meanwhile.
SameName(user, name) == {t \in DOMAIN tags : tags[t].owner = user /\ tags[t].name = name}

NeededByUpsert(r) ==
    LET b == req[r].blocks[tx[r].at]
        inserts == b \notin DOMAIN blocks \cup tx[r].inserted
    IN  {Lock("write", <<"block", b>>)}
        \cup {Lock("share", <<"note", n>>) :
                n \in {n \in {req[r].note} : inserts /\ n \in DOMAIN notes}}

NeededByCascade(r) ==
    LET under == Subtree(req[r].note)
    IN  {Lock("erase", <<"note", n>>) : n \in under}
        \cup {Lock("erase", <<"block", b>>) : b \in BlocksUnder(under)}
        \cup {Lock("erase", <<"noteTag", p[1], p[2]>>) : p \in {p \in noteTags : p[1] \in under}}

NeededByRename(r) ==
    LET mode(t) == IF tags[t].name = req[r].name THEN "write" ELSE "erase"
    IN  {Lock(mode(t), <<"tag", t>>) : t \in {req[r].tag} \cap DOMAIN tags}
        \cup {Lock("share", <<"tag", t>>) :
                t \in SameName(req[r].user, req[r].name) \ {req[r].tag}}

Needed(r) ==
    CASE pc[r] = "upsert" -> NeededByUpsert(r)
      [] pc[r] = "update" ->
            {Lock("write", <<"note", n>>) : n \in {req[r].note} \cap DOMAIN notes}
      [] pc[r] = "deleteBlocks" ->
            {Lock("erase", <<"block", b>>) :
                b \in (tx[r].old \ ToSet(req[r].blocks)) \cap DOMAIN blocks}
      [] pc[r] = "deleteTags" ->
            {Lock("erase", <<"noteTag", p[1], p[2]>>) : p \in {p \in noteTags : p[1] = req[r].note}}
      [] pc[r] = "insertTags" ->
            {Lock("share", <<"tag", t>>) : t \in tx[r].tags \cap DOMAIN tags}
      [] pc[r] = "insertNote" ->
            {Lock("share", <<"note", n>>) : n \in {req[r].parent} \cap DOMAIN notes}
      [] pc[r] = "erase" ->
            {Lock("erase", <<"note", n>>) : n \in {req[r].note} \cap DOMAIN notes}
      [] pc[r] = "cascade" -> NeededByCascade(r)
      [] pc[r] = "insertAttachment" ->
            {Lock("share", <<"block", b>>) : b \in {req[r].block} \cap DOMAIN blocks}
      [] pc[r] = "insertTag" ->
            {Lock("share", <<"tag", t>>) : t \in SameName(req[r].user, req[r].name)}
      [] pc[r] = "updateTag" -> NeededByRename(r)
      [] pc[r] = "eraseTag" ->
            {Lock("erase", <<"tag", t>>) : t \in {req[r].tag} \cap DOMAIN tags}
      [] pc[r] = "untag" ->
            {Lock("erase", <<"noteTag", p[1], p[2]>>) : p \in {p \in noteTags : p[2] = req[r].tag}}
      [] OTHER -> {}

Remaining(r) == Needed(r) \ locks[r]

Waits(r) == \E l \in Remaining(r) : ~Free(l, r)

\* The statement gets every lock it needs, and runs.
Locks(r) ==
    /\ ~Waits(r)
    /\ locks' = [locks EXCEPT ![r] = @ \cup Needed(r)]

\* A statement that has to wait for one row may have locked others already.
LockSome(r) ==
    /\ pc[r] \notin Over
    /\ Waits(r)
    /\ \E l \in Remaining(r) :
          /\ Free(l, r)
          /\ locks' = [locks EXCEPT ![r] = @ \cup {l}]
    /\ UNCHANGED <<Tables, tx, req, pc>>

\* r can lock nothing more until q ends.
WaitsFor(r, q) ==
    /\ pc[r] \notin Over
    /\ Remaining(r) # {}
    /\ \A l \in Remaining(r) : ~Free(l, r)
    /\ r # q
    /\ \E l \in Remaining(r), held \in locks[q] : Conflict(l, held)

InCircle(r) ==
    TransitiveClosure([a, b \in Requests |-> WaitsFor(a, b)], Requests)[r, r]

\* The deadlock detector of the database aborts one of those that wait in a
\* circle.
Victim(r) ==
    /\ \E q \in Requests : WaitsFor(r, q)
    /\ InCircle(r)
    /\ RollsBack(r)

\* A call fails, the client hangs up or the process dies: the transaction in
\* hand, if there is one, is rolled back.
Drop(r) ==
    /\ Faults
    /\ pc[r] \notin Over
    /\ RollsBack(r)
=============================================================================
