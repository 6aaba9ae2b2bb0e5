-------------------------------- MODULE Tags --------------------------------
(***************************************************************************)
(* CreateTag, UpdateTag and DeleteTag.  The last two check the owner on a  *)
(* row they have read; the statement that follows names the tag by its id  *)
(* alone.                                                                  *)
(***************************************************************************)
EXTENDS NoteStore

SeenTags == DOMAIN StartTags \cup DOMAIN tags

\* CreateTag: one insert; the unique key refuses a second tag of that name.
CreateTagBegin(r) ==
    \E user \in Users, name \in Names :
        Admit(r, [op |-> "CreateTag", user |-> user, name |-> name], "insertTag")

\* Variant: two parameters of the statement have changed places.
CreateTagInsertSwapped(r) ==
    /\ At(r, "CreateTag", "insertTag")
    /\ ~Waits(r)
    /\ SameName(req[r].user, req[r].name) = {}
    /\ tags' = With(tags, r, [owner |-> req[r].name, name |-> req[r].user])
    /\ Completes(r)
    /\ UNCHANGED <<notes, blocks, noteTags>>

CreateTagInsert(r) ==
    /\ At(r, "CreateTag", "insertTag")
    /\ ~Waits(r)
    /\ SameName(req[r].user, req[r].name) = {}
    /\ tags' = With(tags, r, [owner |-> req[r].user, name |-> req[r].name])
    /\ Completes(r)
    /\ UNCHANGED <<notes, blocks, noteTags>>

CreateTagTaken(r) ==
    /\ At(r, "CreateTag", "insertTag")
    /\ ~Waits(r)
    /\ SameName(req[r].user, req[r].name) # {}
    /\ Ends(r, "rejected")
    /\ UNCHANGED Tables

\* UpdateTag: a tag that is gone by the time of the statement is not missed.
UpdateTagBegin(r) ==
    \E user \in Users, t \in SeenTags, name \in Names :
        Admit(r, [op |-> "UpdateTag", user |-> user, tag |-> t, name |-> name], "readTag")

UpdateTagRead(r) ==
    /\ At(r, "UpdateTag", "readTag")
    /\ Goto(r, IF OwnTag(req[r].user, req[r].tag) THEN "updateTag" ELSE "rejected")
    /\ UNCHANGED <<Tables, locks, tx>>

UpdateTagRow(r) ==
    LET t == req[r].tag
    IN  /\ At(r, "UpdateTag", "updateTag")
        /\ ~Waits(r)
        /\ t \in DOMAIN tags => SameName(req[r].user, req[r].name) \subseteq {t}
        /\ tags' = IF t \in DOMAIN tags THEN [tags EXCEPT ![t].name = req[r].name] ELSE tags
        /\ Completes(r)
        /\ UNCHANGED <<notes, blocks, noteTags>>

UpdateTagTaken(r) ==
    /\ At(r, "UpdateTag", "updateTag")
    /\ ~Waits(r)
    /\ req[r].tag \in DOMAIN tags
    /\ ~(SameName(req[r].user, req[r].name) \subseteq {req[r].tag})
    /\ Ends(r, "rejected")
    /\ UNCHANGED Tables

\* DeleteTag: the row is locked first, then the foreign key cascades to the
\* notes that have it.
DeleteTagBegin(r) ==
    \E user \in Users, t \in SeenTags :
        Admit(r, [op |-> "DeleteTag", user |-> user, tag |-> t], "readTag")

DeleteTagRead(r) ==
    /\ At(r, "DeleteTag", "readTag")
    /\ Goto(r, IF OwnTag(req[r].user, req[r].tag) THEN "eraseTag" ELSE "rejected")
    /\ UNCHANGED <<Tables, locks, tx>>

DeleteTagErase(r) ==
    /\ At(r, "DeleteTag", "eraseTag")
    /\ Locks(r)
    /\ Goto(r, "untag")
    /\ UNCHANGED <<Tables, tx>>

DeleteTagCascade(r) ==
    /\ At(r, "DeleteTag", "untag")
    /\ ~Waits(r)
    /\ tags' = Without(tags, {req[r].tag})
    /\ noteTags' = {p \in noteTags : p[2] # req[r].tag}
    /\ Completes(r)
    /\ UNCHANGED <<notes, blocks>>

----------------------------------------------------------------------------

TagsBegin(r) == CreateTagBegin(r) \/ UpdateTagBegin(r) \/ DeleteTagBegin(r)

TagsStep(r) ==
    \/ CreateTagInsert(r) \/ CreateTagTaken(r)
    \/ UpdateTagRead(r) \/ UpdateTagRow(r) \/ UpdateTagTaken(r)
    \/ DeleteTagRead(r) \/ DeleteTagErase(r) \/ DeleteTagCascade(r)
=============================================================================
