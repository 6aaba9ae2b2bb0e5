--------------------------- MODULE NoteDocuments ---------------------------
(***************************************************************************)
(* What the notes API promises to those who read notes, without rows of    *)
(* blocks, locks or transactions.  A library is the documents GetNote      *)
(* shows.  A call asks for one change.  If it is answered "done" the       *)
(* change was made, in one step; if it is answered "rejected" nothing has  *)
(* changed, and if it "failed" all of the change was made or nothing.      *)
(*                                                                         *)
(* Two weaknesses are part of the promise.  A change of something that is  *)
(* gone by then is answered "done" as well.  And a call that does not      *)
(* mention tags may leave the document with others than it had.            *)
(***************************************************************************)
CONSTANTS
    Calls,              \* a call that makes a document or a label names it after itself
    FirstLibrary, FirstLabels,
    Nowhere,            \* the parent of a document that is below no other
    AsBefore,           \* the call does not mention tags
    NoWish              \* wanted by a call that is over, or about something else

VARIABLES
    library,            \* id to author, parent, the blocks shown, and tags
    labels,             \* id to owner and name
    wanted,             \* what each call that is not answered yet asks for
    answer              \* "none", "awaited", or how a call was answered

documentVars == <<library, labels, wanted, answer>>

Own(user, d) == d \in DOMAIN library /\ library[d].author = user

OwnLabels(user) == {l \in DOMAIN labels : labels[l].owner = user}

Named(user, name) == {l \in OwnLabels(user) : labels[l].name = name}

BlocksOf(d) == {library[d].shown[i] : i \in DOMAIN library[d].shown}

\* A document and those below it: the smallest set that has it and every
\* document whose parent it has.
Below(d) ==
    LET Closed(S) == \A e \in DOMAIN library : library[e].parent \in S => e \in S
    IN  {e \in DOMAIN library :
            \A S \in SUBSET DOMAIN library : (d \in S /\ Closed(S)) => e \in S}

Init ==
    /\ library = FirstLibrary
    /\ labels = FirstLabels
    /\ wanted = [c \in Calls |-> NoWish]
    /\ answer = [c \in Calls |-> "none"]

\* A call arrives with a wish of any kind.
Ask(c) ==
    /\ answer[c] = "none"
    /\ answer' = [answer EXCEPT ![c] = "awaited"]
    /\ wanted' = [wanted EXCEPT ![c] = wanted'[c]]
    /\ UNCHANGED <<library, labels>>

\* The call is over, and answered in one of the ways.
Answered(c, ways) ==
    /\ answer[c] = "awaited"
    /\ \E how \in ways : answer' = [answer EXCEPT ![c] = how]
    /\ wanted' = [wanted EXCEPT ![c] = NoWish]

Made(c) == Answered(c, {"done", "failed"})

Write(c) ==
    /\ wanted[c].op = "CreateNote"
    /\ wanted[c].parent = Nowhere \/ Own(wanted[c].user, wanted[c].parent)
    /\ c \notin DOMAIN library
    /\ library' = [d \in DOMAIN library \cup {c} |->
                     IF d = c THEN [author |-> wanted[c].user, parent |-> wanted[c].parent,
                                    shown |-> <<>>, tags |-> {}]
                              ELSE library[d]]
    /\ Made(c)
    /\ UNCHANGED labels

\* The whole list at once, and none of it is shown in another document.
Save(c) ==
    LET d == wanted[c].note
    IN  /\ wanted[c].op = "UpdateNote"
        /\ Own(wanted[c].user, d)
        /\ \A e \in DOMAIN library \ {d}, i \in DOMAIN wanted[c].blocks :
              wanted[c].blocks[i] \notin BlocksOf(e)
        /\ \E tags \in SUBSET OwnLabels(wanted[c].user) :
              /\ wanted[c].tagIds \in {AsBefore, tags}
              /\ library' = [library EXCEPT ![d].shown = wanted[c].blocks, ![d].tags = tags]
        /\ Made(c)
        /\ UNCHANGED labels

Trash(c) ==
    LET d == wanted[c].note
    IN  /\ wanted[c].op = "DeleteNote"
        /\ Own(wanted[c].user, d)
        /\ \A e \in Below(d) : Own(wanted[c].user, e)
        /\ library' = [e \in DOMAIN library \ Below(d) |-> library[e]]
        /\ Made(c)
        /\ UNCHANGED labels

AddLabel(c) ==
    /\ wanted[c].op = "CreateTag"
    /\ Named(wanted[c].user, wanted[c].name) = {}
    /\ c \notin DOMAIN labels
    /\ labels' = [l \in DOMAIN labels \cup {c} |->
                    IF l = c THEN [owner |-> wanted[c].user, name |-> wanted[c].name]
                             ELSE labels[l]]
    /\ Made(c)
    /\ UNCHANGED library

RenameLabel(c) ==
    LET l == wanted[c].tag
    IN  /\ wanted[c].op = "UpdateTag"
        /\ l \in OwnLabels(wanted[c].user)
        /\ Named(wanted[c].user, wanted[c].name) \subseteq {l}
        /\ labels' = [labels EXCEPT ![l].name = wanted[c].name]
        /\ Made(c)
        /\ UNCHANGED library

RemoveLabel(c) ==
    LET l == wanted[c].tag
    IN  /\ wanted[c].op = "DeleteTag"
        /\ l \in OwnLabels(wanted[c].user)
        /\ labels' = [k \in DOMAIN labels \ {l} |-> labels[k]]
        /\ library' = [d \in DOMAIN library |->
                         [library[d] EXCEPT !.tags = @ \ {l}]]
        /\ Made(c)

\* What was to be changed is gone.
Miss(c) ==
    /\ \/ wanted[c].op \in {"UpdateNote", "DeleteNote"} /\ wanted[c].note \notin DOMAIN library
       \/ wanted[c].op \in {"UpdateTag", "DeleteTag"} /\ wanted[c].tag \notin DOMAIN labels
    /\ Made(c)
    /\ UNCHANGED <<library, labels>>

Refuse(c) ==
    /\ Answered(c, {"rejected", "failed"})
    /\ UNCHANGED <<library, labels>>

\* A call about something else comes or goes.
Elsewhere(c) ==
    /\ wanted[c] = NoWish
    /\ answer[c] \in {"none", "awaited"}
    /\ answer' = [answer EXCEPT ![c] = answer'[c]]
    /\ UNCHANGED <<library, labels, wanted>>

Next ==
    \E c \in Calls :
        \/ Ask(c) \/ Write(c) \/ Save(c) \/ Trash(c)
        \/ AddLabel(c) \/ RenameLabel(c) \/ RemoveLabel(c)
        \/ Miss(c) \/ Refuse(c) \/ Elsewhere(c)

Spec == Init /\ [][Next]_documentVars
=============================================================================
