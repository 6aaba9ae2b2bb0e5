------------------------------- MODULE Avatars -------------------------------
(***************************************************************************)
(* UpdateAvatar: read the user, store the picture under a new key, point   *)
(* the row at it, and remove the picture the row named when it was read.   *)
(* Accounts are never deleted.                                             *)
(***************************************************************************)
EXTENDS FileStore

\* The type of the picture is looked at first.
UpdateAvatarBegin(r) ==
    /\ \E user \in Users, allowed \in BOOLEAN :
          Admit(r, [op |-> "UpdateAvatar", user |-> user, was |-> NoAvatar],
                IF allowed THEN "readUser" ELSE "rejected")
    /\ UNCHANGED FileVars

\* user.Avatar is kept until the end as oldAvatar.
UpdateAvatarRead(r) ==
    /\ At(r, "UpdateAvatar", "readUser")
    /\ req' = [req EXCEPT ![r].was = avatars[req[r].user]]
    /\ pc' = [pc EXCEPT ![r] = "putPicture"]
    /\ UNCHANGED <<Tables, locks, tx, FileVars>>

UpdateAvatarPutFile(r) ==
    /\ At(r, "UpdateAvatar", "putPicture")
    /\ PutFile(r)
    /\ Goto(r, "updateAvatar")
    /\ UNCHANGED <<Tables, locks, tx, attachments, avatars, unheard>>

UpdateAvatarRow(r) ==
    /\ At(r, "UpdateAvatar", "updateAvatar")
    /\ avatars' = [avatars EXCEPT ![req[r].user] = r]
    /\ Goto(r, "erasePicture")
    /\ UNCHANGED <<Tables, locks, tx, attachments, files, unheard>>

\* The update fails, or takes effect and its answer is lost.
UpdateAvatarRefused(r) ==
    /\ At(r, "UpdateAvatar", "updateAvatar")
    /\ Faults
    /\ \/ UNCHANGED <<avatars, unheard>>
       \/ /\ avatars' = [avatars EXCEPT ![req[r].user] = r]
          /\ unheard' = unheard \cup {r}
    /\ Goto(r, "takeBackPicture")
    /\ UNCHANGED <<Tables, locks, tx, attachments, files>>

UpdateAvatarTakeBack(r) ==
    /\ At(r, "UpdateAvatar", "takeBackPicture")
    /\ DeleteFile(r)
    /\ Ends(r, "failed")
    /\ UNCHANGED <<Tables, attachments, avatars, unheard>>

\* path.Base of the old address: a picture kept elsewhere names no key here.  A
\* failure of this call is not reported.
UpdateAvatarErase(r) ==
    /\ At(r, "UpdateAvatar", "erasePicture")
    /\ \/ DeleteFile(req[r].was)
       \/ Faults /\ UNCHANGED files
    /\ Ends(r, "done")
    /\ UNCHANGED <<Tables, attachments, avatars, unheard>>

AvatarsStep(r) ==
    \/ UpdateAvatarRead(r) \/ UpdateAvatarPutFile(r) \/ UpdateAvatarRow(r)
    \/ UpdateAvatarRefused(r) \/ UpdateAvatarTakeBack(r) \/ UpdateAvatarErase(r)
=============================================================================
