------------------------------ MODULE FileStore ------------------------------
(***************************************************************************)
(* The two places a file lives in: a bucket that holds its bytes and a row *)
(* that names it (a row of attachments, or the avatar of a user).  No      *)
(* transaction spans both.                                                 *)
(*                                                                         *)
(* A request r that stores a file names the key r.  A pass through the     *)
(* storage client is one step; like every call it can fail (Drop), and a   *)
(* call that fails may have taken effect all the same.                     *)
(***************************************************************************)
EXTENDS NoteStore

CONSTANTS
    StartAttachments,   \* the table attachments at first: id to block_id
    StartAvatars,       \* users.avatar at first: a key, NoAvatar or ElsewhereAvatar
    NoAvatar,           \* users.avatar = ''
    ElsewhereAvatar     \* a picture that is not in the bucket: GitHub's

VARIABLES
    attachments,    \* attachments: id to block_id; the path is the id
    avatars,        \* users.avatar
    files,          \* the keys in the two buckets
    unheard         \* history: keys of rows that were stored although the
                    \* server was told that they were not

FileVars == <<attachments, avatars, files, unheard>>

StartFiles ==
    DOMAIN StartAttachments
    \cup ({StartAvatars[u] : u \in Users} \ {NoAvatar, ElsewhereAvatar})

Keys == StartFiles \cup Requests

ASSUME StartFilesAssumption ==
    /\ StartAttachments \in [DOMAIN StartAttachments -> DOMAIN StartBlocks]
    /\ StartAvatars \in [Users -> StartFiles \cup {NoAvatar, ElsewhereAvatar}]
    /\ Requests \cap StartFiles = {}
    /\ {NoAvatar, ElsewhereAvatar} \cap (Requests \cup DOMAIN StartAttachments) = {}
    /\ \A u \in Users :
          /\ StartAvatars[u] \notin DOMAIN StartAttachments
          /\ \A v \in Users \ {u} :
                StartAvatars[u] = StartAvatars[v] => StartAvatars[u] \notin StartFiles

FileInit ==
    /\ attachments = StartAttachments
    /\ avatars = StartAvatars
    /\ files = StartFiles
    /\ unheard = {}

\* A name is just a path: removing one that is not there changes nothing.
PutFile(key) == files' = files \cup {key}

DeleteFile(key) == files' = files \ {key}
=============================================================================
