-------------------------------- MODULE Api --------------------------------
(***************************************************************************)
(* What the generated servers of the four APIs and their handlers register *)
(* and answer: the routes in the order of registration, what of a request  *)
(* is bound and decoded for an operation, the outcomes its usecase has and *)
(* the status each of them is answered with.  Everything is a table; the   *)
(* module Pipeline walks a request through it.                             *)
(***************************************************************************)
EXTENDS Sequences

\* A route of a mux.Router.  A path is the sequence of its segments, and "id"
\* is a variable of a template.
Route(method, template, op) == [method |-> method, template |-> <<"api">> \o template, op |-> op]

AuthRoutes == <<
    Route("POST", <<"auth", "signup">>, "SignUp"),
    Route("POST", <<"auth", "signin">>, "SignIn"),
    Route("POST", <<"auth", "refresh">>, "Refresh"),
    Route("POST", <<"auth", "logout">>, "Logout"),
    Route("GET", <<"auth", "me">>, "GetCurrentUser"),
    Route("PUT", <<"auth", "password">>, "ChangePassword"),
    Route("PUT", <<"auth", "avatar">>, "UpdateAvatar"),
    Route("GET", <<"auth", "2fa", "generate">>, "Generate2FA"),
    Route("POST", <<"auth", "2fa", "enable">>, "Enable2FA"),
    Route("POST", <<"auth", "2fa", "disable">>, "Disable2FA"),
    Route("POST", <<"auth", "2fa", "verify">>, "Verify2FA"),
    Route("GET", <<"auth", "github", "login">>, "GitHubLogin"),
    Route("GET", <<"auth", "github", "callback">>, "GitHubCallback") >>

\* Variant: the routes in the order of their paths, as a sort leaves them.
NotesRoutesSorted == <<
    Route("POST", <<"notes">>, "CreateNote"),
    Route("DELETE", <<"notes", "id">>, "DeleteNote"),
    Route("GET", <<"notes", "id">>, "GetNote"),
    Route("PUT", <<"notes", "id">>, "UpdateNote"),
    Route("GET", <<"notes", "all">>, "ListNotes") >>

NotesRoutes == <<
    Route("GET", <<"notes", "all">>, "ListNotes"),
    Route("POST", <<"notes">>, "CreateNote"),
    Route("DELETE", <<"notes", "id">>, "DeleteNote"),
    Route("GET", <<"notes", "id">>, "GetNote"),
    Route("PUT", <<"notes", "id">>, "UpdateNote") >>

AttachmentsRoutes == <<
    Route("POST", <<"blocks", "id", "attachments">>, "UploadAttachment"),
    Route("DELETE", <<"attachments", "id">>, "DeleteAttachment"),
    Route("GET", <<"attachments", "id">>, "GetAttachment") >>

TagsRoutes == <<
    Route("GET", <<"tags">>, "ListTags"),
    Route("POST", <<"tags">>, "CreateTag"),
    Route("DELETE", <<"tags", "id">>, "DeleteTag"),
    Route("PUT", <<"tags", "id">>, "UpdateTag") >>

\* Variant: every path of two segments under /auth is public, the way a prefix
\* would make it.
PublicPathsShort == {<<"api", "auth", word>> : word \in
    {"signup", "signin", "refresh", "logout", "me", "password", "avatar"}}
    \cup {<<"api", "auth">> \o rest : rest \in {
        <<"2fa", "verify">>, <<"github", "login">>, <<"github", "callback">>}}

\* publicPaths of the auth middleware.
PublicPaths == {<<"api", "auth">> \o rest : rest \in {
    <<"signup">>, <<"signin">>, <<"refresh">>, <<"logout">>,
    <<"2fa", "verify">>, <<"github", "login">>, <<"github", "callback">>}}

----------------------------------------------------------------------------
(***************************************************************************)
(* What the strict handlers decode                                         *)
(***************************************************************************)

AuthBodies ==
    [SignUp |-> "json", SignIn |-> "json", ChangePassword |-> "json",
     Enable2FA |-> "json", Disable2FA |-> "json", Verify2FA |-> "json",
     UpdateAvatar |-> "multipart"]

NotesBodies == [CreateNote |-> "json", UpdateNote |-> "json"]

AttachmentsBodies == [UploadAttachment |-> "multipart"]

TagsBodies == [CreateTag |-> "json", UpdateTag |-> "json"]

----------------------------------------------------------------------------
(***************************************************************************)
(* The status of every outcome the handlers name.  "ok" is success and     *)
(* "challenge" a sign-in that still needs a code; the others go by their   *)
(* names in models/errors.go.  An outcome that is missing is answered 500. *)
(***************************************************************************)

AuthStatus ==
    [SignUp |-> [ok |-> 201, ErrValidation |-> 400, ErrUserExists |-> 409],
     SignIn |-> [ok |-> 200, challenge |-> 202, ErrInvalidCredentials |-> 401,
                 ErrOAuthAccount |-> 403],
     Refresh |-> [ok |-> 200, noCookie |-> 401, ErrInvalidToken |-> 401],
     Logout |-> [ok |-> 200, noCookie |-> 200],
     GetCurrentUser |-> [ok |-> 200, ErrUserNotFound |-> 404],
     ChangePassword |-> [ok |-> 204, ErrValidation |-> 400, ErrOAuthAccount |-> 400,
                         ErrUserNotFound |-> 401, ErrWrongPassword |-> 403],
     UpdateAvatar |-> [ok |-> 200, EOF |-> 400, tooLarge |-> 413,
                       ErrUnsupportedFileType |-> 415],
     Generate2FA |-> [ok |-> 200, ErrTwoFactorEnabled |-> 409],
     Enable2FA |-> [ok |-> 200, ErrValidation |-> 400, ErrInvalidCode |-> 403],
     Disable2FA |-> [ok |-> 200, ErrInvalidCode |-> 403],
     Verify2FA |-> [ok |-> 200, noCookie |-> 401, ErrInvalidToken |-> 401,
                    ErrInvalidCode |-> 403],
     GitHubLogin |-> [ok |-> 307],
     GitHubCallback |-> [ok |-> 307, challenge |-> 307, noCookie |-> 400,
                         wrongState |-> 400]]

NotesStatus ==
    [ListNotes |-> [ok |-> 200, outOfRange |-> 400],
     CreateNote |-> [ok |-> 201, ErrValidation |-> 400, ErrNoteNotFound |-> 404],
     GetNote |-> [ok |-> 200, ErrNoteNotFound |-> 404],
     UpdateNote |-> [ok |-> 200, ErrBlockNotFound |-> 400, ErrTagNotFound |-> 400,
                     ErrNoteNotFound |-> 404],
     DeleteNote |-> [ok |-> 204, ErrNoteNotFound |-> 404]]

AttachmentsStatus ==
    [UploadAttachment |-> [ok |-> 201, EOF |-> 400, ErrBlockNotFound |-> 404,
                           tooLarge |-> 413, ErrUnsupportedFileType |-> 415],
     GetAttachment |-> [ok |-> 200, ErrAttachmentNotFound |-> 404],
     DeleteAttachment |-> [ok |-> 204, ErrAttachmentNotFound |-> 404]]

\* Variant: UpdateTag forgets that a new name may be taken.
TagsStatusNoConflict ==
    [ListTags |-> [ok |-> 200],
     CreateTag |-> [ok |-> 201, ErrValidation |-> 400, ErrTagExists |-> 409],
     UpdateTag |-> [ok |-> 200, ErrValidation |-> 400, ErrTagNotFound |-> 404],
     DeleteTag |-> [ok |-> 204, ErrTagNotFound |-> 404]]

TagsStatus ==
    [ListTags |-> [ok |-> 200],
     CreateTag |-> [ok |-> 201, ErrValidation |-> 400, ErrTagExists |-> 409],
     UpdateTag |-> [ok |-> 200, ErrValidation |-> 400, ErrTagNotFound |-> 404,
                    ErrTagExists |-> 409],
     DeleteTag |-> [ok |-> 204, ErrTagNotFound |-> 404]]

----------------------------------------------------------------------------
(***************************************************************************)
(* The reasons the usecases refuse with                                    *)
(***************************************************************************)

AuthReasons ==
    [SignUp |-> {"ErrValidation", "ErrUserExists"},
     SignIn |-> {"ErrInvalidCredentials", "ErrOAuthAccount"},
     Refresh |-> {"ErrInvalidToken"},
     Logout |-> {},
     GetCurrentUser |-> {"ErrUserNotFound"},
     ChangePassword |-> {"ErrValidation", "ErrUserNotFound", "ErrOAuthAccount",
                         "ErrWrongPassword"},
     UpdateAvatar |-> {"ErrUnsupportedFileType", "ErrUserNotFound"},
     Generate2FA |-> {"ErrUserNotFound", "ErrTwoFactorEnabled"},
     Enable2FA |-> {"ErrUserNotFound", "ErrValidation", "ErrInvalidCode"},
     Disable2FA |-> {"ErrUserNotFound", "ErrInvalidCode"},
     Verify2FA |-> {"ErrInvalidToken", "ErrUserNotFound", "ErrInvalidCode"},
     GitHubLogin |-> {},
     GitHubCallback |-> {"ErrUserExists"}]

NotesReasons ==
    [ListNotes |-> {},
     CreateNote |-> {"ErrNoteNotFound"},
     GetNote |-> {"ErrNoteNotFound"},
     UpdateNote |-> {"ErrNoteNotFound", "ErrBlockNotFound", "ErrTagNotFound"},
     DeleteNote |-> {"ErrNoteNotFound"}]

AttachmentsReasons ==
    [UploadAttachment |-> {"ErrBlockNotFound", "ErrUnsupportedFileType"},
     GetAttachment |-> {"ErrAttachmentNotFound"},
     DeleteAttachment |-> {"ErrAttachmentNotFound"}]

TagsReasons ==
    [ListTags |-> {},
     CreateTag |-> {"ErrValidation", "ErrTagExists"},
     UpdateTag |-> {"ErrTagNotFound", "ErrValidation", "ErrTagExists"},
     DeleteTag |-> {"ErrTagNotFound"}]
=============================================================================
