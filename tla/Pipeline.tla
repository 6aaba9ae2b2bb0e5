------------------------------ MODULE Pipeline ------------------------------
(***************************************************************************)
(* One request on its way through the server: CORS, the routes of the mux, *)
(* the middlewares of cookies, access and body size, the binding and the   *)
(* decoding of the generated code, the handler and its usecase, and the    *)
(* answer.  What a usecase does is the matter of the other modules: here   *)
(* it has an outcome.                                                      *)
(*                                                                         *)
(* Sizes are in megabytes; one more than a limit stands for all above it.  *)
(***************************************************************************)
EXTENDS Api, Naturals, SequencesExt

CONSTANTS
    MaxBody,        \* MaxRequestSize20MB
    MaxAvatar,      \* maxAvatarSize5MB
    MaxFile,        \* maxFileSize10MB
    Sizes           \* sizes of bodies and files

ASSUME SizesAssumption ==
    /\ {MaxBody, MaxAvatar, MaxFile} \cup Sizes \subseteq Nat \ {0}

VARIABLES
    request,        \* as it arrives
    at,             \* the layer it is in
    op,             \* the operation it was routed to
    data,           \* the size of the file the usecase is given
    outcome,        \* of the handler
    answer          \* the headers set so far and, in the end, the status line

pipelineVars == <<request, at, op, data, outcome, answer>>

----------------------------------------------------------------------------
(***************************************************************************)
(* The tables of Api together, in the order in which main registers them   *)
(***************************************************************************)

Routes == AuthRoutes \o NotesRoutes \o AttachmentsRoutes \o TagsRoutes

\* No operation is in two of the tables.
Joined(auth, notes, attachments, tags) ==
    [o \in DOMAIN auth \cup DOMAIN notes \cup DOMAIN attachments \cup DOMAIN tags |->
        IF o \in DOMAIN auth THEN auth[o]
        ELSE IF o \in DOMAIN notes THEN notes[o]
        ELSE IF o \in DOMAIN attachments THEN attachments[o]
        ELSE tags[o]]

BodyOf(o) ==
    LET bodies == Joined(AuthBodies, NotesBodies, AttachmentsBodies, TagsBodies)
    IN  IF o \in DOMAIN bodies THEN bodies[o] ELSE "none"

Status == Joined(AuthStatus, NotesStatus, AttachmentsStatus, TagsStatus)

Reasons == Joined(AuthReasons, NotesReasons, AttachmentsReasons, TagsReasons)

Uploads == {"UpdateAvatar", "UploadAttachment"}

Matches(template, path) ==
    /\ Len(template) = Len(path)
    /\ \A i \in DOMAIN template : template[i] \in {"id", path[i]}

OnPath == {i \in DOMAIN Routes : Matches(Routes[i].template, request.path)}

Candidates == {i \in OnPath : Routes[i].method = request.method}

\* Variant: the path within the API, as the routes are registered.
CookiePathInApi(cookie) ==
    CASE cookie = "refresh" -> <<"auth">>
      [] cookie = "twoFactor" -> <<"auth", "2fa">>
      [] cookie = "state" -> <<"auth", "github">>

CookiePath(cookie) ==
    CASE cookie = "refresh" -> <<"api", "auth">>
      [] cookie = "twoFactor" -> <<"api", "auth", "2fa">>
      [] cookie = "state" -> <<"api", "auth", "github">>

\* The browser sends a cookie to the paths below its own.
Sent(cookie) ==
    cookie \in request.jar /\ IsPrefix(CookiePath(cookie), request.path)

\* The cookie a handler reads.
CookieOf(o) ==
    CASE o \in {"Refresh", "Logout"} -> "refresh"
      [] o = "Verify2FA" -> "twoFactor"
      [] o = "GitHubCallback" -> "state"
      [] OTHER -> "none"

----------------------------------------------------------------------------
(***************************************************************************)
(* Requests                                                                *)
(***************************************************************************)

\* incomplete: a field that the schema requires is missing; longTitle: a title
\* longer than its maxLength.
Json == [kind : {"json"}, size : {MaxBody, MaxBody + 1},
         form : {"valid", "incomplete", "longTitle", "malformed"}]

\* before is what the parts before the file's add up to; file = 0: there is none.
Multipart == [kind : {"multipart"}, before : {0} \cup Sizes, file : {0} \cup Sizes]

NoBody == [kind |-> "none"]

\* The template with an id in the place of its variable.
Filled(template, id) ==
    [i \in DOMAIN template |-> IF template[i] = "id" THEN id ELSE template[i]]

\* The paths of the routes, with a UUID and with the word of /notes/all for an
\* id, and some that belong to no route.
Paths ==
    {<<"swagger", "index.html">>, <<"api">>, <<"notes">>, <<"api", "notes", "all", "uuid">>}
    \cup {Filled(r.template, id) : r \in Range(Routes), id \in {"uuid", "all"}}

\* access is the access cookie; a bad one, or none, is answered alike.  query is
\* as ListNotes and GitHubCallback read it: wrong is a number out of range, or
\* the state of another sign-in.
Request ==
    [path : Paths, method : {"GET", "POST", "PUT", "DELETE", "OPTIONS"},
     preflight : BOOLEAN, origin : {"allowed", "other"}, access : {"good", "bad"},
     jar : {{}, {"refresh", "twoFactor", "state"}},
     query : {"good", "malformed", "wrong"},
     body : {NoBody} \cup Json \cup Multipart]

\* The status is 0 until the header is written; allowMethods: {} is no header.
NoAnswer == [status |-> 0, cookies |-> {}, allowOrigin |-> FALSE, allowMethods |-> {}]

PipelineInit ==
    /\ request \in Request
    /\ request.preflight => request.method = "OPTIONS"
    /\ request.method \in {"POST", "PUT"} <=> request.body # NoBody
    /\ request.method # "GET" => request.query = "good"
    /\ at = "cors"
    /\ op = "none"
    /\ data = 0
    /\ outcome = "none"
    /\ answer = NoAnswer

----------------------------------------------------------------------------
(***************************************************************************)
(* The layers                                                              *)
(***************************************************************************)

\* The first WriteHeader: the cookies set so far go out with the status line
\* and with whatever headers the layers before have set.
WriteHeader(status, cookies) ==
    /\ at' = "answered"
    /\ answer' = [status |-> status, cookies |-> cookies,
                  allowOrigin |-> answer.allowOrigin,
                  allowMethods |-> answer.allowMethods]
    /\ UNCHANGED <<request, data>>

Refuse(why, status) ==
    /\ outcome' = why
    /\ WriteHeader(status, {})
    /\ UNCHANGED op

Pass(layer) ==
    /\ at' = layer
    /\ UNCHANGED <<request, data, answer>>

CorsAllowMethods == {"GET", "POST", "OPTIONS"}

\* Variant: the middleware is registered with router.Use, which a request only
\* reaches through a route.
CorsOfRoutes ==
    /\ at = "cors"
    /\ at' = "route"
    /\ answer' = [NoAnswer EXCEPT
                     !.allowOrigin = Candidates # {} /\ request.origin = "allowed"]
    /\ UNCHANGED <<request, op, data, outcome>>

\* An allowed origin is named in the answer, whoever is to write it.  A preflight
\* is answered here and goes no further.
Cors ==
    /\ at = "cors"
    /\ \/ /\ request.preflight
          /\ at' = "answered"
          /\ outcome' = "preflight"
          /\ answer' = [NoAnswer EXCEPT !.status = 204,
                                        !.allowOrigin = request.origin = "allowed",
                                        !.allowMethods = CorsAllowMethods]
       \/ /\ ~request.preflight
          /\ at' = "route"
          /\ answer' = [NoAnswer EXCEPT !.allowOrigin = request.origin = "allowed"]
          /\ UNCHANGED outcome
    /\ UNCHANGED <<request, op, data>>

\* The first route in the order of registration that fits path and method.
RouteFound ==
    /\ at = "route"
    /\ \E i \in Candidates :
          /\ \A j \in Candidates : i <= j
          /\ op' = Routes[i].op
    /\ Pass("access")
    /\ UNCHANGED outcome

\* No middleware of the router sees such a request.
RouteMissing ==
    /\ at = "route"
    /\ Candidates = {}
    /\ request.path[1] # "swagger"
    /\ IF OnPath # {} THEN Refuse("wrongMethod", 405) ELSE Refuse("noRoute", 404)

Swagger ==
    /\ at = "route"
    /\ request.path[1] = "swagger"
    /\ IF request.method = "GET" THEN Refuse("swagger", 200) ELSE Refuse("wrongMethod", 405)

Allowed == request.path \in PublicPaths \/ request.access = "good"

Access ==
    /\ at = "access"
    /\ \/ Allowed /\ Pass("bind") /\ UNCHANGED <<op, outcome>>
       \/ ~Allowed /\ Refuse("denied", 401)

\* The parameters of the path and the query are there and have their types.
Bindable ==
    /\ \A i \in OnPath : Routes[i].op = op =>
          "all" \notin {request.path[k] : k \in {n \in DOMAIN request.path :
                                                   Routes[i].template[n] = "id"}}
    /\ op \in {"ListNotes", "GitHubCallback"} => request.query # "malformed"

Bind ==
    /\ at = "bind"
    /\ \/ Bindable /\ Pass("decode") /\ UNCHANGED <<op, outcome>>
       \/ ~Bindable /\ Refuse("malformed", 400)

\* The decoder takes the first value of the body, which MaxBytesReader cuts off.
Decoded ==
    /\ BodyOf(op) \in {"none", request.body.kind}
    /\ BodyOf(op) = "json" => request.body.form # "malformed" /\ request.body.size <= MaxBody

\* Of a body that is both, the decoder may meet either fault first.
RequestError ==
    \/ BodyOf(op) # request.body.kind /\ Refuse("malformed", 400)
    \/ /\ BodyOf(op) = request.body.kind
       /\ \/ request.body.form = "malformed" /\ Refuse("malformed", 400)
          \/ request.body.size > MaxBody /\ Refuse("bodyTooLarge", 413)

Decode ==
    /\ at = "decode"
    /\ \/ Decoded /\ Pass("handler") /\ UNCHANGED <<op, outcome>>
       \/ ~Decoded /\ RequestError

----------------------------------------------------------------------------
(***************************************************************************)
(* The handler                                                             *)
(***************************************************************************)

FileLimit == IF op = "UpdateAvatar" THEN MaxAvatar ELSE MaxFile

\* Variant: the reader stops at the limit, and what is beyond goes unnoticed.
ReadFileToLimit(body, limit) ==
    LET read == IF body.file > limit THEN limit ELSE body.file
    IN  CASE body.before + read > MaxBody -> [error |-> "tooLarge", size |-> 0]
          [] body.before + read <= MaxBody /\ body.file = 0 -> [error |-> "EOF", size |-> 0]
          [] OTHER -> [error |-> "none", size |-> read]

\* The parts before the file's are skipped, and one byte more than the limit is
\* read; all of it counts against the limit of the whole body.
ReadFile(body, limit) ==
    LET read == IF body.file > limit THEN limit + 1 ELSE body.file
    IN  CASE body.before + read > MaxBody \/ read > limit -> [error |-> "tooLarge", size |-> 0]
          [] body.before + read <= MaxBody /\ body.file = 0 -> [error |-> "EOF", size |-> 0]
          [] OTHER -> [error |-> "none", size |-> read]

\* Why a handler answers by itself.
HandlerRefusal ==
    CASE CookieOf(op) # "none" /\ ~Sent(CookieOf(op)) -> "noCookie"
      [] op = "GitHubCallback" /\ request.query = "wrong" /\ Sent("state") -> "wrongState"
      [] op = "ListNotes" /\ request.query = "wrong" -> "outOfRange"
      [] op \in Uploads -> ReadFile(request.body, FileLimit).error
      [] OTHER -> "none"

Handler ==
    /\ at = "handler"
    /\ outcome' = HandlerRefusal
    /\ at' = IF HandlerRefusal = "none" THEN "usecase" ELSE "respond"
    /\ data' = IF op \in Uploads THEN ReadFile(request.body, FileLimit).size ELSE 0
    /\ UNCHANGED <<request, op, answer>>

\* The operations that a field's zero value makes fail.
NeedsFields ==
    {"SignUp", "SignIn", "ChangePassword", "Enable2FA", "Disable2FA", "Verify2FA",
     "CreateTag", "UpdateTag"}

\* What comes of a call that nobody refuses.  Only the database looks how long a
\* title is, and its refusal is no models.Err.
Unrefused ==
    CASE op \in NeedsFields /\ request.body.form = "incomplete" -> {}
      [] op \in {"CreateNote", "UpdateNote"} /\ request.body.form = "longTitle" -> {"valueTooLong"}
      [] op \in {"SignIn", "GitHubCallback"} -> {"ok", "challenge"}
      [] OTHER -> {"ok"}

Faults == IF op = "GitHubLogin" THEN {} ELSE {"fault"}

Usecase ==
    /\ at = "usecase"
    /\ outcome' \in Unrefused \cup Reasons[op] \cup Faults
    /\ at' = "respond"
    /\ UNCHANGED <<request, op, data, answer>>

\* The cookies the handler sets.
CookiesSet(o, result) ==
    CASE o = "Logout" /\ result # "fault" -> {"clearAuth"}
      [] o = "GitHubLogin" -> {"setState"}
      [] o = "Verify2FA" /\ result = "ok" -> {"clear2FA", "setAuth"}
      [] o = "GitHubCallback" /\ result = "ok" -> {"clearState", "setAuth"}
      [] o = "GitHubCallback" /\ result = "challenge" -> {"clearState", "set2FA"}
      [] o = "SignIn" /\ result = "challenge" -> {"set2FA"}
      [] o \in {"SignUp", "SignIn", "Refresh", "ChangePassword"} /\ result = "ok" -> {"setAuth"}
      [] OTHER -> {}

\* ResponseError answers what the handler has no answer for.
ResponseStatus ==
    IF outcome \in DOMAIN Status[op] THEN Status[op][outcome] ELSE 500

\* Variant: GitHubCallback finds out where to send the browser, and then sets its
\* cookies.
RespondCookiesLate ==
    /\ at = "respond"
    /\ \E joined \in BOOLEAN :
          /\ ~joined => op = "GitHubCallback" /\ outcome \in {"ok", "challenge"}
          /\ WriteHeader(IF joined THEN ResponseStatus ELSE 500,
                         IF joined THEN CookiesSet(op, outcome) ELSE {})
    /\ UNCHANGED <<op, outcome>>

\* GitHubCallback sets its cookies before it finds out whether FRONTEND_URL can
\* be joined with the name of a page.
Respond ==
    /\ at = "respond"
    /\ \E joined \in BOOLEAN :
          /\ ~joined => op = "GitHubCallback" /\ outcome \in {"ok", "challenge"}
          /\ WriteHeader(IF joined THEN ResponseStatus ELSE 500, CookiesSet(op, outcome))
    /\ UNCHANGED <<op, outcome>>

----------------------------------------------------------------------------

\* A request that is answered is over; one that is stuck in a layer deadlocks.
Over == at = "answered" /\ UNCHANGED pipelineVars

PipelineNext ==
    \/ Cors \/ RouteFound \/ RouteMissing \/ Swagger \/ Access \/ Bind \/ Decode
    \/ Handler \/ Usecase \/ Respond
    \/ Over

PipelineSpec == PipelineInit /\ [][PipelineNext]_pipelineVars

----------------------------------------------------------------------------

Answered == answer.status # 0

Variables(template) == {i \in DOMAIN template : template[i] = "id"}

\* Where two routes fit, the one without a variable gets the request: the list
\* of notes is not read as a note called "all" (HandlerWithOptions, mux).
RouteIsSpecific ==
    at = "access" =>
        \A i, j \in Candidates : Routes[i].op = op =>
            Variables(Routes[i].template) \subseteq Variables(Routes[j].template)

\* The operations docs/openapi.yaml gives a security: cookieAuth.
Secured ==
    {"GetCurrentUser", "ChangePassword", "UpdateAvatar", "Generate2FA", "Enable2FA",
     "Disable2FA", "ListNotes", "CreateNote", "GetNote", "UpdateNote", "DeleteNote",
     "UploadAttachment", "GetAttachment", "DeleteAttachment", "ListTags", "CreateTag",
     "UpdateTag", "DeleteTag"}

\* The list of public paths agrees with the API's description: a secured
\* operation runs only with a good access cookie, and the others never ask for
\* one (publicPaths, Middleware).
AccessAsDeclared ==
    /\ at = "usecase" /\ op \in Secured => request.access = "good"
    /\ outcome = "denied" => op \in Secured

\* A cookie reaches the handler that reads it, if the browser has it at all: no
\* cookie has a path its reader is not below (cookies.go, cookies.Get).
CookieReaches == outcome = "noCookie" => CookieOf(op) \notin request.jar

\* A usecase is given a file whole or not at all, and a file within the limit
\* is refused for size only when the body around it is too large (ReadFile,
\* MaxBytesMiddleware).
WholeFile ==
    op \in Uploads =>
        /\ data # 0 => data = request.body.file /\ data <= FileLimit
        /\ outcome = "tooLarge" =>
              \/ request.body.file > FileLimit
              \/ request.body.before + request.body.file > MaxBody

\* The usecase has opened a session, and with it stored the row that only the
\* refresh token of the answer can renew.
SessionOpened ==
    /\ op \in {"SignUp", "SignIn", "Refresh", "ChangePassword", "Verify2FA", "GitHubCallback"}
    /\ outcome = "ok"

\* A session that was opened is never kept from the browser, nor is half a
\* sign-in or the end of a session, even where the answer turns out an error
\* because GitHubCallback does not know where to send the browser; and nothing
\* else hands out a cookie (cookies.Set, writer.WriteHeader, GitHubCallback).
CookiesWithSuccess ==
    Answered =>
        /\ SessionOpened => "setAuth" \in answer.cookies
        /\ outcome = "challenge" => "set2FA" \in answer.cookies
        /\ op = "Logout" /\ outcome \in {"ok", "noCookie"} => "clearAuth" \in answer.cookies
        /\ answer.cookies # {} =>
              \/ outcome \in {"ok", "challenge"}
              \/ op = "Logout" /\ outcome = "noCookie"

\* Every reason a usecase refuses for is answered as the client's fault, but
\* three: an account that is gone, a login that a callback finds taken, and a
\* title that is too long for its column.  A success is answered as one, unless
\* GitHubCallback does not know where to send the browser (handlers,
\* ResponseError).
ReasonsAreNamed ==
    (Answered /\ answer.status = 500) =>
        \/ outcome \in {"fault", "ErrUserNotFound", "valueTooLong"}
        \/ op = "GitHubCallback" /\ outcome \in {"ErrUserExists", "ok", "challenge"}

\* Scripts of an allowed origin can read every answer, whichever layer gives it,
\* also those that belong to no route, and no other origin's scripts can.  A
\* preflight names every method of the path but PUT and DELETE, which the list
\* of the middleware lacks (NewCORS, corsAllowMethods).
OriginsAnswered ==
    Answered =>
        /\ answer.allowOrigin <=> request.origin = "allowed"
        /\ request.preflight =>
              {Routes[i].method : i \in OnPath} \subseteq answer.allowMethods \cup {"PUT", "DELETE"}

\* "required: [title, blocks]" (docs/openapi.yaml:809) and, for a title, at most
\* 255 characters (:813): an update outside this schema "did not pass
\* validation" (:427) and is answered 400.
InvalidBodyRefused ==
    (Answered /\ op = "UpdateNote" /\ outcome \in {"ok", "valueTooLong"}) =>
        request.body.form = "valid" \/ answer.status = 400
=============================================================================
