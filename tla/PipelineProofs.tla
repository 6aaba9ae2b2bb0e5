--------------------------- MODULE PipelineProofs ---------------------------
(***************************************************************************)
(* Theorems about Pipeline, for every limit and every size of a body or a  *)
(* file.  The tables of Api are spelled out first, once each, so that the  *)
(* proofs about requests need not look into them again.                    *)
(***************************************************************************)
EXTENDS PipelineInduction, TLAPS

(***************************************************************************)
(* The tables                                                              *)
(***************************************************************************)

\* Sequences of the same length and elements are the same.
LEMMA SameSequence ==
    ASSUME NEW S, NEW s \in Seq(S), NEW t \in Seq(S), NEW n \in Nat,
           Len(s) = n, Len(t) = n, \A i \in 1..n : s[i] = t[i]
    PROVE  s = t
OBVIOUS

\* The paths of Api, without \o.
LEMMA Prefixed1 ==
    ASSUME NEW p, NEW a
    PROVE  <<p>> \o <<a>> = <<p, a>>
<1> DEFINE S == {p, a}
           s == <<p>> \o <<a>>
           t == <<p, a>>
<1>1. s \in Seq(S) /\ t \in Seq(S) /\ Len(s) = 2 /\ Len(t) = 2 /\ \A i \in 1..2 : s[i] = t[i]
    OBVIOUS
<1>2. s = t
    <2> HIDE DEF S, s, t
    <2> QED  BY <1>1, SameSequence
<1> QED  BY <1>2

LEMMA Prefixed2 ==
    ASSUME NEW p, NEW a, NEW b
    PROVE  <<p>> \o <<a, b>> = <<p, a, b>>
<1> DEFINE S == {p, a, b}
           s == <<p>> \o <<a, b>>
           t == <<p, a, b>>
<1>1. s \in Seq(S) /\ t \in Seq(S) /\ Len(s) = 3 /\ Len(t) = 3 /\ \A i \in 1..3 : s[i] = t[i]
    OBVIOUS
<1>2. s = t
    <2> HIDE DEF S, s, t
    <2> QED  BY <1>1, SameSequence
<1> QED  BY <1>2

LEMMA Prefixed3 ==
    ASSUME NEW p, NEW a, NEW b, NEW c
    PROVE  <<p>> \o <<a, b, c>> = <<p, a, b, c>>
<1> DEFINE S == {p, a, b, c}
           s == <<p>> \o <<a, b, c>>
           t == <<p, a, b, c>>
<1>1. s \in Seq(S) /\ t \in Seq(S) /\ Len(s) = 4 /\ Len(t) = 4 /\ \A i \in 1..4 : s[i] = t[i]
    OBVIOUS
<1>2. s = t
    <2> HIDE DEF S, s, t
    <2> QED  BY <1>1, SameSequence
<1> QED  BY <1>2

LEMMA TwoPrefixed1 ==
    ASSUME NEW p, NEW q, NEW a
    PROVE  <<p, q>> \o <<a>> = <<p, q, a>>
<1> DEFINE S == {p, q, a}
           s == <<p, q>> \o <<a>>
           t == <<p, q, a>>
<1>1. s \in Seq(S) /\ t \in Seq(S) /\ Len(s) = 3 /\ Len(t) = 3 /\ \A i \in 1..3 : s[i] = t[i]
    OBVIOUS
<1>2. s = t
    <2> HIDE DEF S, s, t
    <2> QED  BY <1>1, SameSequence
<1> QED  BY <1>2

LEMMA TwoPrefixed2 ==
    ASSUME NEW p, NEW q, NEW a, NEW b
    PROVE  <<p, q>> \o <<a, b>> = <<p, q, a, b>>
<1> DEFINE S == {p, q, a, b}
           s == <<p, q>> \o <<a, b>>
           t == <<p, q, a, b>>
<1>1. s \in Seq(S) /\ t \in Seq(S) /\ Len(s) = 4 /\ Len(t) = 4 /\ \A i \in 1..4 : s[i] = t[i]
    OBVIOUS
<1>2. s = t
    <2> HIDE DEF S, s, t
    <2> QED  BY <1>1, SameSequence
<1> QED  BY <1>2

LEMMA RouteCount == DOMAIN Routes = 1..25
BY DEF Routes, AuthRoutes, NotesRoutes, AttachmentsRoutes, TagsRoutes

\* The routes of all four APIs in the order of their registration.
LEMMA RouteTable ==
    /\ Routes[1].op = "SignUp" /\ Routes[1].template = <<"api", "auth", "signup">>
    /\ Routes[2].op = "SignIn" /\ Routes[2].template = <<"api", "auth", "signin">>
    /\ Routes[3].op = "Refresh" /\ Routes[3].template = <<"api", "auth", "refresh">>
    /\ Routes[4].op = "Logout" /\ Routes[4].template = <<"api", "auth", "logout">>
    /\ Routes[5].op = "GetCurrentUser" /\ Routes[5].template = <<"api", "auth", "me">>
    /\ Routes[6].op = "ChangePassword" /\ Routes[6].template = <<"api", "auth", "password">>
    /\ Routes[7].op = "UpdateAvatar" /\ Routes[7].template = <<"api", "auth", "avatar">>
    /\ Routes[8].op = "Generate2FA" /\ Routes[8].template = <<"api", "auth", "2fa", "generate">>
    /\ Routes[9].op = "Enable2FA" /\ Routes[9].template = <<"api", "auth", "2fa", "enable">>
    /\ Routes[10].op = "Disable2FA" /\ Routes[10].template = <<"api", "auth", "2fa", "disable">>
    /\ Routes[11].op = "Verify2FA" /\ Routes[11].template = <<"api", "auth", "2fa", "verify">>
    /\ Routes[12].op = "GitHubLogin"
    /\ Routes[12].template = <<"api", "auth", "github", "login">>
    /\ Routes[13].op = "GitHubCallback"
    /\ Routes[13].template = <<"api", "auth", "github", "callback">>
    /\ Routes[14].op = "ListNotes" /\ Routes[14].template = <<"api", "notes", "all">>
    /\ Routes[15].op = "CreateNote" /\ Routes[15].template = <<"api", "notes">>
    /\ Routes[16].op = "DeleteNote" /\ Routes[16].template = <<"api", "notes", "id">>
    /\ Routes[17].op = "GetNote" /\ Routes[17].template = <<"api", "notes", "id">>
    /\ Routes[18].op = "UpdateNote" /\ Routes[18].template = <<"api", "notes", "id">>
    /\ Routes[19].op = "UploadAttachment"
    /\ Routes[19].template = <<"api", "blocks", "id", "attachments">>
    /\ Routes[20].op = "DeleteAttachment"
    /\ Routes[20].template = <<"api", "attachments", "id">>
    /\ Routes[21].op = "GetAttachment" /\ Routes[21].template = <<"api", "attachments", "id">>
    /\ Routes[22].op = "ListTags" /\ Routes[22].template = <<"api", "tags">>
    /\ Routes[23].op = "CreateTag" /\ Routes[23].template = <<"api", "tags">>
    /\ Routes[24].op = "DeleteTag" /\ Routes[24].template = <<"api", "tags", "id">>
    /\ Routes[25].op = "UpdateTag" /\ Routes[25].template = <<"api", "tags", "id">>
BY Prefixed1, Prefixed2, Prefixed3, SMTT(30)
DEF Routes, AuthRoutes, NotesRoutes, AttachmentsRoutes, TagsRoutes, Route

\* Which operation each of them is routed to;
LEMMA RouteOps ==
    /\ Routes[1].op = "SignUp"
    /\ Routes[2].op = "SignIn"
    /\ Routes[3].op = "Refresh"
    /\ Routes[4].op = "Logout"
    /\ Routes[5].op = "GetCurrentUser"
    /\ Routes[6].op = "ChangePassword"
    /\ Routes[7].op = "UpdateAvatar"
    /\ Routes[8].op = "Generate2FA"
    /\ Routes[9].op = "Enable2FA"
    /\ Routes[10].op = "Disable2FA"
    /\ Routes[11].op = "Verify2FA"
    /\ Routes[12].op = "GitHubLogin"
    /\ Routes[13].op = "GitHubCallback"
    /\ Routes[14].op = "ListNotes"
    /\ Routes[15].op = "CreateNote"
    /\ Routes[16].op = "DeleteNote"
    /\ Routes[17].op = "GetNote"
    /\ Routes[18].op = "UpdateNote"
    /\ Routes[19].op = "UploadAttachment"
    /\ Routes[20].op = "DeleteAttachment"
    /\ Routes[21].op = "GetAttachment"
    /\ Routes[22].op = "ListTags"
    /\ Routes[23].op = "CreateTag"
    /\ Routes[24].op = "DeleteTag"
    /\ Routes[25].op = "UpdateTag"
BY RouteTable

\* no operation has two routes.
LEMMA OpsDistinct ==
    ASSUME NEW i \in DOMAIN Routes, NEW j \in DOMAIN Routes, Routes[i].op = Routes[j].op
    PROVE  i = j
BY RouteOps, RouteCount

LEMMA OperationNames ==
    ASSUME NEW i \in DOMAIN Routes
    PROVE  Routes[i].op \in
              {"SignUp", "SignIn", "Refresh", "Logout", "GetCurrentUser",
               "ChangePassword", "UpdateAvatar", "Generate2FA", "Enable2FA", "Disable2FA",
               "Verify2FA", "GitHubLogin", "GitHubCallback", "ListNotes", "CreateNote",
               "DeleteNote", "GetNote", "UpdateNote", "UploadAttachment",
               "DeleteAttachment", "GetAttachment", "ListTags", "CreateTag", "DeleteTag",
               "UpdateTag"}
BY RouteOps, RouteCount

\* What each usecase refuses for.
LEMMA ReasonTable ==
    /\ Reasons["SignUp"] = {"ErrValidation", "ErrUserExists"}
    /\ Reasons["SignIn"] = {"ErrInvalidCredentials", "ErrOAuthAccount"}
    /\ Reasons["Refresh"] = {"ErrInvalidToken"}
    /\ Reasons["Logout"] = {}
    /\ Reasons["GetCurrentUser"] = {"ErrUserNotFound"}
    /\ Reasons["ChangePassword"] =
          {"ErrValidation", "ErrUserNotFound", "ErrOAuthAccount", "ErrWrongPassword"}
    /\ Reasons["UpdateAvatar"] = {"ErrUnsupportedFileType", "ErrUserNotFound"}
    /\ Reasons["Generate2FA"] = {"ErrUserNotFound", "ErrTwoFactorEnabled"}
    /\ Reasons["Enable2FA"] = {"ErrUserNotFound", "ErrValidation", "ErrInvalidCode"}
    /\ Reasons["Disable2FA"] = {"ErrUserNotFound", "ErrInvalidCode"}
    /\ Reasons["Verify2FA"] = {"ErrInvalidToken", "ErrUserNotFound", "ErrInvalidCode"}
    /\ Reasons["GitHubLogin"] = {}
    /\ Reasons["GitHubCallback"] = {"ErrUserExists"}
    /\ Reasons["ListNotes"] = {}
    /\ Reasons["CreateNote"] = {"ErrNoteNotFound"}
    /\ Reasons["DeleteNote"] = {"ErrNoteNotFound"}
    /\ Reasons["GetNote"] = {"ErrNoteNotFound"}
    /\ Reasons["UpdateNote"] = {"ErrNoteNotFound", "ErrBlockNotFound", "ErrTagNotFound"}
    /\ Reasons["UploadAttachment"] = {"ErrBlockNotFound", "ErrUnsupportedFileType"}
    /\ Reasons["DeleteAttachment"] = {"ErrAttachmentNotFound"}
    /\ Reasons["GetAttachment"] = {"ErrAttachmentNotFound"}
    /\ Reasons["ListTags"] = {}
    /\ Reasons["CreateTag"] = {"ErrValidation", "ErrTagExists"}
    /\ Reasons["DeleteTag"] = {"ErrTagNotFound"}
    /\ Reasons["UpdateTag"] = {"ErrTagNotFound", "ErrValidation", "ErrTagExists"}
BY DEF Reasons, Joined, AuthReasons, NotesReasons, AttachmentsReasons, TagsReasons

----------------------------------------------------------------------------
(***************************************************************************)
(* The invariant                                                           *)
(***************************************************************************)

\* A request is routed to an operation of the API.
LEMMA RoutedOps ==
    ASSUME Routed, op # "none"
    PROVE  op \in {Routes[i].op : i \in DOMAIN Routes}
BY DEF Routed, Candidates, OnPath

\* What a usecase can come to has a name of its own.
LEMMA OutcomesApart ==
    ASSUME Routed, op # "none"
    PROVE  Outcomes \cap Refusals = {}
<1>1. PICK i \in DOMAIN Routes : op = Routes[i].op
    BY RoutedOps
<1>2. Reasons[op] \cap Refusals = {}
    BY <1>1, OperationNames, ReasonTable DEF Refusals
<1>3. HandlerRefusal \in {"noCookie", "wrongState", "outOfRange", "tooLarge", "EOF", "none"}
    BY DEF HandlerRefusal, ReadFile
<1>4. Unrefused \cup Faults \subseteq {"valueTooLong", "ok", "challenge", "fault"}
    BY DEF Unrefused, Faults
<1> QED  BY <1>2, <1>3, <1>4 DEF Outcomes, Refusals

\* Nothing but the layer changes while a request is on its way: what depends on
\* the request and its operation alone is the same after a step.
LEMMA SameRequest ==
    ASSUME request' = request
    PROVE  /\ Candidates' = Candidates
           /\ Allowed' = Allowed
           /\ op' = op => /\ Decoded' = Decoded
                          /\ Outcomes' = Outcomes
                          /\ HandlerRefusal' = HandlerRefusal
                          /\ FileLimit' = FileLimit
<1>1. Candidates' = Candidates
    BY DEF Candidates, OnPath
<1>2. Allowed' = Allowed
    BY DEF Allowed
<1>3. ASSUME op' = op
      PROVE  /\ Decoded' = Decoded /\ HandlerRefusal' = HandlerRefusal
             /\ FileLimit' = FileLimit /\ Unrefused' = Unrefused /\ Faults' = Faults
    <2>1. Sent("state")' = Sent("state") /\ Sent(CookieOf(op))' = Sent(CookieOf(op))
        BY <1>3 DEF Sent
    <2> QED  BY <1>3, <2>1 DEF Decoded, HandlerRefusal, FileLimit, Unrefused, Faults
<1>4. op' = op => Outcomes' = Outcomes
    BY <1>3 DEF Outcomes
<1> QED  BY <1>1, <1>2, <1>3, <1>4

\* A request that arrives has met no layer.
LEMMA PipelineInitially == PipelineInit => PipelineInv
<1> SUFFICES ASSUME PipelineInit PROVE PipelineInv
    OBVIOUS
<1>1. at = "cors" /\ op = "none" /\ outcome = "none" /\ data = 0 /\ answer.status = 0
      /\ request \in Request
    BY DEF PipelineInit, NoAnswer
<1> QED
    BY <1>1 DEF PipelineInv, PipelineType, OriginNamed, Routed, Admitted, HandledWell,
                Handled, Refusals, FileRead, AnswerKept, Inner

\* The answer of a layer before the handler.
LEMMA RefusingStep ==
    ASSUME PipelineInv, NEW why, NEW status, Refuse(why, status),
           why \in Refusals, status # 500,
           at # "cors",
           why = "denied" => op # "none" /\ ~Allowed
    PROVE  PipelineInv'
<1>1. /\ outcome' = why /\ at' = "answered" /\ UNCHANGED <<request, data, op>>
      /\ answer' = [status |-> status, cookies |-> {}, allowOrigin |-> answer.allowOrigin,
                    allowMethods |-> answer.allowMethods]
    BY DEF Refuse, WriteHeader
<1>2. PipelineType'
    BY <1>1 DEF PipelineInv, PipelineType, Inner
<1>3. OriginNamed'
    BY <1>1 DEF PipelineInv, OriginNamed
<1>4. Routed'
    BY <1>1, SameRequest DEF PipelineInv, Routed
<1>5. Admitted'
    BY <1>1, SameRequest DEF Admitted, Inner
<1>6. HandledWell'
    BY <1>1 DEF HandledWell, Handled
<1>7. FileRead'
    BY <1>1, SameRequest DEF PipelineInv, FileRead
<1>8. AnswerKept'
    BY <1>1 DEF AnswerKept
<1> QED  BY <1>2, <1>3, <1>4, <1>5, <1>6, <1>7, <1>8 DEF PipelineInv

\* A request that a layer lets through.
LEMMA PassingStep ==
    ASSUME PipelineInv, NEW layer, Pass(layer), UNCHANGED <<op, outcome>>,
           at \in {"access", "bind", "decode"},
           layer \in {"bind", "decode", "handler"},
           Allowed,
           layer = "handler" => Decoded
    PROVE  PipelineInv'
<1>1. at' = layer /\ UNCHANGED <<request, data, answer, op, outcome>>
    BY DEF Pass
<1>2. PipelineType' /\ outcome = "none"
    BY <1>1 DEF PipelineInv, PipelineType, Inner
<1>3. OriginNamed'
    BY <1>1 DEF PipelineInv, OriginNamed
<1>4. Routed'
    BY <1>1, SameRequest DEF PipelineInv, Routed
<1>5. Admitted'
    BY <1>1, <1>2, SameRequest DEF Admitted, Inner
<1>6. HandledWell'
    BY <1>1, SameRequest DEF HandledWell, Handled
<1>7. FileRead'
    BY <1>1, SameRequest DEF PipelineInv, FileRead
<1>8. AnswerKept'
    BY <1>1 DEF AnswerKept
<1> QED  BY <1>2, <1>3, <1>4, <1>5, <1>6, <1>7, <1>8 DEF PipelineInv

\* One lemma for every layer: what it lets through, and what it answers.
LEMMA CorsStep == ASSUME PipelineInv, Cors PROVE PipelineInv'
<1>1. at = "cors" /\ op = "none" /\ outcome = "none" /\ UNCHANGED <<request, op, data>>
    BY DEF Cors, PipelineInv, PipelineType
<1>2. CASE request.preflight
    <2>1. /\ at' = "answered" /\ outcome' = "preflight"
          /\ answer'.status = 204 /\ answer'.cookies = {}
          /\ answer'.allowOrigin = (request.origin = "allowed")
          /\ answer'.allowMethods = CorsAllowMethods
        BY <1>2 DEF Cors, NoAnswer
    <2>2. PipelineType' /\ OriginNamed' /\ Routed' /\ Admitted' /\ HandledWell'
        BY <1>1, <2>1 DEF PipelineInv, PipelineType, OriginNamed, Routed, Admitted,
                          HandledWell, Handled, Refusals, Inner
    <2>3. FileRead' /\ AnswerKept'
        BY <1>1, <2>1, SameRequest DEF PipelineInv, FileRead, AnswerKept, Refusals
    <2> QED  BY <2>2, <2>3 DEF PipelineInv
<1>3. CASE ~request.preflight
    <2>1. /\ at' = "route" /\ UNCHANGED outcome /\ answer'.status = 0
          /\ answer'.allowOrigin = (request.origin = "allowed")
        BY <1>3 DEF Cors, NoAnswer
    <2>2. PipelineType' /\ OriginNamed' /\ Routed' /\ Admitted' /\ HandledWell'
        BY <1>1, <1>3, <2>1 DEF PipelineInv, PipelineType, OriginNamed, Routed, Admitted,
                                HandledWell, Handled, Inner
    <2>3. FileRead' /\ AnswerKept'
        BY <1>1, <2>1, SameRequest DEF PipelineInv, FileRead, AnswerKept
    <2> QED  BY <2>2, <2>3 DEF PipelineInv
<1> QED  BY <1>2, <1>3

LEMMA RouteFoundStep == ASSUME PipelineInv, RouteFound PROVE PipelineInv'
<1>1. /\ at = "route" /\ at' = "access" /\ UNCHANGED <<request, data, answer, outcome>>
      /\ op' \in {Routes[i].op : i \in DOMAIN Routes}
    BY DEF RouteFound, Pass, Candidates, OnPath
<1>2. op' # "none"
    BY <1>1, OperationNames
<1>3. PipelineType' /\ outcome = "none" /\ op = "none"
    BY <1>1, <1>2 DEF PipelineInv, PipelineType, Inner
<1>4. OriginNamed'
    BY <1>1 DEF PipelineInv, OriginNamed
<1>5. Routed'
    <2>1. PICK i \in Candidates : (\A j \in Candidates : i <= j) /\ op' = Routes[i].op
        BY DEF RouteFound
    <2>2. Candidates' = Candidates
        BY <1>1, SameRequest
    <2> QED  BY <2>1, <2>2 DEF Routed
<1>6. Admitted' /\ HandledWell' /\ AnswerKept'
    BY <1>1, <1>3 DEF Admitted, HandledWell, Handled, AnswerKept, Inner
<1>7. FileRead'
    <2>1. data = 0
        BY <1>3 DEF PipelineInv, FileRead, Uploads
    <2> QED  BY <1>1, <2>1 DEF FileRead
<1> QED  BY <1>3, <1>4, <1>5, <1>6, <1>7 DEF PipelineInv

LEMMA RouteMissingStep == ASSUME PipelineInv, RouteMissing \/ Swagger PROVE PipelineInv'
<1>1. at = "route"
    BY DEF RouteMissing, Swagger
<1>2. PICK why \in {"wrongMethod", "noRoute", "swagger"}, status \in {405, 404, 200} :
          Refuse(why, status)
    BY DEF RouteMissing, Swagger
<1> QED  BY <1>1, <1>2, RefusingStep DEF Refusals

LEMMA GuardsStep == ASSUME PipelineInv, Access \/ Bind PROVE PipelineInv'
<1>1. op # "none" /\ at # "cors"
    BY DEF Access, Bind, PipelineInv, PipelineType, Inner
<1>2. CASE Access
    <2>1. CASE Allowed /\ Pass("bind") /\ UNCHANGED <<op, outcome>>
        BY <1>1, <1>2, <2>1, PassingStep DEF Access
    <2>2. CASE ~Allowed /\ Refuse("denied", 401)
        BY <1>1, <2>2, RefusingStep DEF Refusals
    <2> QED  BY <1>2, <2>1, <2>2 DEF Access
<1>3. CASE Bind
    <2>1. CASE Pass("decode") /\ UNCHANGED <<op, outcome>>
        <3>1. at = "bind" /\ Allowed
            BY <1>3 DEF Bind, PipelineInv, Admitted, Inner
        <3> QED  BY <1>1, <2>1, <3>1, PassingStep
    <2>2. CASE Refuse("malformed", 400)
        BY <1>1, <2>2, RefusingStep DEF Refusals
    <2> QED  BY <1>3, <2>1, <2>2 DEF Bind
<1> QED  BY <1>2, <1>3

LEMMA DecodeStep == ASSUME PipelineInv, Decode PROVE PipelineInv'
<1>1. op # "none" /\ at = "decode" /\ Allowed
    BY DEF Decode, PipelineInv, PipelineType, Admitted, Inner
<1>2. CASE Decoded /\ Pass("handler") /\ UNCHANGED <<op, outcome>>
    BY <1>1, <1>2, PassingStep
<1>3. CASE RequestError
    <2>1. PICK why \in {"malformed", "bodyTooLarge"}, status \in {400, 413} :
              Refuse(why, status)
        BY <1>3 DEF RequestError
    <2> QED  BY <1>1, <2>1, RefusingStep DEF Refusals
<1> QED  BY <1>2, <1>3 DEF Decode

\* An upload that is decoded has a multipart body.
LEMMA UploadsAreMultipart ==
    ASSUME op \in Uploads, Decoded
    PROVE  request.body.kind = "multipart"
<1>1. BodyOf(op) = "multipart"
    BY DEF BodyOf, Joined, Uploads, AuthBodies, NotesBodies, AttachmentsBodies, TagsBodies
<1> QED  BY <1>1 DEF Decoded

LEMMA HandlerStep == ASSUME PipelineInv, Handler PROVE PipelineInv'
<1>1. op # "none" /\ at = "handler" /\ Allowed /\ Decoded
    BY DEF Handler, PipelineInv, PipelineType, Admitted, HandledWell, Inner
<1>2. /\ UNCHANGED <<request, op, answer>> /\ outcome' = HandlerRefusal
      /\ at' = IF HandlerRefusal = "none" THEN "usecase" ELSE "respond"
      /\ data' = IF op \in Uploads THEN ReadFile(request.body, FileLimit).size ELSE 0
    BY DEF Handler
<1>3. HandlerRefusal # "denied"
    BY DEF HandlerRefusal, ReadFile
<1>4. PipelineType'
    BY <1>1, <1>2 DEF PipelineInv, PipelineType, Inner
<1>5. OriginNamed' /\ AnswerKept'
    BY <1>1, <1>2 DEF PipelineInv, OriginNamed, AnswerKept
<1>6. Routed' /\ Admitted'
    BY <1>1, <1>2, <1>3, SameRequest DEF PipelineInv, Routed, Admitted
<1>7. HandledWell'
    <2>1. HandlerRefusal \in Outcomes
        BY DEF Outcomes
    <2> QED  BY <1>1, <1>2, <2>1, SameRequest DEF HandledWell, Handled
<1>8. FileRead'
    BY <1>1, <1>2, UploadsAreMultipart, SameRequest DEF FileRead
<1> QED  BY <1>4, <1>5, <1>6, <1>7, <1>8 DEF PipelineInv

LEMMA UsecaseStep == ASSUME PipelineInv, Usecase PROVE PipelineInv'
<1>1. /\ op # "none" /\ at = "usecase" /\ Allowed /\ Decoded
      /\ HandlerRefusal = "none" /\ Routed
    BY DEF Usecase, PipelineInv, PipelineType, Admitted, HandledWell, Inner
<1>2. /\ UNCHANGED <<request, op, data, answer>> /\ at' = "respond"
      /\ outcome' \in Unrefused \cup Reasons[op] \cup Faults
    BY DEF Usecase
<1>3. outcome' \in Outcomes \ {"none", "denied"}
    <2>1. PICK i \in DOMAIN Routes : op = Routes[i].op
        BY <1>1, RoutedOps
    <2>2. Reasons[op] \cap {"none", "denied"} = {}
        BY <2>1, OperationNames, ReasonTable
    <2>3. Unrefused \cup Faults \subseteq {"valueTooLong", "ok", "challenge", "fault"}
        BY DEF Unrefused, Faults
    <2> QED  BY <1>1, <1>2, <2>2, <2>3 DEF Outcomes
<1>4. PipelineType' /\ OriginNamed' /\ AnswerKept'
    BY <1>1, <1>2 DEF PipelineInv, PipelineType, OriginNamed, AnswerKept, Inner
<1>5. Routed' /\ Admitted'
    BY <1>1, <1>2, <1>3, SameRequest DEF Routed, Admitted
<1>6. HandledWell'
    BY <1>1, <1>2, <1>3, SameRequest DEF HandledWell, Handled
<1>7. FileRead'
    BY <1>2, SameRequest DEF PipelineInv, FileRead
<1> QED  BY <1>4, <1>5, <1>6, <1>7 DEF PipelineInv

LEMMA RespondStep == ASSUME PipelineInv, Respond PROVE PipelineInv'
<1>1. /\ op # "none" /\ at = "respond" /\ Allowed /\ Decoded /\ Routed
      /\ outcome \in Outcomes \ {"none"}
    BY DEF Respond, PipelineInv, PipelineType, Admitted, HandledWell, Handled, Inner
<1>2. PICK joined \in BOOLEAN :
          /\ ~joined => op = "GitHubCallback" /\ outcome \in {"ok", "challenge"}
          /\ WriteHeader(IF joined THEN ResponseStatus ELSE 500, CookiesSet(op, outcome))
          /\ UNCHANGED <<op, outcome>>
    BY DEF Respond
<1>3. /\ at' = "answered" /\ UNCHANGED <<request, data, op, outcome>>
      /\ answer' = [status |-> IF joined THEN ResponseStatus ELSE 500,
                    cookies |-> CookiesSet(op, outcome),
                    allowOrigin |-> answer.allowOrigin,
                    allowMethods |-> answer.allowMethods]
    BY <1>2 DEF WriteHeader
<1>4. PipelineType' /\ OriginNamed'
    BY <1>1, <1>3 DEF PipelineInv, PipelineType, OriginNamed, Inner
<1>5. Routed' /\ Admitted'
    BY <1>1, <1>3, SameRequest DEF PipelineInv, Routed, Admitted
<1>6. HandledWell'
    BY <1>1, <1>3, SameRequest DEF HandledWell, Handled
<1>7. FileRead'
    BY <1>3, SameRequest DEF PipelineInv, FileRead
<1>8. AnswerKept'
    <2>1. outcome \notin Refusals
        BY <1>1, OutcomesApart
    <2>2. ResponseStatus' = ResponseStatus
        BY <1>3 DEF ResponseStatus
    <2> QED  BY <1>2, <1>3, <2>1, <2>2 DEF AnswerKept
<1> QED  BY <1>4, <1>5, <1>6, <1>7, <1>8 DEF PipelineInv

\* What the layers make certain stays so.
THEOREM LayersCorrect == PipelineSpec => []PipelineInv
<1>1. PipelineInv /\ [PipelineNext]_pipelineVars => PipelineInv'
    <2> SUFFICES ASSUME PipelineInv, [PipelineNext]_pipelineVars PROVE PipelineInv'
        OBVIOUS
    <2>1. CASE UNCHANGED pipelineVars
        <3>1. UNCHANGED <<request, at, op, data, outcome, answer>>
            BY <2>1 DEF pipelineVars
        <3>2. ResponseStatus' = ResponseStatus
            BY <3>1 DEF ResponseStatus
        <3> QED
            BY <3>1, <3>2, SameRequest
            DEF PipelineInv, PipelineType, OriginNamed, Routed, Admitted, HandledWell,
                Handled, FileRead, AnswerKept
    <2> QED
        BY <2>1, CorsStep, RouteFoundStep, RouteMissingStep, GuardsStep, DecodeStep,
           HandlerStep, UsecaseStep, RespondStep
        DEF PipelineNext, Over
<1> QED  BY <1>1, PipelineInitially, PTL DEF PipelineSpec

----------------------------------------------------------------------------
(***************************************************************************)
(* Answers                                                                 *)
(***************************************************************************)

\* A request is answered in the last layer.
LEMMA AnsweredLast == ASSUME PipelineInv, Answered PROVE at = "answered"
BY DEF Answered, PipelineInv, PipelineType

\* The methods of the routes,
LEMMA MethodTable ==
    /\ Routes[1].method = "POST"
    /\ Routes[2].method = "POST"
    /\ Routes[3].method = "POST"
    /\ Routes[4].method = "POST"
    /\ Routes[5].method = "GET"
    /\ Routes[6].method = "PUT"
    /\ Routes[7].method = "PUT"
    /\ Routes[8].method = "GET"
    /\ Routes[9].method = "POST"
    /\ Routes[10].method = "POST"
    /\ Routes[11].method = "POST"
    /\ Routes[12].method = "GET"
    /\ Routes[13].method = "GET"
    /\ Routes[14].method = "GET"
    /\ Routes[15].method = "POST"
    /\ Routes[16].method = "DELETE"
    /\ Routes[17].method = "GET"
    /\ Routes[18].method = "PUT"
    /\ Routes[19].method = "POST"
    /\ Routes[20].method = "DELETE"
    /\ Routes[21].method = "GET"
    /\ Routes[22].method = "GET"
    /\ Routes[23].method = "POST"
    /\ Routes[24].method = "DELETE"
    /\ Routes[25].method = "PUT"
BY SMTT(30) DEF Routes, AuthRoutes, NotesRoutes, AttachmentsRoutes, TagsRoutes, Route

\* and that there are no others.
LEMMA RouteMethods ==
    ASSUME NEW i \in DOMAIN Routes
    PROVE  Routes[i].method \in {"GET", "POST", "PUT", "DELETE"}
BY MethodTable, RouteCount

\* Whichever layer answers, the routes, the access check, the decoder or the
\* handler, the answer still carries the header CORS began it with: scripts of
\* an allowed origin can read it and no other's can.  A preflight is told every
\* method of its path but PUT and DELETE (NewCORS, main).
THEOREM OriginsAreAnswered == PipelineSpec => []OriginsAnswered
<1>1. PipelineInv => OriginsAnswered
    <2> SUFFICES ASSUME PipelineInv, Answered
                 PROVE  /\ answer.allowOrigin <=> request.origin = "allowed"
                        /\ request.preflight =>
                              {Routes[i].method : i \in OnPath}
                                  \subseteq answer.allowMethods \cup {"PUT", "DELETE"}
        BY DEF OriginsAnswered
    <2>1. at = "answered"
        BY AnsweredLast
    <2>2. answer.allowOrigin <=> request.origin = "allowed"
        BY <2>1 DEF PipelineInv, OriginNamed
    <2>3. ASSUME request.preflight, NEW i \in OnPath
          PROVE  Routes[i].method \in answer.allowMethods \cup {"PUT", "DELETE"}
        <3>1. answer.allowMethods = {"GET", "POST", "OPTIONS"}
            BY <2>1, <2>3 DEF PipelineInv, OriginNamed, CorsAllowMethods
        <3> QED  BY <2>3, <3>1, RouteMethods DEF OnPath
    <2> QED  BY <2>2, <2>3
<1> QED  BY <1>1, LayersCorrect, PTL

\* What a handler refuses for is what it has looked at.
LEMMA TooLargeIsRead ==
    ASSUME PipelineInv, op \in Uploads, outcome = "tooLarge"
    PROVE  /\ request.body.kind = "multipart"
           /\ ReadFile(request.body, FileLimit).error = "tooLarge"
<1>1. Handled
    BY DEF PipelineInv, PipelineType, Handled, Refusals, Inner
<1>2. op # "none" /\ Decoded /\ outcome \in Outcomes
    BY <1>1 DEF PipelineInv, HandledWell
<1>3. outcome \notin Unrefused \cup Reasons[op] \cup Faults
    BY ReasonTable DEF Unrefused, Faults, Uploads
<1>4. HandlerRefusal = "tooLarge"
    BY <1>2, <1>3 DEF Outcomes
<1> QED  BY <1>2, <1>4, UploadsAreMultipart DEF HandlerRefusal, CookieOf, Uploads

\* Sizes and limits are numbers.
LEMMA Limits ==
    ASSUME request \in Request, request.body.kind = "multipart"
    PROVE  /\ request.body.file \in Nat /\ request.body.before \in Nat
           /\ FileLimit \in Nat \ {0} /\ MaxBody \in Nat \ {0}
<1>1. request.body \in Multipart
    BY DEF Request, NoBody, Json
<1> QED  BY <1>1, SizesAssumption DEF Multipart, FileLimit

\* A usecase is given a whole file or none, whatever the limits and the sizes.
THEOREM FilesAreWhole == PipelineSpec => []WholeFile
<1>1. PipelineInv => WholeFile
    <2> SUFFICES ASSUME PipelineInv, op \in Uploads
                 PROVE  /\ data # 0 => data = request.body.file /\ data <= FileLimit
                        /\ outcome = "tooLarge" =>
                              \/ request.body.file > FileLimit
                              \/ request.body.before + request.body.file > MaxBody
        BY DEF WholeFile
    <2>1. request \in Request
        BY DEF PipelineInv, PipelineType
    <2>2. ASSUME data # 0 PROVE data = request.body.file /\ data <= FileLimit
        <3>1. request.body.kind = "multipart" /\ data = ReadFile(request.body, FileLimit).size
            BY <2>2 DEF PipelineInv, FileRead
        <3> QED  BY <2>1, <2>2, <3>1, Limits DEF ReadFile
    <2>3. ASSUME outcome = "tooLarge"
          PROVE  \/ request.body.file > FileLimit
                 \/ request.body.before + request.body.file > MaxBody
        <3>1. /\ request.body.kind = "multipart"
              /\ ReadFile(request.body, FileLimit).error = "tooLarge"
            BY <2>3, TooLargeIsRead
        <3> QED  BY <2>1, <3>1, Limits DEF ReadFile
    <2> QED  BY <2>2, <2>3
<1> QED  BY <1>1, LayersCorrect, PTL

\* A handler answers for its outcome.
LEMMA AnswerOfHandler ==
    ASSUME PipelineInv, Answered, outcome \notin Refusals
    PROVE  /\ op \in {Routes[i].op : i \in DOMAIN Routes}
           /\ outcome \in Outcomes \ {"none"}
           /\ answer.cookies = CookiesSet(op, outcome)
           /\ \/ answer.status = ResponseStatus
              \/ op = "GitHubCallback" /\ outcome \in {"ok", "challenge"}
<1>1. at = "answered"
    BY AnsweredLast
<1> QED  BY <1>1, RoutedOps DEF PipelineInv, HandledWell, Handled, AnswerKept

\* Half a sign-in is SignIn's or the callback's.
LEMMA ChallengedOps ==
    ASSUME op \in {Routes[i].op : i \in DOMAIN Routes}, outcome \in Outcomes \ {"none"},
           outcome = "challenge"
    PROVE  op \in {"SignIn", "GitHubCallback"}
<1>1. HandlerRefusal # "challenge"
    BY DEF HandlerRefusal, ReadFile
<1>2. outcome \notin Reasons[op] \cup Faults
    BY OperationNames, ReasonTable DEF Faults
<1>3. outcome \in Unrefused
    BY <1>1, <1>2 DEF Outcomes
<1> QED  BY <1>3 DEF Unrefused

\* Every operation that opens a session, stops half-way into one or ends one
\* tells the browser so in its cookies, whatever status its answer has in the
\* end, and no other answer has a cookie that hands anything out.
THEOREM CookiesGoWithSuccess == PipelineSpec => []CookiesWithSuccess
<1>1. PipelineInv => CookiesWithSuccess
    <2> SUFFICES ASSUME PipelineInv, Answered
                 PROVE  /\ SessionOpened => "setAuth" \in answer.cookies
                        /\ outcome = "challenge" => "set2FA" \in answer.cookies
                        /\ op = "Logout" /\ outcome \in {"ok", "noCookie"} =>
                              "clearAuth" \in answer.cookies
                        /\ answer.cookies # {} =>
                              \/ outcome \in {"ok", "challenge"}
                              \/ op = "Logout" /\ outcome = "noCookie"
        BY DEF CookiesWithSuccess
    <2>1. CASE outcome \in Refusals
        BY <2>1, AnsweredLast DEF PipelineInv, AnswerKept, Refusals, SessionOpened
    <2>2. CASE outcome \notin Refusals
        <3>1. /\ op \in {Routes[i].op : i \in DOMAIN Routes} /\ outcome \in Outcomes \ {"none"}
              /\ answer.cookies = CookiesSet(op, outcome)
            BY <2>2, AnswerOfHandler
        <3>2. ASSUME op = "Logout", outcome # "fault" PROVE outcome \in {"ok", "noCookie"}
            BY <3>1, <3>2, ReasonTable
            DEF Outcomes, HandlerRefusal, CookieOf, Unrefused, Faults, NeedsFields, Uploads
        <3>3. ASSUME op = "GitHubLogin" PROVE outcome = "ok"
            BY <3>1, <3>3, ReasonTable
            DEF Outcomes, HandlerRefusal, CookieOf, Unrefused, Faults, NeedsFields, Uploads
        <3>4. SessionOpened => "setAuth" \in answer.cookies
            BY <3>1 DEF CookiesSet, SessionOpened
        <3>5. outcome = "challenge" => "set2FA" \in answer.cookies
            BY <3>1, ChallengedOps DEF CookiesSet
        <3>6. op = "Logout" /\ outcome \in {"ok", "noCookie"} => "clearAuth" \in answer.cookies
            BY <3>1 DEF CookiesSet
        <3>7. answer.cookies # {} =>
                  \/ outcome \in {"ok", "challenge"}
                  \/ op = "Logout" /\ outcome = "noCookie"
            BY <3>1, <3>2, <3>3 DEF CookiesSet
        <3> QED  BY <3>4, <3>5, <3>6, <3>7
    <2> QED  BY <2>1, <2>2
<1> QED  BY <1>1, LayersCorrect, PTL

\* The outcome has a status of its own, and not the one of a failure.
Named(o, result) == result \in DOMAIN Status[o] /\ Status[o][result] # 500

\* The outcomes that each handler names.
LEMMA SessionsStatus ==
    /\ \A result \in {"ok", "ErrValidation", "ErrUserExists"} : Named("SignUp", result)
    /\ \A result \in {"ok", "challenge", "ErrInvalidCredentials", "ErrOAuthAccount"} :
          Named("SignIn", result)
    /\ \A result \in {"ok", "noCookie", "ErrInvalidToken"} : Named("Refresh", result)
    /\ \A result \in {"ok", "noCookie"} : Named("Logout", result)
<1>1. /\ Status["SignUp"] = [ok |-> 201, ErrValidation |-> 400, ErrUserExists |-> 409]
      /\ Status["SignIn"] = [ok |-> 200, challenge |-> 202, ErrInvalidCredentials |-> 401,
                             ErrOAuthAccount |-> 403]
      /\ Status["Refresh"] = [ok |-> 200, noCookie |-> 401, ErrInvalidToken |-> 401]
      /\ Status["Logout"] = [ok |-> 200, noCookie |-> 200]
    BY DEF Status, Joined, AuthStatus, NotesStatus, AttachmentsStatus, TagsStatus
<1> QED  BY <1>1 DEF Named

LEMMA AccountStatus ==
    /\ \A result \in {"ok", "ErrUserNotFound"} : Named("GetCurrentUser", result)
    /\ \A result \in {"ok", "ErrValidation", "ErrOAuthAccount", "ErrUserNotFound",
                      "ErrWrongPassword"} :
          Named("ChangePassword", result)
    /\ \A result \in {"ok", "EOF", "tooLarge", "ErrUnsupportedFileType"} :
          Named("UpdateAvatar", result)
    /\ \A result \in {"ok", "ErrTwoFactorEnabled"} : Named("Generate2FA", result)
    /\ \A result \in {"ok", "ErrValidation", "ErrInvalidCode"} : Named("Enable2FA", result)
    /\ \A result \in {"ok", "ErrInvalidCode"} : Named("Disable2FA", result)
<1>1. /\ Status["GetCurrentUser"] = [ok |-> 200, ErrUserNotFound |-> 404]
      /\ Status["ChangePassword"] =
            [ok |-> 204, ErrValidation |-> 400, ErrOAuthAccount |-> 400, ErrUserNotFound |-> 401,
             ErrWrongPassword |-> 403]
      /\ Status["UpdateAvatar"] = [ok |-> 200, EOF |-> 400, tooLarge |-> 413,
                                   ErrUnsupportedFileType |-> 415]
      /\ Status["Generate2FA"] = [ok |-> 200, ErrTwoFactorEnabled |-> 409]
      /\ Status["Enable2FA"] = [ok |-> 200, ErrValidation |-> 400, ErrInvalidCode |-> 403]
      /\ Status["Disable2FA"] = [ok |-> 200, ErrInvalidCode |-> 403]
    BY DEF Status, Joined, AuthStatus, NotesStatus, AttachmentsStatus, TagsStatus
<1> QED  BY <1>1 DEF Named

LEMMA SecondStepStatus ==
    /\ \A result \in {"ok", "noCookie", "ErrInvalidToken", "ErrInvalidCode"} :
          Named("Verify2FA", result)
    /\ \A result \in {"ok"} : Named("GitHubLogin", result)
    /\ \A result \in {"ok", "challenge", "noCookie", "wrongState"} :
          Named("GitHubCallback", result)
<1>1. /\ Status["Verify2FA"] = [ok |-> 200, noCookie |-> 401, ErrInvalidToken |-> 401,
                                ErrInvalidCode |-> 403]
      /\ Status["GitHubLogin"] = [ok |-> 307]
      /\ Status["GitHubCallback"] = [ok |-> 307, challenge |-> 307, noCookie |-> 400,
                                     wrongState |-> 400]
    BY DEF Status, Joined, AuthStatus, NotesStatus, AttachmentsStatus, TagsStatus
<1> QED  BY <1>1 DEF Named

LEMMA NotesStatusNamed ==
    /\ \A result \in {"ok", "outOfRange"} : Named("ListNotes", result)
    /\ \A result \in {"ok", "ErrValidation", "ErrNoteNotFound"} : Named("CreateNote", result)
    /\ \A result \in {"ok", "ErrNoteNotFound"} : Named("DeleteNote", result)
    /\ \A result \in {"ok", "ErrNoteNotFound"} : Named("GetNote", result)
    /\ \A result \in {"ok", "ErrBlockNotFound", "ErrTagNotFound", "ErrNoteNotFound"} :
          Named("UpdateNote", result)
<1>1. /\ Status["ListNotes"] = [ok |-> 200, outOfRange |-> 400]
      /\ Status["CreateNote"] = [ok |-> 201, ErrValidation |-> 400, ErrNoteNotFound |-> 404]
      /\ Status["DeleteNote"] = [ok |-> 204, ErrNoteNotFound |-> 404]
      /\ Status["GetNote"] = [ok |-> 200, ErrNoteNotFound |-> 404]
      /\ Status["UpdateNote"] = [ok |-> 200, ErrBlockNotFound |-> 400,
                                 ErrTagNotFound |-> 400, ErrNoteNotFound |-> 404]
    BY DEF Status, Joined, AuthStatus, NotesStatus, AttachmentsStatus, TagsStatus
<1> QED  BY <1>1 DEF Named

LEMMA FilesStatus ==
    /\ \A result \in {"ok", "EOF", "ErrBlockNotFound", "tooLarge", "ErrUnsupportedFileType"} :
          Named("UploadAttachment", result)
    /\ \A result \in {"ok", "ErrAttachmentNotFound"} : Named("DeleteAttachment", result)
    /\ \A result \in {"ok", "ErrAttachmentNotFound"} : Named("GetAttachment", result)
<1>1. /\ Status["UploadAttachment"] = [ok |-> 201, EOF |-> 400, ErrBlockNotFound |-> 404,
                                       tooLarge |-> 413, ErrUnsupportedFileType |-> 415]
      /\ Status["DeleteAttachment"] = [ok |-> 204, ErrAttachmentNotFound |-> 404]
      /\ Status["GetAttachment"] = [ok |-> 200, ErrAttachmentNotFound |-> 404]
    BY DEF Status, Joined, AuthStatus, NotesStatus, AttachmentsStatus, TagsStatus
<1> QED  BY <1>1 DEF Named

LEMMA TagsStatusNamed ==
    /\ \A result \in {"ok"} : Named("ListTags", result)
    /\ \A result \in {"ok", "ErrValidation", "ErrTagExists"} : Named("CreateTag", result)
    /\ \A result \in {"ok", "ErrTagNotFound"} : Named("DeleteTag", result)
    /\ \A result \in {"ok", "ErrValidation", "ErrTagNotFound", "ErrTagExists"} :
          Named("UpdateTag", result)
<1>1. /\ Status["ListTags"] = [ok |-> 200]
      /\ Status["CreateTag"] = [ok |-> 201, ErrValidation |-> 400, ErrTagExists |-> 409]
      /\ Status["DeleteTag"] = [ok |-> 204, ErrTagNotFound |-> 404]
      /\ Status["UpdateTag"] = [ok |-> 200, ErrValidation |-> 400, ErrTagNotFound |-> 404,
                                ErrTagExists |-> 409]
    BY DEF Status, Joined, AuthStatus, NotesStatus, AttachmentsStatus, TagsStatus
<1> QED  BY <1>1 DEF Named

\* What a handler can come to has a status, unless the client is not to blame
\* for it or a callback finds the login taken.
LEMMA OutcomesNamed ==
    ASSUME NEW i \in DOMAIN Routes, op = Routes[i].op,
           outcome \in Outcomes \ {"none"},
           outcome \notin {"fault", "ErrUserNotFound", "valueTooLong"},
           op = "GitHubCallback" => outcome # "ErrUserExists"
    PROVE  Named(op, outcome)
<1>1. CASE outcome = HandlerRefusal
    <2>1. \/ outcome = "noCookie" /\ op \in {"Refresh", "Logout", "Verify2FA", "GitHubCallback"}
          \/ outcome = "wrongState" /\ op = "GitHubCallback"
          \/ outcome = "outOfRange" /\ op = "ListNotes"
          \/ outcome \in {"EOF", "tooLarge"} /\ op \in Uploads
        BY <1>1 DEF HandlerRefusal, CookieOf, ReadFile
    <2> QED  BY <2>1, SessionsStatus, AccountStatus, SecondStepStatus, NotesStatusNamed,
                 FilesStatus, TagsStatusNamed
        DEF Uploads
<1>2. CASE outcome \in Unrefused \cup Faults
    <2>1. outcome = "ok" \/ (outcome = "challenge" /\ op \in {"SignIn", "GitHubCallback"})
        BY <1>2 DEF Unrefused, Faults
    <2> QED  BY <2>1, OperationNames, SessionsStatus, AccountStatus, SecondStepStatus,
                 NotesStatusNamed, FilesStatus, TagsStatusNamed
<1>3. CASE outcome \in Reasons[op]
    BY <1>3, OperationNames, ReasonTable, SessionsStatus, AccountStatus, SecondStepStatus,
       NotesStatusNamed, FilesStatus, TagsStatusNamed
<1> QED  BY <1>1, <1>2, <1>3 DEF Outcomes

\* Every reason a usecase refuses for has a status in its handler, but the three,
\* and so has every success, but a callback's that cannot be sent on.
THEOREM ReasonsHaveStatus == PipelineSpec => []ReasonsAreNamed
<1>1. PipelineInv => ReasonsAreNamed
    <2> SUFFICES ASSUME PipelineInv, Answered, answer.status = 500,
                        outcome \notin {"fault", "ErrUserNotFound", "valueTooLong"},
                        ~(op = "GitHubCallback" /\ outcome \in {"ErrUserExists", "ok", "challenge"})
                 PROVE  FALSE
        BY DEF ReasonsAreNamed
    <2>1. outcome \notin Refusals
        BY AnsweredLast DEF PipelineInv, AnswerKept
    <2>2. PICK i \in DOMAIN Routes : op = Routes[i].op
        BY <2>1, AnswerOfHandler
    <2>3. outcome \in Outcomes \ {"none"} /\ ResponseStatus = 500
        BY <2>1, AnswerOfHandler
    <2>4. ~Named(op, outcome)
        BY <2>3 DEF Named, ResponseStatus
    <2> QED  BY <2>2, <2>3, <2>4, OutcomesNamed
<1> QED  BY <1>1, LayersCorrect, PTL

----------------------------------------------------------------------------
(***************************************************************************)
(* Routes and paths                                                        *)
(***************************************************************************)

\* How long the paths are,
LEMMA TemplateDomains ==
    /\ DOMAIN Routes[1].template = 1..3
    /\ DOMAIN Routes[2].template = 1..3
    /\ DOMAIN Routes[3].template = 1..3
    /\ DOMAIN Routes[4].template = 1..3
    /\ DOMAIN Routes[5].template = 1..3
    /\ DOMAIN Routes[6].template = 1..3
    /\ DOMAIN Routes[7].template = 1..3
    /\ DOMAIN Routes[8].template = 1..4
    /\ DOMAIN Routes[9].template = 1..4
    /\ DOMAIN Routes[10].template = 1..4
    /\ DOMAIN Routes[11].template = 1..4
    /\ DOMAIN Routes[12].template = 1..4
    /\ DOMAIN Routes[13].template = 1..4
    /\ DOMAIN Routes[14].template = 1..3
    /\ DOMAIN Routes[15].template = 1..2
    /\ DOMAIN Routes[16].template = 1..3
    /\ DOMAIN Routes[17].template = 1..3
    /\ DOMAIN Routes[18].template = 1..3
    /\ DOMAIN Routes[19].template = 1..4
    /\ DOMAIN Routes[20].template = 1..3
    /\ DOMAIN Routes[21].template = 1..3
    /\ DOMAIN Routes[22].template = 1..2
    /\ DOMAIN Routes[23].template = 1..2
    /\ DOMAIN Routes[24].template = 1..3
    /\ DOMAIN Routes[25].template = 1..3
BY RouteTable

\* and where in them the variables are.
LEMMA TemplateVariables ==
    /\ Variables(Routes[1].template) = {}
    /\ Variables(Routes[2].template) = {}
    /\ Variables(Routes[3].template) = {}
    /\ Variables(Routes[4].template) = {}
    /\ Variables(Routes[5].template) = {}
    /\ Variables(Routes[6].template) = {}
    /\ Variables(Routes[7].template) = {}
    /\ Variables(Routes[8].template) = {}
    /\ Variables(Routes[9].template) = {}
    /\ Variables(Routes[10].template) = {}
    /\ Variables(Routes[11].template) = {}
    /\ Variables(Routes[12].template) = {}
    /\ Variables(Routes[13].template) = {}
    /\ Variables(Routes[14].template) = {}
    /\ Variables(Routes[15].template) = {}
    /\ Variables(Routes[16].template) = {3}
    /\ Variables(Routes[17].template) = {3}
    /\ Variables(Routes[18].template) = {3}
    /\ Variables(Routes[19].template) = {3}
    /\ Variables(Routes[20].template) = {3}
    /\ Variables(Routes[21].template) = {3}
    /\ Variables(Routes[22].template) = {}
    /\ Variables(Routes[23].template) = {}
    /\ Variables(Routes[24].template) = {3}
    /\ Variables(Routes[25].template) = {3}
BY RouteTable DEF Variables

\* A route without a variable comes before those it could be mistaken for.
LEMMA VariablesLast ==
    ASSUME NEW i \in DOMAIN Routes, NEW j \in DOMAIN Routes, i <= j,
           DOMAIN Routes[i].template = DOMAIN Routes[j].template
    PROVE  Variables(Routes[i].template) \subseteq Variables(Routes[j].template)
<1>1. CASE i \in 1..15 \cup {22, 23}
    BY <1>1, TemplateVariables
<1>2. CASE i \in 16..21 /\ j \in {22, 23}
    <2>1. 3 \in DOMAIN Routes[i].template
        BY <1>2, TemplateDomains
    <2>2. 3 \notin DOMAIN Routes[j].template
        BY <1>2, TemplateDomains
    <2> QED  BY <2>1, <2>2
<1>3. CASE i \in 16..25 \ {22, 23} /\ j \in 16..25 \ {22, 23}
    BY <1>3, TemplateVariables
<1> QED  BY <1>1, <1>2, <1>3, RouteCount

\* The first route that fits is the one without variables.
THEOREM RoutesAreSpecific == PipelineSpec => []RouteIsSpecific
<1>1. PipelineInv => RouteIsSpecific
    <2> SUFFICES ASSUME PipelineInv, at = "access",
                        NEW i \in Candidates, NEW j \in Candidates, Routes[i].op = op
                 PROVE  Variables(Routes[i].template) \subseteq Variables(Routes[j].template)
        BY DEF RouteIsSpecific
    <2>1. op # "none"
        BY DEF PipelineInv, PipelineType, Inner
    <2>2. PICK k \in Candidates : Routes[k].op = op /\ \A n \in Candidates : k <= n
        BY <2>1 DEF PipelineInv, Routed
    <2>3. i \in DOMAIN Routes /\ j \in DOMAIN Routes /\ k \in DOMAIN Routes
        BY DEF Candidates, OnPath
    <2>4. i <= j
        BY <2>2, <2>3, OpsDistinct
    <2>5. DOMAIN Routes[i].template = DOMAIN Routes[j].template
        <3>1. Len(Routes[i].template) = Len(Routes[j].template)
            BY DEF Candidates, OnPath, Matches
        <3>2. \A n \in DOMAIN Routes : DOMAIN Routes[n].template = 1..Len(Routes[n].template)
            BY TemplateDomains, RouteCount
        <3> QED  BY <2>3, <3>1, <3>2
    <2> QED  BY <2>3, <2>4, <2>5, VariablesLast
<1> QED  BY <1>1, LayersCorrect, PTL

\* The paths of requests are sequences.
LEMMA PathsAreSequences ==
    ASSUME NEW p \in Paths
    PROVE  \E S : p \in Seq(S)
<1>1. CASE p = <<"api">> \/ p = <<"notes">>
    <2>1. <<"api">> \in Seq({"api"}) /\ <<"notes">> \in Seq({"notes"})
        OBVIOUS
    <2> QED  BY <1>1, <2>1
<1>2. CASE p = <<"swagger", "index.html">> \/ p = <<"api", "notes", "all", "uuid">>
    <2>1. /\ <<"swagger", "index.html">> \in Seq({"swagger", "index.html"})
          /\ <<"api", "notes", "all", "uuid">> \in Seq({"api", "notes", "all", "uuid"})
        OBVIOUS
    <2> QED  BY <1>2, <2>1
<1>3. CASE p \in {Filled(r.template, id) : r \in Range(Routes), id \in {"uuid", "all"}}
    <2>1. PICK i \in DOMAIN Routes, id \in {"uuid", "all"} : p = Filled(Routes[i].template, id)
        BY <1>3 DEF Range
    <2>2. \/ DOMAIN Routes[i].template = 1..2
          \/ DOMAIN Routes[i].template = 1..3
          \/ DOMAIN Routes[i].template = 1..4
        BY TemplateDomains, RouteCount
    <2>3. PICK n \in Nat : DOMAIN Routes[i].template = 1..n
        BY <2>2
    <2>4. p = [k \in 1..n |->
                   IF Routes[i].template[k] = "id" THEN id ELSE Routes[i].template[k]]
        BY <2>1, <2>3 DEF Filled
    <2>5. p \in Seq({p[k] : k \in 1..n})
        BY <2>4
    <2> QED  BY <2>5
<1> QED  BY <1>1, <1>2, <1>3 DEF Paths

\* A template without variables fits one path only.
LEMMA Fits3 ==
    ASSUME NEW S, NEW p \in Seq(S), NEW a, NEW b, NEW c,
           Matches(<<a, b, c>>, p), "id" \notin {a, b, c}
    PROVE  p = <<a, b, c>>
<1>1. Len(p) = 3 /\ p[1] = a /\ p[2] = b /\ p[3] = c
    BY DEF Matches
<1>2. p = <<p[1], p[2], p[3]>>
    BY <1>1
<1> QED  BY <1>1, <1>2

LEMMA Fits4 ==
    ASSUME NEW S, NEW p \in Seq(S), NEW a, NEW b, NEW c, NEW d,
           Matches(<<a, b, c, d>>, p), "id" \notin {a, b, c, d}
    PROVE  p = <<a, b, c, d>>
<1>1. Len(p) = 4 /\ p[1] = a /\ p[2] = b /\ p[3] = c /\ p[4] = d
    BY DEF Matches
<1>2. p = <<p[1], p[2], p[3], p[4]>>
    BY <1>1
<1> QED  BY <1>1, <1>2

\* The public paths.
LEMMA PublicTable ==
    PublicPaths = {<<"api", "auth", "signup">>, <<"api", "auth", "signin">>,
                   <<"api", "auth", "refresh">>, <<"api", "auth", "logout">>,
                   <<"api", "auth", "2fa", "verify">>, <<"api", "auth", "github", "login">>,
                   <<"api", "auth", "github", "callback">>}
<1>1. \A a : <<"api", "auth">> \o <<a>> = <<"api", "auth", a>>
    BY TwoPrefixed1
<1>2. \A a, b : <<"api", "auth">> \o <<a, b>> = <<"api", "auth", a, b>>
    BY TwoPrefixed2
<1>3. PublicPaths = {<<"api", "auth">> \o <<"signup">>, <<"api", "auth">> \o <<"signin">>,
                     <<"api", "auth">> \o <<"refresh">>, <<"api", "auth">> \o <<"logout">>,
                     <<"api", "auth">> \o <<"2fa", "verify">>,
                     <<"api", "auth">> \o <<"github", "login">>,
                     <<"api", "auth">> \o <<"github", "callback">>}
    BY Zenon DEF PublicPaths
<1> QED  BY <1>1, <1>2, <1>3

\* The routes of the operations that are open to everyone are public paths,
LEMMA OpenRoutes ==
    ASSUME request \in Request, NEW i \in OnPath, Routes[i].op \notin Secured
    PROVE  request.path = Routes[i].template /\ request.path \in PublicPaths
<1>1. i \in {1, 2, 3, 4, 11, 12, 13}
    BY RouteOps, RouteCount DEF Secured, OnPath
<1>2. PICK S : request.path \in Seq(S)
    BY PathsAreSequences DEF Request
<1>3. Matches(Routes[i].template, request.path)
    BY DEF OnPath
<1>4. CASE i = 1
    <2>1. Routes[1].template = <<"api", "auth", "signup">>
        BY RouteTable
    <2>2. request.path = <<"api", "auth", "signup">>
        BY <1>2, <1>3, <1>4, <2>1, Fits3
    <2> QED  BY <1>4, <2>1, <2>2, PublicTable
<1>5. CASE i = 2
    <2>1. Routes[2].template = <<"api", "auth", "signin">>
        BY RouteTable
    <2>2. request.path = <<"api", "auth", "signin">>
        BY <1>2, <1>3, <1>5, <2>1, Fits3
    <2> QED  BY <1>5, <2>1, <2>2, PublicTable
<1>6. CASE i = 3
    <2>1. Routes[3].template = <<"api", "auth", "refresh">>
        BY RouteTable
    <2>2. request.path = <<"api", "auth", "refresh">>
        BY <1>2, <1>3, <1>6, <2>1, Fits3
    <2> QED  BY <1>6, <2>1, <2>2, PublicTable
<1>7. CASE i = 4
    <2>1. Routes[4].template = <<"api", "auth", "logout">>
        BY RouteTable
    <2>2. request.path = <<"api", "auth", "logout">>
        BY <1>2, <1>3, <1>7, <2>1, Fits3
    <2> QED  BY <1>7, <2>1, <2>2, PublicTable
<1>8. CASE i = 11
    <2>1. Routes[11].template = <<"api", "auth", "2fa", "verify">>
        BY RouteTable
    <2>2. request.path = <<"api", "auth", "2fa", "verify">>
        BY <1>2, <1>3, <1>8, <2>1, Fits4
    <2> QED  BY <1>8, <2>1, <2>2, PublicTable
<1>9. CASE i = 12
    <2>1. Routes[12].template = <<"api", "auth", "github", "login">>
        BY RouteTable
    <2>2. request.path = <<"api", "auth", "github", "login">>
        BY <1>2, <1>3, <1>9, <2>1, Fits4
    <2> QED  BY <1>9, <2>1, <2>2, PublicTable
<1>10. CASE i = 13
    <2>1. Routes[13].template = <<"api", "auth", "github", "callback">>
        BY RouteTable
    <2>2. request.path = <<"api", "auth", "github", "callback">>
        BY <1>2, <1>3, <1>10, <2>1, Fits4
    <2> QED  BY <1>10, <2>1, <2>2, PublicTable
<1> QED  BY <1>1, <1>4, <1>5, <1>6, <1>7, <1>8, <1>9, <1>10

\* and no public path fits a route of the others.
LEMMA SecuredRoutes ==
    ASSUME NEW i \in DOMAIN Routes, Routes[i].op \in Secured, NEW p \in PublicPaths
    PROVE  ~Matches(Routes[i].template, p)
<1>1. i \in (5..10) \cup (14..25)
    BY RouteOps, RouteCount DEF Secured
<1>2. CASE i \in 14..25
    <2>1. Routes[i].template[2] \in {"notes", "blocks", "attachments", "tags"}
        BY <1>2, RouteTable
    <2>2. 2 \in DOMAIN Routes[i].template
        BY <1>2, TemplateDomains
    <2>3. p[2] = "auth"
        BY PublicTable
    <2> QED  BY <2>1, <2>2, <2>3 DEF Matches
<1>3. CASE i \in 5..10
    <2>1. \/ /\ Len(Routes[i].template) = 3
             /\ Routes[i].template[3] \in {"me", "password", "avatar"}
          \/ /\ Len(Routes[i].template) = 4 /\ Routes[i].template[3] = "2fa"
             /\ Routes[i].template[4] \in {"generate", "enable", "disable"}
        <3>1. /\ Len(Routes[5].template) = 3 /\ Routes[5].template[3] = "me"
              /\ Len(Routes[6].template) = 3 /\ Routes[6].template[3] = "password"
              /\ Len(Routes[7].template) = 3 /\ Routes[7].template[3] = "avatar"
            BY RouteTable
        <3>2. /\ Len(Routes[8].template) = 4 /\ Routes[8].template[3] = "2fa"
              /\ Routes[8].template[4] = "generate"
              /\ Len(Routes[9].template) = 4 /\ Routes[9].template[3] = "2fa"
              /\ Routes[9].template[4] = "enable"
              /\ Len(Routes[10].template) = 4 /\ Routes[10].template[3] = "2fa"
              /\ Routes[10].template[4] = "disable"
            BY RouteTable
        <3> QED  BY <1>3, <3>1, <3>2
    <2>2. \/ Len(p) = 3 /\ p[3] \in {"signup", "signin", "refresh", "logout"}
          \/ Len(p) = 4 /\ p[3] = "2fa" /\ p[4] = "verify"
          \/ Len(p) = 4 /\ p[3] = "github"
        BY PublicTable
    <2>3. DOMAIN Routes[i].template = 1..Len(Routes[i].template)
        BY <1>3, TemplateDomains
    <2> QED  BY <2>1, <2>2, <2>3 DEF Matches
<1> QED  BY <1>1, <1>2, <1>3

\* Public paths are those of the operations that need no sign-in, and no others.
THEOREM AccessIsAsDeclared == PipelineSpec => []AccessAsDeclared
<1>1. PipelineInv => AccessAsDeclared
    <2> SUFFICES ASSUME PipelineInv, op # "none"
                 PROVE  /\ at = "usecase" /\ op \in Secured => request.access = "good"
                        /\ outcome = "denied" => op \in Secured
        BY DEF AccessAsDeclared, Secured, PipelineInv, Admitted
    <2>1. PICK i \in Candidates : Routes[i].op = op
        BY DEF PipelineInv, Routed
    <2>2. i \in DOMAIN Routes /\ i \in OnPath /\ Matches(Routes[i].template, request.path)
        BY DEF Candidates, OnPath
    <2>3. ASSUME at = "usecase", op \in Secured PROVE request.access = "good"
        <3>1. Allowed
            BY <2>3 DEF PipelineInv, Admitted, Inner
        <3> QED  BY <2>1, <2>2, <2>3, <3>1, SecuredRoutes DEF Allowed
    <2>4. ASSUME outcome = "denied", op \notin Secured PROVE FALSE
        <3>1. request.path \notin PublicPaths
            BY <2>4 DEF PipelineInv, Admitted, Allowed
        <3> QED  BY <2>1, <2>2, <2>4, <3>1, OpenRoutes DEF PipelineInv, PipelineType
    <2> QED  BY <2>3, <2>4
<1> QED  BY <1>1, LayersCorrect, PTL

\* The path of a cookie is above that of the handler that reads it.
LEMMA CookiePathAbove ==
    ASSUME NEW i \in DOMAIN Routes, CookieOf(Routes[i].op) # "none"
    PROVE  /\ IsPrefix(CookiePath(CookieOf(Routes[i].op)), Routes[i].template)
           /\ Routes[i].op \notin Secured
<1>1. i \in {3, 4, 11, 13} /\ Routes[i].op \notin Secured
    BY RouteOps, RouteCount DEF CookieOf, Secured
<1>2. \A c : IsPrefix(<<"api", "auth">>, <<"api", "auth", c>>)
    BY DEF IsPrefix
<1>3. \A c, d : IsPrefix(<<"api", "auth", c>>, <<"api", "auth", c, d>>)
    BY DEF IsPrefix
<1>4. /\ IsPrefix(<<"api", "auth">>, Routes[3].template)
      /\ IsPrefix(<<"api", "auth">>, Routes[4].template)
      /\ IsPrefix(<<"api", "auth", "2fa">>, Routes[11].template)
      /\ IsPrefix(<<"api", "auth", "github">>, Routes[13].template)
    BY <1>2, <1>3, RouteTable
<1>5. /\ CookiePath(CookieOf(Routes[3].op)) = <<"api", "auth">>
      /\ CookiePath(CookieOf(Routes[4].op)) = <<"api", "auth">>
      /\ CookiePath(CookieOf(Routes[11].op)) = <<"api", "auth", "2fa">>
      /\ CookiePath(CookieOf(Routes[13].op)) = <<"api", "auth", "github">>
    BY RouteOps DEF CookieOf, CookiePath
<1> QED  BY <1>1, <1>4, <1>5

\* A cookie the browser has reaches the handler that reads it.
THEOREM CookiesReach == PipelineSpec => []CookieReaches
<1>1. PipelineInv => CookieReaches
    <2> SUFFICES ASSUME PipelineInv, outcome = "noCookie" PROVE CookieOf(op) \notin request.jar
        BY DEF CookieReaches
    <2>1. Handled
        BY DEF PipelineInv, PipelineType, Handled, Refusals, Inner
    <2>2. op # "none" /\ outcome \in Outcomes
        BY <2>1 DEF PipelineInv, HandledWell
    <2>3. PICK i \in Candidates : Routes[i].op = op
        BY <2>2 DEF PipelineInv, Routed
    <2>4. i \in DOMAIN Routes /\ i \in OnPath
        BY DEF Candidates, OnPath
    <2>5. outcome \notin Unrefused \cup Reasons[op] \cup Faults
        BY <2>3, <2>4, OperationNames, ReasonTable DEF Unrefused, Faults
    <2>6. CookieOf(op) # "none" /\ ~Sent(CookieOf(op))
        BY <2>2, <2>5 DEF Outcomes, HandlerRefusal, ReadFile
    <2>7. request.path = Routes[i].template
        BY <2>3, <2>4, <2>6, CookiePathAbove, OpenRoutes DEF PipelineInv, PipelineType
    <2>8. IsPrefix(CookiePath(CookieOf(op)), request.path)
        BY <2>3, <2>4, <2>6, <2>7, CookiePathAbove
    <2> QED  BY <2>6, <2>8 DEF Sent
<1> QED  BY <1>1, LayersCorrect, PTL
=============================================================================
