------------------------- MODULE PipelineInduction -------------------------
(***************************************************************************)
(* What is true of a request in every layer, besides what Pipeline states  *)
(* of it: each part says what the layers it has passed have made certain.  *)
(***************************************************************************)
EXTENDS Pipeline

Inner == {"access", "bind", "decode", "handler", "usecase", "respond"}

\* What a layer before the handler answers with, or a middleware.
Refusals ==
    {"preflight", "noRoute", "wrongMethod", "swagger", "denied", "malformed", "bodyTooLarge"}

PipelineType ==
    /\ request \in Request
    /\ at \in {"cors", "route", "answered"} \cup Inner
    /\ at # "answered" => answer.status = 0
    /\ at \in {"cors", "route"} => op = "none"
    /\ at \in Inner => op # "none"
    /\ at \notin {"respond", "answered"} => outcome = "none"

\* Past CORS the answer names the origin, and a preflight never gets that far.
OriginNamed ==
    /\ at # "cors" => answer.allowOrigin = (request.origin = "allowed")
    /\ request.preflight =>
          at = "cors" \/ (at = "answered" /\ answer.allowMethods = CorsAllowMethods)

\* The route is the first that fits.
Routed ==
    op # "none" =>
        \E i \in Candidates : Routes[i].op = op /\ \A j \in Candidates : i <= j

\* Behind the middleware of access are the requests it lets through, and it
\* refuses the others only.
Admitted ==
    /\ at \in Inner \ {"access"} => Allowed
    /\ outcome = "denied" => op # "none" /\ ~Allowed

\* What a request that has reached its handler can come to.
Outcomes ==
    {HandlerRefusal} \cup (IF HandlerRefusal = "none" THEN Unrefused \cup Reasons[op] \cup Faults
                           ELSE {})

Handled == at = "respond" \/ (at = "answered" /\ outcome \notin Refusals)

HandledWell ==
    /\ at \in {"handler", "usecase"} \/ Handled => Decoded
    /\ at = "usecase" => HandlerRefusal = "none"
    /\ Handled => op # "none" /\ outcome \in Outcomes \ {"none"}

\* The usecase is given what the handler has read.
FileRead ==
    data # 0 =>
        /\ op \in Uploads
        /\ request.body.kind = "multipart"
        /\ data = ReadFile(request.body, FileLimit).size

\* A refusal sets no cookies, and a handler answers with those of its outcome.
AnswerKept ==
    at = "answered" =>
        /\ outcome \in Refusals => answer.cookies = {} /\ answer.status # 500
        /\ outcome \notin Refusals =>
              /\ answer.cookies = CookiesSet(op, outcome)
              /\ \/ answer.status = ResponseStatus
                 \/ op = "GitHubCallback" /\ outcome \in {"ok", "challenge"}

PipelineInv ==
    PipelineType /\ OriginNamed /\ Routed /\ Admitted /\ HandledWell /\ FileRead /\ AnswerKept
=============================================================================
