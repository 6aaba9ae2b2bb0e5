------------------------------- MODULE Server -------------------------------
(***************************************************************************)
(* The life of the process: main connects to the database and to the file  *)
(* storage, prepares the buckets, serves until a signal comes, drains the  *)
(* requests for a limited time and closes the pool under what is left.     *)
(* Docker starts the process again whenever it is gone                     *)
(* (restart: unless-stopped, docker-compose.yml); the buckets stay.        *)
(*                                                                         *)
(* Of a request this module knows only its database calls, each of which   *)
(* takes a connection of the pool and gives it back.                       *)
(***************************************************************************)
EXTENDS Naturals, FiniteSets

CONSTANTS
    Requests,       \* requests that clients may send, in the lives of the process
    PoolSize,       \* connections of the pool
    MaxCalls,       \* bound on the database calls of a request
    MaxMishaps      \* bound on failures, kills and signals

ASSUME ServerAssumption ==
    /\ IsFiniteSet(Requests)
    /\ PoolSize \in Nat \ {0}
    /\ MaxCalls \in Nat
    /\ MaxMishaps \in Nat

VARIABLES
    main,           \* what main does next
    listener,       \* the goroutine of ListenAndServe
    pool,           \* pgxpool.Pool
    held,           \* requests that have a connection
    pc,             \* where each request is
    calls,          \* the database calls each request has made
    buckets,        \* the buckets of the storage
    public,         \* may everybody read the avatars?
    expired,        \* the shutdown timeout has run out
    mishaps         \* how much has happened from outside

storage == <<buckets, public>>

requests == <<held, pc, calls>>

serverVars == <<main, listener, pool, requests, storage, expired, mishaps>>

Starting == {"ping", "avatarsBucket", "avatarsPolicy", "attachmentsBucket", "listen"}

Label == {"idle", "running", "waiting", "query", "answered", "failed", "cut"}

InHand == {r \in Requests : pc[r] \in {"running", "waiting", "query"}}

\* A connection is held by those whose call is in the database, and by no more
\* of them than there are connections.
ServerTypeOK ==
    /\ main \in Starting \cup {"down", "notify", "wait", "shutdown", "close"}
    /\ listener \in {"none", "starting", "accepting", "closed"}
    /\ pool \in {"none", "open", "closed"}
    /\ held = {r \in Requests : pc[r] = "query"}
    /\ Cardinality(held) <= PoolSize
    /\ pc \in [Requests -> Label]
    /\ calls \in [Requests -> 0..MaxCalls]
    /\ buckets \subseteq {"avatars", "attachments"}
    /\ public \in BOOLEAN
    /\ expired \in BOOLEAN
    /\ mishaps \in 0..MaxMishaps

\* A fresh volume: no bucket yet.
ServerInit ==
    /\ main = "down"
    /\ listener = "none"
    /\ pool = "none"
    /\ held = {}
    /\ pc = [r \in Requests |-> "idle"]
    /\ calls = [r \in Requests |-> 0]
    /\ buckets = {}
    /\ public = FALSE
    /\ expired = FALSE
    /\ mishaps = 0

----------------------------------------------------------------------------
(***************************************************************************)
(* The end of the process                                                  *)
(***************************************************************************)

\* Whatever the process held is gone, and the handlers with it.
Gone ==
    /\ main' = "down"
    /\ listener' = "none"
    /\ pool' = "none"
    /\ held' = {}
    /\ pc' = [r \in Requests |-> IF r \in InHand THEN "cut" ELSE pc[r]]
    /\ expired' = FALSE
    /\ UNCHANGED calls

Mishap == mishaps < MaxMishaps /\ mishaps' = mishaps + 1

\* os.Exit(1): a call of the start fails; a call of the storage may have taken
\* effect all the same.
StartFails ==
    /\ main \in Starting
    /\ Mishap
    /\ buckets' \in {buckets, buckets \cup
                        CASE main = "avatarsBucket" -> {"avatars"}
                          [] main = "attachmentsBucket" -> {"attachments"}
                          [] OTHER -> {}}
    /\ public' \in {public, public \/ main = "avatarsPolicy"}
    /\ Gone

\* os.Exit(1): the address is taken.
BindFails ==
    /\ listener = "starting"
    /\ Mishap
    /\ Gone
    /\ UNCHANGED storage

\* The process is killed, from outside or by a signal that comes before
\* signal.Notify.
Kill ==
    /\ main # "down"
    /\ Mishap
    /\ Gone
    /\ UNCHANGED storage

----------------------------------------------------------------------------
(***************************************************************************)
(* main                                                                    *)
(***************************************************************************)

Continue(next) ==
    /\ main' = next
    /\ UNCHANGED <<listener, pool, requests, expired, mishaps>>

\* pgxpool.New connects to nothing yet.
Boot ==
    /\ main = "down"
    /\ main' = "ping"
    /\ pool' = "open"
    /\ UNCHANGED <<listener, requests, storage, expired, mishaps>>

Ping == main = "ping" /\ Continue("avatarsBucket") /\ UNCHANGED storage

\* EnsureBucket: create it unless it exists.
EnsureBucket(bucket) == buckets' = buckets \cup {bucket}

\* Variant: the bucket is created without a look whether it is there, and the
\* storage refuses one that is.
EnsureAvatarsAlways ==
    /\ main = "avatarsBucket"
    /\ \/ /\ "avatars" \notin buckets
          /\ EnsureBucket("avatars")
          /\ Continue("avatarsPolicy")
       \/ /\ "avatars" \in buckets
          /\ Gone
          /\ UNCHANGED <<buckets, mishaps>>
    /\ UNCHANGED public

\* Variant: a bucket that was there is taken for one that was set up.
EnsureAvatarsThenSkip ==
    /\ main = "avatarsBucket"
    /\ EnsureBucket("avatars")
    /\ Continue(IF "avatars" \in buckets THEN "attachmentsBucket" ELSE "avatarsPolicy")
    /\ UNCHANGED public

EnsureAvatars ==
    /\ main = "avatarsBucket"
    /\ EnsureBucket("avatars")
    /\ Continue("avatarsPolicy")
    /\ UNCHANGED public

AllowPublicRead ==
    /\ main = "avatarsPolicy"
    /\ public' = TRUE
    /\ Continue("attachmentsBucket")
    /\ UNCHANGED buckets

EnsureAttachments ==
    /\ main = "attachmentsBucket"
    /\ EnsureBucket("attachments")
    /\ Continue("listen")
    /\ UNCHANGED public

\* go server.ListenAndServe()
Listen ==
    /\ main = "listen"
    /\ main' = "notify"
    /\ listener' = "starting"
    /\ UNCHANGED <<pool, requests, storage, expired, mishaps>>

Bind ==
    /\ listener = "starting"
    /\ listener' = "accepting"
    /\ UNCHANGED <<main, pool, requests, storage, expired, mishaps>>

Notify == main = "notify" /\ Continue("wait") /\ UNCHANGED storage

\* The signal arrives; Shutdown closes the listener first.  One that comes to
\* listen later is told that the server is closed.
Signal ==
    /\ main = "wait"
    /\ Mishap
    /\ main' = "shutdown"
    /\ listener' = "closed"
    /\ UNCHANGED <<pool, requests, storage, expired>>

\* Variant: the requests in hand are not waited for.
DrainedAtOnce ==
    /\ main = "shutdown"
    /\ main' = "close"
    /\ pool' = "closed"
    /\ UNCHANGED <<listener, requests, storage, expired, mishaps>>

\* Shutdown returns once no request is in hand; the deferred Close starts.
Drained ==
    /\ main = "shutdown"
    /\ InHand = {}
    /\ main' = "close"
    /\ pool' = "closed"
    /\ UNCHANGED <<listener, requests, storage, expired, mishaps>>

\* Variant: os.Exit(1), which runs no deferred call.
TimedOutExits ==
    /\ main = "shutdown"
    /\ InHand # {}
    /\ Gone
    /\ UNCHANGED <<storage, mishaps>>

\* shutdownTimeout: Shutdown gives up, and main returns just the same.
TimedOut ==
    /\ main = "shutdown"
    /\ InHand # {}
    /\ expired' = TRUE
    /\ main' = "close"
    /\ pool' = "closed"
    /\ UNCHANGED <<listener, requests, storage, mishaps>>

\* Close returns when every connection has been given back, and main with it.
Exit ==
    /\ main = "close"
    /\ held = {}
    /\ Gone
    /\ UNCHANGED <<storage, mishaps>>

----------------------------------------------------------------------------
(***************************************************************************)
(* Requests                                                                *)
(***************************************************************************)

Handler(r, from, to) ==
    /\ pc[r] = from
    /\ pc' = [pc EXCEPT ![r] = to]
    /\ UNCHANGED <<main, listener, pool, storage, expired, mishaps>>

Accept(r) ==
    /\ listener = "accepting"
    /\ Handler(r, "idle", "running")
    /\ UNCHANGED <<held, calls>>

\* The handler calls the database: it waits for a connection.
Call(r) ==
    /\ calls[r] < MaxCalls
    /\ calls' = [calls EXCEPT ![r] = @ + 1]
    /\ Handler(r, "running", "waiting")
    /\ UNCHANGED held

Acquire(r) ==
    /\ pool = "open"
    /\ Cardinality(held) < PoolSize
    /\ held' = held \cup {r}
    /\ Handler(r, "waiting", "query")
    /\ UNCHANGED calls

\* A closed pool gives no connection; the handler answers 500.
Refuse(r) ==
    /\ pool = "closed"
    /\ Handler(r, "waiting", "failed")
    /\ UNCHANGED <<held, calls>>

\* Variant: nobody closes the rows, or rolls the transaction back.
ReleaseNever(r) ==
    /\ Handler(r, "query", "running")
    /\ UNCHANGED <<held, calls>>

\* The call is over, as a whole transaction when there is one.
Release(r) ==
    /\ held' = held \ {r}
    /\ Handler(r, "query", "running")
    /\ UNCHANGED calls

Answer(r) ==
    /\ Handler(r, "running", "answered")
    /\ UNCHANGED <<held, calls>>

Work(r) == Call(r) \/ Acquire(r) \/ Refuse(r) \/ Release(r) \/ Answer(r)

----------------------------------------------------------------------------

Main ==
    \/ Boot \/ Ping \/ EnsureAvatars \/ AllowPublicRead \/ EnsureAttachments
    \/ Listen \/ Notify \/ Drained \/ TimedOut \/ Exit

ServerNext ==
    \/ Main
    \/ Bind
    \/ Signal
    \/ StartFails \/ BindFails \/ Kill
    \/ \E r \in Requests : Accept(r) \/ Work(r)

ServerSpec == ServerInit /\ [][ServerNext]_serverVars

\* Goroutines are scheduled, the database and the storage answer, and Docker
\* restarts what has stopped.
FairServerSpec ==
    /\ ServerSpec
    /\ WF_serverVars(Main)
    /\ WF_serverVars(Bind)
    /\ \A r \in Requests : WF_serverVars(Work(r))

----------------------------------------------------------------------------

\* Requests are let in only when both buckets are there and the avatars can be
\* read by everybody, also after starts that failed or were killed halfway
\* (main, EnsureBucket, AllowPublicRead).
ServingIsReady ==
    listener = "accepting" => public /\ buckets = {"avatars", "attachments"}

\* An exit that nobody forced cuts no transaction, and it cuts a request at all
\* only when the shutdown timeout ran out (Shutdown, the deferred Close).
OrderlyExit ==
    [][(main # "down" /\ main' = "down" /\ mishaps' = mishaps) =>
          /\ held = {}
          /\ InHand # {} => expired]_serverVars

\* A handler finds the pool closed only after the shutdown timeout.
RefusedOnlyLate ==
    [][\A r \in Requests : pc[r] # "failed" /\ pc'[r] = "failed" => expired]_serverVars

\* Every request in hand ends, although there are fewer connections than
\* handlers: none waits for a connection while it keeps one.
RequestsEnd == \A r \in Requests : r \in InHand ~> r \notin InHand

\* A process that was told to stop stops.
StopsOnSignal == main = "shutdown" ~> main = "down"

\* However many starts fail or are killed halfway, one comes through in the end
\* and serves.
Recovers == <>[](listener = "accepting")
=============================================================================
