---------------------------- MODULE ServerProofs ----------------------------
(***************************************************************************)
(* Theorems about Server, for any number of requests, connections and      *)
(* mishaps: what a server that serves has prepared, and what its end may   *)
(* cut off.                                                                *)
(***************************************************************************)
EXTENDS Server, FiniteSetTheorems, TLAPS

Serving == {"listen", "notify", "wait", "shutdown", "close"}

\* How far the start has come tells what is in the storage.
PreparedInv ==
    /\ main \in {"avatarsPolicy", "attachmentsBucket"} => "avatars" \in buckets
    /\ main = "attachmentsBucket" => public
    /\ main \in Serving => public /\ buckets = {"avatars", "attachments"}
    /\ listener # "none" => main \in Serving

\* The pool is closed, and the timeout over, only at the end of main; by then
\* nothing is accepted any more, and what is in hand is late.
DrainInv ==
    /\ pool = "closed" => main = "close"
    /\ main \in {"shutdown", "close"} => listener = "closed"
    /\ (main = "close" /\ InHand # {}) => expired

ServerInv == ServerTypeOK /\ PreparedInv /\ DrainInv

----------------------------------------------------------------------------

\* A set of requests in the database has a size, one more request makes it one
\* larger, and one less no larger.
LEMMA HeldSize ==
    ASSUME NEW S, S \subseteq Requests, NEW r \in Requests
    PROVE  /\ Cardinality(S) \in Nat
           /\ r \notin S => Cardinality(S \cup {r}) = Cardinality(S) + 1
           /\ Cardinality(S \ {r}) <= Cardinality(S)
  <1>1. IsFiniteSet(S)
    BY ServerAssumption, FS_Subset
  <1>2. Cardinality(S) \in Nat
    BY <1>1, FS_CardinalityType
  <1>3. r \notin S => Cardinality(S \cup {r}) = Cardinality(S) + 1
    BY <1>1, FS_AddElement
  <1>4. Cardinality(S \ {r}) <= Cardinality(S)
    BY <1>1, <1>2, FS_RemoveElement
  <1>5. QED
    BY <1>2, <1>3, <1>4

\* The process starts with nothing done.
LEMMA ServerInitInv == ServerInit => ServerInv
  <1> SUFFICES ASSUME ServerInit PROVE ServerInv
    OBVIOUS
  <1>1. Cardinality(held) = 0 /\ 0 <= PoolSize /\ 0 \in 0..MaxCalls /\ 0 \in 0..MaxMishaps
    BY FS_EmptySet, ServerAssumption DEF ServerInit
  <1>2. ServerTypeOK
    BY <1>1 DEF ServerInit, ServerTypeOK, Label
  <1>3. PreparedInv /\ DrainInv
    BY DEF ServerInit, PreparedInv, DrainInv, Serving
  <1>4. QED
    BY <1>2, <1>3 DEF ServerInv

----------------------------------------------------------------------------
(***************************************************************************)
(* Every step keeps the invariant                                          *)
(***************************************************************************)

\* The bounds are numbers.
LEMMA Bounds == PoolSize \in Nat \ {0} /\ MaxCalls \in Nat /\ MaxMishaps \in Nat
  BY ServerAssumption

\* Nothing is held by a process that is gone.
LEMMA GoneType ==
    ASSUME ServerTypeOK, Gone, mishaps' \in 0..MaxMishaps,
           buckets' \subseteq {"avatars", "attachments"}, public' \in BOOLEAN
    PROVE  ServerTypeOK'
  <1>1. Cardinality(held') = 0 /\ 0 <= PoolSize
    BY FS_EmptySet, Bounds DEF Gone
  <1>2. pc' \in [Requests -> Label] /\ \A r \in Requests : pc'[r] # "query"
    BY DEF Gone, ServerTypeOK, Label, InHand
  <1>3. QED
    BY <1>1, <1>2 DEF Gone, ServerTypeOK

\* The end of the process, however it comes, keeps the invariant.
LEMMA EndKeeps ==
    ASSUME ServerInv, StartFails \/ BindFails \/ Kill \/ Exit
    PROVE  ServerInv'
  <1>1. Gone
    BY DEF StartFails, BindFails, Kill, Exit
  <1>2. mishaps' \in 0..MaxMishaps
    BY Bounds DEF ServerInv, ServerTypeOK, StartFails, BindFails, Kill, Exit, Mishap
  <1>3. buckets' \subseteq {"avatars", "attachments"} /\ public' \in BOOLEAN
    <2>1. CASE StartFails
      BY <2>1 DEF ServerInv, ServerTypeOK, StartFails
    <2>2. CASE ~StartFails
      BY <2>2 DEF ServerInv, ServerTypeOK, BindFails, Kill, Exit, storage
    <2>3. QED
      BY <2>1, <2>2
  <1>4. ServerTypeOK'
    BY <1>1, <1>2, <1>3, GoneType DEF ServerInv
  <1>5. PreparedInv' /\ DrainInv'
    BY <1>1 DEF Gone, PreparedInv, DrainInv, Serving
  <1>6. QED
    BY <1>4, <1>5 DEF ServerInv

\* So does every step of main that goes on.
LEMMA MainKeeps ==
    ASSUME ServerInv, Main \/ Bind \/ Signal, ~Exit
    PROVE  ServerInv'
  <1> USE DEF ServerInv, ServerTypeOK, PreparedInv, DrainInv, Serving, Starting, Continue,
             EnsureBucket, requests, storage, InHand, Label
  <1>1. CASE Boot
    BY <1>1 DEF Boot
  <1>2. CASE Ping
    BY <1>2 DEF Ping
  <1>3. CASE EnsureAvatars
    BY <1>3 DEF EnsureAvatars
  <1>4. CASE AllowPublicRead
    BY <1>4 DEF AllowPublicRead
  <1>5. CASE EnsureAttachments
    BY <1>5 DEF EnsureAttachments
  <1>6. CASE Listen
    BY <1>6 DEF Listen
  <1>7. CASE Notify
    BY <1>7 DEF Notify
  <1>8. CASE Drained
    BY <1>8 DEF Drained
  <1>9. CASE TimedOut
    BY <1>9 DEF TimedOut
  <1>10. CASE Bind
    BY <1>10 DEF Bind
  <1>11. CASE Signal
    BY <1>11, Bounds DEF Signal, Mishap
  <1>12. QED
    BY <1>1, <1>2, <1>3, <1>4, <1>5, <1>6, <1>7, <1>8, <1>9, <1>10, <1>11 DEF Main

\* And every step of a request: a connection is taken only when one is free.
LEMMA RequestKeeps ==
    ASSUME ServerInv, NEW r \in Requests, Accept(r) \/ Work(r)
    PROVE  ServerInv'
  <1> USE DEF ServerInv, ServerTypeOK, Label, Handler, storage
  <1>1. ServerTypeOK'
    <2>1. CASE Accept(r) \/ Call(r) \/ Refuse(r) \/ Answer(r)
      <3>1. held' = held /\ pc' \in [Requests -> Label]
        BY <2>1 DEF Accept, Call, Refuse, Answer
      <3>2. \A q \in Requests : pc'[q] = "query" <=> pc[q] = "query"
        BY <2>1 DEF Accept, Call, Refuse, Answer
      <3>3. calls' \in [Requests -> 0..MaxCalls]
        BY <2>1, Bounds DEF Accept, Call, Refuse, Answer
      <3>4. QED
        BY <2>1, <3>1, <3>2, <3>3 DEF Accept, Call, Refuse, Answer
    <2>2. CASE Acquire(r)
      <3>1. Cardinality(held') <= PoolSize
        BY <2>2, HeldSize, Bounds DEF Acquire
      <3>2. QED
        BY <2>2, <3>1 DEF Acquire
    <2>3. CASE Release(r)
      <3>1. Cardinality(held') <= PoolSize
        BY <2>3, HeldSize, Bounds DEF Release
      <3>2. QED
        BY <2>3, <3>1 DEF Release
    <2>4. QED
      BY <2>1, <2>2, <2>3 DEF Work
  <1>2. PreparedInv'
    BY DEF PreparedInv, Accept, Work, Call, Acquire, Refuse, Release, Answer
  <1>3. DrainInv'
    <2>1. CASE Accept(r)
      BY <2>1 DEF DrainInv, Accept
    <2>2. CASE Work(r)
      <3>1. InHand' \subseteq InHand
        BY <2>2 DEF InHand, Work, Call, Acquire, Refuse, Release, Answer
      <3>2. QED
        BY <2>2, <3>1 DEF DrainInv, Work, Call, Acquire, Refuse, Release, Answer
    <2>3. QED
      BY <2>1, <2>2
  <1>4. QED
    BY <1>1, <1>2, <1>3

\* The invariant holds as long as the server lives, and in all its lives.
THEOREM ServerCorrect == ServerSpec => []ServerInv
  <1>1. ServerInv /\ [ServerNext]_serverVars => ServerInv'
    <2> SUFFICES ASSUME ServerInv, [ServerNext]_serverVars PROVE ServerInv'
      OBVIOUS
    <2>1. CASE StartFails \/ BindFails \/ Kill \/ Exit
      BY <2>1, EndKeeps
    <2>2. CASE (Main \/ Bind \/ Signal) /\ ~Exit
      BY <2>2, MainKeeps
    <2>3. CASE \E r \in Requests : Accept(r) \/ Work(r)
      BY <2>3, RequestKeeps
    <2>4. CASE UNCHANGED serverVars
      BY <2>4 DEF serverVars, requests, storage, ServerInv, ServerTypeOK, PreparedInv,
                  DrainInv, InHand
    <2>5. QED
      BY <2>1, <2>2, <2>3, <2>4 DEF ServerNext
  <1>2. QED
    BY <1>1, ServerInitInv, PTL DEF ServerSpec

----------------------------------------------------------------------------
(***************************************************************************)
(* What follows from it                                                    *)
(***************************************************************************)

\* The types are right, and no more connections are held than there are.
THEOREM ServerTypeCorrect == ServerSpec => []ServerTypeOK
  BY ServerCorrect, PTL DEF ServerInv

\* A server that lets requests in has prepared the storage, whatever happened
\* to it and to its earlier lives (main, EnsureBucket, AllowPublicRead).
THEOREM ReadyBeforeServing == ServerSpec => []ServingIsReady
  <1>1. ServerInv => ServingIsReady
    BY DEF ServerInv, PreparedInv, Serving, ServingIsReady
  <1>2. QED
    BY <1>1, ServerCorrect, PTL

\* An exit that nobody forced finds no connection held, and cuts off requests
\* only after the shutdown timeout (Shutdown, the deferred Close).
THEOREM ExitIsOrderly == ServerSpec => OrderlyExit
  <1>1. ServerInv /\ [ServerNext]_serverVars
          => [(main # "down" /\ main' = "down" /\ mishaps' = mishaps) =>
                 /\ held = {}
                 /\ InHand # {} => expired]_serverVars
    <2> SUFFICES ASSUME ServerInv, ServerNext,
                        main # "down", main' = "down", mishaps' = mishaps
                 PROVE  held = {} /\ (InHand # {} => expired)
      OBVIOUS
    <2>1. ~StartFails /\ ~BindFails /\ ~Kill /\ ~Signal
      BY Bounds DEF ServerInv, ServerTypeOK, StartFails, BindFails, Kill, Signal, Mishap
    <2>2. ~Bind /\ \A r \in Requests : ~Accept(r) /\ ~Work(r)
      BY DEF Bind, Accept, Work, Call, Acquire, Refuse, Release, Answer, Handler
    <2>3. Exit
      BY <2>1, <2>2 DEF ServerNext, Main, Boot, Ping, EnsureAvatars, AllowPublicRead,
                        EnsureAttachments, Listen, Notify, Drained, TimedOut, Continue
    <2>4. QED
      BY <2>3 DEF Exit, ServerInv, DrainInv
  <1>2. QED
    BY <1>1, ServerCorrect, PTL DEF ServerSpec, OrderlyExit

\* No handler finds the pool closed before the shutdown timeout (TimedOut).
THEOREM RefusalIsLate == ServerSpec => RefusedOnlyLate
  <1>1. ServerInv /\ [ServerNext]_serverVars
          => [\A r \in Requests : pc[r] # "failed" /\ pc'[r] = "failed" => expired]_serverVars
    <2> SUFFICES ASSUME ServerInv, ServerNext, NEW r \in Requests,
                        pc[r] # "failed", pc'[r] = "failed"
                 PROVE  expired
      OBVIOUS
    <2>1. pc' # pc
      OBVIOUS
    <2>2. ~Gone
      BY DEF Gone, ServerInv, ServerTypeOK
    <2>3. ~Main /\ ~Bind /\ ~Signal /\ ~StartFails /\ ~BindFails /\ ~Kill
      BY <2>1, <2>2 DEF Main, Boot, Ping, EnsureAvatars, AllowPublicRead, EnsureAttachments,
                        Listen, Notify, Drained, TimedOut, Exit, Continue, Bind, Signal,
                        StartFails, BindFails, Kill, requests
    <2>4. PICK q \in Requests : Accept(q) \/ Work(q)
      BY <2>3 DEF ServerNext
    <2>5. q = r /\ Refuse(r)
      BY <2>4 DEF Accept, Work, Call, Acquire, Refuse, Release, Answer, Handler,
                  ServerInv, ServerTypeOK
    <2>6. main = "close" /\ InHand # {}
      BY <2>5 DEF Refuse, Handler, InHand, ServerInv, DrainInv
    <2>7. QED
      BY <2>6 DEF ServerInv, DrainInv
  <1>2. QED
    BY <1>1, ServerCorrect, PTL DEF ServerSpec, RefusedOnlyLate
=============================================================================
