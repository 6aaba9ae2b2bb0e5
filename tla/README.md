# BNN Notes: a verification project

BNN Notes is the backend of a note-taking service: a Go HTTP server (`src/cmd/main/main.go`,
`src/internal/`) over one Postgres database (`src/migrations/`) and an S3 store. This directory
holds TLA+ modules that model the server, the browsers in front of it and what it needs of the
stores behind it, the TLC configurations that check them, and theorems proved with TLAPS for every
value of the constants.

- [1. The system](#1-the-system) — the inventory: parts, state, operations, what is hard
- [2. What is modelled](#2-what-is-modelled) — modules, and how they correspond to the code
- [3. What is checked](#3-what-is-checked) — runs, bounds, and what they show
- [4. What is proved](#4-what-is-proved)
- [5. What disagrees with the documentation](#5-what-disagrees-with-the-documentation)
- [6. What is not modelled, and the plan](#6-what-is-not-modelled-and-the-plan)

Run `tlc -config MCWorkspaceAll.cfg MCWorkspace.tla` (or any other `.cfg`, with the module it is
named after) for a model-checking run, `tlapm NotesProofs.tla` (or another `...Proofs` module) for
proofs.

## 1. The system

Every component has the same three layers: a handler (`delivery/http`) that decodes a request and
encodes an answer, a usecase that decides, and repositories that make one SQL statement or one S3
call each. The server keeps no state between requests; what two requests share is in Postgres, in
S3 and in the cookies of the browser. `net/http` handles every request in a goroutine of its own,
so two requests interleave at every repository call. Only one operation, `UpdateNote`, uses a
transaction. A client that hangs up cancels the context, and every later call of its request fails.

| component | state | operations | interacts with |
|---|---|---|---|
| **Sessions** (`auth/usecase`, `auth/repo/postgres`) | `users`, `refresh_tokens`; JWTs, not stored | SignUp, SignIn, Refresh, Logout, ChangePassword, Authenticate (middleware of every `/api` path) | cookies; every other component trusts the user id that Authenticate puts in the context |
| **Two-factor sign-in** (`auth/usecase`) | `users.totp_secret`, `users.is_2fa_enabled`; 2FA JWT | Generate2FA, Enable2FA, Disable2FA, VerifyTwoFactor | SignIn and the GitHub callback stop halfway when it is on |
| **GitHub sign-in** (`auth/usecase`, `auth/repo/github`) | `users.email`, `users.is_external`; state cookie | GitHubLogin, GitHubCallback | GitHub's API; accounts share the column `login` with password accounts |
| **Avatars** (`auth/usecase`, `auth/repo/s3`) | `users.avatar`; avatars bucket | UpdateAvatar | S3 |
| **Notes and blocks** (`notes`) | `notes` (a tree, `block_ids`), `blocks`, `note_tags` | list, get, create, update, delete | tags by id; attachments hang off blocks |
| **Tags** (`tags`) | `tags` | list, create, update, delete | deletes cascade to `note_tags` |
| **Attachments** (`attachments`) | `attachments`; attachments bucket | upload, get, delete | S3; rows cascade from blocks and notes, files do not |
| **Cookies** (`cookies`, `auth/delivery/http/cookies.go`) | the cookies a handler has set, written with the header; the jar of the browser | Set, Get | the browser, whose tabs share one jar |
| **Guards** (`middleware`, `upload`) | none | CORS, access, body limit, file size | each decides what the next layer sees |
| **Generated API** (`delivery/http/api/api.gen.go`, four of them) | none | routes, binding of parameters, decoding, the two error handlers | the handlers, the middlewares |
| **Server** (`cmd/main`) | requests in hand, the pool, the listener; the buckets in S3 | start, shutdown | everything; Docker starts it again |

What is hard, and what makes each part correct (`PROJECT.json` lists every hazard at its line):

- *Sessions.* A session is a chain of refresh tokens; at most one of them is good at a time, also
  when two tabs refresh at once or an answer is lost. `Refresh` deletes the old row and inserts the
  next one in two statements, with a moment in which the session has no row at all: a logout or a
  password change in that moment does not see it. `ChangePassword` is three statements without a
  transaction. Access tokens cannot be revoked. *Correct when* a session never forks, a token is
  spent once, a revoked session never comes back, and an access token outlives the revocation by a
  bounded time.
- *Two-factor sign-in.* Secret and switch are two columns written by separate statements after a
  check made on an earlier read; any of them may be the last one that happens. The 2FA token is a
  JWT signed like the access token. *Correct when* nobody gets into an account without a code and
  no user is locked out by a secret he never confirmed.
- *GitHub.* Look-up by email, insert with the email as login: check and act are two statements, and
  the login may belong to a password account. *Correct when* the two kinds of accounts stay apart.
- *Notes.* `UpdateNote` reads the note, its blocks and its tags before its transaction opens, and
  writes back what it read. *Correct when* what an update did not mention stays, `block_ids` names
  exactly the blocks of the note, and concurrent updates leave one of their results.
- *Attachments, avatars.* Two stores, no transaction over both: row and file part ways on failures
  and on cascades. *Correct when* every row has its file, and nobody's requests take away the files
  of another.
- *Browser.* Cookies are read when a request is sent and written when its answer arrives, and
  answers overtake each other. *Correct when* a browser at rest has a token that is still good, a
  logout is not undone by a late answer, and a GitHub sign-in ends in the browser that began it.
- *Guards and generated API.* Which operation runs, and for whom, is spread over a list of public
  paths, an order of registration and cookie paths that nothing compares with each other.
- *Server.* A start has four steps that may each fail halfway and are repeated by the next start.
  Shutdown gives requests a limited time and then closes the pool under them. *Correct when* a
  server that serves is ready, an orderly stop cuts nothing short, and it does stop, and comes back.

## 2. What is modelled

Five compositions. `Auth` has sessions, two-factor sign-in and GitHub over the tables `users` and
`refresh_tokens`, and `Browser` puts the cookie jars of several browsers in front of it.
`Workspace` has notes, tags, attachments and avatars over the other tables, `users.avatar` and the
two buckets; `NoteBook` is the part of it without files. `Pipeline` walks one request through the
layers of the server. `Server` is the life of the process. What they have in common is thin: `Auth`
and `Workspace` share the user id that `Authenticate` takes out of an access token, and no table but
two columns of `users` that no statement writes together; a handler of either is the outcome of a
usecase in `Pipeline`, and a few database calls in `Server`.

| module | what it is | what it stands for |
|---|---|---|
| `AuthStore` | the tables, the tokens, the requests in hand; one operator per repository call; the token helpers | `auth/repo/postgres/repo.go`, `auth/usecase/token.go`, `createTokens`, `startSession`, `checkCode` |
| `Sessions` | SignUp, SignIn, Refresh, Logout, ChangePassword, one action per repository call | `auth/usecase/usecase.go:55-182` |
| `TwoFactor` | Generate2FA, Enable2FA, Disable2FA, VerifyTwoFactor; the middleware's check | `usecase.go:266-356`, `middleware.go` |
| `OAuth` | the GitHub callback: the trade of the code, the profile, the account | `usecase.go:358-428`, `auth/repo/github` |
| `Auth` | all of them together: `Next`, `Spec`, the properties, the refinement mapping | |
| `Enrolment` | `Auth` with a history of the accounts whose second factor was contested; the property of the confirmed secret and its inductive invariant | |
| `SessionLifecycle` | the abstract specification: what the component promises about sessions | |
| `AuthInduction` | the inductive invariants | |
| `Browser` | cookie jars, tabs, late answers, the state cookie of GitHub, over `Auth` | `auth/delivery/http/handlers.go`, `cookies.go` |
| `BrowserInduction` | the inductive invariant of the browsers: where a cookie came from and what has spent it | |
| `NoteStore` | the tables of notes and tags, the requests in hand, the row locks of Postgres | `notes/repo/postgres/repo.go`, the migrations 1 and 2 |
| `Notes` | CreateNote, UpdateNote, DeleteNote, one action per statement | `notes/usecase/usecase.go:47-185`, `notes/repo/postgres/repo.go:110-197` |
| `Tags` | CreateTag, UpdateTag, DeleteTag | `tags/usecase/usecase.go:36-100`, `tags/repo/postgres/repo.go:63-113` |
| `NoteBook` | notes and tags together: `Next`, `Spec`, `FairSpec`, properties, the refinement mapping | |
| `NoteDocuments` | the abstract specification: documents and labels that change in one step | |
| `FileStore` | rows that name files, the keys in the buckets | `attachments/repo`, `auth/repo/s3`, `pkg/s3` |
| `Attachments` | UploadAttachment, GetAttachment, DeleteAttachment | `attachments/usecase/usecase.go` |
| `Avatars` | UpdateAvatar | `auth/usecase/usecase.go:230-264` |
| `Workspace` | `NoteBook`, `Attachments` and `Avatars` over the same tables, with the cascades from blocks to attachments | |
| `NotesInduction` | the inductive invariant of notes and tags: what the locks protect | |
| `OwnersInduction` | the inductive invariants of ownership and of stray blocks | |
| `Api` | the routes in their order, what each operation decodes, its outcomes and their statuses | the four `api.gen.go`, the handlers, `models/errors.go` |
| `Pipeline` | CORS, routing, access, body limit, binding, decoding, handler, answer | `middleware`, `upload`, `cookies`, `api.gen.go` |
| `PipelineInduction` | the inductive invariant of a request: what the layers it has passed have made certain | |
| `Server` | start, buckets, listener, pool, requests in hand, signal, shutdown timeout, restart | `cmd/main/main.go`, `pkg/s3` |
| `MCAuth`, `MCEnrolment`, `MCNotes`, `MCWorkspace`, `MCBrowser`, `MCPipeline`, `MCServer` | values of constants for TLC | |
| `AuthProofs` (sessions), `AccountProofs` (second factor, provider), `BrowserProofs`, `NotesProofs`, `FilesProofs`, `OwnerProofs`, `PipelineProofs`, `ServerProofs` | the theorems | |

### State of `Auth`

- `users`: the table, by login. `password_hash` is the password it was made from (or
  `NoPassword` for NULL), `totp_secret` is the request that generated it, `email` is the login of a
  row with `external`, since only `createOAuthUser` fills it and with the same value.
- `refreshTokens`: the hashes in `refresh_tokens`. Rows are never updated, so their other columns
  are in `tokens`.
- `tokens[r]`: what request `r` minted: an access token and a refresh token with their expiries, or
  a 2FA token, or nothing. No request mints twice, and `rand.Text`, `rand.Read` and `uuid.NewV4`
  never repeat, so what `r` makes is named after `r`.
- `req[r]`, `pc[r]`: the input of a request and the repository call it makes next (`"read"`,
  `"delete"`, `"mint"`, ...), or how it ended: `"done"` (answered), `"rejected"` (answered with an
  error the code chose), `"dropped"`.
- `now`, in ticks; `revoked`, a history of the sessions whose row a logout or a password change
  removed. The `session` of a token pair is history too: the request that opened the session.

### Actions of `Auth`

A handler is cut at its repository calls. What it computes between two calls, on what the first one
returned, happens in the step of the first call; nothing else can see it. So `SignInRead` reads the
row and decides, on that row, between rejecting, minting and asking for a code; a later `OpenSession`
(`createTokens`) inserts the row of the refresh token. Reading the clock in `createTokens` and
inserting the row are one step: only the ratio of the two expiries depends on it.

- `Admit` starts a request: its input, and the validations that need no repository call, whose
  failure is `"rejected"`. A cookie a client presents is one of an answer it received; it may be an
  old one, a spent one, an expired one, or one somebody else's browser holds. A code is identified
  with the secret it comes from; clients can compute codes of secrets whose QR image they received,
  and of the empty secret, of which everybody can.
- Requests are numbered in the order they arrive. Their numbers have no other meaning, so this
  leaves out nothing but renamings.
- `Drop` stops a request between any two calls, or before its answer arrives. It stands for a
  failed statement, a cancelled context, a crash of the process and a lost answer alike: no handler
  undoes anything, and the server has no memory a crash could lose.
- `Quiescent` lets the server wait when no request is in hand, so that TLC's deadlock check tells
  waiting from being stuck: a request that is in hand can always make its next step.

Left out, because they change no state: `GetUser`, a `Refresh` or a `Logout` without a cookie, a
request without an access cookie. Users are never deleted by the code, so `ReadUserByID` and
`UpdatePassword` always find their row.

A definition whose comment starts with *Variant* is not part of the model. It is the definition
below it with a plausible bug, and is there to show that a property would notice the bug.

### State and actions of `NoteBook`

- `notes`, `blocks`, `tags`: functions on the ids that have a row; `noteTags`: the pairs of
  `note_tags`. They hold what is committed. Titles, headers, icons, colours and the content of blocks
  are left out; the checks that only look at those (`validateTag`) come before any call.
- `locks[r]`: the row locks the transaction of `r` holds. `tx[r]`: what the handler has read (`old`,
  `tags`), its position in the block list, and the blocks its transaction has inserted and deleted.
  `Commit` applies the whole transaction to the tables; until then nobody else sees any of it.
- A statement outside `Begin` is a transaction of its own. A `DELETE` that cascades is two actions: it
  locks its row first and reaches the rows below in a second one (`erase`, then `cascade` or `untag`).
- A statement first needs its locks (`Needed`): a row it writes, a row it deletes, and, shared, the
  row a foreign key refers to. It runs when they are free; while it waits it may get some of them
  and not others (`LockSome`). When requests wait for each other in a circle, the deadlock detector
  aborts one of them (`Victim`). This is Postgres under READ COMMITTED as the code relies on it, and
  marked external.
- An update that creates a block names it after its request; a request creates at most one. Block
  lists may repeat a block, and name blocks of other notes or deleted ones. Tag ids are a set: given
  twice they are refused, like those of other users (`notes/usecase/usecase.go:169`).
- `Drop` (with `Faults`) stops a request between any two statements and rolls its transaction back: a
  failed call, a client that hangs up, a crash. What had been committed stays.
- The answer of the database to the statement that commits may be lost as well (`Completes`): the work
  is done and the client is told that it failed.

Left out of `NoteBook`, because they change nothing: `GetNote`, `GetNotes`, `ListTags`.

### State and actions of `Workspace`

- `attachments` and `avatars` are the rows that name files; `files` the keys in the two buckets. A
  request that stores a file names the key after itself: keys are fresh UUIDs. `ElsewhereAvatar` is
  a picture at GitHub, which names no key.
- One pass through the storage client is one step. Each call may fail (`Drop`), and the calls with a
  compensation have their own failures: `UploadRefused`/`UploadUnheard` (the row was refused, or was
  stored and the answer got lost), then `UploadTakeBack`; the same for avatars. `unheard` is
  history: the keys of rows that were stored although the server was told otherwise.
- The compensation and the removal of the old picture are best effort in the code: their failure is
  logged. `Drop` at that point is the failure.
- A block that goes, by an update or by the cascade of a note, takes its attachments along in the
  same step (`CascadeToAttachments`), and no file.
- `overlapped` is history: the notes that had two updates in hand at once.

### State and actions of `Browser`

A jar holds the access and refresh cookies as a pair (they are set and cleared together), the 2FA
cookie and the state cookie. `Send` starts a request of `Auth` with what the jar holds at that
moment; `Receive` applies the `Set-Cookie` headers of its answer, whenever it arrives and in any
order; an answer may be lost (`Drop`). `GitHubLogin` puts a new state in the jar. A callback is a page
anybody may be sent to: any browser may open it with any state that was handed out, and it goes on
only if the state equals its cookie. GitHub trades a code once. The clock of `Auth` goes on while
cookies rest in a jar (`Tick`), so a token may expire there.

### `Api` and `Pipeline`

`Api` is four tables per generated server: its routes in the order in which it registers them, the
bodies it decodes, the reasons its usecase refuses with, the status its handlers give each reason.
The tables are transcribed from code, the middlewares' list of public paths included;
`docs/openapi.yaml` enters only on the other side, in the properties (`Secured`). `Pipeline` walks a
request through the layers in the order in which `main` stacks them. A layer refuses or passes on; a
request in no layer's case would deadlock. The outcome of a usecase is any of its reasons, success,
or a fault. Sizes are megabytes, and one more than a limit stands for everything above it.

### `Server`

`main` is the statement `main` has come to, `listener` the goroutine of `ListenAndServe`, `held` the
requests that have a connection of the pool. `Gone` is the end of the process, by `os.Exit`, by a
kill or by return: what it held is gone, the buckets stay. Requests are known by their database
calls only: each takes a connection and gives it back, `UpdateNote` one for its whole transaction,
and none asks for a second while it has one. `Boot` is `restart: unless-stopped` in
`docker-compose.yml`.

### The abstract specifications

`SessionLifecycle` knows sessions and owners, no tokens, tables or requests. A session is opened
once, rotates to a moment without a credential, is renewed or ends; ended is final. A password change
ends all *live* sessions of an owner — one that is being renewed at that moment escapes, and the
abstract specification says so. `Auth` maps a session to `"live"` while it has a row, to
`"renewing"` while some refresh holds its spent token, and to `"ended"` otherwise
(`PhaseOf`, `OwnerOf`, `ImplementsLifecycle`).

`NoteDocuments` knows documents and labels, no rows of blocks, locks or transactions. `library` is
what `GetNote` shows of each document: its author and parent, its blocks in their order, its tags. A
call asks for one change (`wanted`) and is answered (`answer`). `"done"` means that the change was
made, in one step; `"rejected"`, that nothing was changed; `"failed"`, that all of it was made or
nothing. So there is no moment at which a document shows half an update, blocks of another document,
or a list with blocks missing; a delete takes the document and everything below it at once, all of
it of one author; two labels of an owner never get one name. Two weaknesses are part of the
specification, since they are what the code does. A change of something that is gone by then is
answered `"done"` (`Miss`: no statement after the checks looks at the number of rows). And a call
without tag ids may leave the document with other tags of its author than it had (`Save`).
`NoteBook` and `Workspace` map to it by `Shown` (the query of `GetNote`: the entries of `block_ids`
that have a row, each at its place), `WantedOf` and `AnswerOf` (`ImplementsDocuments`). It is the
tables at one moment: a `GetNote` reads the note, its blocks and its tags in three statements, and
what another request commits in between shows in the later ones only.

## 3. What is checked

Each run uses the `MC...` module its name begins with, and takes less than three minutes with
two workers.

| run (cfg) | properties | instance | distinct states |
|---|---|---|---|
| `MCAuthAll` | `TypeOK`, `OneCredential`, `RefreshOnce`, `RevokedStaysDead`, `AccessWindow`, `CodeBeforeSession`, `ProviderOnly`, `ImplementsLifecycle` | 3 requests, 3 at once, two users, every operation, faults, 2 ticks, both tokens live 1, a weak password | 538 000 |
| `MCEnrolmentOverlaps` | `EnabledIsConfirmed` | 5 requests, 2 at once, the operations on the second factor, faults | 733 000 |
| `MCNotesRaces` | `ListedBlocksExist`, `EveryRequestEnds` (liveness) | 2 requests at once, a note with two blocks and a tag, every operation on notes and tags, lists of up to 2 blocks, faults | 157 191 |
| `MCWorkspaceAll` | `TypeOK`, `RowsHaveFiles`, `Belongings`, `StrayOnlyByOverlap`, `OnlyTheOwner`, `OnlyTheAuthor`, `ImplementsDocuments` | 2 requests at once, two users with a note, a tag and a picture each, an attachment, every operation, faults | 154 695 |
| `MCBrowserTabs` | `JarAlive`, `LogoutSticks`, `CallbackFromHere` | 2 browsers, 3 requests, 2 at once, a GitHub state, faults, 2 ticks | 907 000 |
| `MCPipelineRequests` | `RouteIsSpecific`, `AccessAsDeclared`, `CookieReaches`, `WholeFile`, `CookiesWithSuccess`, `ReasonsAreNamed`, `OriginsAnswered` | every path, method, cookie and query; bodies on both sides of each limit | 102 000 |
| `MCServerLives` | `ServerTypeOK`, `ServingIsReady`, `OrderlyExit`, `RefusedOnlyLate`, `RequestsEnd`, `StopsOnSignal`, `Recovers` (the last three liveness) | 3 requests with 2 calls each, 1 connection, 3 failures, kills or signals | 64 000 |
| `MCWorkspaceFilesClaim` | `FilesNamed` (violated) | 1 request | |
| `MCBrowserLogoutClaim` | `LogoutSignsOut` (violated) | 4 requests, 2 at once, one browser | |
| `MCAuthPasswordClaim` | `OthersLoggedOut` (violated) | 3 requests, 2 at once | |
| `MCEnrolmentClaim` | `OnMeansConfirmed` (violated) | 4 requests, 2 at once | |
| `MCPipelineBodyClaim` | `InvalidBodyRefused` (violated) | one size of file | |

*Bounds.* `Requests`, `MaxInFlight`, `MaxTime`, `MaxBlocks`, `MaxCalls`, `MaxMishaps`, `Sizes` and
the sets of logins, names, passwords and operations bound the instances.

- *Auth.* Three requests at once are a sign-in and two uses of what it returned (two refreshes, a
  refresh and a logout, a refresh and a password change), or a sign-up, a sign-in and a callback for
  one address. Two ticks are one more than a token lives. The properties of `MCAuthAll` are also
  proved for every bound (section 4). Five requests hold the longest protocol of the second factor,
  sign in, generate, enable, disable cut short, generate or enable again, and two at a time every
  overlap of a pair of them.
- *Notes and files.* Every operation reads, checks and writes once, so what can go wrong between two
  requests goes wrong with two of them; two blocks are the fewest that two updates can lock in
  opposite orders. Every safety property of `MCWorkspaceAll` and `MCNotesRaces` is also proved for
  every bound (section 4).
- *Browser.* Three requests are a sign-in and two tabs that use its cookies at once, or a sign-in
  and two callbacks in two browsers with one state. Two ticks are one more than a refresh token
  lives. The three properties are also proved for every bound (section 4).
- *Pipeline.* The seven properties are also proved for every set of sizes. The limits are those of
  the code, in megabytes; sizes are each limit and one more, and one that only adds up to the limit
  of the body together with another part. The paths are those of all routes, with a UUID and with
  `all` for an id, and four that belong to none.
- *Server.* One connection for three requests is the tightest pool. Three mishaps are two failed
  starts and a signal, or a failed start, a signal and a kill during shutdown.

*Symmetry.* `MCBrowserTabs` declares browsers interchangeable (`Alike`): no definition
names one, and the run has invariants only.

*Deadlock* is checked everywhere except in `MCServerLives`: when its requests and mishaps are used up
the server has nothing left to do.

*What the properties say.*

- `OneCredential`: a session has at most one row or pending renewal. `RefreshOnce`: a token is traded
  at most once. `RevokedStaysDead`: a session whose row was removed for good is never carried on.
- `AccessWindow`: an access token of a revoked session expires at most `AccessTTL` after the
  revocation. The reason is not local to any line: a refresh in hand at the time could have minted a
  later one, were it not that a session with a refresh in hand has no row to revoke.
- `CodeBeforeSession`: an access token of an account with 2FA on exists only after a
  `VerifyTwoFactor` with a right code.
- `EnabledIsConfirmed`: while the switch is on, the secret is one the user has confirmed, however
  requests overlap and fail; but for accounts that had an `Enable2FA` in hand together with a
  `Generate2FA` or a `Disable2FA` (`contested`), which is where the code breaks it (section 5).
- `ProviderOnly`: an account GitHub made is entered through GitHub only, and other accounts never
  are, even when both have the same address.
- `JarAlive`: when nothing is in hand, the refresh token in a jar has its row, unless the session
  was revoked, the renewal failed halfway or the token has expired. Two tabs that refresh at once
  must not leave the spent token behind. `LogoutSticks`: after a logout, only a refresh of the very
  token it presented can have brought the session back. `CallbackFromHere`: a sign-in through GitHub
  ends in the browser it began in.
- `ListedBlocksExist`: every id in `block_ids` is a block of that note. Nothing in the schema says so.
  Updates decide what to insert and delete on what they read before their transaction; that an id
  deleted meanwhile is not listed after all rests on the upsert, which inserts it again, and on the
  locks, which let no two updates pass each other between the upserts and the deletes.
- `Belongings`: parents and tags belong to the author of the note, although both are checked before
  the write. `OnlyTheAuthor`: no request of another user changes or deletes a note or its tags, also
  not through `ON DELETE CASCADE`. `OnlyTheOwner`: the same for attachments, avatars and the files
  behind them, whatever a compensation or a late removal deletes.
- `RowsHaveFiles`: a row never names a file that is gone, except one whose insert was reported as
  failed. `StrayOnlyByOverlap`: a block out of every list's reach belongs to a note that had two
  updates in hand at once; failures alone never lose one.
- `ImplementsDocuments`: however requests overlap, wait, fail and roll back, readers of the notes see
  them change as `NoteDocuments` allows. The statements of `UpdateNote` outside its transaction would
  break it, and so would a cascade that comes in two steps, a rename onto a name that is taken or an
  update that lists a block another one deletes.
- `EveryRequestEnds`: no request waits for a lock for ever; the deadlock detector is enough.
- `RouteIsSpecific`: `GET /notes/all` is never read as the note `all`: the order of registration,
  which the generator chose, decides. `AccessAsDeclared`: the middleware's list of public paths
  agrees with the `security` of the API's description, for every path and method. `CookieReaches`:
  no reader lies outside the path of its cookie. `WholeFile`: a usecase never gets a truncated file.
  `CookiesWithSuccess`: whichever of the six operations has opened a session, its cookies are in the
  answer, also where the callback ends as a 500 after that; a half sign-in brings the 2FA cookie, a
  logout the cleared ones, and no other answer a cookie. `ReasonsAreNamed`: a 500 means a fault, an
  account that is gone, a title too long for its column, a login the callback finds taken, or a
  callback that does not know where to send the browser. `OriginsAnswered`: the header CORS sets is
  kept by every layer that answers, so an allowed origin, and no other, can read errors too; a
  preflight names every method of its path but PUT and DELETE.
- `ServingIsReady`: requests are accepted only with both buckets there and the avatars public, also
  after starts that died halfway. `OrderlyExit`, `RefusedOnlyLate`: only the shutdown timeout lets
  an exit cut a request or the pool refuse one. `RequestsEnd`, `StopsOnSignal`, `Recovers`: handlers
  that share too few connections all end, a process told to stop stops, and after finitely many
  mishaps the server serves.

*Fairness.* `NoteBook!FairSpec` assumes weak fairness of `Advance(r)` for every request: its
goroutine is scheduled, the database answers a statement that can run, and its deadlock detector
runs. Nothing is assumed of `Drop` or of the arrival of requests. `FairServerSpec` assumes it of
`main`, of the listener's goroutine and of every request: the scheduler is fair, database and
storage answer, and Docker restarts what has stopped. Nothing is assumed of signals, failures, kills
or arrivals. All other properties are safety and are checked and proved without fairness.

## 4. What is proved

From the named assumptions on the constants (`AuthStore`, `OAuth`, `Browser`, `NoteStore`,
`FileStore`, `Pipeline`, `Server`: identifiers apart, initial tables a state the program can have
left, lifetimes positive, sizes numbers), for any number of users, browsers, requests, connections,
and any bounds:

| theorem | statement |
|---|---|
| `AuthProofs!TypeCorrect` | `Spec => []TypeOK` |
| `AuthProofs!SessionCorrect` | `Spec => []SessionInv` |
| `AuthProofs!SessionNeverForks` | `Spec => []OneCredential` |
| `AuthProofs!RefreshTokenSpentOnce` | `Spec => []RefreshOnce` |
| `AuthProofs!RevocationIsFinal` | `Spec => []RevokedStaysDead` |
| `AuthProofs!RevocationWindow` | `Spec => []AccessWindow` |
| `AuthProofs!AuthImplementsLifecycle` | `Spec => ImplementsLifecycle` |
| `AccountProofs!LockedUntilGiven` | `Spec => []LockedUntilCode` |
| `AccountProofs!CodeComesFirst` | `Spec => []CodeBeforeSession` |
| `AccountProofs!NobodyIsLockedOut` | `EnrolmentSpec => []EnabledIsConfirmed` |
| `AccountProofs!DoorsStayApart` | `Spec => []ProviderOnly` |
| `BrowserProofs!JarsCorrect` | `BrowserSpec => [](SessionInv /\ BrowserInv)` |
| `BrowserProofs!BrowserStaysSignedIn` | `BrowserSpec => []JarAlive` |
| `BrowserProofs!LogoutIsUndoneByItsTwinOnly` | `BrowserSpec => []LogoutSticks` |
| `BrowserProofs!SignInEndsWhereItBegan` | `BrowserSpec => []CallbackFromHere` |
| `BrowserProofs!BrowsersImplementLifecycle` | `BrowserSpec => ImplementsLifecycle` |
| `NotesProofs!WorkspaceTypes` | `WorkspaceSpec => []TypeOK` |
| `NotesProofs!NotesBelong` | `WorkspaceSpec => []Belongings` |
| `NotesProofs!ListedBlocksStay` | `WorkspaceSpec => []ListedBlocksExist` |
| `NotesProofs!NotesAreTheAuthors` | `WorkspaceSpec => OnlyTheAuthor` |
| `NotesProofs!DocumentsAreAtomic` | `WorkspaceSpec => ImplementsDocuments` |
| `FilesProofs!FilesStay` | `WorkspaceSpec => []RowsHaveFiles` |
| `OwnerProofs!FilesAreTheOwners` | `WorkspaceSpec => OnlyTheOwner` |
| `OwnerProofs!StraysComeFromOverlaps` | `WorkspaceSpec => []StrayOnlyByOverlap` |
| `PipelineProofs!LayersCorrect` | `PipelineSpec => []PipelineInv` |
| `PipelineProofs!RoutesAreSpecific` | `PipelineSpec => []RouteIsSpecific` |
| `PipelineProofs!AccessIsAsDeclared` | `PipelineSpec => []AccessAsDeclared` |
| `PipelineProofs!CookiesReach` | `PipelineSpec => []CookieReaches` |
| `PipelineProofs!FilesAreWhole` | `PipelineSpec => []WholeFile` |
| `PipelineProofs!CookiesGoWithSuccess` | `PipelineSpec => []CookiesWithSuccess` |
| `PipelineProofs!ReasonsHaveStatus` | `PipelineSpec => []ReasonsAreNamed` |
| `PipelineProofs!OriginsAreAnswered` | `PipelineSpec => []OriginsAnswered` |
| `ServerProofs!ServerTypeCorrect` | `ServerSpec => []ServerTypeOK` |
| `ServerProofs!ReadyBeforeServing` | `ServerSpec => []ServingIsReady` |
| `ServerProofs!ExitIsOrderly` | `ServerSpec => OrderlyExit` |
| `ServerProofs!RefusalIsLate` | `ServerSpec => RefusedOnlyLate` |

*The argument for sessions.* None of the four properties is inductive. That two holders of a session
are equal survives a refresh only because the refresh took its row out when it started
(`SpentIsGone`), which is of use only because the rows in the table belong to minted pairs
(`RowsMinted`), minted by requests that have nothing more to mint (`MintedLast`) for sessions that
were really opened (`PairsRooted`). A revoked session has no holder left; that it had only the one
row removed is `OneCredential`. The window of access tokens then follows from the time at which the
last pair can have been minted (`FreshBound`). `SessionInv` is the conjunction; one lemma per action
shows that a step keeps it. Actions that do not touch a session are dealt with by one lemma about
what they leave alone.

*The argument for the second factor.* `CodeBeforeSession` is not inductive either: a request may be
one step from minting. `LockedUntilCode` says that an enrolled account stays `Locked` until a code
is given: its row is as it was, no access token is about it, and every request about it is at a
point from which it cannot mint (`StopsShort`). The run `MCAuthAll` checks what follows from it.
Nothing can change the row, since each operation that could needs an access token of the account or
a code.

*The refinement of sessions.* `AuthImplementsLifecycle` shows that the initial state has every
session in phase `"none"`, and that each action is an action of `SessionLifecycle` or changes
neither phases nor owners. `Drop` of a refresh in hand is `End`; a password change is `EndAll`.

*The argument for browsers.* A step of `Browser` is a step of `Auth` for some request, so
`SessionInv` carries over (`BrowserNext` is not `Next`: what a request presents is what its jar held).
`BrowserInv` (`BrowserInduction`) adds where things came from: whatever is in a jar, and whatever a
refresh or a logout presents, was brought to *that* browser by an answer (`JarBrought`,
`PresentsBrought`). Of the pairs of a session all but one were traded (`OneTail`), so a jar that holds
another pair of the session than the logout presented holds a successor: that is `LogoutSticks`, in
the form a step preserves (`LoggedOut`, where the renewal may still be under way). For `JarAlive`,
every minted pair has its row or the row's fate is on record (`RowsAccounted`), and a refresh that
has spent the token in a jar and minted the next one is not answered yet (`SpentLeavesJar`): when it
is, the answer replaces the cookie. So with nothing in hand the refresh on record has failed.
`JarAlive` without the case of an expired token is false once the clock is in the model: `readToken`
removes the row of an expired token it is asked for, and the jar keeps the cookie. The same
invariant lets the refinement of `SessionLifecycle` be stated of the whole system of browsers
and server (`BrowsersImplementLifecycle`).

*The argument for notes.* `NotesInv` (`NotesInduction`) has two halves. What a handler has *checked*
without a lock stays true (`Checked`), because a row keeps its owner and an id that is gone never
comes back: a row is named by the request that creates it, and that request is over once the row is
there (`MadeInv`). So `Belongings` needs a lock in one place only, between the insert of the pairs
and the commit, where a tag might go; the pair's shared lock excludes the delete. What an update has
*written* is protected until it commits (`Writing`): each block it has upserted is write-locked, and
each block it deletes is erase-locked, so that no other transaction removes a block it is about to
list, by a delete or by a cascade (`LocksInv`: locks held by two transactions never conflict). That
a listed block is in *this* note needs one more fact, `BlockOfInv`: a block never changes its note,
even when it is deleted and an update that still has it in hand brings it back. One lemma per action
shows that a step keeps the invariant, over three lemmas for its three shapes: a request arrives,
comes to its next call, or ends. For `OnlyTheAuthor` the cascade has to be contained: the notes of
one author are a set closed under it, by `Belongings`, so the smallest closed set is inside
(`SubtreeOfOneAuthor`).

*The refinement of documents.* `DocumentsAreAtomic`: each request has one statement that takes
effect, and its step is the step of `NoteDocuments` (one lemma for each: `CreateNoteInsertIsWrite`,
`CommitIsSave`, `DeleteNoteCascadeIsTrash`, `CreateTagInsertIsAddLabel`, `UpdateTagRowIsRename`,
`DeleteTagCascadeIsRemove`). The arrival of a request is `Ask`, its refusals and rollbacks are
`Refuse`, and every other statement, those inside a transaction among them, changes nothing that is
shown. A commit is where `NotesInv` is needed. What `GetNote` shows is the whole list, because a
listed block is there (`ListedBlocksExist`): true before the commit for the other notes, which
therefore keep what they show although blocks were deleted, and true after it for this one. The tags
it leaves are those it read or was given, still labels of the author (`Checked`, and the lock of the
pairs). If the note is gone the commit is a `Miss` (`CommitIsMiss`): it lists nothing and removes no
block another note shows. The tables can be compared entry by entry only because they are functions
on their keys, which `TypeOK` says.

*The argument for files.* The danger is a delete of a file that comes late. `FilesInv` follows the
keys: whoever may still delete a key knows it from a row, a key is never known from two rows
(`KeysInv`), and when a delete comes no row that was heard of has the key, nor will one
(`CallsInv`). All steps that store no row and come to no delete are dealt with by one lemma
(`CalmKeeps`).

*The argument for the server.* How far the start has come tells what is in the storage
(`PreparedInv`), whatever earlier lives left there; the pool is closed at the end of `main` only, and
by then nothing is accepted and what is in hand is late (`DrainInv`).

*The argument for owners.* `OwnersInv` (`OwnersInduction`) continues the one for notes: the answer of
`checkBlockOwner`, asked once and without a lock, stays right while the request goes on, because a
block never changes its note, a note never its author, and neither id is used again; and a row under
a request's own key is the one it has stored, so its compensation removes no other. Every row refers
to rows that are there (`RowsRefer`): the foreign key's shared lock keeps the note of a block that is
about to be inserted.

*The argument for stray blocks.* An update that nobody overlaps has read every block of its note
(`HasAll`), because no other request inserts one; so it deletes all those it does not list, and lists
all it inserts. If another update of the note is in hand at its commit, the note is on record
(`TwoUpdatesOverlap`), and stays there.

*The argument for the provider's door.* `ProviderInv` (`AuthInduction`): whoever holds tokens, is
about to, or has a 2FA token came through the door of the account's own kind, and an account never
changes its kind. The callback looks for the address among the emails, which sign-ups leave empty,
and not among the logins; a login that is taken makes it fail.

*The argument for the confirmed secret.* `ConfirmedInv` (`Enrolment`): what a request on the switch
has checked still holds when it writes, or its account is on record as contested (`KeptBy`).
`Generate2FA` and `Disable2FA` have found or put the switch off, and only an `Enable2FA` of the
account could turn it on before they write; `Enable2FA` has compared its code with the secret, and
only the other two could replace that. Whichever of them comes second puts the account in
`contested`, because both are then in hand (`Contested`), and nothing takes it out again.

*The argument for the pipeline.* `PipelineInv` (`PipelineInduction`) says of a request in any layer
what the layers before it have made certain: past CORS
the answer names the origin and a preflight never gets there (`OriginNamed`), it has the first
route that fits (`Routed`), it was let through (`Admitted`), its body was decoded and its handler had
no objection (`HandledWell`), the file was read within what was left of the body (`FileRead`), and
the answer is that of its outcome (`AnswerKept`). Each layer is one lemma. What then has to be shown
is about the tables: that the first of two routes that fit one path is the more specific, that a
public path is a prefix of no secured route and of every other, that every reason has a status, that
every reader lies below the path of its cookie. The tables are spelled out once, as the value of
`Routes` at each index, and every other lemma cites that. The paths are those of `Paths`; the
limits and the sizes may be any.

Out of the prover's reach and left to TLC: liveness (`EveryRequestEnds`, `RequestsEnd`,
`StopsOnSignal`, `Recovers`). Every safety and action property a passing run checks is proved. The
inductive invariants were first checked with TLC on the instances above. No module uses a recursive
definition. `NotesProofs` and `FilesProofs` treat the deadlock detector's circle (`InCircle`) as an
arbitrary condition: they hold whomever it aborts.

## 5. What disagrees with the documentation

Each of these is a run that TLC ends with a counterexample.

- `FilesNamed` (`MCWorkspaceFilesClaim`). `docs/openapi.yaml:438` says that deleting a note deletes
  its files. `DeleteNote` deletes the row (`notes/repo/postgres/repo.go:195`), the schema cascades
  to the rows of `attachments`, and the objects in the bucket stay with nothing to name them.
- `LogoutSignsOut` (`MCBrowserLogoutClaim`). `docs/openapi.yaml:96` says that a logout deletes the
  session of the device and clears its cookies. A `Refresh` that has already taken the row out
  (`usecase.go:113`) stores the next one after the logout found none (`usecase.go:129`), and its
  answer sets new cookies: the device is signed in again.
- `OthersLoggedOut` (`MCAuthPasswordClaim`). `docs/openapi.yaml:125` says that a password change
  logs all other devices out. A sign-in that verified the old password stores its session after the
  sweep (`usecase.go:173-177`).
- `OnMeansConfirmed` (`MCEnrolmentClaim`). `docs/openapi.yaml:205` calls enabling "confirm and turn
  on", and `:199` promises 409 to whoever asks for a new secret while 2FA is on. `Generate2FA` looks
  at the switch (`usecase.go:272`) and stores the secret (`usecase.go:282`) in two statements, and
  `Enable2FA` checks the code of the old secret in between: 2FA is on with a secret nobody confirmed.
- `InvalidBodyRefused` (`MCPipelineBodyClaim`). `docs/openapi.yaml:809` requires `title` and
  `blocks`, `:813` limits the title, and `:427` promises 400. The generated decoder fills a missing
  field with its zero value and nothing looks again (`notes/delivery/http/handlers.go:117`): an
  update without `blocks` succeeds and deletes the blocks, and a title that is too long for its
  column is a 500.

Read off the models, without a run of their own:

- Blocks "that are not in the array are deleted" (`docs/openapi.yaml:410`). Two updates that overlap
  compare with the same old list (`notes/usecase/usecase.go:101`): a block the first one adds is not
  in the list of the second, nor deleted, and as every later update reads the listed blocks only, it
  stays as long as its note. `StrayOnlyByOverlap` says that this is the only way to lose a block.
- Without `tag_ids` the tags do not change (`docs/openapi.yaml:825`). The update deletes the pairs
  there are and inserts those it read before its transaction (`notes/usecase/usecase.go:162`): tags
  set by another update meanwhile are undone.
- The callback creates the user if needed and sets the cookies (`docs/openapi.yaml:292`). When the
  login is taken (`usecase.go:423`) it answers with an internal error: one of the exceptions of
  `ReasonsAreNamed`.
- The limits of bodies are documented as 4096 bytes and 1 MB (`docs/openapi.yaml:48`, `:77`, `:144`,
  `:380`, `:433`); the middleware has one limit of 20 MB for all.
- A preflight allows GET, POST and OPTIONS (`middleware/cors.go:11`); from another allowed origin a
  browser does not send the PUT and DELETE of the API.
- Statuses the code gives and the description lacks: 400 and 413 of Disable2FA, 413 of Enable2FA,
  Verify2FA, CreateTag and UpdateTag. A fault of the database in `readOwnAttachment` is answered 404.

## 6. What is not modelled, and the plan

Not modelled:

- The argon2 parameters and the parsing of stored hashes, the JWT signature and the TOTP arithmetic
  are trusted: a hash verifies for its password alone, a signature is the server's own, a code
  belongs to one secret.
- Fields no property tells apart: titles, headers, icons, colours, the content and position of
  blocks, the fields of JSON answers, the bytes of files, the QR image.
- `s3.Connect` and `database.Connect` build clients and change nothing; the migrations run once,
  before the server. The schema's keys, foreign keys and cascades are in the models; `favorite` is
  used by no code.
- How `ALLOWED_ORIGINS` is split and trimmed, the swagger page, mocks, logging.
- Middlewares of a strict handler: `main` registers none.
- Isolation weaker or stronger than READ COMMITTED, and what Postgres does beyond row locks, unique
  keys and foreign keys.

What is left of the plan:

1. **Browser with files and notes**: retries of uploads and updates by a client that got no answer.
