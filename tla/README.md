# Dockstack in TLA+

Dockstack is a Go server (`cmd/dockstack`, `internal/`) with a web application
(`web/`) that manages docker compose stacks: directories under `STACKS_DIR`, each
with a compose file. It runs `docker compose` commands, talks to the Docker API
and keeps its accounts in SQLite. The web application keeps its own picture of all this in a
query cache, in editors and in dialogs. This directory holds TLA+ specifications of
the parts where order, failure and concurrency matter, the TLC configurations
that check them, and proofs checked by TLAPS. Paths below are relative to the
root of the repository.

## 1. Inventory

| Component | State | Operations | What is hard | What makes it correct |
|---|---|---|---|---|
| Compose stream (`internal/docker/stacks.go` `StreamCompose`, `RunCompose`; `internal/server/api/stacks.go` `handleStackActionStream`) | one process, two pipes, four goroutines, channels `out`, `waitErr`, `done`, a wait group | start, scan, heartbeat, wait, close, drain or leave | five parties waiting on each other, a caller that leaves, kills, overlong lines | no send on a closed channel, no lost line, status before the end, nobody waits for ever |
| Stack lifecycle (`internal/server/api/stacks.go`, `internal/docker/stacks.go`) | directories, compose files, containers | create, env, save, rename, destroy, up, stop, down, restart, pull, update, redeploy one, redeploy all | no lock between requests, each a sequence of checks, file operations and commands that fail or are cancelled one by one | containers are not lost, files not overwritten, redeploys stay in scope |
| Sign-in and request limiter (`internal/server/api/auth/ratelimit.go`, used by `auth.go`, `passkeys.go`) | bounded table of failures and locks | check, record, clear, sweep | the check and the record are separate, the table fills up, locks expire | bounded attempts, locks hold, no lock without cause |
| API key rate limit (`internal/server/api/auth/middleware.go`, `internal/auth/apikeys.go`, `internal/db/queries/api_keys.sql`) | `request_count`, `last_request_at` | verify, count, delete | clock readings older than the update | bounded rate, refusals that end |
| Image update detection (`internal/docker/client.go`, `system.go`, `stacks.go`) | the digest cache, images, containers | lookup, pull, update, invalidate | lookups overlap invalidation, entries expire | answers are fresh, a badge tells the truth |
| Accounts (`internal/db/seed.go`, `internal/server/api/auth/oauth.go`, `internal/auth/oauth.go`) | users, credentials, links | seed, OIDC callback, email change, password reset | no transactions, overlapping callbacks, crashes | one admin, an identity gets its own account only |
| Sessions, passwords, reset tokens, profiles (`internal/auth/session.go`, `password.go`, `tokens.go`, `internal/server/api/auth/auth.go`) | sessions, credentials, tokens | sign in, sign out, refresh, forgot, reset, change | token use in several statements, lost updates | a token works once |
| Passkeys (`internal/auth/passkeys.go`) | challenges, passkeys | begin, finish | challenges deleted after use | a challenge works once |
| Status and drift rules (`internal/docker/stacks.go` `GetStackStatus`, `aggregateStale`, `containers.go`, `drift.go`) | none; four slots for drift checks | map containers to a status | many cases; slots held over slow calls | status agrees with the containers |
| Query cache and pages (`web/src/routes`, `web/src/components`, `web/src/lib/api`) | per query: data, flags, the running request | show a page, poll, focus, use a control, refresh | answers out of order, aborted and failed requests, handlers that speak of another stack by the time they run | own changes are shown, nothing goes back, polls catch up |
| Stack editor (`web/src/components/stacks/files.tsx`) | two editor texts, the last answer, a save | load, type, save, create `.env`, go to another stack | the component outlives the stack it shows; refetches under typing; other writers | no text of one stack in the files of another, typing is kept |
| Action dialog (`web/src/components/stacks/action-dialog.tsx`, `web/src/lib/api/sse.ts`) | open, running, lines, the stop of the last run | open, close, read, finish | a closed run ends later and shares its state with the next | the output and the end shown are those of the run shown, runs end |
| Logs view (`web/src/components/stacks/logs.tsx`, `internal/server/api/ws/logs.go`) | streaming, `wsRef`, lines; per connection a handler and a stream | start, stop, leave, messages, close | events of an old socket change what belongs to a new one | Stop stops, leaving ends the stream |
| Terminal and exec (`web/src/components/terminal`, `internal/server/api/ws/exec.go`, `internal/docker/exec.go`) | an exec per connection | init, resize, input, close | a second init on one connection | everything is closed |
| Session and sign-in pages (`web/src/lib/app-context`, `web/src/routes/auth`, `web/src/routes/_private/route.tsx`) | the cached session, the cookie, the page, sign-ins and a sign-out under way | sign in (password, passkey, OIDC), sign out, reset a password, guard the private pages | answers about an earlier cookie, other tabs, sessions that end elsewhere, lost answers | who is shown is who the server serves, a sign-out lasts, a sign-in lands, redirects end |
| Resources, prune, statistics (`internal/docker/{images,volumes,networks,system,stats}.go`) | none | list, remove, prune | - | - |
| Scheduled jobs (`internal/server/cron.go`) | none | delete expired rows, prune | - | - |
| Compose validation (`internal/docker/compose_validate.go`) | none | validate | - | - |
| Server, configuration, logging, database access (`internal/server`, `internal/config`, `internal/logging`, `internal/db`) | fixed after start | - | - | - |
| Presentation (`web/src/components/ui`), former TypeScript code (`src/lib`), documentation (`wiki/`) | - | - | - | - |

How they interact. A request passes the API key limit or the session check, then a
handler. Stack handlers call `RunCompose` or stream `StreamCompose`; pulls, updates
and redeploys then call `InvalidateRemoteDigests`. Lookups of updates list the
containers and ask the digest cache. Sign-in goes through the limiter to the
accounts, OIDC callbacks go to the accounts directly. `main` seeds the accounts
before the server listens. The pages of the web application call the handlers through
generated hooks, whose answers go to the cache of one query each; the success handler
of a mutation says which queries to ask again. The action dialog reads the stream of
`handleStackActionStream`, the logs view a WebSocket. No lock is held over more than one method of the limiter
or of the digest cache; everything else is ordered by the file system, by SQLite and
by Docker.

`PROJECT.json` lists the hazards of this code at their lines, each with the properties
that cover it, or with the reason why none does.

## 2. Modules

| Module | Models | Checked by | Proofs in |
|---|---|---|---|
| `StreamContract` | what the caller of `StreamCompose` may rely on | as `ImplementsContract` | - |
| `ComposeStream` | one command with its goroutines and its caller | `MCComposeStream` | `ComposeStreamProofs` |
| `Stacks` | the stack handlers over directories and containers | `MCStacks` | `StacksProofs` |
| `BruteLimiter` | one `bruteLimiter` and its handlers | `MCBruteLimiter` | `LimiterProofs` |
| `ApiKeyLimit` | one API key | `MCApiKeyLimit` | `LimiterProofs` |
| `ImageUpdates` | the cached digest of one tag | `MCImageUpdates` | `ImageUpdatesProofs` |
| `Accounts` | seeding and linking | `MCAccounts` | `AccountsProofs` |
| `WebApi` | the endpoints the pages use and their cache keys | through `WebPages` | `WebClientProofs` |
| `WebPages` | what each page observes, offers and refreshes | through `WebQueries` | `WebClientProofs` |
| `WebQueries` | one entry of the query cache under all pages and controls | `MCWebQueries` | `WebClientProofs` |
| `StackEditor` | the files tab, its handlers and another writer | `MCStackEditor` | `StackEditorProofs` |
| `ActionDialog` | the dialog and its runs over the stream | `MCActionDialog` | `StreamViewProofs` |
| `StackLogs` | the logs tab, its sockets and their handlers | `MCStackLogs` | `StreamViewProofs` |
| `BrowserSession` | the cached session, the guard, signing in and out, the sessions behind them | `MCBrowserSession` | `WebClientProofs` |

Definitions marked "Mutant" in a comment are no part of a specification: each is a
plausible bug, and replacing the definition after it by it makes TLC find the
property that `PROJECT.json` names with it violated.

### ComposeStream and StreamContract

`rpc[p]` is where the `emit` goroutine of pipe `p` is (`send` and `sendErr` are blocked
sends), `wpc` the goroutine that waits for the process, `gpc` the one that owns `out`
(`beat` is the inner `select` that sends a heartbeat), `cpc` the caller. A receive on the
unbuffered channel and the send it meets are one step. `streaming` selects the caller:
`RunCompose` drains, `handleStackActionStream` writes each line to its client and
returns when a write fails, which cancels the request's context and so kills the
process. A line is its position; an output has a length and possibly an overlong line,
at which the scanner stops. A pipe holds `PipeCap` lines.

The contract says that lines arrive until the status is known, that a successful
command has delivered every readable line by then, and that the channel closes
only afterwards. `ComposeStream` refines it, with the status read from `waitErr` or,
once taken, from the caller. Liveness excepts two states the code can get stuck in,
which are named in the module: `Clogged` (the process writes to a pipe whose reader gave
up at an overlong line) and `Leaked` (the streaming caller has left and a reader holds a
line nobody will receive). Both are reachable; the properties show that nothing else
gets stuck.

### Stacks

`dir[n]` is the compose file in directory `n` (`bare`: a directory without one), `box[n][s]`
the container of service `s` of project `n`. A request is a record in `req`: its operation, its
names and its control point. One action is one check, file operation, start or end of
a compose command; a command reads the compose file when it starts and works on the
containers when it ends. `Fails` and `ComposeFails` end a request at any of them, and
a server that is killed is every request failing in turn. A command that fails leaves
any mixture of done and undone work (`Midway`). What compose itself does (`Touched`,
`Orphans`, `Outcome`, `After`, `Midway`) is external and follows the flags the code passes.

`overlap` records the names two requests have ever worked on at the same time. Dockstack
does not order such requests (`wiki/content/docs/dockstack/features/webhooks.mdx` tells
users to avoid them), so the properties except those names, and only those: requests
on other stacks run at the same time without any exception.

### BruteLimiter

`entries` is the map of the code, `passed[c]` the key whose check request `c` has passed and
whose failure it has still to record. The methods of the limiter are atomic because
they hold its mutex. Two limiters (IP and identifier) share no state; a request that
one of them refuses is a `Drop` of the other.

### ApiKeyLimit

`Verify` reads the row and then the clock, `Grant` and `Refuse` are the outcomes of the one SQL
statement. `Delay` bounds the age of a clock reading when its statement runs. `granted` is
history: the times at which requests were let through, one after the other.

### ImageUpdates

A digest is the number of pushes before it. Ages take the place of a clock, so the model
has no last instant: the age of the cache entry up to `TTL`, of an answer on its way up to `Slack`
(the timeout of the HTTP client), and of replaced digests up to their sum. A lookup lists,
finds the entry or asks the registry, and stores the answer; a pull, update or redeploy
pulls, brings up and clears, in this order, and stops at the first failure.

### Accounts

Each SQL statement is a step, `Crash` may come between any two, and every statement may fail
by itself. UNIQUE constraints are guards of `CreateUser`, `Link` and `ChangeEmail`; a statement
that breaks one is a failing one.

### WebApi, WebPages and WebQueries

`WebApi` has one definition per generated endpoint: the method, and the URL, which is the key
of a query's cache entry. `WebPages` is a table of the client: `Observers[p]` are the hooks mounted
on page `p` with their `refetchInterval` and `staleTime`, `Controls[p]` the mutations it offers, each
with what the server changes (`changes`) and what its handler invalidates (`refresh`). `Reads[k]` is
what the answer of query `k` is computed from. Stack names appear in keys, so that the
same control of two stacks is two controls.

`WebQueries` watches one query: `truth` counts the changes of what it is computed from, `cache` is its
entry (`data` is the version last answered, `call` the request that the running fetch waits
for), `wire` the requests, of which an aborted one still reaches the server. The library,
@tanstack/react-query with its defaults, is modelled from its use and external:
a mount fetches what is stale, losing the last observer aborts, an invalidation replaces a
running fetch unless it is the first. `op` is a mutation under way. While it runs the
user may move; `Rebound` and `OpMoved` say what becomes of its handler, since React renders
the page of the next stack into the component of the last one, and the handler is the one of
the latest render. `owed` is what the entry must show once it is settled.

`LeftStale` lists, per mutation, the queries that it changes and no handler refreshes; it
is part of what `SettledShowsOwn` says, and the list is what a maintainer should look at:
a compose action leaves the lists of images, networks and volumes as they were, a
container action those of networks and volumes, deleting or pruning images their stale
marks, pruning containers the list of stacks. They show the change at the next mount or focus.

### StackEditor

`disk` holds the two files of each stack, `data` the cached answers, `editor` the state `compose` and
`envContent`. `Goto` is the link of another stack, under which the component stays mounted;
`Remount` leaves the tab. A save is its two writes (`PutCompose`, `PutEnv`), each of which
may fail, and the answer. A text is the stack it was written for and a number, so that a text in
the wrong place can be told. `save.base` is history: the `.env` that the page had when the save
was sent. The code does let a `.env` of one stack reach another one, because the effect takes over
only a non-empty `env`; `ForeignEnvFillsGap` says exactly when.

### ActionDialog

`pc[r]` is where the loop of run `r` is: `racing` takes lines or the stop, `returning` waits for the
generator after a close. `sent` and `got` count half lines, so that a chunk may end inside a line.
The server is `command[r]`, which does what `StreamContract` promises its caller. All runs share
`lines`, `running` and `stopRef`, which belong to the component; runs of an unmounted one are `orphans`.
`overlapped` are the runs started while an earlier one of the same component had not ended; the
earlier one's end is then shown as theirs, and the properties except them.

### StackLogs

One socket per use of Start, with its `readyState`, its two directions and two goroutines of
`ws/logs.go`: `handler` is `handleLogsWS`, `follower` is `streamStackLogsToWS`. The page's state is shared: the events of any socket clear
`streaming` and `wsRef`. `clobbered` are the sockets that another one's event took from `wsRef`: the page
can no longer stop them, and two properties except them. The window of a
direction is `Buffer` messages. Stop while the socket is still connecting throws, and stops
nothing.

### BrowserSession

A session is its number; `alive` are those the server still accepts, `cookie` is the browser's, which other
tabs change too. `entry` and `fetch` are the cache entry of the session query and its running request, with
the cookie it was sent with. `tab` is what the browser's tab under study shows, `nav` that a navigation waits in `beforeLoad`
of the private pages (`Enter` is its start, `Decide` its end). `SignedIn` is the answer to a sign-in: it
navigates, but asks for no session. `Load` is a page load, which drops all state of the application;
signing out ends in one, signing in does not.

`out`, `muddled` and `due` are history. `muddled` holds after a sign-in in another tab, or one that crosses
another sign-in or a request for the session, until the session has been asked for with the present cookie:
the cache may then show one user while the server serves another. `due` is a sign-in of this tab
that nothing crossed. Two more things the model has, and no property forbids: the guard is content with
the data of a session that ended, so that its user stays on the private pages, without the sidebar, until a
reload; and a sign-out whose answer is lost leaves the user on the page with an empty cache.

## 3. Runs

| Run | Instance | Shows |
|---|---|---|
| `stream` | two pipes of one line; outputs silent, of two lines, overlong with a tail that fits the pipe, overlong with one that does not, in all combinations; both callers | the contract, no panic, no loss, and that the caller and the goroutines end |
| `stacks` | two stacks, one in `REDEPLOY_SKIP`, one with an upper-case letter, two services with a dependency, two compose files, two clients; every operation alone, and the seven that write directories or start containers two at a time | what failures and cancellations leave behind harms no later request, and requests on different stacks do not harm each other |
| `limiter` | three keys, a table for two, limit 3, window and lockout 2, clock up to 7, two requests | bounded attempts, locks that hold and are earned, a table that sweeps before it gives up |
| `apikey` | three requests, two per window of 3, readings one tick old, clock up to 9 | the rate and the end of refusals |
| `images` | two lookups, two actions, two pushes, TTL 3, slack 1 | fresh answers, and what may undo an invalidation |
| `accounts` | two identities, two callbacks, three emails, three users | sign-ins go to the linked account, one admin |
| `web_queries` | two stacks, all pages and controls, the watched query one of four (list of stacks, files of one, containers, stale images), two requests on the wire, two versions | own changes are shown, nothing goes back, polls catch up |
| `editor` | two stacks, two texts written beyond the first ones, every combination of a missing, empty or filled `.env` | texts stay with their stack, typing is kept, when a foreign `.env` is written |
| `dialog` | two runs of up to three lines, two lines in the connection | the output shown is the run's and complete, runs end |
| `logs` | three sockets, one message per direction | Stop and leaving the tab work |
| `session` | two sessions, password and passkey sign-ins at once | who is shown is who is served, sign-outs last, sign-ins land, redirects end |
| `images_badge` | the instance of `images` with one action | see the next section |

Why the bounds are enough. Two pipes are all there are, and a pipe of one line already
blocks its writer. Every property of the stacks is about the two names of a rename
or about one stack and one intruder, so two stacks and two requests show every kind of
interference; the proofs remove the bound. `PairsOverlap` keeps the operations that neither write
directories nor start containers (create `.env`, stop, down, restart, pull, update) out of the
pairs: their commands are those of the others with fewer effects. A table for two of
three keys is full as soon as any two are tracked; its clock spans three windows, enough for a
lock to be set, to expire and to be set again. Nine ticks are three windows of an API key.
Two pushes and two lookups give an answer that is out of date by one or two digests, with
a lookup on either side. Three users are the admin and one per identity.

A query of the cache is watched alone because queries share nothing but the page
and the controls, which are all there. Two requests are the running fetch and an aborted
one, and two versions are before and after a change: a third of either repeats the
second. Of the eighteen kinds of queries the four differ in everything the model
tells apart: polled or not, on every page or on one, of one stack or of all, with or without
a `staleTime`. Two stacks are the one left and the one shown; two texts are one typed and one
written meanwhile. Two runs of a dialog are one closed and one opened after it, and three lines of two
halves with a window of two make chunks of less than a line and of more. Three sockets are one
that ends late, one it clobbers, and one beside them. Two sessions are one
in the cache and one in the cookie, or two sign-ins that overlap.

The properties that need the most steps: `DownBeforeGone` relates the removal of a file to
what an earlier command of the same request did to the containers; `LockHolds` needs
a failure of another key in a full table while a lock runs; `RateBounded` needs
two requests with out-of-date clock readings in an order that moves
`last_request_at` back; `ClearedForGood` needs a lookup, a push, a pull and a
clear in that order; `SignInIsLinked` needs two callbacks and a change of an email;
`ShownIsServed` needs two sign-ins around an answer about the first;
`SettledShowsOwn` needs a mutation, a move and an answer asked before the change;
`ForeignEnvFillsGap` a load, a move, a second load, a save and another writer in between.

Deadlock is checked where the system never stops: in the stack, limiter, image and account
runs, and in that of the session. The stream, the bounded clock of `ApiKeyLimit` once the key is deleted, and the bounded texts,
runs, sockets and versions of the client end; their configurations say `CHECK_DEADLOCK FALSE`.

Fairness. `ComposeStream`: goroutines that can run are scheduled and commands end once
their output is written or they are killed (weak fairness). A channel serves blocked
senders first in, first out, so a sender that waits while the caller keeps receiving is
served although heartbeats and the other pipe compete (strong fairness of the receives).
Ticks, disconnects and failing writes are not fair; a client is assumed to accept or to
refuse each write in the end. `WebQueries`: the timer of a polled query goes on, which is what
`refetchInterval` does while the window is in front; a request that is made again and again is
answered some time and its answer arrives (strong fairness of `Answer` and `Arrive`, since
each single one may be aborted or fail); mutations, moves and focus are not fair, and
`PollsCatchUp` is about users who let the page be. `ActionDialog`: the event loop goes on reading and
looping, a command begins and ends, as `CallerReturns` of `ComposeStream` shows but for a clogged
process. `StackLogs`: messages arrive, a broken connection is noticed by a read, and a cancelled
stream ends, because `StreamStackLogs` selects on its context; that a running stream ends by itself is
not assumed. `BrowserSession`: requests are answered as in `WebQueries`, and React runs the `Navigate` that the
sign-in page has rendered (weak fairness of `Bounce`).

## 4. Where the code and its documentation disagree

| Run | Statement | What the code does |
|---|---|---|
| `images_badge` | "When a newer image is available [...] an **Update** badge" (`image-updates.mdx:5`) | an old answer stored after an update shows the badge on the newest image |

More of this kind was met while modelling, without a run of its own:

- "stack already exists" (`internal/server/api/stacks.go:225`) is not said of names that begin with `_`: they can be
  created but are not listed (`internal/docker/stacks.go:81`), and creating one again overwrites its compose file.
  `Stacks` has the behaviour for the names in `Hidden`, which `CreateKeepsFiles` excepts.
- `webhooks.mdx:22` says that a redeploy of a stack with no running service is a no-op. A running stack with an
  upper-case letter in its name is skipped too: compose labels its containers in lower case
  (`internal/docker/containers.go:26`). `Stacks` has the behaviour for the names in `Mixed`.
- `webhooks.mdx:53` speaks of 100 requests per minute. The count restarts only after a minute without
  an accepted request (`internal/db/queries/api_keys.sql:16`), so a slow steady client is refused too.
- `installation.mdx:41` says to sign in with the default password. A start that stops inside `Seed` leaves an
  admin without one (`internal/db/seed.go:43`).
- A stack named `drift` or `updates` can be created, but its URL is that of the list of drifts or updates
  (`registerStacks`, and the keys of the generated client).
- `ContainersTable` never hands the name of the stack to its actions (`web/src/components/containers/table.tsx:166`),
  so that the branch of `ContainerActions` that refreshes the stack's own queries is never taken; the polls of
  the services tab hide it.

## 5. Proofs

All theorems hold for every value of the constants that satisfies the named assumptions
in the modules. Each safety proof has the same shape: an inductive invariant
`IInv` with `Init => IInv` and `IInv /\ [Next]_vars => IInv'`, one lemma or step per
action, and `IInv` implies the property; an action property is proved from `IInv` and the
step.

- `ComposeStreamProofs`: types, `NoSendOnClosed`, `ExitStatusReady`, `NoLineLost`, and that the stream
  implements `StreamContract`. The invariant ties the control points together: the waiter
  is past its barrier only when all readers are done, the owner closes only when the waiter is
  done, and each pipe's delivered, scanned and written lines agree with where its
  reader stands.
- `StacksProofs`: types, `DownBeforeGone`, `RenameLands`, `CreateKeepsFiles`, `RedeployScope`. `Exclusive`: a name in
  the claims of two requests is in `overlap`. `Shape`: which control points, names and files a
  request of each operation can have. `Knows`: what a request that is alone on its
  names may conclude from its own earlier steps, for instance that after "down" the declared
  services have no container.
- `LimiterProofs`, of `BruteLimiter`: types (the table's bound), `UnlockedHasAttempts`, `AttemptsBounded`, `LockHolds`, `LockEarned`,
  `UncountedOnlyWhenFull`.
  `UnlockedHasAttempts` is not inductive, since a lock may end at the next tick; the invariant
  counts the failures that will still matter at the later of now and the end of the lock,
  and says that no failure lies in the future. It needs `Lockout >= Window`; the code
  uses the same 15 minutes for both. `AttemptsBounded` is inductive beside it: a check is passed only with
  an attempt left, and a failure adds one while its request stops waiting; this needs that the requests
  in progress are finitely many. `LockEarned` adds that failures are in the order of time, so that the
  prefix which `prune` drops is exactly what lies before the window.
- `LimiterProofs`, of `ApiKeyLimit`: types, `RateBounded`, `RefusalEnds`. `RateBounded` says nothing of what the next
  request will find, so `KInv` adds what the row stands for: its count is at least the number of requests
  let through in the last `KeyWindow - Delay`, and its time lies at most `Delay` before each of them. A reading
  that finds the window over is itself late by at most `Delay`, so nothing was let through in the shortened window and the
  count may start at 1. The windows in the bound and in `RefusalEnds` differ by just this delay.
- `ImageUpdatesProofs`: types, `AnswerFresh`, `ClearedForGood`. The invariant relates the age of the entry, of
  the answers on their way and of the last answers to how long ago their digest was
  replaced.
- `StackEditorProofs`: types, `ComposeIsOwn`, `TypingKept`, `ForeignEnvFillsGap`. The invariant says that each cached and each
  travelling answer has the compose text of its own stack, that the editor agrees with the stack shown
  once its answer is there, and that the `.env` of a save is its stack's own, or was not taken over
  because the page had found none.
- `StreamViewProofs`, of `ActionDialog`: types, `DoneMeansOver`, `LinesOfOneRun`, `AllShown`. The invariant says that a run which
  began alone is the only active one of its component until the next, that `stopRef` and `running` are then
  its own, and that the lines taken, read and sent of every run are in order.
- `StreamViewProofs`, of `StackLogs`: types (the button says Stop exactly while there is a socket to stop) and
  `StoppedShowsNothing`. `LInv` adds three facts. `Unmade`: a socket that was not made yet has no past. `Protocol`: the server knows nothing of a socket
  before it is open, "init" comes first and once, and nothing follows "end" or "error". `Accounted`: a live
  socket of the mounted tab is the one in `wsRef`, or was taken from it by the end of another, or has
  nothing more to say. The last is what the property lacks to be inductive: a stopped tab shows
  nothing new because each of its sockets is accounted for.
- `WebClientProofs`, of `WebQueries`: types, `NeverBack`, `SettledShowsOwn`. The invariant says that the request a fetch waits for
  was asked no earlier than the data of the entry was. A request is asked when the fetch starts,
  and a fetch starts only without another one or in its place: all ways in which the library
  is used reduce to one lemma (`BecomesStep`). `SettledShowsOwn` has two halves. One is about the tables of `WebPages`, for any
  stacks (`ControlsRefresh`): whatever the server changes for a control, each query computed from it is refreshed by the
  handler, polled by some page, or in `LeftStale`. `Readers` says which queries a change can reach; then the controls are
  gone through page by page, those of a page that has many through `ComposeRefreshes` and `PlainRefreshes`.
  The other half carries this through time: a mutation under way that owes a refresh has one, also after its handler was
  bound to another stack (`Owing`); the answer on its way to the entry contains what is owed (`Coming`);
  so does an entry that is not marked invalid (`Shown`).
- `WebClientProofs`, of `BrowserSession`: types, `SignedOutStaysOut`, `ShownIsServed`, `SignInLands`. `BInv` adds: while the user is out, no
  request under way can bring a session (`Away`); unless signs have crossed, what is shown, and what the running fetch will
  bring, is the session of the cookie, or that one has ended (`Straight`); a sign-in that crosses nothing starts with
  nobody shown (`AloneShown`); a page that is due is on its way and its fetch finds a session (`OnItsWay`);
  the session of a served sign-in is nobody else's (`Fresh`). The last is what the others rest on when two forms are answered at once.
- `AccountsProofs`: types (with the UNIQUE constraints), `SignInIsLinked`, `OneAdmin`. The invariant
  adds which step of `Seed` goes with which table.

`LimiterProofs`, `StreamViewProofs` and `WebClientProofs` extend two components each. That is why what every
component has bears a prefix in the second of them (`KeyInit`, `LogsTypeOK`, `SessionSpec`), and why its actions, constants and variables
have names that the first does not use.

Planning two of these proofs showed a mistake in each of the models. `SameKind` of `WebQueries` was empty when there are no stacks, so that a
mutation did not refresh its own query there: `SettledShowsOwn` would have failed, of the model and
not of the code, for `Names = {}`, which no run had tried. `Submit` of `BrowserSession` left the outcome of the
sign-in before in the record of the new one.

Every invariant that a run checks is a theorem too. Of a component that `EXTENDS` brings into its proofs the types are a theorem and
no run repeats them; `KeyTypeOK`, `LogsTypeOK` and `SessionTypeOK`, which say more than types, are both.

Only model-checked: liveness (`CallerReturns`, `GoroutinesEnd`, `PollsCatchUp`, `RunEnds`, `LeftStreamsEnd`, `NavigationEnds`),
which is out of the provers' reach.

## 6. Not modelled

- On the server: compose validation and the handlers that only read, beyond what their answers
  depend on (`Reads` of `WebPages`); the rules from containers to a status and the fan-out over them,
  which keep no state between requests; statistics and the cron jobs, each one call.
- Reset tokens, passkey challenges and profile updates: rows that one statement writes or
  deletes. What two requests at once do to them is listed with the hazards; it is what
  the two would do one after the other, or the last write wins.
- A second `init` on one WebSocket connection: the page never sends one. The terminal and the exec behind
  it: bytes copied between a widget and a hijacked connection. The goroutines of
  `internal/docker/logs.go` have the shape of those of `ComposeStream`.
- The unlocked map write of `CheckImagesStale`: a data race whose only property would be that the lock is
  missing at that line.
- In the client: what the sign-in forms check of their fields, the two requests of a passkey, signing out in the
  cache entries other than the session's (which it clears alike), the checks of a name while it is typed, `enabled` of the stale
  marks (asked once the images are there, which delays the first request only), theme,
  tables, menus and every other matter of presentation.
- The protocols of OIDC and WebAuthn, hashing, signing of cookies, react-query and react: they are
  libraries, modelled only from their use.
- Docker itself beyond what section 2 says; containers that users start or stop by other
  means than Dockstack; two names that differ only in case (compose gives both one project).

## 7. Order of the work

The compose stream and the stacks came first, since a mistake there loses containers or files or stops
the server; then the limiters, the digest cache and the accounts; then the client from
its cache outwards: the queries, the editor, the dialog, the logs, the session. What would come next
is a composition of `Stacks` and `ImageUpdates`, where the pulls of one are the pulls of the other, and abstract
specifications, beside `StreamContract`, that the logs view and the session can be shown to implement.
