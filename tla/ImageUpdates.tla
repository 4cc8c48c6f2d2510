---------------------------- MODULE ImageUpdates ----------------------------
(***************************************************************************)
(* The Update badge of one image tag.  A check (containerStale of          *)
(* internal/docker/stacks.go, or a goroutine of CheckImagesStale of        *)
(* system.go) compares the image a container runs with the tag's digest in *)
(* the registry, remembered for an hour by RemoteDigestCached (client.go). *)
(* Pulls and updates (internal/server/api/stacks.go) clear that cache when *)
(* they succeed, whatever checks are doing.                                *)
(*                                                                         *)
(* A digest is the number of pushes before it.  Time is kept as ages, so   *)
(* that the model has no last instant.                                     *)
(***************************************************************************)
EXTENDS Integers

CONSTANTS
  Checks,    \* lookups in progress at once
  Requests,  \* stack actions in progress at once
  TTL,       \* remoteDigestTTL
  Slack,     \* from the registry's answer to its storing, the timeout of
             \* httpClient at most
  MaxPushes  \* bound on the pushes to the tag

ASSUME TTLAssumption == TTL \in Nat \ {0}
ASSUME SlackAssumption == Slack \in Nat
ASSUME MaxPushesAssumption == MaxPushes \in Nat

VARIABLES
  remote,   \* the tag's digest in the registry
  pulled,   \* its digest on the host
  running,  \* the digest of the image the container runs
  cache,    \* the entry of c.digests, or NoEntry
  check,    \* check[k]: where lookup k is and what it has read
  shown,    \* shown[k]: the digest lookup k answered, Unknown or Pending
  request,  \* request[r]: the next step of stack action r
  old,      \* history: old[d], time since d was replaced, up to Ancient
  cleared,  \* history: what had been pulled when the cache was last cleared
  late,     \* history: some lookup then held an older answer
  settled   \* history: the cache was cleared since the last push

vars == <<remote, pulled, running, cache, check, shown, request, old, cleared,
          late, settled>>
histories == <<old, cleared, late, settled>>

Ancient == TTL + Slack
Digests == 0 .. MaxPushes
Unknown == -1
Pending == -2
NoEntry == [digest |-> Unknown, age |-> 0]
Idle == [pc |-> "idle", ran |-> 0, calm |-> FALSE, digest |-> 0, age |-> 0]

Lookups == [pc : {"idle", "listed", "asking", "told"}, ran : Digests,
            calm : BOOLEAN, digest : Digests, age : 0 .. Slack]

Older(age) == IF age < Ancient THEN age + 1 ELSE age

\* Types, the order of the digests, and the ages: an answer of the registry
\* was true when it was read, and is stored within Slack of that.
TypeOK ==
  /\ remote \in Digests
  /\ pulled \in 0 .. remote
  /\ running \in 0 .. pulled
  /\ cache = NoEntry \/ cache \in [digest : 0 .. remote, age : 0 .. TTL]
  /\ check \in [Checks -> Lookups]
  /\ shown \in [Checks -> Digests \union {Unknown, Pending}]
  /\ request \in [Requests -> {"idle", "up", "clear"}]
  /\ old \in [Digests -> 0 .. Ancient]
  /\ cleared \in 0 .. pulled
  /\ late \in BOOLEAN
  /\ settled \in BOOLEAN

Init ==
  /\ remote = 0
  /\ pulled = 0
  /\ running = 0
  /\ cache = NoEntry
  /\ check = [k \in Checks |-> Idle]
  /\ shown = [k \in Checks |-> Unknown]
  /\ request = [r \in Requests |-> "idle"]
  /\ old = [d \in Digests |-> 0]
  /\ cleared = 0
  /\ late = FALSE
  /\ settled = FALSE

-----------------------------------------------------------------------------
(* A lookup.                                                               *)

\* The containers and the images are listed.
List(k) ==
  /\ check[k].pc = "idle"
  /\ check' = [check EXCEPT ![k] = [Idle EXCEPT !.pc = "listed",
                                                !.ran = running,
                                                !.calm = settled]]
  /\ shown' = [shown EXCEPT ![k] = Pending]
  /\ UNCHANGED <<remote, pulled, running, cache, request, histories>>

\* Mutant: <= for <.
FreshTooLong == cache # NoEntry /\ cache.age <= TTL

Fresh == cache # NoEntry /\ cache.age < TTL

Hit(k) ==
  /\ check[k].pc = "listed"
  /\ Fresh
  /\ check' = [check EXCEPT ![k] = Idle]
  /\ shown' = [shown EXCEPT ![k] = cache.digest]
  /\ UNCHANGED <<remote, pulled, running, cache, request, histories>>

Miss(k) ==
  /\ check[k].pc = "listed"
  /\ ~Fresh
  /\ check' = [check EXCEPT ![k].pc = "asking"]
  /\ UNCHANGED <<remote, pulled, running, cache, shown, request, histories>>

\* The registry answers RemoteDigest.
Told(k) ==
  /\ check[k].pc = "asking"
  /\ check' = [check EXCEPT ![k].pc = "told", ![k].digest = remote,
                            ![k].age = 0]
  /\ UNCHANGED <<remote, pulled, running, cache, shown, request, histories>>

\* No answer, an error, a timeout, or the client of the check went away.
AskFails(k) ==
  /\ check[k].pc \in {"asking", "told"}
  /\ check' = [check EXCEPT ![k] = Idle]
  /\ shown' = [shown EXCEPT ![k] = Unknown]
  /\ UNCHANGED <<remote, pulled, running, cache, request, histories>>

Store(k) ==
  /\ check[k].pc = "told"
  /\ cache' = [digest |-> check[k].digest, age |-> 0]
  /\ check' = [check EXCEPT ![k] = Idle]
  /\ shown' = [shown EXCEPT ![k] = check[k].digest]
  /\ UNCHANGED <<remote, pulled, running, request, histories>>

-----------------------------------------------------------------------------
(* Stack actions: "pull", "update" and the redeploy webhook pull first.    *)

Pull(r, next) ==
  /\ request[r] = "idle"
  /\ pulled' = remote
  /\ request' = [request EXCEPT ![r] = next]
  /\ UNCHANGED <<remote, running, cache, check, shown, histories>>

\* Another image of the stack could not be pulled.
PullFails(r) ==
  /\ request[r] = "idle"
  /\ pulled' = remote
  /\ UNCHANGED <<remote, running, cache, check, shown, request, histories>>

Up(r) ==
  /\ request[r] = "up"
  /\ running' = pulled
  /\ request' = [request EXCEPT ![r] = "clear"]
  /\ UNCHANGED <<remote, pulled, cache, check, shown, histories>>

\* docker compose exits with an error, this container recreated or not.
UpFails(r) ==
  /\ request[r] = "up"
  /\ running' \in {running, pulled}
  /\ request' = [request EXCEPT ![r] = "idle"]
  /\ UNCHANGED <<remote, pulled, cache, check, shown, histories>>

\* The "up" action, which clears nothing.
PlainUp(r) ==
  /\ request[r] = "idle"
  /\ running' = pulled
  /\ UNCHANGED <<remote, pulled, cache, check, shown, request, histories>>

\* Mutant: the cache is not cleared.
ClearNothing(r) ==
  /\ request[r] = "clear"
  /\ request' = [request EXCEPT ![r] = "idle"]
  /\ cleared' = pulled
  /\ late' = \E k \in Checks : check[k].pc = "told" /\ check[k].digest < pulled
  /\ settled' = TRUE
  /\ UNCHANGED <<remote, pulled, running, cache, check, shown, old>>

\* InvalidateRemoteDigests.
Clear(r) ==
  /\ request[r] = "clear"
  /\ request' = [request EXCEPT ![r] = "idle"]
  /\ cache' = NoEntry
  /\ cleared' = pulled
  /\ late' = \E k \in Checks : check[k].pc = "told" /\ check[k].digest < pulled
  /\ settled' = TRUE
  /\ UNCHANGED <<remote, pulled, running, check, shown, old>>

-----------------------------------------------------------------------------
(* The world.                                                              *)

Push ==
  /\ remote < MaxPushes
  /\ remote' = remote + 1
  /\ settled' = FALSE
  /\ UNCHANGED <<pulled, running, cache, check, shown, request, old, cleared,
                 late>>

Tick ==
  /\ \A k \in Checks : check[k].pc = "told" => check[k].age < Slack
  /\ cache' = IF cache # NoEntry /\ cache.age < TTL
                THEN [cache EXCEPT !.age = @ + 1] ELSE cache
  /\ check' = [k \in Checks |-> IF check[k].pc = "told"
                                  THEN [check[k] EXCEPT !.age = @ + 1]
                                  ELSE check[k]]
  /\ old' = [d \in Digests |-> IF d < remote THEN Older(old[d]) ELSE old[d]]
  /\ UNCHANGED <<remote, pulled, running, shown, request, cleared, late,
                 settled>>

Next ==
  \/ \E k \in Checks : \/ List(k)
                       \/ Hit(k)
                       \/ Miss(k)
                       \/ Told(k)
                       \/ AskFails(k)
                       \/ Store(k)
  \/ \E r \in Requests : \/ \E next \in {"up", "clear"} : Pull(r, next)
                         \/ PullFails(r)
                         \/ Up(r)
                         \/ UpFails(r)
                         \/ PlainUp(r)
                         \/ Clear(r)
  \/ Push
  \/ Tick

Spec == Init /\ [][Next]_vars

-----------------------------------------------------------------------------
(* Properties.                                                             *)

Answered(k) == shown[k] = Pending /\ shown'[k] \in Digests

\* staleFromDigest: what the badge says.
Outdated(k) == shown'[k] # check[k].ran

\* "The check is cached server-side for one hour per tag" (image-updates.mdx):
\* an answer is a digest the registry had within the last hour, a request's
\* timeout apart, however lookups, refills and clearings of the cache overlap.
AnswerFresh ==
  [][\A k \in Checks : Answered(k) => old[shown'[k]] < TTL + Slack]_vars

\* When the cache was cleared after a pull, nothing older than the pull is in
\* it again, unless a lookup was holding an older answer at that moment.
ClearedForGood ==
  cache # NoEntry /\ ~late => cache.digest >= cleared

\* Refuted: "When a newer image is available, [...] show an Update badge"
\* (image-updates.mdx:5), after an update that InvalidateRemoteDigests made
\* visible: a check that began after it, of a container that runs the newest
\* image, answers that there is a newer one.
BadgeMeansNewer ==
  [][\A k \in Checks :
       Answered(k) /\ check[k].calm /\ settled /\ check[k].ran = remote
         => ~Outdated(k)]_vars
=============================================================================
