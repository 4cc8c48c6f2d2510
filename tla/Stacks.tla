------------------------------- MODULE Stacks -------------------------------
(***************************************************************************)
(* The life of the stacks: the request handlers of                         *)
(* internal/server/api/stacks.go over the stack directories and the        *)
(* containers of their compose projects (internal/docker/stacks.go).       *)
(*                                                                         *)
(* A handler holds no lock, so other handlers' steps fall between its own: *)
(* one action per check, file operation, start and end of a compose        *)
(* command.  A request that its first check rejects leaves no trace and    *)
(* has no action.  Directories change only through dockstack, containers   *)
(* only through compose commands, and no two names differ only in case.    *)
(***************************************************************************)
EXTENDS FiniteSets

CONSTANTS
  Names,       \* stack names that pass stackNameRe
  Hidden,      \* those that begin with "_", which ListStacks leaves out
  Mixed,       \* those with an upper-case letter: compose lowers its label
  Skip,        \* REDEPLOY_SKIP
  Services,
  Contents,    \* well-formed compose files
  ServicesOf,  \* ServicesOf[f]: services that file f declares
  Deps,        \* Deps[s]: services that compose starts before s
  Template,    \* the starter compose.yaml of a new stack
  Torn,        \* a compose file whose write was cut short
  Clients,     \* requests in progress at once
  Ops          \* operations the clients call

Actions == {"up", "stop", "down", "restart", "pull", "update"}
Redeploys == {"redeploy", "redeployAll"}
AllOps == Actions \union Redeploys
            \union {"create", "createEnv", "save", "rename", "destroy"}

ASSUME NamesAssumption ==
  Hidden \subseteq Names /\ Mixed \subseteq Names /\ Skip \subseteq Names
ASSUME FilesAssumption ==
  /\ Template \in Contents
  /\ Torn \notin Contents
  /\ {"absent", "bare", "none"} \intersect (Contents \union {Torn}) = {}
  /\ ServicesOf \in [Contents -> SUBSET Services]
  /\ Deps \in [Services -> SUBSET Services]
ASSUME OpsAssumption == Ops \subseteq AllOps

VARIABLES
  dir,     \* dir[n]: compose file of stack n, "bare" without, or "absent"
  box,     \* box[n][s]: the container of service s in project n
  req,     \* req[c]: the request of client c, for the clients that have one
  overlap  \* history: names two requests have worked on at the same time

vars == <<dir, box, req, overlap>>

Files == Contents \union {Torn}
Container == {"none", "running", "exited"}
Verbs == {"up", "stop", "down", "restart", "pull"}

(***************************************************************************)
(* A request: operation, stack, new name (rename, otherwise the stack),    *)
(* control point, services to redeploy, stacks still to visit              *)
(* (redeployAll), and a file: at "write" the one to write, at a verb the   *)
(* one its compose command has read, "none" before the command starts.     *)
(***************************************************************************)
Request ==
  [op : AllOps, name : Names, to : Names, file : Files \union {"none"},
   at : Verbs \union {"checkNew", "mkdir", "write", "move", "remove", "list"},
   svcs : SUBSET Services, left : SUBSET Names]

Busy == DOMAIN req

\* Types, and that a redeploy never runs a command for no service: to compose
\* that would mean all of them (stacks.go:271).
TypeOK ==
  /\ dir \in [Names -> Files \union {"absent", "bare"}]
  /\ box \in [Names -> [Services -> Container]]
  /\ Busy \subseteq Clients
  /\ \A c \in Busy :
       /\ req[c] \in Request
       /\ req[c].op \in Redeploys /\ req[c].at \in Verbs => req[c].svcs # {}
  /\ req = [c \in Busy |-> req[c]]
  /\ overlap \subseteq Names

\* A fresh STACKS_DIR.
Init ==
  /\ dir = [n \in Names |-> "absent"]
  /\ box = [n \in Names |-> [s \in Services |-> "none"]]
  /\ req = [c \in {} |-> {}]
  /\ overlap = {}

-----------------------------------------------------------------------------
(* Progress of a request.                                                  *)

Claim(r) == {r.name, r.to}

Becomes(c, r) ==
  /\ req' = [d \in Busy \union {c} |-> IF d = c THEN r ELSE req[d]]
  /\ overlap' = overlap \union
       UNION {Claim(r) \intersect Claim(req[d]) : d \in Busy \ {c}}

Moves(c, at) == Becomes(c, [req[c] EXCEPT !.at = at, !.file = "none"])

Leave(c) ==
  /\ req' = [d \in Busy \ {c} |-> req[d]]
  /\ UNCHANGED overlap

\* The next stack of redeployAll; the other operations end.
Done(c) ==
  IF req[c].left = {}
  THEN Leave(c)
  ELSE \E n \in req[c].left :
         Becomes(c, [req[c] EXCEPT !.name = n, !.to = n, !.at = "list",
                                   !.file = "none", !.svcs = {},
                                   !.left = @ \ {n}])

New(op, n, at) ==
  [op |-> op, name |-> n, to |-> n, file |-> "none", at |-> at, svcs |-> {},
   left |-> {}]

Listed == {n \in Names \ Hidden : dir[n] # "absent"}

-----------------------------------------------------------------------------
(* Arrival of a request, up to and including its first check.              *)

\* Mutant: handleStackCreate without its StackExists check.
CreateUnchecked(c, n) ==
  Becomes(c, New("create", n, "mkdir")) /\ UNCHANGED <<dir, box>>

Create(c, n) ==
  /\ n \notin Listed
  /\ Becomes(c, New("create", n, "mkdir"))
  /\ UNCHANGED <<dir, box>>

CreateEnv(c, n) ==
  /\ Becomes(c, New("createEnv", n, "mkdir"))
  /\ UNCHANGED <<dir, box>>

Save(c, n, f) ==
  /\ Becomes(c, [New("save", n, "write") EXCEPT !.file = f])
  /\ UNCHANGED <<dir, box>>

Rename(c, n, m) ==
  /\ n # m
  /\ n \in Listed
  /\ Becomes(c, [New("rename", n, "checkNew") EXCEPT !.to = m])
  /\ UNCHANGED <<dir, box>>

Destroy(c, n) ==
  /\ Becomes(c, New("destroy", n, "down"))
  /\ UNCHANGED <<dir, box>>

Action(c, op, n) ==
  /\ Becomes(c, New(op, n, IF op = "update" THEN "pull" ELSE op))
  /\ UNCHANGED <<dir, box>>

\* Mutant: the redeploy of one stack ignores REDEPLOY_SKIP.
RedeploySkipped(c, n) ==
  /\ n \in Listed
  /\ Becomes(c, New("redeploy", n, "list"))
  /\ UNCHANGED <<dir, box>>

Redeploy(c, n) ==
  /\ n \in Listed \ Skip
  /\ Becomes(c, New("redeploy", n, "list"))
  /\ UNCHANGED <<dir, box>>

RedeployAll(c, n) ==
  /\ n \in Listed \ Skip
  /\ Becomes(c, [New("redeployAll", n, "list") EXCEPT
                   !.left = Listed \ (Skip \union {n})])
  /\ UNCHANGED <<dir, box>>

Arrive(c) ==
  \E op \in Ops, n \in Names :
    \/ op = "create" /\ Create(c, n)
    \/ op = "createEnv" /\ CreateEnv(c, n)
    \/ op = "save" /\ \E f \in Contents : Save(c, n, f)
    \/ op = "rename" /\ \E m \in Names : Rename(c, n, m)
    \/ op = "destroy" /\ Destroy(c, n)
    \/ op \in Actions /\ Action(c, op, n)
    \/ op = "redeploy" /\ Redeploy(c, n)
    \/ op = "redeployAll" /\ RedeployAll(c, n)

-----------------------------------------------------------------------------
(* Steps on the stack directories.                                         *)

\* os.MkdirAll keeps a directory that exists.  The .env that createEnv then
\* writes is no part of the state.
Mkdir(c) ==
  /\ req[c].at = "mkdir"
  /\ dir' = [dir EXCEPT ![req[c].name] = IF @ = "absent" THEN "bare" ELSE @]
  /\ IF req[c].op = "create"
     THEN Becomes(c, [req[c] EXCEPT !.at = "write", !.file = Template])
     ELSE Leave(c)
  /\ UNCHANGED box

\* os.WriteFile needs the directory.
WriteOK(c) ==
  /\ req[c].at = "write"
  /\ dir[req[c].name] # "absent"
  /\ dir' = [dir EXCEPT ![req[c].name] = req[c].file]
  /\ Leave(c)
  /\ UNCHANGED box

\* A write that fails may leave the old file or a torn one.  A save under a
\* name that FindComposePath does not pick also leaves the compose file alone.
WriteFails(c) ==
  /\ req[c].at = "write"
  /\ \E f \in {dir[req[c].name], Torn} :
       /\ f = Torn => dir[req[c].name] # "absent"
       /\ dir' = [dir EXCEPT ![req[c].name] = f]
  /\ Leave(c)
  /\ UNCHANGED box

\* Mutant: the rename moves the directory without bringing the stack down.
CheckNewNoDown(c) ==
  /\ req[c].at = "checkNew"
  /\ req[c].to \notin Listed
  /\ Moves(c, "move")
  /\ UNCHANGED <<dir, box>>

CheckNew(c) ==
  /\ req[c].at = "checkNew"
  /\ req[c].to \notin Listed
  /\ Moves(c, IF dir[req[c].name] \in Files THEN "down" ELSE "move")
  /\ UNCHANGED <<dir, box>>

\* os.Rename refuses a directory that exists.
Move(c) ==
  /\ req[c].at = "move"
  /\ dir[req[c].name] # "absent"
  /\ dir[req[c].to] = "absent"
  /\ dir' = [dir EXCEPT ![req[c].to] = dir[req[c].name],
                        ![req[c].name] = "absent"]
  /\ IF dir[req[c].name] \in Files THEN Moves(c, "up") ELSE Leave(c)
  /\ UNCHANGED box

\* os.RemoveAll removes everything, or stops half way.
Remove(c) ==
  /\ req[c].at = "remove"
  /\ \E f \in {dir[req[c].name], "bare", "absent"} :
       /\ f = "bare" => dir[req[c].name] # "absent"
       /\ dir' = [dir EXCEPT ![req[c].name] = f]
  /\ Leave(c)
  /\ UNCHANGED box

-----------------------------------------------------------------------------
(* Steps on the containers.                                                *)

Running(n) == {s \in Services : box[n][s] = "running"}

\* GetRunningServices: it filters on the name as it was given.
Seen(n) == IF n \in Mixed THEN {} ELSE Running(n)

List(c) ==
  /\ req[c].at = "list"
  /\ IF Seen(req[c].name) = {}
     THEN Done(c)
     ELSE Becomes(c, [req[c] EXCEPT
            !.svcs = Seen(req[c].name),
            !.at = IF req[c].op = "redeploy" THEN "pull" ELSE "up"])
  /\ UNCHANGED <<dir, box>>

\* The project a compose command works on: a rename brings up the new one.
Target(r) == IF r.op = "rename" /\ r.at = "up" THEN r.to ELSE r.name

InCompose(c) == req[c].at \in Verbs /\ req[c].file # "none"

\* composeCommand finds the compose file and the command reads it.
ComposeStart(c) ==
  /\ req[c].at \in Verbs
  /\ req[c].file = "none"
  /\ dir[Target(req[c])] \in Files
  /\ Becomes(c, [req[c] EXCEPT !.file = dir[Target(req[c])]])
  /\ UNCHANGED <<dir, box>>

\* There is no compose file: the command is not started.
ComposeMissing(c) ==
  /\ req[c].at \in Verbs
  /\ req[c].file = "none"
  /\ dir[Target(req[c])] \notin Files
  /\ Done(c)
  /\ UNCHANGED <<dir, box>>

\* Services the command of r acts on.  Only "up" creates containers.
Touched(r) ==
  LET declared == ServicesOf[r.file] IN
  CASE r.at = "pull" -> {}
    [] r.at = "up" /\ r.svcs = {} -> declared
    [] r.at = "up" /\ r.svcs # {} ->
         declared \intersect (r.svcs \union UNION {Deps[s] : s \in r.svcs})
    [] OTHER -> {s \in declared : box[r.name][s] # "none"}

\* --remove-orphans: containers of services the file does not declare.
Orphans(r) ==
  IF r.at = "up" /\ r.op \notin Redeploys
  THEN Services \ ServicesOf[r.file]
  ELSE {}

Outcome(verb) ==
  CASE verb = "down" -> "none"
    [] verb = "stop" -> "exited"
    [] OTHER -> "running"

\* The containers after the command of r.
After(r) ==
  [s \in Services |->
     CASE s \in Orphans(r) -> "none"
       [] s \in Touched(r) -> Outcome(r.at)
       [] OTHER -> box[Target(r)][s]]

\* The containers where the command of r may stop half way: a container may
\* already be stopped, or created and not yet started.
Midway(r) ==
  {b \in [Services -> Container] : \A s \in Services :
     \/ b[s] \in {box[Target(r)][s], After(r)[s]}
     \/ b[s] = "exited" /\ s \in Touched(r) \union Orphans(r)}

\* What follows a command of c that succeeded.
Proceed(c) ==
  CASE req[c].op = "rename" /\ req[c].at = "down" -> Moves(c, "move")
    [] req[c].op = "destroy" -> Moves(c, "remove")
    [] req[c].op \in {"update", "redeploy"} /\ req[c].at = "pull" ->
         Moves(c, "up")
    [] OTHER -> Done(c)

\* "up <services>" refuses a service that the file no longer declares.
ComposeOK(c) ==
  /\ InCompose(c)
  /\ req[c].file \in Contents
  /\ req[c].svcs \subseteq ServicesOf[req[c].file]
  /\ box' = [box EXCEPT ![Target(req[c])] = After(req[c])]
  /\ Proceed(c)
  /\ UNCHANGED dir

\* Mutant: the destroy goes on after a "docker compose down" that failed.
ComposeFailsUnheeded(c) ==
  /\ InCompose(c)
  /\ IF req[c].file \in Contents
     THEN \E b \in Midway(req[c]) :
            box' = [box EXCEPT ![Target(req[c])] = b]
     ELSE UNCHANGED box
  /\ IF req[c].op = "destroy" THEN Moves(c, "remove") ELSE Done(c)
  /\ UNCHANGED dir

\* An error, or a client that disconnected and had the command killed.  Only
\* redeployAll goes on.
ComposeFails(c) ==
  /\ InCompose(c)
  /\ IF req[c].file \in Contents
     THEN \E b \in Midway(req[c]) :
            box' = [box EXCEPT ![Target(req[c])] = b]
     ELSE UNCHANGED box
  /\ Done(c) \/ Leave(c)
  /\ UNCHANGED dir

\* Any other step fails, or the server stops: it is killed with every command
\* it runs, which is each request failing in turn.
Fails(c) ==
  /\ ~InCompose(c)
  /\ Leave(c)
  /\ UNCHANGED <<dir, box>>

Step(c) ==
  \/ Mkdir(c)
  \/ WriteOK(c)
  \/ WriteFails(c)
  \/ CheckNew(c)
  \/ Move(c)
  \/ Remove(c)
  \/ List(c)
  \/ ComposeStart(c)
  \/ ComposeMissing(c)
  \/ ComposeOK(c)
  \/ ComposeFails(c)
  \/ Fails(c)

Next ==
  \/ \E c \in Clients \ Busy : Arrive(c)
  \/ \E c \in Busy : Step(c)

Spec == Init /\ [][Next]_vars

-----------------------------------------------------------------------------
(* Properties.  A stack in overlap is one that two requests have worked on *)
(* at the same time; nothing in the code orders such requests.             *)

\* A compose file disappears from a stack only after "docker compose down"
\* has removed the containers of every service it declares: whoever deletes
\* or renames a directory first loses no container to it, whichever steps
\* failed or were retried before (api/stacks.go:289-300, 317-325).
DownBeforeGone ==
  [][\A n \in Names \ overlap' :
       dir[n] \in Files /\ dir'[n] \notin Files =>
         /\ dir[n] \in Contents
         /\ \A s \in ServicesOf[dir[n]] : box[n][s] = "none"]_vars

\* A rename that succeeds leaves exactly the services of the stack running
\* under the new name, none of them under the old one, and no directory
\* behind (api/stacks.go:260-311).
RenameLands ==
  [][\A c \in Busy :
       LET r == req[c] IN
       /\ r.op = "rename" /\ r.at = "up" /\ ComposeOK(c)
       /\ Claim(r) \intersect overlap' = {}
       => /\ dir[r.name] = "absent"
          /\ dir[r.to] = r.file
          /\ \A s \in Services :
               box'[r.to][s] =
                 IF s \in ServicesOf[r.file] THEN "running" ELSE "none"
          /\ \A s \in ServicesOf[r.file] : box[r.name][s] = "none"]_vars

\* handleStackCreate writes its template over no compose file, even when the
\* stack came to exist after the check, unless another request interfered.
\* Hidden stacks are excepted: the check does not see them.
CreateKeepsFiles ==
  [][\A c \in Busy :
       LET n == req[c].name IN
       req[c].op = "create" /\ WriteOK(c) /\ n \notin Hidden \union overlap'
         => dir[n] \notin Files]_vars

\* A redeploy, of one stack or of all, starts nothing in a stack that has no
\* running service and nothing in an excluded stack; elsewhere it starts only
\* what was running, or a service that one of those depends on
\* (stacks.go:265-283, 552-576; wiki webhooks.mdx, "Only running services are
\* targeted").
RedeployScope ==
  [][\A c \in Busy :
       LET n == req[c].name IN
       req[c].op \in Redeploys /\ box' # box /\ n \notin overlap' =>
         /\ n \notin Skip
         /\ \A s \in Services :
              box[n][s] # "running" /\ box'[n][s] = "running"
                => \E t \in req[c].svcs : s \in Deps[t] /\ box[n][t] = "running"]_vars
=============================================================================
