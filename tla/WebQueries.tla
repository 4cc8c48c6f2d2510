----------------------------- MODULE WebQueries -----------------------------
(***************************************************************************)
(* The query cache of the web client: one query of WebPages!Queries, key,  *)
(* watched while the user moves between pages and uses their controls.     *)
(* Queries share nothing but the page and the controls, so that one at a   *)
(* time is enough.  The data of an answer is the version of what the query *)
(* is computed from.                                                       *)
(*                                                                         *)
(* The library under the hooks, @tanstack/react-query with the defaults of *)
(* router.tsx, is modelled from its use: a mount fetches what is stale, a  *)
(* fetch that loses its last observer is aborted (the generated requests   *)
(* take its signal), an invalidation marks the entry and, where observed,  *)
(* replaces a running fetch unless it is the first one.                    *)
(***************************************************************************)
EXTENDS WebPages, Naturals, Sequences

CONSTANTS Watched,     \* the queries of interest
          Calls,       \* requests of the watched query on the wire at once
          NoCall,      \* not a request
          MaxVersion   \* bound on the changes of what it is computed from

ASSUME WatchedAssumption == Watched \subseteq Queries
ASSUME CallsAssumption == NoCall \notin Calls
ASSUME MaxVersionAssumption == MaxVersion \in Nat \ {0}

VARIABLES key,     \* the watched query
          page,    \* the page the user is on
          truth,   \* the server's version of the query's answer
          cache,   \* the cache entry: data, flags and the running fetch
          wire,    \* per request: on its way, or answered with a version
          op,      \* the mutation under way
          owed     \* the version the client's own mutations must be shown at

vars == <<key, page, truth, cache, wire, op, owed>>

None == 0
Versions == 1..MaxVersion
NoOp == [phase |-> "none"]

OnPage(p) == {o \in Observers[p] : o.key = key}
Observed == OnPage(page) # {}
Polled == \E o \in OnPage(page) : o.poll
Touches(c) == c.changes \intersect Reads[key] # {}

\* A mount, or a return to the window, is not content with this entry.
Stale(s, o) ==
  \/ s.data = None
  \/ s.invalid
  \/ o.keeps = "no"
  \/ o.keeps = "while" /\ s.aged

\* Types, and that a running fetch has its request and its observers.
TypeOK ==
  /\ key \in Watched
  /\ page \in Pages
  /\ truth \in Versions
  /\ cache \in [data : 0..MaxVersion, invalid : BOOLEAN, aged : BOOLEAN,
                call : Calls \union {NoCall}]
  /\ wire \in [Calls -> [at : {"idle", "asked", "answered"}, version : 0..MaxVersion]]
  /\ cache.call # NoCall => Observed /\ wire[cache.call].at # "idle"
  /\ op = NoOp \/ op.phase \in {"sent", "served", "leads"}
  /\ owed \in 0..truth

Init ==
  /\ key \in Watched
  /\ page = Page("home")
  /\ truth = 1
  /\ cache = [data |-> None, invalid |-> FALSE, aged |-> FALSE, call |-> NoCall]
  /\ wire = [c \in Calls |-> [at |-> "idle", version |-> None]]
  /\ op = NoOp
  /\ owed = None

-----------------------------------------------------------------------------
(* What the library does to an entry s, with c free for a new request.     *)

Fetch(s, c) == [s EXCEPT !.call = c]

Invalidated(s, c) ==
  LET marked == [s EXCEPT !.invalid = TRUE]
  IN  IF Observed /\ (s.data # None \/ s.call = NoCall)
      THEN Fetch(marked, c) ELSE marked

\* The observers of p that q does not have leave before those of q mount.
Moved(s, p, q, c) ==
  LET kept == IF OnPage(p) \intersect OnPage(q) # {}
              THEN s ELSE [s EXCEPT !.call = NoCall]
  IN  IF kept.call = NoCall /\ \E o \in OnPage(q) \ OnPage(p) : Stale(kept, o)
      THEN Fetch(kept, c) ELSE kept

\* The entry becomes one of those entries, the request of a new fetch leaves.
CacheBecomes(s(_)) ==
  \E c \in Calls :
    /\ wire[c].at = "idle"
    /\ cache' = s(c)
    /\ wire' = IF cache'.call = c
               THEN [wire EXCEPT ![c] = [at |-> "asked", version |-> None]]
               ELSE wire

PollUnlessFailed ==
  /\ Polled /\ cache.call = NoCall /\ ~cache.invalid
  /\ CacheBecomes(LAMBDA c : Fetch(cache, c))
  /\ UNCHANGED <<key, page, truth, op, owed>>

Poll ==
  /\ Polled /\ cache.call = NoCall
  /\ CacheBecomes(LAMBDA c : Fetch(cache, c))
  /\ UNCHANGED <<key, page, truth, op, owed>>

\* The window gets the focus back, or the network comes back.
Focus ==
  /\ cache.call = NoCall
  /\ \E o \in OnPage(page) : Stale(cache, o)
  /\ CacheBecomes(LAMBDA c : Fetch(cache, c))
  /\ UNCHANGED <<key, page, truth, op, owed>>

\* The staleTime of an observer passes.
Age ==
  /\ ~cache.aged /\ cache.data # None
  /\ \E o \in UNION {Observers[p] : p \in Pages} : o.key = key /\ o.keeps = "while"
  /\ cache' = [cache EXCEPT !.aged = TRUE]
  /\ UNCHANGED <<key, page, truth, wire, op, owed>>

\* An entry without observers is dropped after five minutes.
Collect ==
  /\ ~Observed /\ cache.call = NoCall /\ cache.data # None
  /\ cache' = [data |-> None, invalid |-> FALSE, aged |-> FALSE, call |-> NoCall]
  /\ UNCHANGED <<key, page, truth, wire, op, owed>>

-----------------------------------------------------------------------------
(* The requests.                                                           *)

Answer(c) ==
  /\ wire[c].at = "asked"
  /\ wire' = [wire EXCEPT ![c] = [at |-> "answered", version |-> truth]]
  /\ UNCHANGED <<key, page, truth, cache, op, owed>>

Forget(c) == wire' = [wire EXCEPT ![c] = [at |-> "idle", version |-> None]]

ArriveAny(c) ==
  /\ wire[c].at = "answered"
  /\ cache' = [data |-> wire[c].version, invalid |-> FALSE, aged |-> FALSE,
               call |-> NoCall]
  /\ Forget(c)
  /\ UNCHANGED <<key, page, truth, op, owed>>

\* The answer the running fetch waits for.
Arrive(c) ==
  /\ wire[c].at = "answered" /\ c = cache.call
  /\ cache' = [data |-> wire[c].version, invalid |-> FALSE, aged |-> FALSE,
               call |-> NoCall]
  /\ Forget(c)
  /\ UNCHANGED <<key, page, truth, op, owed>>

\* The end of an aborted request is nobody's.
Ignore(c) ==
  /\ wire[c].at # "idle" /\ c # cache.call
  /\ Forget(c)
  /\ UNCHANGED <<key, page, truth, cache, op, owed>>

\* An error, after the retries: the data stays.
Fail(c) ==
  /\ wire[c].at # "idle" /\ c = cache.call
  /\ cache' = [cache EXCEPT !.invalid = TRUE, !.call = NoCall]
  /\ Forget(c)
  /\ UNCHANGED <<key, page, truth, op, owed>>

-----------------------------------------------------------------------------
(* The user, and others.                                                   *)

\* The queries that differ from the watched one in the stack alone, and those
\* keys after the page of stack n became the page of m.
Rebound(keys, n, m) ==
  {IF Len(k.url) > 1 /\ k.url[2] = n THEN [k EXCEPT !.url[2] = m] ELSE k : k \in keys}
SameKind == {key} \union UNION {Rebound({key}, n, m) : n, m \in Names}

\* The handler of a control is made anew for the stack shown while the
\* component it belongs to stays: on the page, or on the tab of the page.
Host(c) ==
  CASE page.at # "stack" \/ SameKind = {key} -> "gone"
    [] c.rows # {} -> "tab"
    [] OTHER -> "page"

OpMoved(p, q) ==
  IF op = NoOp \/ op.host = "gone" THEN op
  ELSE IF q.at = "stack" /\ (op.host = "tab" => p.tab = q.tab)
       THEN [op EXCEPT !.refresh = Rebound(@, p.n, q.n)]
       ELSE [op EXCEPT !.host = "gone"]

Show(q) ==
  /\ CacheBecomes(LAMBDA c : Moved(cache, page, q, c))
  /\ page' = q

Goto(q) ==
  /\ q # page
  /\ Show(q)
  /\ op' = OpMoved(page, q)
  /\ UNCHANGED <<key, truth, owed>>

\* The queries that some page asks again every 1 to 60 seconds.  The list of
\* stacks is not among them: the sidebar of every page shows it, the home page
\* alone asks for it again.
Repeated ==
  {o.key : o \in {o \in UNION {Observers[p] : p \in Pages} : o.poll}} \ {getStacks}

\* What no handler refreshes although the mutation changed it: shown as it was
\* until the next mount or focus.
LeftStale ==
  LET Calls_of(cs) == {c.call : c \in cs}
      compose == Calls_of(UNION {StackActions(n) \union StackDialogs(n) : n \in Names})
      containers == Calls_of(UNION {ContainerActions(n, getContainers) : n \in Names})
      used == {getNetworks, getVolumes}
  IN  (compose \X ({getImages} \union used))
      \union (containers \X used)
      \union ({postContainersPrune} \X ({getStacks} \union used))
      \union ({deleteImagesId, postImagesPrune} \X {getImagesStale})
      \union (UNION {({deleteStacksName(n), postStacksNameRename(n)}
                       \X ({getStacksNameFiles(m) : m \in Names} \union used)) : n \in Names})
      \union ({postStacks} \X {getStacksNameFiles(n) : n \in Names})

\* A mutation is sent.  Of its control op keeps what the watched query can
\* tell; one that neither changes what it is computed from, nor refreshes it,
\* nor leads anywhere, is no step.
Use(c) ==
  /\ op = NoOp
  /\ Touches(c) \/ key \in c.refresh \/ c.leads # {}
  /\ key \in c.rows => cache.data # None
  /\ op' = [phase |-> "sent", version |-> None, always |-> c.always,
            leads |-> c.leads, refresh |-> c.refresh \intersect SameKind,
            host |-> Host(c), touches |-> Touches(c),
            owes |-> key \notin Repeated /\ <<c.call, key>> \notin LeftStale]
  /\ UNCHANGED <<key, page, truth, cache, wire, owed>>

Changed == truth < MaxVersion /\ truth' = truth + 1

Serve ==
  /\ op.phase = "sent"
  /\ IF op.touches THEN Changed ELSE UNCHANGED truth
  /\ op' = [op EXCEPT !.phase = "served", !.version = truth']
  /\ UNCHANGED <<key, page, cache, wire, owed>>

Elsewhere ==
  /\ Changed
  /\ UNCHANGED <<key, page, cache, wire, op, owed>>

Refresh ==
  IF key \in op.refresh
  THEN CacheBecomes(LAMBDA c : Invalidated(cache, c))
  ELSE UNCHANGED <<cache, wire>>

\* The mutation succeeds.  Nothing is owed where the handler has come to speak
\* of another stack, nor while the first fetch of all is running: it is not
\* replaced, and its answer may be older than the change.
Succeed ==
  /\ op.phase = "served"
  /\ Refresh
  /\ owed' = IF /\ op.touches
                /\ key \in op.refresh \/ (op.owes /\ op.refresh = {})
                /\ cache.data # None \/ cache.call = NoCall
             THEN op.version ELSE owed
  /\ op' = IF op.leads = {} THEN NoOp ELSE [op EXCEPT !.phase = "leads"]
  /\ UNCHANGED <<key, page, truth>>

\* The page that the handler asked for is shown, wherever the user is by then.
Lead ==
  /\ op.phase = "leads"
  /\ \E q \in op.leads : Show(q)
  /\ op' = NoOp
  /\ UNCHANGED <<key, truth, owed>>

\* It fails, before the change or after it.
Break ==
  /\ op.phase \in {"sent", "served"}
  /\ IF op.always THEN Refresh ELSE UNCHANGED <<cache, wire>>
  /\ op' = NoOp
  /\ UNCHANGED <<key, page, truth, owed>>

Next ==
  \/ Poll \/ Focus \/ Age \/ Collect
  \/ \E c \in Calls : Answer(c) \/ Arrive(c) \/ Ignore(c) \/ Fail(c)
  \/ \E q \in Pages : Goto(q)
  \/ \E c \in Controls[page] : Use(c)
  \/ Serve \/ Elsewhere \/ Succeed \/ Lead \/ Break

(***************************************************************************)
(* Polls go on while the page is in the foreground; a server that keeps    *)
(* being asked answers, and not every answer is lost.                      *)
(***************************************************************************)
Fairness ==
  /\ WF_vars(Poll)
  /\ \A c \in Calls : SF_vars(Answer(c)) /\ SF_vars(Arrive(c)) /\ WF_vars(Ignore(c))

Spec == Init /\ [][Next]_vars /\ Fairness

-----------------------------------------------------------------------------
(* What the user sees never goes back to an older state of the server,     *)
(* although requests are answered in any order and the answers of aborted  *)
(* ones still come in.                                                     *)
NeverBack ==
  [][cache'.data # None => cache'.data >= cache.data]_vars

(* What is shown as up to date contains the user's own changes: after the  *)
(* handler of a mutation has run, a settled entry is not older than the    *)
(* change, but for what LeftStale lists and the polls bring.               *)
SettledShowsOwn ==
  Observed /\ cache.data # None /\ cache.call = NoCall /\ ~cache.invalid
    => cache.data >= owed

(* A page that polls catches up with every change, whoever made it, once   *)
(* the user stays on it and lets it be: a move aborts the requests of the  *)
(* page left, and the end of a mutation those under way.                   *)
PollsCatchUp ==
  \/ []<><<TRUE>>_<<page, op>>
  \/ \A v \in Versions : (truth >= v /\ Polled) ~> (cache.data >= v \/ ~Polled)
=============================================================================
