-------------------------- MODULE WebClientProofs --------------------------
(***************************************************************************)
(* Proofs about the web client: WebQueries, for any stacks and queries and *)
(* any number of requests on the wire and of changes on the server, and in *)
(* the last part BrowserSession.                                           *)
(***************************************************************************)
EXTENDS WebQueries, BrowserSession, TLAPS

Entry == [data : 0..MaxVersion, invalid : BOOLEAN, aged : BOOLEAN,
          call : Calls \union {NoCall}]
Request == [at : {"idle", "asked", "answered"}, version : 0..MaxVersion]

\* The mutation under way, when there is one.
Mutation ==
  /\ op = [phase |-> op.phase, version |-> op.version, always |-> op.always,
           leads |-> op.leads, refresh |-> op.refresh, host |-> op.host,
           touches |-> op.touches, owes |-> op.owes]
  /\ op.phase \in {"sent", "served", "leads"}
  /\ op.version \in 0..truth
  /\ op.leads \subseteq Pages

\* What the page has, and what the running fetch will bring, is no older than
\* what it had, and no newer than what the server has.
Forward ==
  /\ cache.data <= truth
  /\ \A c \in Calls :
       /\ wire[c].version <= truth
       /\ c = cache.call /\ wire[c].at = "answered" => wire[c].version >= cache.data

IInv == TypeOK /\ Forward /\ (op # NoOp => Mutation)

\* The entry after a library call that may have used c for a new fetch.
Follows(c) ==
  /\ cache' \in Entry /\ cache'.data = cache.data
  /\ cache'.call \in {NoCall, cache.call, c}

-----------------------------------------------------------------------------

LEMMA FetchFollows ==
  ASSUME NEW s \in Entry, NEW c \in Calls
  PROVE  Fetch(s, c) = [data |-> s.data, invalid |-> s.invalid, aged |-> s.aged,
                        call |-> c]
BY DEF Fetch, Entry

\* The wire and the entry after a step of the library.
LEMMA LibraryStep ==
  ASSUME IInv, NEW c \in Calls, wire[c].at = "idle", Follows(c),
         wire' = IF cache'.call = c
                 THEN [wire EXCEPT ![c] = [at |-> "asked", version |-> None]]
                 ELSE wire,
         UNCHANGED truth
  PROVE  /\ wire' \in [Calls -> Request]
         /\ cache'.call # NoCall => wire'[cache'.call].at # "idle"
         /\ Forward'
<1>1. /\ wire \in [Calls -> Request] /\ cache \in Entry
      /\ cache.call # NoCall => wire[cache.call].at # "idle"
      /\ cache'.call \in Calls \union {NoCall}
  BY DEF IInv, TypeOK, Entry, Request, Follows
<1>2. [at |-> "asked", version |-> None] \in Request
  BY MaxVersionAssumption DEF Request, None
<1>3. CASE cache'.call = c
  <2>1. wire' = [wire EXCEPT ![c] = [at |-> "asked", version |-> None]]
    BY <1>3
  <2>2. wire' \in [Calls -> Request] /\ wire'[c].at = "asked" /\ wire'[c].version = 0
    BY <2>1, <1>1, <1>2 DEF None
  <2>3. \A d \in Calls \ {c} : wire'[d] = wire[d]
    BY <2>1, <1>1
  <2>4. Forward'
    BY <1>3, <2>2, <2>3, MaxVersionAssumption
    DEF IInv, TypeOK, Versions, Forward, Follows
  <2> QED BY <1>3, <2>2, <2>4
<1>4. CASE cache'.call # c
  <2>1. wire' = wire /\ cache'.call \in {NoCall, cache.call}
    BY <1>4 DEF Follows
  <2>2. Forward'
    BY <1>1, <2>1, CallsAssumption DEF IInv, Forward, Follows
  <2> QED BY <1>1, <2>1, <2>2
<1> QED BY <1>3, <1>4

LEMMA MovedFollows ==
  ASSUME cache \in Entry, NEW p, NEW q, NEW c \in Calls,
         cache' = Moved(cache, p, q, c)
  PROVE  Follows(c) /\ (cache'.call # NoCall => OnPage(q) # {})
<1> DEFINE kept == IF OnPage(p) \intersect OnPage(q) # {}
                   THEN cache ELSE [cache EXCEPT !.call = NoCall]
<1>1. /\ kept \in Entry /\ kept.data = cache.data /\ kept.call \in {NoCall, cache.call}
      /\ kept.call # NoCall => OnPage(q) # {}
  BY DEF Entry
<1>2. Fetch(kept, c) \in Entry /\ Fetch(kept, c).data = cache.data /\ Fetch(kept, c).call = c
  BY <1>1, FetchFollows DEF Entry
<1>3. \/ cache' = kept
      \/ cache' = Fetch(kept, c) /\ OnPage(q) # {}
  BY DEF Moved
<1> HIDE DEF kept
<1> QED BY <1>1, <1>2, <1>3 DEF Follows

LEMMA InvalidatedFollows ==
  ASSUME cache \in Entry, NEW c \in Calls, cache' = Invalidated(cache, c)
  PROVE  Follows(c) /\ (cache'.call # NoCall => Observed \/ cache'.call = cache.call)
<1> DEFINE marked == [cache EXCEPT !.invalid = TRUE]
<1>1. marked \in Entry /\ marked.data = cache.data /\ marked.call = cache.call
  BY DEF Entry
<1>2. /\ Fetch(marked, c) \in Entry /\ Fetch(marked, c).data = cache.data
      /\ Fetch(marked, c).call = c
  BY <1>1, FetchFollows DEF Entry
<1>3. cache' = marked \/ (cache' = Fetch(marked, c) /\ Observed)
  BY DEF Invalidated
<1> HIDE DEF marked
<1> QED BY <1>1, <1>2, <1>3 DEF Follows

LEMMA FetchedFollows ==
  ASSUME cache \in Entry, NEW c \in Calls, cache' = Fetch(cache, c)
  PROVE  Follows(c)
BY FetchFollows DEF Follows, Entry

\* A control is a record whose handler leads to a page, if anywhere.
WellMade(c) ==
  /\ c = [call |-> c.call, changes |-> c.changes, refresh |-> c.refresh,
          always |-> c.always, rows |-> c.rows, leads |-> c.leads]
  /\ c.leads \subseteq Pages

AllWellMade(cs) == \A c \in cs : WellMade(c)

LEMMA PlainControl ==
  ASSUME NEW call, NEW changes, NEW refresh
  PROVE  WellMade(Control(call, changes, refresh))
BY DEF Control, WellMade

LEMMA LeadingControl ==
  ASSUME NEW c, WellMade(c), NEW p \in Pages
  PROVE  WellMade([c EXCEPT !.leads = {p}])
BY DEF WellMade

LEMMA RowControls ==
  ASSUME NEW cs, NEW k, AllWellMade(cs)
  PROVE  AllWellMade(InRow(cs, k))
<1>1. ASSUME NEW c, WellMade(c) PROVE WellMade([c EXCEPT !.rows = {k}])
  BY <1>1 DEF WellMade
<1> QED BY <1>1 DEF InRow, AllWellMade

LEMMA StreamControl ==
  ASSUME NEW n, NEW verb, NEW refresh
  PROVE  WellMade(Stream(n, verb, refresh))
<1>1. ASSUME NEW c, WellMade(c), NEW b PROVE WellMade([c EXCEPT !.always = b])
  BY <1>1 DEF WellMade
<1> QED BY <1>1, PlainControl DEF Stream

LEMMA PagesOfLeads ==
  /\ \A n \in Names, t \in Tabs : StackPage(n, t) \in Pages
  /\ Page("home") \in Pages
BY DEF Pages

LEMMA StackControlsWellMade ==
  ASSUME NEW n \in Names, NEW t \in Tabs
  PROVE  AllWellMade(StackControls(n, t))
<1>1. AllWellMade(StackDialogs(n))
  BY StreamControl DEF StackDialogs, AllWellMade
<1>2. WellMade(DestroyStack(n))
  BY PlainControl, LeadingControl, PagesOfLeads DEF DestroyStack
<1>3. ASSUME NEW m \in Names PROVE WellMade(RenameStackDialog(n, m))
  BY PlainControl, LeadingControl, PagesOfLeads DEF RenameStackDialog, Tabs
<1>4. AllWellMade(StackFiles(n))
  BY PlainControl, RowControls DEF StackFiles, AllWellMade
<1>5. AllWellMade(ContainerActions(n, getStacksNameContainers(n)))
  BY PlainControl, RowControls DEF ContainerActions, AllWellMade
<1> QED BY <1>1, <1>2, <1>3, <1>4, <1>5 DEF StackControls, AllWellMade

LEMMA HomeControlsWellMade ==
  ASSUME NEW n \in Names
  PROVE  AllWellMade(StackActions(n)) /\ WellMade(CreateStackButton(n))
<1>1. AllWellMade(StackActions(n))
  BY PlainControl, StreamControl, RowControls DEF StackActions, AllWellMade
<1>2. WellMade(CreateStackButton(n))
  BY PlainControl, LeadingControl, PagesOfLeads DEF CreateStackButton, Tabs
<1> QED BY <1>1, <1>2

LEMMA OtherControlsWellMade ==
  /\ AllWellMade(ImageActions \union {PruneImagesButton})
  /\ AllWellMade(VolumeActions \union {PruneVolumesButton})
  /\ AllWellMade(NetworkActions \union {PruneNetworksButton})
  /\ AllWellMade(AccountSettings) /\ AllWellMade(SecuritySettings)
  /\ AllWellMade(ContainersControls)
  /\ \A n \in Names : WellMade(StackNotFound(n))
<1>1. /\ AllWellMade(ImageActions) /\ AllWellMade(VolumeActions)
      /\ AllWellMade(NetworkActions)
  BY PlainControl, RowControls
  DEF ImageActions, VolumeActions, NetworkActions, AllWellMade
<1>2. /\ WellMade(PruneImagesButton) /\ WellMade(PruneVolumesButton)
      /\ WellMade(PruneNetworksButton)
  BY PlainControl DEF PruneImagesButton, PruneVolumesButton, PruneNetworksButton
<1>3. AllWellMade(AccountSettings)
  BY PlainControl DEF AccountSettings, AllWellMade
<1>4. AllWellMade(SecuritySettings)
  <2>1. WellMade(ChangePassword)
    BY PlainControl DEF ChangePassword
  <2>2. /\ AllWellMade(SessionsSection) /\ AllWellMade(ApiKeysSection)
        /\ AllWellMade(PasskeysSection)
    BY PlainControl, RowControls
    DEF SessionsSection, ApiKeysSection, PasskeysSection, AllWellMade
  <2> QED BY <2>1, <2>2 DEF SecuritySettings, AllWellMade
<1>5. AllWellMade(ContainersControls)
  <2>1. ASSUME NEW n \in Names PROVE AllWellMade(ContainerActions(n, getContainers))
    BY PlainControl, RowControls DEF ContainerActions, AllWellMade
  <2>2. WellMade(PruneContainersButton)
    BY PlainControl DEF PruneContainersButton
  <2> QED BY <2>1, <2>2 DEF ContainersControls, AllWellMade
<1>6. ASSUME NEW n \in Names PROVE WellMade(StackNotFound(n))
  BY PlainControl DEF StackNotFound
<1> QED BY <1>1, <1>2, <1>3, <1>4, <1>5, <1>6 DEF AllWellMade

LEMMA ControlsWellMade == \A p \in Pages : AllWellMade(Controls[p])
<1> SUFFICES ASSUME NEW p \in Pages PROVE AllWellMade(Controls[p])
  OBVIOUS
<1>1. CASE \E n \in Names, t \in Tabs : p = StackPage(n, t)
  <2>1. PICK n \in Names, t \in Tabs : p = StackPage(n, t)
    BY <1>1
  <2>2. Controls[p] = StackControls(n, t)
    BY <2>1 DEF Controls, StackPage
  <2> QED BY <2>2, StackControlsWellMade
<1>2. CASE \E n \in Names : p = MissingPage(n)
  <2>1. PICK n \in Names : p = MissingPage(n)
    BY <1>2
  <2>2. Controls[p] = {StackNotFound(n)}
    BY <2>1 DEF Controls, MissingPage
  <2>3. WellMade(StackNotFound(n))
    BY OtherControlsWellMade
  <2> QED BY <2>2, <2>3 DEF AllWellMade
<1>3. CASE p = Page("home")
  <2>1. Controls[p] = UNION {StackActions(n) \union {CreateStackButton(n)} : n \in Names}
    BY <1>3 DEF Controls, Page
  <2> QED BY <2>1, HomeControlsWellMade DEF AllWellMade
<1>4. CASE p = Page("containers")
  <2>1. Controls[p] = ContainersControls
    BY <1>4 DEF Controls, Page
  <2> QED BY <2>1, OtherControlsWellMade
<1>5. CASE p \in {Page(at) : at \in {"images", "volumes", "networks", "account", "security"}}
  <2>1. Controls[p] \in {ImageActions \union {PruneImagesButton},
                         VolumeActions \union {PruneVolumesButton},
                         NetworkActions \union {PruneNetworksButton},
                         AccountSettings, SecuritySettings}
    BY <1>5 DEF Controls, Page
  <2> QED BY <2>1, OtherControlsWellMade
<1> QED BY <1>1, <1>2, <1>3, <1>4, <1>5 DEF Pages

-----------------------------------------------------------------------------
\* The queries that no page asks again by itself and that are computed from a
\* fact f: what the handler of a change of f has to think of.
ReaderOf(k, f) ==
  /\ f[1] = "dirs" => k = getStacks
  /\ f[1] = "box" => k \in {getStacks, getVolumes, getNetworks}
  /\ f[1] = "file" => k = getStacksNameFiles(f[2])
  /\ f[1] = "images" => k \in {getImages, getImagesStale}
  /\ f[1] = "digests" => k = getImagesStale
  /\ f[1] = "volumes" => k = getVolumes
  /\ f[1] = "networks" => k = getNetworks
  /\ f[1] = "user" => k = getAuthSession
  /\ f[1] = "sessions" => k = getAuthSessions
  /\ f[1] = "api-keys" => k = getAuthApiKeys
  /\ f[1] = "passkeys" => k = getAuthPasskeys

LEMMA PolledIsRepeated ==
  ASSUME NEW p \in Pages, NEW o \in Observers[p], o.poll, o.key # getStacks
  PROVE  o.key \in Repeated
BY DEF Repeated

LEMMA PollsPolls ==
  ASSUME NEW by, NEW k
  PROVE  Polls(by, k).poll /\ Polls(by, k).key = k
BY DEF Polls, Uses

\* The queries that are asked again by themselves.
LEMMA PolledQueries ==
  /\ {getStacksUpdates, getStacksDrift, getContainers, getContainersStats} \subseteq Repeated
  /\ \A n \in Names : {getStacksName(n), getStacksNameContainers(n)} \subseteq Repeated
<1>1. /\ getStacks \notin {getStacksUpdates, getStacksDrift, getContainers, getContainersStats}
      /\ \A n \in Names : getStacks \notin {getStacksName(n), getStacksNameContainers(n)}
  BY DEF getStacks, getStacksUpdates, getStacksDrift, getContainers,
         getContainersStats, getStacksName, getStacksNameContainers, Get
<1>2. {getStacksUpdates, getStacksDrift} \subseteq Repeated
  <2>1. Page("home") \in Pages /\ HomeQueries \subseteq Observers[Page("home")]
    BY DEF Pages, Observers, Page
  <2>2. ASSUME NEW k \in {getStacksUpdates, getStacksDrift} PROVE k \in Repeated
    <3> DEFINE o == [Polls("Home", k) EXCEPT !.keeps = "while"]
    <3>1. o \in HomeQueries
      BY DEF HomeQueries, Badges
    <3>2. o.poll /\ o.key = k
      BY DEF Polls, Uses
    <3> QED BY <1>1, <2>1, <3>1, <3>2, PolledIsRepeated
  <2> QED BY <2>2
<1>3. {getContainers, getContainersStats} \subseteq Repeated
  <2>1. /\ Page("containers") \in Pages
        /\ ContainersQueries \subseteq Observers[Page("containers")]
    BY DEF Pages, Observers, Page
  <2> QED BY <1>1, <2>1, PollsPolls, PolledIsRepeated DEF ContainersQueries
<1>4. ASSUME NEW n \in Names
      PROVE  {getStacksName(n), getStacksNameContainers(n)} \subseteq Repeated
  <2> DEFINE p == StackPage(n, "services")
  <2>1. p \in Pages
    BY DEF Pages, Tabs
  <2>2. /\ Polls("StackDetails", getStacksName(n)) \in Observers[p]
        /\ Polls("StackServices", getStacksNameContainers(n)) \in Observers[p]
    BY <2>1 DEF Observers, StackPage, StackDetailsQueries, TabQueries
  <2> QED BY <1>1, <2>1, <2>2, PollsPolls, PolledIsRepeated
<1> QED BY <1>2, <1>3, <1>4

LEMMA Kinds ==
  /\ Dirs[1] = "dirs"
  /\ \A n : Box(n)[1] = "box" /\ File(n)[1] = "file" /\ File(n)[2] = n
  /\ <<"images">>[1] = "images" /\ <<"digests">>[1] = "digests"
  /\ <<"volumes">>[1] = "volumes" /\ <<"networks">>[1] = "networks"
  /\ <<"user">>[1] = "user" /\ <<"sessions">>[1] = "sessions"
  /\ <<"api-keys">>[1] = "api-keys" /\ <<"passkeys">>[1] = "passkeys"
BY DEF Dirs, Box, File

LEMMA Readers ==
  ASSUME NEW k \in Queries, k \notin Repeated, NEW f \in Reads[k]
  PROVE  ReaderOf(k, f)
<1>1. <<k, f>> \in DockerReads \union AccountReads
  <2>1. ASSUME NEW s \in DockerReads \union AccountReads
        PROVE  s = <<s[1], s[2]>>
    BY DEF DockerReads, AccountReads
  <2>2. PICK s \in DockerReads \union AccountReads : s[1] = k /\ s[2] = f
    BY DEF Reads
  <2> QED BY <2>1, <2>2
<1>2. CASE <<k, f>> \in AccountReads
  BY <1>2, Kinds DEF AccountReads, ReaderOf
<1>3. CASE <<k, f>> \in DockerReads
  <2>1. \/ k = getStacks /\ f \in {Dirs} \union Boxes
        \/ \E n \in Names : k = getStacksNameFiles(n) /\ f = File(n)
        \/ k = getImages /\ f = <<"images">>
        \/ k = getImagesStale /\ f \in {<<"images">>, <<"digests">>}
        \/ k = getVolumes /\ f \in {<<"volumes">>} \union Boxes
        \/ k = getNetworks /\ f \in {<<"networks">>} \union Boxes
    BY <1>3, PolledQueries DEF DockerReads
  <2> QED BY <2>1, Kinds DEF ReaderOf, Boxes
<1> QED BY <1>1, <1>2, <1>3

\* The handler of a control refreshes what the control changed, but for what
\* LeftStale lists and the polls bring.
Refreshes(c) ==
  \A k \in Queries \ Repeated :
    c.changes \intersect Reads[k] # {} => k \in c.refresh \/ <<c.call, k>> \in LeftStale

AllRefresh(cs) == \A c \in cs : Refreshes(c)

LEMMA ControlRefreshes ==
  ASSUME NEW c,
         \A f \in c.changes, k \in Queries \ Repeated :
           ReaderOf(k, f) => k \in c.refresh \/ <<c.call, k>> \in LeftStale
  PROVE  Refreshes(c)
BY Readers DEF Refreshes

LEMMA PlainFields ==
  ASSUME NEW call, NEW changes, NEW refresh
  PROVE  /\ Control(call, changes, refresh).call = call
         /\ Control(call, changes, refresh).changes = changes
         /\ Control(call, changes, refresh).refresh = refresh
BY DEF Control

LEMMA PlainRefreshes ==
  ASSUME NEW call, NEW changes, NEW refresh,
         \A f \in changes, k \in Queries \ Repeated :
           ReaderOf(k, f) => k \in refresh \/ <<call, k>> \in LeftStale
  PROVE  Refreshes(Control(call, changes, refresh))
BY PlainFields, ControlRefreshes

\* Where a control stands and leads does not change what its handler does.
LEMMA RowsRefresh ==
  ASSUME NEW cs, AllWellMade(cs), AllRefresh(cs), NEW k
  PROVE  AllRefresh(InRow(cs, k))
<1>1. ASSUME NEW c, WellMade(c)
      PROVE  LET d == [c EXCEPT !.rows = {k}]
             IN  d.call = c.call /\ d.changes = c.changes /\ d.refresh = c.refresh
  BY <1>1 DEF WellMade
<1>2. ASSUME NEW d \in InRow(cs, k)
      PROVE  Refreshes(d)
  <2>1. PICK c \in cs : d = [c EXCEPT !.rows = {k}]
    BY <1>2 DEF InRow
  <2>2. WellMade(c) /\ Refreshes(c)
    BY DEF AllWellMade, AllRefresh
  <2> QED BY <1>1, <2>1, <2>2 DEF Refreshes
<1> QED BY <1>2 DEF AllRefresh

LEMMA RowRefresh ==
  ASSUME NEW call, NEW changes, NEW refresh, Refreshes(Control(call, changes, refresh)),
         NEW k
  PROVE  AllRefresh(InRow({Control(call, changes, refresh)}, k))
BY PlainControl, RowsRefresh DEF AllRefresh, AllWellMade

LEMMA LeadingRefresh ==
  ASSUME NEW c, WellMade(c), Refreshes(c), NEW ps
  PROVE  Refreshes([c EXCEPT !.leads = ps])
<1>1. LET d == [c EXCEPT !.leads = ps]
      IN  d.call = c.call /\ d.changes = c.changes /\ d.refresh = c.refresh
  BY DEF WellMade
<1> QED BY <1>1 DEF Refreshes

LEMMA StreamFields ==
  ASSUME NEW n, NEW verb, NEW refresh
  PROVE  /\ Stream(n, verb, refresh).changes = VerbChanges(n, verb)
         /\ Stream(n, verb, refresh).refresh = refresh
<1>1. ASSUME NEW c, WellMade(c)
      PROVE  LET d == [c EXCEPT !.always = TRUE]
             IN  d.changes = c.changes /\ d.refresh = c.refresh
  BY <1>1 DEF WellMade
<1> QED BY <1>1, PlainControl, PlainFields DEF Stream

\* The readers of what a compose command changes.
LEMMA VerbReaders ==
  ASSUME NEW n, NEW verb \in {"up", "update", "pull", "down", "stop", "restart"},
         NEW f \in VerbChanges(n, verb), NEW k, ReaderOf(k, f)
  PROVE  k \in {getStacks, getImagesStale, getImages, getNetworks, getVolumes}
BY Kinds DEF VerbChanges, ReaderOf

LEMMA ComposeLeaves ==
  ASSUME NEW n \in Names, NEW c \in StackActions(n) \union StackDialogs(n),
         NEW k \in {getImages, getNetworks, getVolumes}
  PROVE  <<c.call, k>> \in LeftStale
BY DEF LeftStale

LEMMA ContainersLeave ==
  ASSUME NEW n \in Names, NEW c \in ContainerActions(n, getContainers),
         NEW k \in {getNetworks, getVolumes}
  PROVE  <<c.call, k>> \in LeftStale
BY DEF LeftStale

LEMMA OthersLeave ==
  /\ \A k \in {getStacks, getNetworks, getVolumes} : <<postContainersPrune, k>> \in LeftStale
  /\ <<deleteImagesId, getImagesStale>> \in LeftStale
  /\ <<postImagesPrune, getImagesStale>> \in LeftStale
  /\ \A n, m \in Names : /\ <<deleteStacksName(n), getStacksNameFiles(m)>> \in LeftStale
                         /\ <<postStacksNameRename(n), getStacksNameFiles(m)>> \in LeftStale
  /\ \A n \in Names, k \in {getNetworks, getVolumes} :
       /\ <<deleteStacksName(n), k>> \in LeftStale
       /\ <<postStacksNameRename(n), k>> \in LeftStale
  /\ \A n \in Names : <<postStacks, getStacksNameFiles(n)>> \in LeftStale
BY DEF LeftStale

Verbs == {"up", "update", "pull", "down", "stop", "restart"}

LEMMA ComposeRefreshes ==
  ASSUME NEW n \in Names, NEW c \in StackActions(n) \union StackDialogs(n),
         NEW verb \in Verbs, c.changes = VerbChanges(n, verb),
         {getStacks, getImagesStale} \subseteq c.refresh
  PROVE  Refreshes(c)
<1>1. ASSUME NEW f \in c.changes, NEW k \in Queries \ Repeated, ReaderOf(k, f)
      PROVE  k \in c.refresh \/ <<c.call, k>> \in LeftStale
  <2>1. k \in {getStacks, getImagesStale, getImages, getNetworks, getVolumes}
    BY <1>1, VerbReaders DEF Verbs
  <2> QED BY <2>1, ComposeLeaves
<1> QED BY <1>1, ControlRefreshes

LEMMA StackActionsRefresh ==
  ASSUME NEW n \in Names
  PROVE  AllRefresh(StackActions(n))
<1> DEFINE refresh == {getStacks, getStacksUpdates, getStacksDrift, getImagesStale}
           cs == {Control(postStackActionUp(n), VerbChanges(n, "up"), refresh),
                  Control(postStackActionStop(n), VerbChanges(n, "stop"), refresh),
                  Control(postStackActionDown(n), VerbChanges(n, "down"), refresh),
                  Control(postStackActionRestart(n), VerbChanges(n, "restart"), refresh),
                  Control(postStackActionPull(n), VerbChanges(n, "pull"), refresh),
                  Stream(n, "update", refresh)}
<1>1. StackActions(n) = InRow(cs, getStacks)
  BY DEF StackActions
<1>2. ASSUME NEW c \in cs
      PROVE  /\ c.refresh = refresh
             /\ \E verb \in Verbs : c.changes = VerbChanges(n, verb)
  BY PlainFields, StreamFields DEF Verbs
<1>3. AllWellMade(cs)
  BY PlainControl, StreamControl DEF AllWellMade
<1> HIDE DEF cs
<1>4. ASSUME NEW d \in StackActions(n) PROVE Refreshes(d)
  <2>1. PICK c \in cs : d = [c EXCEPT !.rows = {getStacks}]
    BY <1>1 DEF InRow
  <2>2. d.changes = c.changes /\ d.refresh = c.refresh
    BY <1>3, <2>1 DEF AllWellMade, WellMade
  <2> QED BY <1>2, <2>2, ComposeRefreshes
<1> QED BY <1>4 DEF AllRefresh

LEMMA StackDialogsRefresh ==
  ASSUME NEW n \in Names
  PROVE  AllRefresh(StackDialogs(n))
<1>1. ASSUME NEW c \in StackDialogs(n) PROVE Refreshes(c)
  <2>1. PICK verb \in Verbs : c = Stream(n, verb, StackRefresh(n))
    BY <1>1 DEF StackDialogs, Verbs
  <2>2. {getStacks, getImagesStale} \subseteq StackRefresh(n)
    BY DEF StackRefresh
  <2> QED BY <2>1, <2>2, StreamFields, ComposeRefreshes
<1> QED BY <1>1 DEF AllRefresh

LEMMA StackPageRefresh ==
  ASSUME NEW n \in Names
  PROVE  /\ Refreshes(CreateStackButton(n)) /\ Refreshes(StackNotFound(n))
         /\ Refreshes(DestroyStack(n))
         /\ \A m \in Names : Refreshes(RenameStackDialog(n, m))
         /\ AllRefresh(StackFiles(n))
<1>1. Refreshes(Control(postStacks, {Dirs, File(n)}, {getStacks, getStacksDrift}))
  BY PlainRefreshes, Kinds, OthersLeave DEF ReaderOf
<1>2. Refreshes(Control(deleteStacksName(n), {Dirs, File(n), Box(n), <<"networks">>},
                        {getStacks, getStacksDrift}))
  <2>1. ASSUME NEW f \in {Dirs, File(n), Box(n), <<"networks">>}, NEW k, ReaderOf(k, f)
        PROVE  k \in {getStacks, getStacksNameFiles(n), getNetworks, getVolumes}
    BY <2>1, Kinds DEF ReaderOf
  <2> QED BY <2>1, PlainRefreshes, OthersLeave
<1>3. ASSUME NEW m \in Names
      PROVE  Refreshes(Control(postStacksNameRename(n),
                 {Dirs, File(n), File(m), Box(n), Box(m), <<"networks">>, <<"volumes">>},
                 {getStacks, getStacksDrift}))
  <2>1. ASSUME NEW f \in {Dirs, File(n), File(m), Box(n), Box(m),
                         <<"networks">>, <<"volumes">>},
               NEW k, ReaderOf(k, f)
        PROVE  k \in {getStacks, getStacksNameFiles(n), getStacksNameFiles(m),
                     getNetworks, getVolumes}
    BY <2>1, Kinds DEF ReaderOf
  <2> QED BY <2>1, PlainRefreshes, OthersLeave
<1>4. AllRefresh({Control(putStacksNameFiles(n), {File(n)},
                    {getStacksNameFiles(n), getStacksName(n), getStacksDrift}),
                  Control(postStacksNameEnv(n), {File(n)},
                    {getStacksNameFiles(n), getStacksDrift})})
  BY PlainRefreshes, Kinds DEF ReaderOf, AllRefresh
<1>5. AllRefresh(StackFiles(n))
  BY <1>4, PlainControl, RowsRefresh DEF StackFiles, AllWellMade
<1> QED BY <1>1, <1>2, <1>3, <1>5, PlainControl, LeadingRefresh
        DEF CreateStackButton, StackNotFound, DestroyStack, RenameStackDialog

LEMMA ContainerActionsRefresh ==
  ASSUME NEW n \in Names, NEW row
  PROVE  AllRefresh(ContainerActions(n, row))
<1> DEFINE calls == {postContainersIdStart, postContainersIdStop,
                     postContainersIdRestart, deleteContainersId}
           Act(call) == Control(call, {Box(n)}, {getContainers, getStacks})
<1>1. ASSUME NEW call \in calls, NEW k \in {getNetworks, getVolumes}
      PROVE  <<call, k>> \in LeftStale
  <2> DEFINE c == [Act(call) EXCEPT !.rows = {getContainers}]
  <2>1. c \in ContainerActions(n, getContainers) /\ c.call = call
    BY DEF ContainerActions, InRow, Control
  <2> QED BY <2>1, ContainersLeave
<1>2. ASSUME NEW call \in calls PROVE Refreshes(Act(call))
  BY <1>1, PlainRefreshes, Kinds DEF ReaderOf
<1>3. ContainerActions(n, row) = InRow({Act(call) : call \in calls}, row)
  BY DEF ContainerActions
<1>4. AllRefresh({Act(call) : call \in calls}) /\ AllWellMade({Act(call) : call \in calls})
  BY <1>2, PlainControl DEF AllRefresh, AllWellMade
<1> QED BY <1>3, <1>4, RowsRefresh

LEMMA OtherControlsRefresh ==
  /\ AllRefresh(ImageActions \union {PruneImagesButton})
  /\ AllRefresh(VolumeActions \union {PruneVolumesButton})
  /\ AllRefresh(NetworkActions \union {PruneNetworksButton})
  /\ AllRefresh(AccountSettings) /\ AllRefresh(SecuritySettings)
  /\ AllRefresh(ContainersControls)
<1>1. AllRefresh(ImageActions \union {PruneImagesButton})
  <2>1. \A call \in {deleteImagesId, postImagesPrune} :
          Refreshes(Control(call, {<<"images">>}, {getImages}))
    BY PlainRefreshes, Kinds, OthersLeave DEF ReaderOf
  <2> QED BY <2>1, PlainControl, RowsRefresh
          DEF ImageActions, PruneImagesButton, AllRefresh, AllWellMade
<1>2. /\ AllRefresh(VolumeActions \union {PruneVolumesButton})
      /\ AllRefresh(NetworkActions \union {PruneNetworksButton})
  <2>1. /\ \A call : Refreshes(Control(call, {<<"volumes">>}, {getVolumes}))
        /\ \A call : Refreshes(Control(call, {<<"networks">>}, {getNetworks}))
    BY PlainRefreshes, Kinds DEF ReaderOf
  <2> QED BY <2>1, RowRefresh
          DEF VolumeActions, PruneVolumesButton, NetworkActions, PruneNetworksButton,
              AllRefresh
<1>3. AllRefresh(AccountSettings)
  <2>1. \A call : Refreshes(Control(call, {<<"user">>}, {getAuthSession}))
    BY PlainRefreshes, Kinds DEF ReaderOf
  <2> QED BY <2>1 DEF AccountSettings, AllRefresh
<1>4. AllRefresh(SecuritySettings)
  <2>1. Refreshes(ChangePassword)
    BY PlainRefreshes DEF ChangePassword
  <2>2. \A call : /\ Refreshes(Control(call, {<<"sessions">>}, {getAuthSessions}))
                 /\ Refreshes(Control(call, {<<"api-keys">>}, {getAuthApiKeys}))
                 /\ Refreshes(Control(call, {<<"passkeys">>}, {getAuthPasskeys}))
    BY PlainRefreshes, Kinds DEF ReaderOf
  <2>3. AllRefresh(SessionsSection)
    <3> DEFINE cs == {Control(call, {<<"sessions">>}, {getAuthSessions}) :
                        call \in {postAuthSessionsIdRevoke, postAuthSessionsRevokeOthers}}
    <3>1. AllRefresh(cs) /\ AllWellMade(cs)
      BY <2>2, PlainControl DEF AllRefresh, AllWellMade
    <3>2. SessionsSection = InRow(cs, getAuthSessions)
      BY DEF SessionsSection
    <3> QED BY <3>1, <3>2, RowsRefresh
  <2>4. AllRefresh(ApiKeysSection) /\ AllRefresh(PasskeysSection)
    BY <2>2, RowRefresh DEF ApiKeysSection, PasskeysSection, AllRefresh
  <2> QED BY <2>1, <2>3, <2>4 DEF SecuritySettings, AllRefresh
<1>5. AllRefresh(ContainersControls)
  <2>1. Refreshes(PruneContainersButton)
    BY PlainRefreshes, Kinds, OthersLeave DEF PruneContainersButton, ReaderOf, Boxes
  <2> QED BY <2>1, ContainerActionsRefresh DEF ContainersControls, AllRefresh
<1> QED BY <1>1, <1>2, <1>3, <1>4, <1>5

LEMMA ControlsRefresh == \A p \in Pages : AllRefresh(Controls[p])
<1> SUFFICES ASSUME NEW p \in Pages PROVE AllRefresh(Controls[p])
  OBVIOUS
<1>1. CASE \E n \in Names, t \in Tabs : p = StackPage(n, t)
  <2>1. PICK n \in Names, t \in Tabs : p = StackPage(n, t)
    BY <1>1
  <2>2. Controls[p] = StackControls(n, t)
    BY <2>1 DEF Controls, StackPage
  <2>3. AllRefresh(StackControls(n, t))
    BY StackDialogsRefresh, StackPageRefresh, ContainerActionsRefresh
    DEF StackControls, AllRefresh
  <2> QED BY <2>2, <2>3
<1>2. CASE \E n \in Names : p = MissingPage(n)
  <2>1. PICK n \in Names : p = MissingPage(n)
    BY <1>2
  <2>2. Controls[p] = {StackNotFound(n)}
    BY <2>1 DEF Controls, MissingPage
  <2> QED BY <2>2, StackPageRefresh DEF AllRefresh
<1>3. CASE p = Page("home")
  <2>1. Controls[p] = UNION {StackActions(n) \union {CreateStackButton(n)} : n \in Names}
    BY <1>3 DEF Controls, Page
  <2> QED BY <2>1, StackActionsRefresh, StackPageRefresh DEF AllRefresh
<1>4. CASE p = Page("containers")
  <2>1. Controls[p] = ContainersControls
    BY <1>4 DEF Controls, Page
  <2> QED BY <2>1, OtherControlsRefresh
<1>5. CASE p \in {Page(at) : at \in {"images", "volumes", "networks", "account", "security"}}
  <2>1. Controls[p] \in {ImageActions \union {PruneImagesButton},
                         VolumeActions \union {PruneVolumesButton},
                         NetworkActions \union {PruneNetworksButton},
                         AccountSettings, SecuritySettings}
    BY <1>5 DEF Controls, Page
  <2> QED BY <2>1, OtherControlsRefresh
<1> QED BY <1>1, <1>2, <1>3, <1>4, <1>5 DEF Pages

-----------------------------------------------------------------------------

LEMMA Initially == Init => IInv
<1> SUFFICES ASSUME Init PROVE IInv
  OBVIOUS
<1>1. TypeOK
  BY MaxVersionAssumption
  DEF Init, TypeOK, Pages, Versions, None, NoOp
<1>2. Forward
  BY DEF Init, Forward, None
<1> QED BY <1>1, <1>2 DEF Init, IInv

\* The facts about the types that the steps below use.
LEMMA Types ==
  ASSUME IInv
  PROVE  /\ cache \in Entry /\ wire \in [Calls -> Request]
         /\ page \in Pages /\ truth \in Versions /\ owed \in 0..truth
         /\ Versions \subseteq 0..MaxVersion /\ NoCall \notin Calls
         /\ cache.call # NoCall => Observed /\ wire[cache.call].at # "idle"
         /\ op = NoOp \/ Mutation
BY MaxVersionAssumption, CallsAssumption
DEF IInv, TypeOK, Entry, Request, Versions

\* A step that is one use of the library, on the page q.
LEMMA BecomesStep ==
  ASSUME IInv, NEW c \in Calls, wire[c].at = "idle", Follows(c),
         wire' = IF cache'.call = c
                 THEN [wire EXCEPT ![c] = [at |-> "asked", version |-> None]]
                 ELSE wire,
         page' \in Pages, cache'.call # NoCall => Observed',
         op' = NoOp \/ Mutation', owed' \in 0..truth,
         UNCHANGED <<key, truth>>
  PROVE  IInv'
<1>1. /\ wire' \in [Calls -> Request]
      /\ cache'.call # NoCall => wire'[cache'.call].at # "idle"
      /\ Forward'
  BY LibraryStep
<1>2. op' = NoOp \/ op'.phase \in {"sent", "served", "leads"}
  BY DEF Mutation
<1>3. TypeOK'
  BY <1>1, <1>2 DEF IInv, TypeOK, Follows, Entry, Request
<1> QED BY <1>1, <1>3 DEF IInv

LEMMA FetchStep ==
  ASSUME IInv, Poll \/ Focus
  PROVE  IInv'
<1>1. PICK c \in Calls :
        /\ wire[c].at = "idle" /\ cache' = Fetch(cache, c)
        /\ wire' = IF cache'.call = c
                   THEN [wire EXCEPT ![c] = [at |-> "asked", version |-> None]]
                   ELSE wire
  BY DEF Poll, Focus, CacheBecomes
<1>2. Follows(c)
  BY <1>1, Types, FetchedFollows
<1>3. UNCHANGED <<key, page, truth, op, owed>> /\ Observed
  BY DEF Poll, Focus, Polled, Observed
<1>4. Observed' /\ (op' = NoOp \/ Mutation')
  BY <1>3, Types DEF Observed, OnPage, Mutation
<1> QED BY <1>1, <1>2, <1>3, <1>4, Types, BecomesStep
LEMMA AgeCollectStep ==
  ASSUME IInv, Age \/ Collect
  PROVE  IInv'
<1>1. /\ cache' \in Entry /\ cache'.call \in {cache.call, NoCall}
      /\ cache'.data \in {cache.data, 0}
  <2>1. CASE Age
    BY <2>1, Types DEF Age, Entry
  <2>2. CASE Collect
    <3>1. cache' = [data |-> 0, invalid |-> FALSE, aged |-> FALSE, call |-> NoCall]
      BY <2>2 DEF Collect, None
    <3> QED BY <3>1, MaxVersionAssumption DEF Entry
  <2> QED BY <2>1, <2>2
<1>2. UNCHANGED <<key, page, truth, wire, op, owed>>
  BY DEF Age, Collect
<1>3. TypeOK'
  <2>1. cache'.call # NoCall => Observed' /\ wire'[cache'.call].at # "idle"
    BY <1>1, <1>2, Types DEF Observed, OnPage
  <2>2. cache' \in [data : 0..MaxVersion, invalid : BOOLEAN, aged : BOOLEAN,
                    call : Calls \union {NoCall}]
    BY <1>1 DEF Entry
  <2> QED BY <1>2, <2>1, <2>2 DEF IInv, TypeOK
<1>4. Forward'
  BY <1>1, <1>2, Types, MaxVersionAssumption
  DEF IInv, Forward, Entry, Request, Versions
<1>5. op' = NoOp \/ Mutation'
  BY <1>2, Types DEF Mutation
<1> QED BY <1>3, <1>4, <1>5 DEF IInv

LEMMA AnswerStep ==
  ASSUME IInv, NEW c \in Calls, Answer(c)
  PROVE  IInv'
<1>1. /\ wire' = [wire EXCEPT ![c] = [at |-> "answered", version |-> truth]]
      /\ wire[c].at = "asked"
      /\ UNCHANGED <<key, page, truth, cache, op, owed>>
  BY DEF Answer
<1>2. /\ wire' \in [Calls -> Request] /\ wire'[c].version = truth
      /\ wire'[c].at = "answered" /\ \A d \in Calls \ {c} : wire'[d] = wire[d]
  BY <1>1, Types DEF Request
<1>3. TypeOK'
  BY <1>1, <1>2, Types DEF IInv, TypeOK, Entry, Request, Observed, OnPage
<1>4. Forward'
  BY <1>1, <1>2, Types DEF IInv, Forward, Entry, Request, Versions
<1>5. op' = NoOp \/ Mutation'
  BY <1>1, Types DEF Mutation
<1> QED BY <1>3, <1>4, <1>5 DEF IInv

\* A request that ends is no longer the one of the running fetch.
LEMMA EndStep ==
  ASSUME IInv, NEW c \in Calls, Arrive(c) \/ Ignore(c) \/ Fail(c)
  PROVE  IInv' /\ cache'.data >= cache.data
<1>1. /\ wire' = [wire EXCEPT ![c] = [at |-> "idle", version |-> None]]
      /\ UNCHANGED <<key, page, truth, op, owed>>
  BY DEF Arrive, Ignore, Fail, Forget
<1>2. /\ wire' \in [Calls -> Request] /\ wire'[c].version = 0
      /\ \A d \in Calls \ {c} : wire'[d] = wire[d]
  BY <1>1, Types, MaxVersionAssumption DEF Request, None
<1>3. /\ cache' \in Entry
      /\ cache'.call = NoCall \/ (cache'.call = cache.call /\ cache.call # c)
      /\ \/ cache'.data = cache.data
         \/ /\ cache'.data = wire[c].version /\ cache'.call = NoCall
            /\ c = cache.call /\ wire[c].at = "answered"
  <2>1. CASE Arrive(c)
    <3>1. /\ cache' = [data |-> wire[c].version, invalid |-> FALSE, aged |-> FALSE,
                       call |-> NoCall]
          /\ c = cache.call /\ wire[c].at = "answered"
      BY <2>1 DEF Arrive
    <3>2. wire[c].version \in 0..MaxVersion
      BY Types DEF Request
    <3> QED BY <3>1, <3>2 DEF Entry
  <2>2. CASE Ignore(c)
    BY <2>2, Types DEF Ignore
  <2>3. CASE Fail(c)
    BY <2>3, Types DEF Fail, Entry
  <2> QED BY <2>1, <2>2, <2>3
<1>4. cache'.data >= cache.data /\ cache'.data <= truth
  BY <1>3, Types DEF IInv, Forward, Entry, Request, Versions
<1>5. TypeOK'
  BY <1>1, <1>2, <1>3, Types DEF IInv, TypeOK, Entry, Request, Observed, OnPage
<1>6. Forward'
  <2>1. ASSUME NEW d \in Calls
        PROVE  /\ wire'[d].version <= truth
               /\ d = cache'.call /\ wire'[d].at = "answered"
                    => wire'[d].version >= cache'.data
    BY <1>2, <1>3, Types, MaxVersionAssumption DEF IInv, Forward, Versions
  <2> QED BY <1>1, <1>4, <2>1 DEF Forward
<1>7. op' = NoOp \/ Mutation'
  BY <1>1, Types DEF Mutation
<1> QED BY <1>4, <1>5, <1>6, <1>7 DEF IInv

\* The user goes to page q, and the mutation under way with it or not.
LEMMA ShowStep ==
  ASSUME IInv, NEW q \in Pages, Show(q), op' = NoOp \/ Mutation',
         UNCHANGED <<key, truth, owed>>
  PROVE  IInv' /\ cache'.data = cache.data
<1>1. PICK c \in Calls :
        /\ wire[c].at = "idle" /\ cache' = Moved(cache, page, q, c)
        /\ wire' = IF cache'.call = c
                   THEN [wire EXCEPT ![c] = [at |-> "asked", version |-> None]]
                   ELSE wire
  BY DEF Show, CacheBecomes
<1>2. page' = q
  BY DEF Show
<1>3. Follows(c) /\ (cache'.call # NoCall => OnPage(q) # {})
  BY <1>1, Types, MovedFollows
<1>4. cache'.call # NoCall => Observed'
  BY <1>2, <1>3 DEF Observed, OnPage
<1>5. owed' \in 0..truth
  BY Types
<1> QED BY <1>1, <1>2, <1>3, <1>4, <1>5, BecomesStep DEF Follows

LEMMA OpMovedKeeps ==
  ASSUME IInv, NEW p, NEW q, op' = OpMoved(p, q), UNCHANGED truth
  PROVE  op' = NoOp \/ Mutation'
<1>1. CASE op = NoOp
  BY <1>1 DEF OpMoved
<1>2. CASE Mutation
  <2>1. ASSUME NEW r, op' = [op EXCEPT !.refresh = r] PROVE Mutation'
    BY <1>2, <2>1 DEF Mutation
  <2>2. ASSUME op' = [op EXCEPT !.host = "gone"] PROVE Mutation'
    BY <1>2, <2>2 DEF Mutation
  <2>3. ASSUME op' = op PROVE Mutation'
    BY <1>2, <2>3 DEF Mutation
  <2> QED BY <2>1, <2>2, <2>3 DEF OpMoved
<1> QED BY <1>1, <1>2, Types
LEMMA UseStep ==
  ASSUME IInv, NEW c \in Controls[page], Use(c)
  PROVE  IInv'
<1>1. /\ op' = [phase |-> "sent", version |-> None, always |-> c.always,
                leads |-> c.leads, refresh |-> c.refresh \intersect SameKind,
                host |-> Host(c), touches |-> Touches(c),
                owes |-> key \notin Repeated /\ <<c.call, key>> \notin LeftStale]
      /\ UNCHANGED <<key, page, truth, cache, wire, owed>>
  BY DEF Use
<1>2. c.leads \subseteq Pages
  BY Types, ControlsWellMade DEF AllWellMade, WellMade
<1>3. 0 \in 0..truth
  BY Types DEF Versions
<1>4. Mutation'
  BY <1>1, <1>2, <1>3 DEF Mutation, None
<1>5. TypeOK'
  BY <1>1, <1>4 DEF IInv, TypeOK, Mutation, Observed, OnPage
<1>6. Forward'
  BY <1>1 DEF IInv, Forward
<1> QED BY <1>4, <1>5, <1>6 DEF IInv

\* The server has a newer version.
LEMMA NewerStep ==
  ASSUME IInv, Changed \/ UNCHANGED truth, op' = NoOp \/ Mutation',
         UNCHANGED <<key, page, cache, wire, owed>>
  PROVE  IInv'
<1>1. truth' \in Versions /\ truth' >= truth
  BY Types, MaxVersionAssumption DEF Changed, Versions
<1>2. TypeOK'
  <2>1. owed \in 0..truth'
    BY <1>1, Types DEF Versions
  <2> QED BY <1>1, <2>1, Types
          DEF IInv, TypeOK, Mutation, Entry, Request, Observed, OnPage
<1>3. Forward'
  BY <1>1, Types DEF IInv, Forward, Entry, Request, Versions
<1> QED BY <1>2, <1>3 DEF IInv

LEMMA ServeStep ==
  ASSUME IInv, Serve \/ Elsewhere
  PROVE  IInv'
<1>1. CASE Serve
  <2>1. Mutation
    BY <1>1, Types DEF Serve, NoOp
  <2>2. truth' \in Nat /\ (Changed \/ UNCHANGED truth)
    BY <1>1, Types DEF Serve, Changed, Versions
  <2>3. op' = [op EXCEPT !.phase = "served", !.version = truth']
    BY <1>1 DEF Serve
  <2>4. op' = [phase |-> "served", version |-> truth', always |-> op.always,
               leads |-> op.leads, refresh |-> op.refresh, host |-> op.host,
               touches |-> op.touches, owes |-> op.owes]
    BY <2>1, <2>3 DEF Mutation
  <2>5. op.leads \subseteq Pages /\ truth' \in 0..truth'
    BY <2>1, <2>2 DEF Mutation
  <2>6. Mutation'
    BY <2>4, <2>5 DEF Mutation
  <2> QED BY <1>1, <2>2, <2>6, NewerStep DEF Serve
<1>2. CASE Elsewhere
  <2>1. truth' \in Nat /\ truth' >= truth /\ op' = op
    BY <1>2, Types DEF Elsewhere, Changed, Versions
  <2>2. op' = NoOp \/ Mutation'
    BY <2>1, Types DEF Mutation, Versions
  <2> QED BY <1>2, <2>2, NewerStep DEF Elsewhere
<1> QED BY <1>1, <1>2

\* The end of a mutation, with or without the refresh of the query.
LEMMA RefreshStep ==
  ASSUME IInv, Refresh \/ UNCHANGED <<cache, wire>>, op' = NoOp \/ Mutation',
         owed' \in 0..truth, UNCHANGED <<key, page, truth>>
  PROVE  IInv' /\ cache'.data = cache.data
<1>1. CASE UNCHANGED <<cache, wire>>
  <2>1. TypeOK'
    BY <1>1, Types DEF IInv, TypeOK, Mutation, Observed, OnPage
  <2>2. Forward'
    BY <1>1 DEF IInv, Forward
  <2> QED BY <1>1, <2>1, <2>2 DEF IInv
<1>2. CASE ~ UNCHANGED <<cache, wire>>
  <2>1. PICK c \in Calls :
          /\ wire[c].at = "idle" /\ cache' = Invalidated(cache, c)
          /\ wire' = IF cache'.call = c
                     THEN [wire EXCEPT ![c] = [at |-> "asked", version |-> None]]
                     ELSE wire
    BY <1>2 DEF Refresh, CacheBecomes
  <2>2. /\ Follows(c)
        /\ cache'.call # NoCall => Observed \/ cache'.call = cache.call
    BY <2>1, Types, InvalidatedFollows
  <2>3. (cache'.call # NoCall => Observed') /\ page' \in Pages
    BY <2>2, Types DEF Observed, OnPage
  <2> QED BY <2>1, <2>2, <2>3, BecomesStep DEF Follows
<1> QED BY <1>1, <1>2

LEMMA SucceedStep ==
  ASSUME IInv, Succeed
  PROVE  IInv' /\ cache'.data = cache.data
<1>1. Mutation
  BY Types DEF Succeed, NoOp
<1>2. op' = NoOp \/ op' = [op EXCEPT !.phase = "leads"]
  BY DEF Succeed
<1>3. ASSUME op' = [op EXCEPT !.phase = "leads"] PROVE Mutation'
  BY <1>1, <1>3 DEF Succeed, Mutation
<1>4. owed' \in 0..truth
  BY <1>1, Types DEF Succeed, Mutation
<1> QED BY <1>2, <1>3, <1>4, RefreshStep DEF Succeed

LEMMA BreakStep ==
  ASSUME IInv, Break
  PROVE  IInv' /\ cache'.data = cache.data
<1>1. owed' \in 0..truth
  BY Types DEF Break
<1> QED BY <1>1, RefreshStep DEF Break

LEMMA LeadStep ==
  ASSUME IInv, Lead
  PROVE  IInv' /\ cache'.data = cache.data
<1>1. PICK q \in op.leads : Show(q)
  BY DEF Lead
<1>2. q \in Pages
  BY Types DEF Lead, NoOp, Mutation
<1> QED BY <1>1, <1>2, ShowStep DEF Lead

\* Only Collect takes the data away, and no step makes it older.
LEMMA StepsForward ==
  ASSUME IInv, [Next]_vars
  PROVE  IInv' /\ (cache'.data # None => cache'.data >= cache.data)
<1>1. cache.data \in Nat
  BY Types DEF Entry
<1>2. CASE Poll \/ Focus
  <2>1. cache'.data = cache.data
    BY <1>2, Types, FetchFollows DEF Poll, Focus, CacheBecomes, Entry
  <2> QED BY <1>1, <1>2, <2>1, FetchStep
<1>3. CASE Age \/ Collect
  <2>1. cache'.data \in {cache.data, None}
    BY <1>3, Types DEF Age, Collect, Entry
  <2> QED BY <1>1, <1>3, <2>1, AgeCollectStep
<1>4. ASSUME NEW c \in Calls, Answer(c)
      PROVE  IInv' /\ cache'.data = cache.data
  BY <1>4, AnswerStep DEF Answer
<1>5. ASSUME NEW c \in Calls, Arrive(c) \/ Ignore(c) \/ Fail(c)
      PROVE  IInv' /\ cache'.data >= cache.data
  BY <1>5, EndStep
<1>6. ASSUME NEW q \in Pages, Goto(q)
      PROVE  IInv' /\ cache'.data = cache.data
  <2>1. op' = NoOp \/ Mutation'
    BY <1>6, OpMovedKeeps DEF Goto
  <2> QED BY <1>6, <2>1, ShowStep DEF Goto
<1>7. ASSUME NEW c \in Controls[page], Use(c)
      PROVE  IInv' /\ cache'.data = cache.data
  BY <1>7, UseStep DEF Use
<1>8. CASE Serve \/ Elsewhere
  BY <1>1, <1>8, ServeStep DEF Serve, Elsewhere
<1>9. CASE Succeed \/ Lead \/ Break
  BY <1>1, <1>9, SucceedStep, LeadStep, BreakStep
<1>10. CASE UNCHANGED vars
  <2>1. UNCHANGED <<key, page, truth, cache, wire, owed>> /\ op' = op
    BY <1>10 DEF vars
  <2>2. op' = NoOp \/ Mutation'
    BY <2>1, Types DEF Mutation
  <2> QED BY <1>1, <2>1, <2>2, NewerStep
<1> QED BY <1>1, <1>2, <1>3, <1>4, <1>5, <1>6, <1>7, <1>8, <1>9, <1>10 DEF Next

LEMMA Invariant == Spec => []IInv
<1>1. IInv /\ [Next]_vars => IInv'
  BY StepsForward
<1> QED BY <1>1, Initially, PTL DEF Spec

-----------------------------------------------------------------------------

\* Types, and that a running fetch has its request and its observers, on every
\* page and whatever the user's controls lead to (web/src/routes).
THEOREM TypeCorrect == Spec => []TypeOK
BY Invariant, PTL DEF IInv

\* No page goes back to an older state of the server, for any number of stacks
\* and requests and any order of their answers (the hooks of
\* web/src/lib/api/generated/default/default.ts).
THEOREM NeverGoesBack == Spec => NeverBack
<1>1. IInv /\ [Next]_vars => (cache'.data # None => cache'.data >= cache.data)
  BY StepsForward
<1>2. Spec => [][cache'.data # None => cache'.data >= cache.data]_vars
  BY <1>1, Invariant, PTL DEF Spec
<1> QED BY <1>2 DEF NeverBack

-----------------------------------------------------------------------------
(***************************************************************************)
(* What is shown contains the user's own changes.  The handlers of the     *)
(* controls give the reason (ControlsRefresh), the invariant carries it    *)
(* through the mutation to the refresh and to the answer.                  *)
(***************************************************************************)
Shown == cache.data # None /\ ~cache.invalid => cache.data >= owed
Coming ==
  cache.call # NoCall /\ wire[cache.call].at = "answered"
    => wire[cache.call].version >= owed
Owing == op # NoOp /\ op.touches /\ op.owes => op.refresh # {}

OInv == IInv /\ Shown /\ Coming /\ Owing

LEMMA OwnInitially == Init => OInv
BY Initially DEF Init, OInv, Shown, Coming, Owing

\* A library call does not make an entry valid, and a new request will be
\* answered later.
LEMMA LibraryShows ==
  ASSUME OInv, NEW c \in Calls, wire[c].at = "idle", Follows(c),
         cache.invalid => cache'.invalid,
         wire' = IF cache'.call = c
                 THEN [wire EXCEPT ![c] = [at |-> "asked", version |-> None]]
                 ELSE wire,
         owed' = owed
  PROVE  Shown' /\ Coming'
<1>1. Shown'
  BY DEF OInv, Shown, Follows
<1>2. CASE cache'.call = c
  <2>1. wire'[c].at = "asked"
    BY <1>2, Types DEF OInv
  <2> QED BY <1>1, <1>2, <2>1 DEF Coming
<1>3. CASE cache'.call # c
  BY <1>1, <1>3 DEF OInv, Coming, Follows
<1> QED BY <1>2, <1>3

LEMMA MovedKeeps ==
  ASSUME cache \in Entry, NEW p, NEW q, NEW c \in Calls,
         cache' = Moved(cache, p, q, c)
  PROVE  cache.invalid => cache'.invalid
<1> DEFINE kept == IF OnPage(p) \intersect OnPage(q) # {}
                   THEN cache ELSE [cache EXCEPT !.call = NoCall]
<1>1. kept \in Entry /\ kept.invalid = cache.invalid
  BY DEF Entry
<1>2. ASSUME NEW s \in Entry PROVE Fetch(s, c).invalid = s.invalid
  BY FetchFollows
<1>3. cache' = kept \/ cache' = Fetch(kept, c)
  BY DEF Moved
<1> HIDE DEF kept
<1> QED BY <1>1, <1>2, <1>3

LEMMA InvalidatedMarks ==
  ASSUME cache \in Entry, NEW c \in Calls, cache' = Invalidated(cache, c)
  PROVE  /\ cache'.invalid = TRUE
         /\ Observed /\ (cache.data # None \/ cache.call = NoCall) => cache'.call = c
         /\ ~Observed => cache'.call = cache.call
<1> DEFINE marked == [cache EXCEPT !.invalid = TRUE]
<1>1. marked \in Entry /\ marked.invalid = TRUE /\ marked.call = cache.call
  BY DEF Entry
<1>2. ASSUME NEW s \in Entry
      PROVE  Fetch(s, c).invalid = s.invalid /\ Fetch(s, c).call = c
  BY FetchFollows
<1>3. cache' = IF Observed /\ (cache.data # None \/ cache.call = NoCall)
               THEN Fetch(marked, c) ELSE marked
  BY DEF Invalidated
<1> HIDE DEF marked
<1> QED BY <1>1, <1>2, <1>3

\* A mutation that changes what the watched query shows refreshes something of
\* its kind, unless the polls do or LeftStale has it.
LEMMA UseOwes ==
  ASSUME OInv, NEW c \in Controls[page], Use(c)
  PROVE  Owing'
<1>1. /\ op'.touches = Touches(c) /\ op'.refresh = c.refresh \intersect SameKind
      /\ op'.owes = (key \notin Repeated /\ <<c.call, key>> \notin LeftStale)
  BY DEF Use
<1>2. key \in SameKind
  BY DEF SameKind
<1>3. key \in Queries
  BY WatchedAssumption DEF OInv, IInv, TypeOK
<1>4. Refreshes(c)
  BY Types, ControlsRefresh DEF OInv, AllRefresh
<1> QED BY <1>1, <1>2, <1>3, <1>4 DEF Owing, Touches, Refreshes

LEMMA ReboundSome ==
  ASSUME NEW keys, keys # {}, NEW n, NEW m
  PROVE  Rebound(keys, n, m) # {}
<1> DEFINE Bound(k) == IF Len(k.url) > 1 /\ k.url[2] = n THEN [k EXCEPT !.url[2] = m] ELSE k
<1>1. Rebound(keys, n, m) = {Bound(k) : k \in keys}
  BY DEF Rebound
<1> HIDE DEF Bound
<1> QED BY <1>1

LEMMA MovedOwes ==
  ASSUME OInv, NEW p, NEW q, op' = OpMoved(p, q)
  PROVE  Owing'
<1>1. CASE op' = op
  BY <1>1 DEF OInv, Owing
<1>2. CASE op' # op
  <2>1. Mutation
    BY <1>2, Types DEF OInv, OpMoved
  <2>2. op' = [op EXCEPT !.refresh = Rebound(op.refresh, p.n, q.n)]
        \/ op' = [op EXCEPT !.host = "gone"]
    BY <1>2 DEF OpMoved
  <2>3. op'.touches = op.touches /\ op'.owes = op.owes
    BY <2>1, <2>2 DEF Mutation
  <2>4. op'.refresh = op.refresh \/ op'.refresh = Rebound(op.refresh, p.n, q.n)
    BY <2>1, <2>2 DEF Mutation
  <2>5. op.refresh # {} => op'.refresh # {}
    BY <2>4, ReboundSome
  <2>6. op # NoOp
    BY <1>2 DEF OpMoved
  <2> QED BY <2>3, <2>5, <2>6 DEF OInv, Owing
<1> QED BY <1>1, <1>2

\* The phases of a mutation do not change what it refreshes.
LEMMA ServeOwes ==
  ASSUME OInv, Serve
  PROVE  Owing'
<1>1. Mutation /\ op # NoOp
  BY Types DEF OInv, Serve, NoOp
<1>2. op' = [op EXCEPT !.phase = "served", !.version = truth']
  BY DEF Serve
<1>3. op'.touches = op.touches /\ op'.owes = op.owes /\ op'.refresh = op.refresh
  BY <1>1, <1>2 DEF Mutation
<1> QED BY <1>1, <1>3 DEF OInv, Owing

LEMMA SucceedOwes ==
  ASSUME OInv, Succeed
  PROVE  Owing'
<1>1. CASE op' = NoOp
  BY <1>1 DEF Owing
<1>2. CASE op' = [op EXCEPT !.phase = "leads"]
  <2>1. Mutation /\ op # NoOp
    BY Types DEF OInv, Succeed, NoOp
  <2>2. op'.touches = op.touches /\ op'.owes = op.owes /\ op'.refresh = op.refresh
    BY <1>2, <2>1 DEF Mutation
  <2> QED BY <2>1, <2>2 DEF OInv, Owing
<1> QED BY <1>1, <1>2 DEF Succeed

\* The end of a mutation: the entry is marked, and what is then asked for
\* contains the change.
LEMMA RefreshShows ==
  ASSUME OInv, Refresh \/ UNCHANGED <<cache, wire>>,
         owed' = owed
         \/ (key \in op.refresh /\ (cache.data # None \/ cache.call = NoCall)),
         owed' # owed => Refresh
  PROVE  Shown' /\ Coming'
<1>1. CASE UNCHANGED <<cache, wire>> /\ owed' = owed
  BY <1>1 DEF OInv, Shown, Coming
<1>2. CASE Refresh /\ key \in op.refresh
  <2>1. PICK c \in Calls :
          /\ wire[c].at = "idle" /\ cache' = Invalidated(cache, c)
          /\ wire' = IF cache'.call = c
                     THEN [wire EXCEPT ![c] = [at |-> "asked", version |-> None]]
                     ELSE wire
    BY <1>2 DEF Refresh, CacheBecomes
  <2>2. cache \in Entry /\ wire \in [Calls -> Request]
    BY Types DEF OInv
  <2>3. CASE owed' = owed
    BY <2>1, <2>2, <2>3, InvalidatedMarks, InvalidatedFollows, LibraryShows
  <2>4. CASE owed' # owed
    <3>1. Shown'
      BY <2>1, <2>2, InvalidatedMarks DEF Shown
    <3>2. CASE Observed
      <4>1. cache'.call = c /\ wire'[c].at = "asked"
        BY <2>1, <2>2, <2>4, <3>2, InvalidatedMarks
      <4> QED BY <3>1, <4>1 DEF Coming
    <3>3. CASE ~Observed
      <4>1. cache'.call = NoCall
        BY <2>1, <2>2, <3>3, Types, InvalidatedMarks DEF OInv
      <4> QED BY <3>1, <4>1 DEF Coming
    <3> QED BY <3>2, <3>3
  <2> QED BY <2>3, <2>4
<1>3. CASE Refresh /\ key \notin op.refresh
  <2>1. UNCHANGED <<cache, wire>> /\ owed' = owed
    BY <1>3 DEF Refresh
  <2> QED BY <1>1, <2>1
<1> QED BY <1>1, <1>2, <1>3

LEMMA SucceedShows ==
  ASSUME OInv, Succeed
  PROVE  Shown' /\ Coming'
<1>1. op # NoOp
  BY DEF Succeed, NoOp
<1>2. ~(op.touches /\ op.owes /\ op.refresh = {})
  BY <1>1 DEF OInv, Owing
<1>3. owed' = owed
      \/ (key \in op.refresh /\ (cache.data # None \/ cache.call = NoCall))
  BY <1>2 DEF Succeed
<1>4. Refresh
  BY DEF Succeed
<1> QED BY <1>3, <1>4, RefreshShows

LEMMA ShowShows ==
  ASSUME OInv, NEW q, Show(q), owed' = owed
  PROVE  Shown' /\ Coming'
<1>1. PICK c \in Calls :
        /\ wire[c].at = "idle" /\ cache' = Moved(cache, page, q, c)
        /\ wire' = IF cache'.call = c
                   THEN [wire EXCEPT ![c] = [at |-> "asked", version |-> None]]
                   ELSE wire
  BY DEF Show, CacheBecomes
<1>2. cache \in Entry
  BY Types DEF OInv
<1> QED BY <1>1, <1>2, MovedFollows, MovedKeeps, LibraryShows

LEMMA FetchShows ==
  ASSUME OInv, Poll \/ Focus
  PROVE  Shown' /\ Coming'
<1>1. PICK c \in Calls :
        /\ wire[c].at = "idle" /\ cache' = Fetch(cache, c)
        /\ wire' = IF cache'.call = c
                   THEN [wire EXCEPT ![c] = [at |-> "asked", version |-> None]]
                   ELSE wire
  BY DEF Poll, Focus, CacheBecomes
<1>2. owed' = owed /\ cache \in Entry
  BY Types DEF OInv, Poll, Focus
<1>3. cache'.invalid = cache.invalid
  BY <1>1, <1>2, FetchFollows
<1> QED BY <1>1, <1>2, <1>3, FetchedFollows, LibraryShows

LEMMA AgeCollectShows ==
  ASSUME OInv, Age \/ Collect
  PROVE  Shown' /\ Coming'
<1>1. UNCHANGED <<wire, owed>> /\ cache \in Entry
  BY Types DEF OInv, Age, Collect
<1>2. CASE Age
  <2>1. cache' = [cache EXCEPT !.aged = TRUE]
    BY <1>2 DEF Age
  <2>2. cache'.data = cache.data /\ cache'.invalid = cache.invalid /\ cache'.call = cache.call
    BY <1>1, <2>1 DEF Entry
  <2> QED BY <1>1, <2>2 DEF OInv, Shown, Coming
<1>3. CASE Collect
  <2>1. cache'.data = None /\ cache'.call = NoCall
    BY <1>3 DEF Collect
  <2> QED BY <2>1 DEF Shown, Coming
<1> QED BY <1>2, <1>3

\* An answer is as new as the server, which has every change of the user's.
LEMMA RequestShows ==
  ASSUME OInv, NEW c \in Calls, Answer(c) \/ Arrive(c) \/ Ignore(c) \/ Fail(c)
  PROVE  Shown' /\ Coming'
<1>1. /\ cache \in Entry /\ wire \in [Calls -> Request] /\ owed' = owed
      /\ owed \in 0..truth /\ truth \in Versions /\ NoCall \notin Calls
  BY Types DEF OInv, Answer, Arrive, Ignore, Fail
<1>2. CASE Answer(c)
  <2>1. wire' = [wire EXCEPT ![c] = [at |-> "answered", version |-> truth]]
        /\ cache' = cache
    BY <1>2 DEF Answer
  <2>2. wire'[c].version >= owed
    BY <1>1, <2>1 DEF Versions
  <2>3. \A d \in Calls \ {c} : wire'[d] = wire[d]
    BY <1>1, <2>1
  <2>4. cache.call = NoCall \/ cache.call \in Calls
    BY <1>1 DEF Entry
  <2> QED BY <1>1, <2>1, <2>2, <2>3, <2>4 DEF OInv, Shown, Coming
<1>3. CASE Arrive(c)
  <2>1. /\ cache'.data = wire[c].version /\ cache'.call = NoCall
        /\ wire[c].at = "answered" /\ c = cache.call
    BY <1>3 DEF Arrive
  <2> QED BY <1>1, <2>1 DEF OInv, Shown, Coming
<1>4. CASE Ignore(c)
  <2>1. cache' = cache /\ c # cache.call
        /\ wire' = [wire EXCEPT ![c] = [at |-> "idle", version |-> None]]
    BY <1>4 DEF Ignore, Forget
  <2>2. cache.call = NoCall \/ wire'[cache.call] = wire[cache.call]
    BY <1>1, <2>1 DEF Entry
  <2> QED BY <1>1, <2>1, <2>2 DEF OInv, Shown, Coming
<1>5. CASE Fail(c)
  <2>1. cache'.invalid = TRUE /\ cache'.call = NoCall
    BY <1>1, <1>5 DEF Fail, Entry
  <2> QED BY <2>1 DEF Shown, Coming
<1> QED BY <1>2, <1>3, <1>4, <1>5

LEMMA OwnNext == OInv /\ [Next]_vars => OInv'
<1> SUFFICES ASSUME OInv, [Next]_vars PROVE Shown' /\ Coming' /\ Owing'
  BY StepsForward DEF OInv
<1>1. CASE Poll \/ Focus
  BY <1>1, FetchShows DEF Poll, Focus, OInv, Owing
<1>2. CASE Age \/ Collect
  BY <1>2, AgeCollectShows DEF Age, Collect, OInv, Owing
<1>3. ASSUME NEW c \in Calls, Answer(c) \/ Arrive(c) \/ Ignore(c) \/ Fail(c)
      PROVE  Shown' /\ Coming' /\ Owing'
  BY <1>3, RequestShows DEF Answer, Arrive, Ignore, Fail, OInv, Owing
<1>4. ASSUME NEW q \in Pages, Goto(q) PROVE Shown' /\ Coming' /\ Owing'
  BY <1>4, ShowShows, MovedOwes DEF Goto
<1>5. ASSUME NEW c \in Controls[page], Use(c) PROVE Shown' /\ Coming' /\ Owing'
  <2>1. Shown' /\ Coming'
    BY <1>5 DEF Use, OInv, Shown, Coming
  <2> QED BY <1>5, <2>1, UseOwes
<1>6. CASE Serve
  <2>1. Shown' /\ Coming'
    BY <1>6 DEF Serve, OInv, Shown, Coming
  <2> QED BY <1>6, <2>1, ServeOwes
<1>7. CASE Elsewhere \/ UNCHANGED vars
  BY <1>7 DEF Elsewhere, vars, OInv, Shown, Coming, Owing
<1>8. CASE Succeed
  BY <1>8, SucceedShows, SucceedOwes
<1>9. CASE Lead
  BY <1>9, ShowShows DEF Lead, Owing
<1>10. CASE Break
  <2>1. owed' = owed /\ op' = NoOp /\ (Refresh \/ UNCHANGED <<cache, wire>>)
    BY <1>10 DEF Break
  <2> QED BY <2>1, RefreshShows DEF Owing
<1> QED BY <1>1, <1>2, <1>3, <1>4, <1>5, <1>6, <1>7, <1>8, <1>9, <1>10 DEF Next

\* Once the handler of a mutation has run, no settled entry is older than the
\* change, but for what LeftStale lists: every handler of every control
\* refreshes what the server's side of it changed, for any stacks, and the
\* answer of a request sent before the change never passes for a newer one
\* (the onSuccess handlers of web/src/components).
THEOREM OwnChangesShow == Spec => []SettledShowsOwn
<1>1. OInv => SettledShowsOwn
  BY DEF OInv, Shown, SettledShowsOwn
<1> QED BY <1>1, OwnInitially, OwnNext, PTL DEF Spec

-----------------------------------------------------------------------------
(***************************************************************************)
(* BrowserSession: the entry of the same cache that every page goes by,    *)
(* for any number of sessions and any ways to sign in.                     *)
(***************************************************************************)
\* The running fetch is what was asked, and its answer the session asked for.
Asked ==
  /\ fetch.at = "none" => fetch = NoFetch
  /\ fetch.answer \in {fetch.cookie, NoCookie}

\* Nobody is signed in, in the tab or in what it will hear.
Away ==
  out => /\ cookie = NoCookie /\ tab # "private"
         /\ entry.data = Undefined /\ entry.status # "success"
         /\ fetch.cookie = NoCookie /\ fetch.answer = NoCookie

\* Unless signs have crossed, what is shown, and what the running fetch will
\* bring, is the session of the cookie, or that one is over.
Straight ==
  ~muddled =>
    /\ Authenticated => entry.data = cookie \/ cookie \notin alive
    /\ Fetching => fetch.cookie = cookie \/ cookie \notin alive

\* A sign-in that is alone has nobody shown beside it.
AloneShown ==
  \A w \in Ways :
    signing[w].at # "none" /\ signing[w].alone => ~Authenticated

\* The page of a sign-in is on its way: the fetch for it is running, with a
\* session that no sign-out under way is about to delete.
OnItsWay ==
  due =>
    /\ nav /\ Fetching /\ fetch.cookie = cookie /\ cookie \in alive
    /\ fetch.at = "answered" => fetch.answer = cookie
    /\ leaving.at # "none" => leaving.cookie # cookie

\* A session that a sign-in brings has never been the cookie's.
Fresh ==
  \A w \in Ways :
    signing[w].at = "served" =>
      /\ signing[w].sid \in Sids /\ signing[w].sid # cookie
      /\ leaving.at # "none" => signing[w].sid # leaving.cookie
      /\ \A v \in Ways \ {w} :
           signing[v].at = "served" => signing[v].sid # signing[w].sid

BInv == SessionTypeOK /\ Asked /\ Away /\ Straight /\ AloneShown /\ OnItsWay /\ Fresh

\* The values are told apart, and a fetch runs when it has been asked.
LEMMA Values ==
  ASSUME SessionTypeOK, Asked
  PROVE  /\ made \in Nat /\ Sids \subseteq Nat /\ alive \subseteq Sids
         /\ NoCookie \notin Nat /\ Undefined \notin Nat /\ Null \notin Nat
         /\ Undefined # Null
         /\ Fetching <=> fetch.at # "none"
         /\ made + 1 \notin Sids /\ Sids \subseteq 1 .. made + 1
         /\ made + 1 # NoCookie
<1>1. made \in Nat /\ Sids \subseteq Nat /\ alive \subseteq Sids
  BY MaxSessionsAssumption, ValuesAssumption DEF SessionTypeOK, Sids
<1>2. NoCookie \notin Nat /\ Undefined \notin Nat /\ Null \notin Nat
        /\ Undefined # Null
  BY MaxSessionsAssumption, ValuesAssumption
<1>3. Fetching <=> fetch.at # "none"
  BY DEF Asked, Fetching, NoFetch
<1> QED BY <1>1, <1>2, <1>3 DEF Sids

\* The navigation at the guard, when the cookie and the sessions stay.
LEMMA EnterIInv ==
  ASSUME BInv, Enter(cookie), tab = "private" \/ Authenticated,
         UNCHANGED <<made, alive, cookie, signing, leaving, resetting, out,
                     muddled, due>>, ~nav
  PROVE  BInv'
<1>1. ~due /\ ~out
  BY DEF BInv, OnItsWay, Away, Authenticated
<1>2. CASE entry.data # Undefined
  <2>1. tab' = "private" /\ nav' = FALSE /\ UNCHANGED <<entry, fetch>>
    BY <1>2, Values DEF Enter, cached, BInv, SessionTypeOK
  <2> QED BY <1>1, <2>1 DEF BInv, SessionTypeOK, Sids, Cookies, AuthPages,
          Authenticated, Fetching, Asked, Away, Straight, AloneShown,
          OnItsWay, Fresh
<1>3. CASE entry.data = Undefined
  <2>1. /\ tab' = tab /\ nav' = TRUE /\ entry' = entry
        /\ fetch' = IF Fetching THEN fetch ELSE Ask(cookie)
    BY <1>3 DEF Enter
  <2> QED BY <1>1, <1>3, <2>1, Values DEF BInv, SessionTypeOK, Sids, Cookies, Ask, NoFetch,
          Authenticated, Fetching, Asked, Away, Straight, AloneShown,
          OnItsWay, Fresh
<1> QED BY <1>2, <1>3

\* The page changes, and nothing that was asked or is under way.
LEMMA PageIInv ==
  ASSUME BInv, UNCHANGED <<made, alive, cookie, entry, fetch,
                                              signing, leaving, out, muddled>>,
         resetting' \in BOOLEAN,
         \/ /\ tab' \in AuthPages /\ nav' = FALSE /\ due' = FALSE
         \/ UNCHANGED <<tab, nav, due>>
  PROVE  BInv'
<1>1. SessionTypeOK'
  <2>1. CASE UNCHANGED <<tab, nav, due>>
    BY <2>1 DEF BInv, SessionTypeOK, Sids, Cookies, Authenticated, Fetching
  <2>2. CASE tab' \in AuthPages /\ nav' = FALSE /\ due' = FALSE
    <3>1. {resetting', out', muddled', due'} \subseteq BOOLEAN
      BY <2>2 DEF BInv, SessionTypeOK
    <3>2. tab' \in AuthPages \union {"blank", "private"} /\ tab' # "blank"
      BY <2>2 DEF AuthPages
    <3> QED BY <2>2, <3>1, <3>2
            DEF BInv, SessionTypeOK, Sids, Cookies, Authenticated, Fetching
  <2> QED BY <2>1, <2>2
<1>2. Asked' /\ Away' /\ Straight' /\ AloneShown' /\ Fresh'
  BY DEF BInv, AuthPages, Authenticated, Fetching, Sids, Asked, Away,
     Straight, AloneShown, Fresh
<1>3. OnItsWay'
  BY DEF BInv, Fetching, OnItsWay
<1> QED BY <1>1, <1>2, <1>3 DEF BInv

\* A page load: whoever the cookie says, nothing before it is left.
LEMMA LoadIInv ==
  ASSUME BInv, NEW p \in AuthPages \union {"private"},
         Load(p, cookie'), made' \in 0 .. MaxSessions,
         alive' \subseteq 1 .. made', cookie' \in (1 .. made') \union {NoCookie},
         out' \in BOOLEAN, out' => cookie' = NoCookie
  PROVE  BInv'
<1>1. /\ tab' = IF p = "private" THEN "blank" ELSE p
      /\ nav' = (p = "private")
      /\ entry' = Empty /\ fetch' = Ask(cookie')
      /\ signing' = [w \in Ways |-> NotSigning] /\ leaving' = NotLeaving
      /\ resetting' = FALSE /\ muddled' = FALSE /\ due' = FALSE
  BY DEF Load
<1> QED BY <1>1 DEF BInv, SessionTypeOK, Sids, Cookies, AuthPages, Empty,
        Ask, NoFetch, NotSigning, NotLeaving, Authenticated,
        Fetching, Asked, Away, Straight, AloneShown, OnItsWay, Fresh

LEMMA AnswerIInv == ASSUME BInv, AnswerSession PROVE BInv'
<1>1. /\ fetch.at = "asked"
      /\ fetch' = [fetch EXCEPT !.at = "answered",
                                !.answer = IF fetch.cookie \in alive
                                           THEN fetch.cookie ELSE NoCookie]
      /\ UNCHANGED <<made, alive, cookie, tab, nav, entry, signing, leaving,
                     resetting, out, muddled, due>>
  BY DEF AnswerSession, server, forms, history
<1>2. /\ fetch'.at = "answered" /\ fetch'.cookie = fetch.cookie
      /\ fetch'.answer = IF fetch.cookie \in alive THEN fetch.cookie ELSE NoCookie
      /\ fetch' \in [at : {"none", "asked", "answered"},
                     cookie : Cookies, answer : Cookies]
      /\ Fetching /\ fetch' # NoFetch
  BY <1>1, Values DEF BInv, SessionTypeOK, Cookies, NoFetch
<1> QED BY <1>1, <1>2, Values DEF BInv, SessionTypeOK, Sids, Cookies, AuthPages,
        Authenticated, Fetching, Asked, Away, Straight, AloneShown,
        OnItsWay, Fresh

LEMMA ArriveIInv == ASSUME BInv, ArriveSession PROVE BInv'
<1> DEFINE found == fetch.answer # NoCookie
<1>1. /\ fetch.at = "answered" /\ fetch' = NoFetch /\ nav' = FALSE
      /\ tab' = IF ~nav THEN tab ELSE IF found THEN "private" ELSE "sign-in"
      /\ signing' = [w \in Ways |-> [signing[w] EXCEPT !.alone = @ /\ ~found]]
      /\ muddled' = (muddled /\ fetch.cookie # cookie)
      /\ due' = (due /\ tab' # "private")
      /\ UNCHANGED <<made, alive, cookie, leaving, resetting, out>>
  BY DEF ArriveSession, Decide, server
<1>2. /\ found => entry' = [data |-> fetch.answer, status |-> "success",
                            stale |-> FALSE]
      /\ ~found => /\ entry'.data = entry.data /\ entry'.status = "error"
                   /\ entry'.stale = TRUE
                   /\ entry' \in [data : Sids \union {Undefined}, stale : BOOLEAN,
                                  status : {"pending", "success", "error"}]
  BY DEF ArriveSession, Refused, BInv, SessionTypeOK
<1>3. /\ fetch.answer \in Cookies /\ (found => fetch.answer \in Sids)
      /\ found => fetch.answer = fetch.cookie
      /\ Fetching
  BY <1>1, Values DEF BInv, SessionTypeOK, Cookies, Asked
<1> HIDE DEF found
<1>4. ASSUME NEW w \in Ways
      PROVE  /\ signing'[w] \in [at : {"none", "sent", "served"},
                                 sid : Cookies, alone : BOOLEAN]
             /\ signing'[w].at = signing[w].at /\ signing'[w].sid = signing[w].sid
             /\ signing'[w].alone = (signing[w].alone /\ ~found)
  BY <1>1 DEF BInv, SessionTypeOK
<1>5. SessionTypeOK'
  <2>1. signing' \in [Ways -> [at : {"none", "sent", "served"},
                                   sid : Cookies, alone : BOOLEAN]]
    BY <1>1, <1>4
  <2>2. /\ entry' \in [data : Sids \union {Undefined}, stale : BOOLEAN,
                            status : {"pending", "success", "error"}]
        /\ entry'.status = "success" => entry'.data \in Sids
    <3>1. CASE found
      <4>1. fetch.answer \in Sids
        BY <1>3, <3>1
      <4>2. entry' = [data |-> fetch.answer, status |-> "success", stale |-> FALSE]
        BY <1>2, <3>1
      <4> QED BY <4>1, <4>2
    <3>2. CASE ~found
      BY <1>2, <3>2
    <3> QED BY <3>1, <3>2
  <2>3. /\ tab' \in AuthPages \union {"blank", "private"}
        /\ tab' = "blank" => nav'
    BY <1>1 DEF BInv, SessionTypeOK, AuthPages
  <2>4. fetch' \in [at : {"none", "asked", "answered"},
                        cookie : Cookies, answer : Cookies]
    BY <1>1 DEF NoFetch, Cookies
  <2>5. {resetting', out', muddled', due'} \subseteq BOOLEAN
    BY <1>1 DEF BInv, SessionTypeOK
  <2> QED BY <1>1, <2>1, <2>2, <2>3, <2>4, <2>5
          DEF BInv, SessionTypeOK, Sids, Cookies, Authenticated
<1>6. Asked' /\ Away'
  BY <1>1, <1>2, <1>3 DEF BInv, Asked, Away, NoFetch, found
<1>7. Straight'
  <2>1. ~Fetching'
    BY <1>1 DEF Fetching
  <2>2. ASSUME ~muddled', found, cookie \in alive PROVE fetch.cookie = cookie
    BY <1>1, <1>3, <2>2 DEF BInv, Straight
  <2> QED BY <1>1, <1>2, <1>3, <2>1, <2>2 DEF Straight, Authenticated
<1>8. AloneShown'
  BY <1>2, <1>4 DEF AloneShown, Authenticated
<1>9. OnItsWay'
  <2>1. due => found
    BY <1>1, Values DEF BInv, OnItsWay, found
  <2> QED BY <1>1, <2>1 DEF BInv, OnItsWay
<1>10. Fresh'
  <2>1. Sids' = Sids /\ cookie' = cookie /\ leaving' = leaving
    BY <1>1 DEF Sids
  <2>2. ASSUME NEW w \in Ways, signing[w].at = "served"
        PROVE  /\ signing[w].sid \in Sids /\ signing[w].sid # cookie
               /\ leaving.at # "none" => signing[w].sid # leaving.cookie
               /\ \A v \in Ways \ {w} :
                    signing[v].at = "served" => signing[v].sid # signing[w].sid
    BY <2>2 DEF BInv, Fresh
  <2>3. \A w \in Ways :
          signing'[w].at = signing[w].at /\ signing'[w].sid = signing[w].sid
    BY <1>4
  <2> QED BY <2>1, <2>2, <2>3 DEF Fresh
<1> QED BY <1>5, <1>6, <1>7, <1>8, <1>9, <1>10 DEF BInv

LEMMA FailIInv == ASSUME BInv, FailSession PROVE BInv'
<1>1. /\ fetch' = NoFetch /\ nav' = FALSE /\ due' = FALSE
      /\ tab' = IF ~nav THEN tab ELSE "sign-in"
      /\ UNCHANGED <<made, alive, cookie, signing, leaving, resetting, out, muddled>>
  BY DEF FailSession, Decide, server, forms
<1>2. /\ entry'.data = entry.data /\ entry'.status = "error"
      /\ entry' \in [data : Sids \union {Undefined}, stale : BOOLEAN,
                     status : {"pending", "success", "error"}]
  BY DEF FailSession, Refused, BInv, SessionTypeOK
<1> QED BY <1>1, <1>2, Values DEF BInv, SessionTypeOK, Sids, Cookies, AuthPages,
        Authenticated, Fetching, NoFetch, Asked, Away, Straight,
        AloneShown, OnItsWay, Fresh

\* The entry becomes stale, or is asked for again with the cookie.
LEMMA AskIInv ==
  ASSUME BInv, SessionAges \/ FocusSession \/ ProfileSaved
  PROVE  BInv'
<1>1. /\ UNCHANGED <<made, alive, cookie, tab, nav, signing, leaving, resetting,
                     out, muddled, due>>
      /\ fetch' = fetch \/ fetch' = Ask(cookie)
      /\ entry'.data = entry.data /\ entry'.status = entry.status
      /\ entry' \in [data : Sids \union {Undefined}, stale : BOOLEAN,
                     status : {"pending", "success", "error"}]
      /\ entry.data # Undefined \/ ~Fetching
  BY DEF SessionAges, FocusSession, ProfileSaved, server, forms, history,
     BInv, SessionTypeOK
<1>2. ~due
  BY <1>1 DEF BInv, SessionTypeOK, OnItsWay
<1> QED BY <1>1, <1>2, Values DEF BInv, SessionTypeOK, Sids, Cookies, AuthPages,
        Authenticated, Fetching, NoFetch, Ask, Asked, Away, Straight,
        AloneShown, OnItsWay, Fresh

\* One way to sign in changes, without a session that is not new.
LEMMA FormIInv ==
  ASSUME BInv, NEW w \in Ways,
         SignIn(w) \/ SignInFails(w)
  PROVE  BInv'
<1>1. /\ UNCHANGED <<made, alive, cookie, tab, nav, entry, fetch, leaving,
                     resetting, out, muddled, due>>
      /\ \/ signing' = [signing EXCEPT ![w] = NotSigning]
         \/ /\ signing' = [signing EXCEPT ![w] = [NotSigning EXCEPT !.at = "sent"]]
            /\ ~Authenticated
  BY DEF SignIn, Submit, SignInFails, server, cached, history
<1>2. /\ signing' \in [Ways -> [at : {"none", "sent", "served"},
                                sid : Cookies, alone : BOOLEAN]]
      /\ signing'[w].at \in {"none", "sent"}
      /\ signing'[w].at # "none" => ~Authenticated
      /\ \A v \in Ways \ {w} : signing'[v] = signing[v]
  <2>1. PICK way : /\ signing' = [signing EXCEPT ![w] = way]
                   /\ \/ way = NotSigning
                      \/ /\ way = [NotSigning EXCEPT !.at = "sent"]
                         /\ ~Authenticated
    BY <1>1
  <2>2. NotSigning \in [at : {"none", "sent", "served"},
                       sid : Cookies, alone : BOOLEAN]
    BY DEF NotSigning, Cookies
  <2>3. NotSigning.at = "none"
    BY DEF NotSigning
  <2>4. PICK n : n = NotSigning
    OBVIOUS
  <2>5. /\ way \in [at : {"none", "sent", "served"},
                    sid : Cookies, alone : BOOLEAN]
        /\ way.at \in {"none", "sent"} /\ (way.at # "none" => ~Authenticated)
    BY <2>1, <2>2, <2>3, <2>4
  <2> QED BY <2>1, <2>5 DEF BInv, SessionTypeOK
<1>3. SessionTypeOK'
  BY <1>1, <1>2 DEF BInv, SessionTypeOK, Sids, Cookies, Authenticated, Fetching
<1>4. Asked' /\ Away' /\ Straight' /\ OnItsWay'
  BY <1>1 DEF BInv, Authenticated, Fetching, Asked, Away, Straight, OnItsWay
<1>5. AloneShown' /\ Fresh'
  BY <1>1, <1>2 DEF BInv, Authenticated, Sids, AloneShown, Fresh
<1> QED BY <1>3, <1>4, <1>5 DEF BInv

LEMMA ServeSignInIInv ==
  ASSUME BInv, NEW w \in Ways, ServeSignIn(w)
  PROVE  BInv'
<1>1. /\ made' = made + 1 /\ made < MaxSessions
      /\ alive' = alive \union {made + 1}
      /\ signing[w].at = "sent"
      /\ signing' = [signing EXCEPT ![w].at = "served", ![w].sid = made + 1]
      /\ UNCHANGED <<cookie, tab, nav, entry, fetch, leaving, resetting, out,
                     muddled, due>>
  BY DEF ServeSignIn, CreateSession, cached, history
<1>2. /\ made + 1 \notin Sids /\ Sids \subseteq Sids'
      /\ made + 1 \in Sids' /\ Cookies \subseteq Cookies'
      /\ made + 1 # NoCookie /\ made + 1 \notin Cookies
      /\ made' \in 0 .. MaxSessions
  BY <1>1, Values, MaxSessionsAssumption, ValuesAssumption
  DEF BInv, SessionTypeOK, Sids, Cookies
<1>3. /\ signing'[w].at = "served" /\ signing'[w].sid = made + 1
      /\ signing'[w].alone = signing[w].alone
      /\ signing' \in [Ways -> [at : {"none", "sent", "served"},
                                sid : Cookies', alone : BOOLEAN]]
      /\ \A v \in Ways \ {w} : signing'[v] = signing[v]
  BY <1>1, <1>2 DEF BInv, SessionTypeOK, Cookies
<1>4. cookie \in Cookies /\ leaving.cookie \in Cookies /\ alive \subseteq Sids
  BY DEF BInv, SessionTypeOK
<1>5. SessionTypeOK'
  <2>1. entry \in [data : Sids' \union {Undefined}, stale : BOOLEAN,
                        status : {"pending", "success", "error"}]
    BY <1>2 DEF BInv, SessionTypeOK
  <2>2. /\ fetch \in [at : {"none", "asked", "answered"},
                           cookie : Cookies', answer : Cookies']
        /\ leaving \in [at : {"none", "sent", "served"}, cookie : Cookies']
    BY <1>2 DEF BInv, SessionTypeOK
  <2>3. alive' \subseteq Sids' /\ cookie \in Cookies'
          /\ (Authenticated => entry.data \in Sids')
    BY <1>1, <1>2, <1>4 DEF BInv, SessionTypeOK
  <2>4. {resetting, out, muddled, due} \subseteq BOOLEAN
    BY DEF BInv, SessionTypeOK
  <2>5. /\ nav => entry.data = Undefined /\ Fetching
        /\ tab \in AuthPages \union {"blank", "private"} /\ (tab = "blank" => nav)
    BY DEF BInv, SessionTypeOK
  <2> QED BY <1>1, <1>2, <1>3, <2>1, <2>2, <2>3, <2>4, <2>5
          DEF SessionTypeOK, Authenticated, Fetching
<1>6. Asked' /\ Away' /\ Straight' /\ OnItsWay'
  BY <1>1, <1>2, <1>4
     DEF BInv, Authenticated, Fetching, Asked, Away, Straight, OnItsWay
<1>7. AloneShown'
  BY <1>1, <1>3 DEF BInv, Authenticated, AloneShown
<1>8. Fresh'
  <2>1. ASSUME NEW v \in Ways \ {w}, signing[v].at = "served"
        PROVE  signing[v].sid \in Sids /\ signing[v].sid # made + 1
    BY <1>2, <2>1 DEF BInv, Fresh
  <2> QED BY <1>1, <1>2, <1>3, <1>4, <2>1 DEF BInv, Fresh
<1> QED BY <1>5, <1>6, <1>7, <1>8 DEF BInv

LEMMA SignedInIInv ==
  ASSUME BInv, NEW w \in Ways, SignedIn(w)
  PROVE  BInv'
<1> DEFINE crosses == ~signing[w].alone \/ Fetching
<1>1. /\ signing[w].at = "served" /\ cookie' = signing[w].sid
      /\ signing' = [signing EXCEPT ![w] = NotSigning]
      /\ out' = FALSE /\ muddled' = (muddled \/ crosses)
      /\ due' = (~crosses /\ cookie' \in alive /\ tab' # "private")
      /\ UNCHANGED <<made, alive, leaving, resetting>>
      /\ Enter(cookie')
  BY DEF SignedIn, server
<1>2. cookie' \in Sids /\ cookie' \in Nat /\ cookie' \in Cookies
  BY <1>1, Values DEF BInv, Fresh, Cookies
<1>3. /\ signing' \in [Ways -> [at : {"none", "sent", "served"},
                                sid : Cookies, alone : BOOLEAN]]
      /\ signing'[w].at = "none"
      /\ \A v \in Ways \ {w} : signing'[v] = signing[v]
  BY <1>1 DEF BInv, SessionTypeOK, NotSigning, Cookies
<1>4. /\ entry' = entry
      /\ \/ /\ entry.data # Undefined /\ tab' = "private" /\ nav' = FALSE
            /\ fetch' = fetch
         \/ /\ entry.data = Undefined /\ tab' = tab /\ nav' = TRUE
            /\ fetch' = IF Fetching THEN fetch ELSE Ask(cookie')
  BY <1>1, Values DEF Enter, cached, BInv, SessionTypeOK
<1>5. ~crosses => ~Authenticated
  BY <1>1 DEF BInv, AloneShown
<1>6. {muddled', due'} \subseteq BOOLEAN
  BY <1>1 DEF BInv, SessionTypeOK
<1>6a. /\ ~muddled' => ~crosses
       /\ due' => ~crosses /\ cookie' \in alive /\ tab' # "private"
  BY <1>1
<1>6b. ~crosses => ~Fetching
  OBVIOUS
<1> HIDE DEF crosses
<1>7. SessionTypeOK'
  <2>1. /\ tab' \in AuthPages \union {"blank", "private"}
        /\ tab' = "blank" => nav'
    BY <1>4 DEF BInv, SessionTypeOK
  <2>2. /\ fetch' \in [at : {"none", "asked", "answered"},
                            cookie : Cookies, answer : Cookies]
        /\ nav' => entry.data = Undefined /\ fetch' # NoFetch
    BY <1>2, <1>4 DEF BInv, SessionTypeOK, Ask, NoFetch, Cookies, Fetching
  <2> QED BY <1>1, <1>2, <1>3, <1>4, <1>6, <2>1, <2>2
          DEF BInv, SessionTypeOK, Sids, Cookies, Authenticated, Fetching
<1>8. Asked' /\ Away'
  BY <1>1, <1>4 DEF BInv, Asked, Away, Ask
<1>9. Straight'
  <2>1. ASSUME ~muddled' PROVE ~Authenticated' /\ (Fetching' => fetch'.cookie = cookie')
    BY <1>4, <1>5, <1>6a, <1>6b, <2>1 DEF Authenticated, Fetching, Ask
  <2> QED BY <2>1 DEF Straight
<1>10. AloneShown'
  BY <1>1, <1>3, <1>4 DEF BInv, Authenticated, AloneShown
<1>11. Fresh'
  BY <1>1, <1>3 DEF BInv, Fresh, Sids
<1>12. OnItsWay'
  <2>1. leaving.at # "none" => leaving.cookie # cookie'
    BY <1>1 DEF BInv, Fresh
  <2>2. ASSUME due' PROVE nav' /\ fetch' = Ask(cookie') /\ cookie' \in alive
    BY <1>4, <1>6a, <1>6b, <2>2
  <2> QED BY <1>1, <2>1, <2>2 DEF OnItsWay, Fetching, Ask, NoFetch
<1> QED BY <1>7, <1>8, <1>9, <1>10, <1>11, <1>12 DEF BInv

LEMMA SignOutIInv == ASSUME BInv, SignOut PROVE BInv'
<1>1. /\ Authenticated /\ leaving' = [at |-> "sent", cookie |-> cookie]
      /\ UNCHANGED <<made, alive, cookie, tab, nav, entry, fetch, signing,
                     resetting, out, muddled, due>>
  BY DEF SignOut, server, cached, history
<1>2. ~due
  BY <1>1, Values DEF BInv, OnItsWay, SessionTypeOK
<1>3. SessionTypeOK'
  BY <1>1 DEF BInv, SessionTypeOK, Sids, Cookies, Authenticated, Fetching
<1>4. Asked' /\ Away' /\ Straight' /\ OnItsWay' /\ AloneShown'
  BY <1>1, <1>2 DEF BInv, Authenticated, Fetching, Asked, Away, Straight,
     OnItsWay, AloneShown
<1>5. Fresh'
  BY <1>1 DEF BInv, Sids, Fresh
<1> QED BY <1>3, <1>4, <1>5 DEF BInv

\* Sessions end, but not that of a sign-in that is due.
LEMMA EndIInv ==
  ASSUME BInv, alive' \subseteq alive,
         leaving' = leaving \/ leaving' = [leaving EXCEPT !.at = "served"],
         leaving.at = "none" => leaving' = leaving,
         due' \in BOOLEAN, due' => due /\ cookie \in alive',
         UNCHANGED <<made, cookie, tab, nav, entry, fetch, signing, resetting,
                     out, muddled>>
  PROVE  BInv'
<1>1. /\ leaving' \in [at : {"none", "sent", "served"}, cookie : Cookies]
      /\ leaving'.cookie = leaving.cookie
      /\ leaving'.at # "none" => leaving.at # "none"
  BY DEF BInv, SessionTypeOK
<1>2. {resetting', out', muddled', due'} \subseteq BOOLEAN
  BY DEF BInv, SessionTypeOK
<1>3. SessionTypeOK'
  BY <1>1, <1>2 DEF BInv, SessionTypeOK, Sids, Cookies, Authenticated, Fetching
<1>4. Asked' /\ Away' /\ Straight' /\ OnItsWay' /\ AloneShown'
  BY <1>1 DEF BInv, Authenticated, Fetching, Asked, Away, Straight,
     OnItsWay, AloneShown
<1>5. Fresh'
  BY <1>1 DEF BInv, Sids, Fresh
<1> QED BY <1>3, <1>4, <1>5 DEF BInv

LEMMA SignOutFailsIInv == ASSUME BInv, SignOutFails PROVE BInv'
<1>1. /\ leaving' = NotLeaving /\ nav' = FALSE /\ entry' = Empty
      /\ tab' = IF ~nav THEN tab ELSE "sign-in"
      /\ fetch' = Ask(cookie) /\ due' = FALSE
      /\ UNCHANGED <<made, alive, cookie, signing, resetting, out, muddled>>
  BY DEF SignOutFails, Decide, server
<1> QED BY <1>1, Values DEF BInv, SessionTypeOK, Sids, Cookies, AuthPages,
        Authenticated, Fetching, NoFetch, Ask, Empty, NotLeaving,
        Asked, Away, Straight, AloneShown, OnItsWay, Fresh

\* Another tab changes the cookie, to a new session or to none.
LEMMA OtherTabIInv ==
  ASSUME BInv, OtherTabSignsIn \/ OtherTabSignsOut
  PROVE  BInv'
<1>1. CASE OtherTabSignsIn
  <2>1. /\ made' = made + 1 /\ made < MaxSessions
        /\ alive' = alive \union {made + 1} /\ cookie' = made + 1
        /\ out' = FALSE /\ muddled' = TRUE /\ due' = FALSE
        /\ UNCHANGED <<tab, nav, entry, fetch, signing, leaving, resetting>>
    BY <1>1 DEF OtherTabSignsIn, CreateSession, cached, forms
  <2>2. /\ Sids \subseteq Sids' /\ made + 1 \in Sids' /\ made + 1 \notin Sids
        /\ Cookies \subseteq Cookies' /\ made' \in 0 .. MaxSessions
        /\ cookie' \in Cookies' /\ alive' \subseteq Sids'
    BY <2>1, Values, MaxSessionsAssumption, ValuesAssumption
    DEF BInv, SessionTypeOK, Sids, Cookies
  <2>3. SessionTypeOK'
    <3>1. entry \in [data : Sids' \union {Undefined}, stale : BOOLEAN,
                          status : {"pending", "success", "error"}]
      BY <2>2 DEF BInv, SessionTypeOK
    <3>2. /\ fetch \in [at : {"none", "asked", "answered"},
                             cookie : Cookies', answer : Cookies']
          /\ leaving \in [at : {"none", "sent", "served"}, cookie : Cookies']
          /\ signing \in [Ways -> [at : {"none", "sent", "served"},
                                      sid : Cookies', alone : BOOLEAN]]
      BY <2>2 DEF BInv, SessionTypeOK
    <3>3. Authenticated => entry.data \in Sids'
      BY <2>2 DEF BInv, SessionTypeOK
    <3>4. {resetting', out', muddled', due'} \subseteq BOOLEAN
      BY <2>1 DEF BInv, SessionTypeOK
    <3>5. /\ nav => entry.data = Undefined /\ Fetching
          /\ tab \in AuthPages \union {"blank", "private"} /\ (tab = "blank" => nav)
      BY DEF BInv, SessionTypeOK
    <3> QED BY <2>1, <2>2, <3>1, <3>2, <3>3, <3>4, <3>5
            DEF SessionTypeOK, Authenticated, Fetching
  <2>4. Asked' /\ Away' /\ Straight' /\ OnItsWay' /\ AloneShown'
    BY <2>1 DEF BInv, Authenticated, Fetching, Asked, Away, Straight,
       OnItsWay, AloneShown
  <2>5. Fresh'
    BY <2>1, <2>2 DEF BInv, Fresh
  <2> QED BY <2>3, <2>4, <2>5 DEF BInv
<1>2. CASE OtherTabSignsOut
  <2>1. /\ cookie # NoCookie /\ cookie' = NoCookie
        /\ alive' = alive \ {cookie} /\ due' = FALSE
        /\ UNCHANGED <<made, tab, nav, entry, fetch, signing, leaving, resetting,
                       out, muddled>>
    BY <1>2 DEF OtherTabSignsOut, cached, forms
  <2>2. SessionTypeOK'
    <3>1. {resetting', out', muddled', due'} \subseteq BOOLEAN
      BY <2>1 DEF BInv, SessionTypeOK
    <3> QED BY <2>1, <3>1 DEF BInv, SessionTypeOK, Sids, Cookies,
            Authenticated, Fetching
  <2>3. NoCookie \notin alive' /\ NoCookie \notin Sids
    BY <2>1, Values DEF BInv
  <2>4. Asked' /\ Away' /\ Straight' /\ OnItsWay' /\ AloneShown'
    BY <2>1, <2>3 DEF BInv, Authenticated, Fetching, Asked, Away, Straight,
       OnItsWay, AloneShown
  <2>5. Fresh'
    BY <2>1, <2>3 DEF BInv, Fresh, Sids
  <2> QED BY <2>2, <2>4, <2>5 DEF BInv
<1> QED BY <1>1, <1>2

LEMMA BInitInv == SessionInit => BInv
<1> SUFFICES ASSUME SessionInit PROVE BInv
  OBVIOUS
<1>1. SessionTypeOK
  <2>1. signing \in [Ways -> [at : {"none", "sent", "served"},
                                  sid : Cookies, alone : BOOLEAN]]
    BY DEF SessionInit, Cookies, NotSigning
  <2>2. /\ fetch \in [at : {"none", "asked", "answered"},
                           cookie : Cookies, answer : Cookies]
        /\ leaving \in [at : {"none", "sent", "served"}, cookie : Cookies]
        /\ fetch # NoFetch
    BY DEF SessionInit, Cookies, Ask, NoFetch, NotLeaving
  <2>3. /\ entry \in [data : Sids \union {Undefined}, stale : BOOLEAN,
                           status : {"pending", "success", "error"}]
        /\ entry.data = Undefined /\ entry.status # "success"
    BY DEF SessionInit, Empty
  <2>4. /\ made \in 0 .. MaxSessions /\ alive \subseteq Sids
        /\ cookie \in Cookies
    BY MaxSessionsAssumption, ValuesAssumption DEF SessionInit, Cookies
  <2>5. {resetting, out, muddled, due} \subseteq BOOLEAN
    BY DEF SessionInit
  <2>6. nav /\ tab = "blank"
    BY DEF SessionInit
  <2> QED BY <2>1, <2>2, <2>3, <2>4, <2>5, <2>6
          DEF SessionTypeOK, Authenticated, Fetching
<1>2. Asked /\ Away /\ Straight /\ AloneShown /\ OnItsWay /\ Fresh
  BY DEF SessionInit, Empty, Ask, NotSigning, NotLeaving, Authenticated,
     Asked, Away, Straight, AloneShown, OnItsWay, Fresh
<1> QED BY <1>1, <1>2 DEF BInv

LEMMA BNextInv ==
  BInv /\ [SessionNext]_sessionVars => BInv'
<1> SUFFICES ASSUME BInv, [SessionNext]_sessionVars PROVE BInv'
  OBVIOUS
<1>1. made \in 0 .. MaxSessions /\ alive \subseteq 1 .. made
        /\ cookie \in (1 .. made) \union {NoCookie}
        /\ {resetting, out, muddled, due} \subseteq BOOLEAN
        /\ made \in Nat
  BY Values DEF BInv, SessionTypeOK, Sids, Cookies
<1>2. ASSUME UNCHANGED sessionVars PROVE BInv'
  BY <1>1, <1>2, PageIInv DEF sessionVars
<1>3. ASSUME Follow \/ Bounce PROVE BInv'
  BY <1>3, EnterIInv DEF Follow, Bounce, server, forms, history
<1>4. ASSUME (\E p \in AuthPages : GotoAuth(p)) \/ ResetDone
               \/ ResetPassword \/ ResetFails
      PROVE  BInv'
  BY <1>1, <1>4, PageIInv DEF GotoAuth, ResetDone, ResetPassword,
     ResetFails, server, cached, forms, history, AuthPages
<1>5. ASSUME NEW p \in AuthPages \union {"private"}, Reload(p) PROVE BInv'
  <2>1. out => cookie = NoCookie
    BY DEF BInv, Away
  <2>2. Load(p, cookie') /\ UNCHANGED <<made, alive, cookie, out>>
    BY <1>5 DEF Reload, server, Load
  <2> QED BY <1>1, <2>1, <2>2, LoadIInv
<1>6. ASSUME OAuthSignIn PROVE BInv'
  <2>1. /\ made' = made + 1 /\ made < MaxSessions
        /\ alive' = alive \union {made + 1} /\ cookie' = made + 1
        /\ out' = FALSE /\ Load("private", cookie')
    BY <1>6 DEF OAuthSignIn, CreateSession
  <2>2. /\ made' \in 0 .. MaxSessions /\ alive' \subseteq 1 .. made'
        /\ cookie' \in 1 .. made'
    BY <1>1, <2>1, MaxSessionsAssumption, ValuesAssumption
  <2> QED BY <2>1, <2>2, LoadIInv
<1>7. ASSUME SignedOut PROVE BInv'
  <2>1. /\ cookie' = NoCookie /\ out' = TRUE /\ Load("sign-in", cookie')
        /\ UNCHANGED <<made, alive>> /\ "sign-in" \in AuthPages
    BY <1>7 DEF SignedOut, server, AuthPages
  <2> QED BY <1>1, <2>1, LoadIInv
<1>8. ASSUME ServeSignOut PROVE BInv'
  <2>1. /\ leaving.at = "sent" /\ leaving' = [leaving EXCEPT !.at = "served"]
        /\ alive' \subseteq alive
        /\ cookie \in alive /\ cookie \notin alive' => cookie = leaving.cookie
        /\ UNCHANGED <<made, cookie, tab, nav, entry, fetch, signing, resetting,
                       out, muddled, due>>
    BY <1>8 DEF ServeSignOut, cached, history
  <2>2. due => cookie \in alive'
    BY <2>1 DEF BInv, OnItsWay
  <2> QED BY <1>1, <2>1, <2>2, EndIInv
<1>9. ASSUME NEW s \in alive, End(s) PROVE BInv'
  <2>1. /\ alive' = alive \ {s} /\ due' = (due /\ s # cookie)
        /\ UNCHANGED <<made, cookie, tab, nav, entry, fetch, signing, leaving,
                       resetting, out, muddled>>
    BY <1>9 DEF End, cached, forms
  <2>2. due' \in BOOLEAN /\ (due' => due /\ cookie \in alive')
    BY <1>1, <2>1 DEF BInv, OnItsWay
  <2> QED BY <2>1, <2>2, EndIInv
<1>10. ASSUME NEW w \in Ways,
              SignIn(w) \/ ServeSignIn(w) \/ SignInFails(w) \/ SignedIn(w)
       PROVE  BInv'
  BY <1>10, FormIInv, ServeSignInIInv, SignedInIInv
<1> QED BY <1>2, <1>3, <1>4, <1>5, <1>6, <1>7, <1>8, <1>9, <1>10, AnswerIInv,
           ArriveIInv, FailIInv, AskIInv, SignOutIInv, SignOutFailsIInv,
           OtherTabIInv DEF SessionNext

\* The invariant of the session's entry.
THEOREM SessionInvariance ==
  SessionSpec => []BInv
BY BInitInv, BNextInv, PTL DEF SessionSpec

\* The session's entry, the requests and the page stay well typed: a
\* navigation waits only for a running fetch, and a blank page for its
\* navigation.
THEOREM SessionTypeCorrect ==
  SessionSpec => []SessionTypeOK
<1>1. BInv => SessionTypeOK
  BY DEF BInv
<1> QED BY <1>1, SessionInvariance, PTL

\* Whoever has signed out in a tab is not shown in it again, by no answer that
\* was under way, before somebody signs in.
THEOREM StaysSignedOut ==
  SessionSpec => []SignedOutStaysOut
<1>1. BInv => SignedOutStaysOut
  BY DEF BInv, Away, SignedOutStaysOut, Authenticated
<1> QED BY <1>1, SessionInvariance, PTL

\* The user shown is the one the server goes by, unless a sign-in has crossed
\* a fetch, another sign-in or another tab.
THEOREM ShowsTheServed ==
  SessionSpec => []ShownIsServed
<1>1. BInv => ShownIsServed
  BY DEF BInv, Straight, ShownIsServed
<1> QED BY <1>1, SessionInvariance, PTL

\* A sign-in that crossed nothing leads to its page: until then its navigation
\* is never lost, nor answered with the form.
THEOREM SignInIsFollowed ==
  SessionSpec => []SignInLands
<1>1. BInv => SignInLands
  BY DEF BInv, OnItsWay, SignInLands
<1> QED BY <1>1, SessionInvariance, PTL
=============================================================================
