------------------------------ MODULE WebPages ------------------------------
(***************************************************************************)
(* The pages of the web client (web/src/routes, web/src/components): which *)
(* queries each one observes, which mutations it offers, and what the      *)
(* success handler of each does to the query cache.                        *)
(*                                                                         *)
(* And the other side of both: what a query's answer is computed from, and *)
(* what a mutation changes (internal/server/api).  The server's data is a  *)
(* set of facts: <<"dirs">> the names of the stacks, <<"file", n>> the     *)
(* files of stack n, <<"box", n>> its containers, and one fact for each    *)
(* other kind of object.                                                   *)
(***************************************************************************)
EXTENDS WebApi

Dirs == <<"dirs">>
File(n) == <<"file", n>>
Box(n) == <<"box", n>>
Files == {File(n) : n \in Names}
Boxes == {Box(n) : n \in Names}

\* What a query of the Docker side of the API is computed from.  A volume or
\* a network is shown as in use or not, which depends on the containers.
DockerReads ==
  {<<getStacks, f>> : f \in {Dirs} \union Boxes}
  \union {<<getStacksUpdates, f>> :
            f \in {Dirs, <<"images">>, <<"digests">>} \union Boxes}
  \union {<<getStacksDrift, f>> : f \in {Dirs} \union Files \union Boxes}
  \union (UNION {{<<getStacksName(n), Dirs>>, <<getStacksName(n), Box(n)>>,
                  <<getStacksNameContainers(n), Box(n)>>,
                  <<getStacksNameFiles(n), File(n)>>} : n \in Names})
  \union ({getContainers, getContainersStats} \X Boxes)
  \union {<<getImages, <<"images">>>>,
          <<getImagesStale, <<"images">>>>, <<getImagesStale, <<"digests">>>>}
  \union {<<getVolumes, f>> : f \in {<<"volumes">>} \union Boxes}
  \union {<<getNetworks, f>> : f \in {<<"networks">>} \union Boxes}

AccountReads ==
  {<<getAuthSession, <<"user">>>>, <<getAuthSessions, <<"sessions">>>>,
   <<getAuthApiKeys, <<"api-keys">>>>, <<getAuthPasskeys, <<"passkeys">>>>}

\* Settings and providers come from the environment and never change.
Reads ==
  [k \in Queries |-> {r[2] : r \in {s \in DockerReads \union AccountReads : s[1] = k}}]

-----------------------------------------------------------------------------
(***************************************************************************)
(* An observer of a query: a hook of a mounted component, by.  poll says   *)
(* whether it has a refetchInterval; keeps is its staleTime, for which a   *)
(* mount is content with the data it finds: not at all ("no", the          *)
(* default), for a while, or forever.                                      *)
(***************************************************************************)
Uses(by, key) == [by |-> by, key |-> key, poll |-> FALSE, keeps |-> "no"]
Polls(by, key) == [Uses(by, key) EXCEPT !.poll = TRUE]

\* The providers and the sidebar around every page of a signed-in user.
Frame ==
  {[Uses("SessionProvider", getAuthSession) EXCEPT !.keeps = "while"],
   [Uses("SettingsProvider", getSettings) EXCEPT !.keeps = "forever"],
   Uses("AppSidebar", getStacks)}

Badges(by) ==
  {[Polls(by, k) EXCEPT !.keeps = "while"] : k \in {getStacksUpdates, getStacksDrift}}

HomeQueries == {Polls("Home", getStacks)} \union Badges("Home")

StackDetailsQueries(n) ==
  {Polls("StackDetails", getStacksName(n)),
   Uses("StackServiceLinks", getStacksNameContainers(n))}
  \union Badges("StackDetails")

TabQueries(n, tab) ==
  CASE tab = "files" -> {Uses("StackFiles", getStacksNameFiles(n))}
    [] tab = "services" -> {Polls("StackServices", getStacksNameContainers(n)),
                            Polls("ContainersTable", getContainersStats)}
    [] tab = "terminal" -> {Polls("StackTerminal", getStacksNameContainers(n))}
    [] tab = "logs" -> {}

ContainersQueries ==
  {Polls("ContainersPage", getContainers), Polls("ContainersTable", getContainersStats)}

ImagesQueries ==
  {Uses("ImagesPage", getImages),
   [Uses("ImagesPage", getImagesStale) EXCEPT !.keeps = "while"]}

VolumesQueries == {Uses("VolumesPage", getVolumes)}
NetworksQueries == {Uses("NetworksPage", getNetworks)}

SecurityQueries ==
  {Uses("SessionsSection", getAuthSessions), Uses("ApiKeysSection", getAuthApiKeys),
   Uses("PasskeysSection", getAuthPasskeys)}

Tabs == {"files", "services", "logs", "terminal"}
StackPage(n, tab) == [at |-> "stack", n |-> n, tab |-> tab]
MissingPage(n) == [at |-> "missing", n |-> n]   \* a stack that does not exist
Page(at) == [at |-> at]

Pages ==
  {StackPage(n, tab) : n \in Names, tab \in Tabs}
  \union {MissingPage(n) : n \in Names}
  \union {Page(at) : at \in {"home", "containers", "images", "volumes",
                             "networks", "account", "security"}}

Observers == [p \in Pages |->
  Frame \union
  CASE p.at = "home" -> HomeQueries
    [] p.at = "stack" -> StackDetailsQueries(p.n) \union TabQueries(p.n, p.tab)
    [] p.at = "containers" -> ContainersQueries
    [] p.at = "images" -> ImagesQueries
    [] p.at = "volumes" -> VolumesQueries
    [] p.at = "networks" -> NetworksQueries
    [] p.at \in {"account", "missing"} -> {}
    [] p.at = "security" -> SecurityQueries]

-----------------------------------------------------------------------------
(***************************************************************************)
(* A control: a mutation a page offers.  changes is what the server does   *)
(* to its data; refresh the queries that the handler of the result         *)
(* invalidates, always whether it also runs after a failure (a stream's    *)
(* end is not told from its failure, the others have onSuccess); rows the  *)
(* query whose answer the control is drawn from, if one is; leads the page *)
(* that the handler navigates to, if it does.                              *)
(***************************************************************************)
Control(call, changes, refresh) ==
  [call |-> call, changes |-> changes, refresh |-> refresh, always |-> FALSE,
   rows |-> {}, leads |-> {}]

InRow(controls, k) == {[c EXCEPT !.rows = {k}] : c \in controls}

\* What a compose command of stack n changes (internal/docker/stacks.go); an
\* up after a pull also clears the digests (api/stacks.go:366-376).
VerbChanges(n, verb) ==
  CASE verb = "up" -> {Box(n), <<"images">>, <<"networks">>, <<"volumes">>}
    [] verb = "update" ->
         {Box(n), <<"images">>, <<"networks">>, <<"volumes">>, <<"digests">>}
    [] verb = "pull" -> {<<"images">>}
    [] verb = "down" -> {Box(n), <<"networks">>}
    [] verb \in {"stop", "restart"} -> {Box(n)}

StackRefresh(n) ==
  {getStacksName(n), getStacksNameContainers(n), getStacks, getStacksUpdates,
   getStacksDrift, getImagesStale}

Stream(n, verb, refresh) ==
  [Control(streamStackAction(n, verb), VerbChanges(n, verb), refresh)
     EXCEPT !.always = TRUE]

\* The buttons of a stack's row on the home page.
StackActions(n) ==
  LET refresh == {getStacks, getStacksUpdates, getStacksDrift, getImagesStale}
  IN  InRow({Control(postStackActionUp(n), VerbChanges(n, "up"), refresh),
             Control(postStackActionStop(n), VerbChanges(n, "stop"), refresh),
             Control(postStackActionDown(n), VerbChanges(n, "down"), refresh),
             Control(postStackActionRestart(n), VerbChanges(n, "restart"), refresh),
             Control(postStackActionPull(n), VerbChanges(n, "pull"), refresh),
             Stream(n, "update", refresh)}, getStacks)

CreateStackButton(n) ==
  [Control(postStacks, {Dirs, File(n)}, {getStacks, getStacksDrift})
     EXCEPT !.leads = {StackPage(n, "files")}]

StackDialogs(n) ==
  {Stream(n, verb, StackRefresh(n)) :
     verb \in {"up", "stop", "update", "pull", "restart", "down"}}

RenameStackDialog(n, m) ==
  [Control(postStacksNameRename(n),
           {Dirs, File(n), File(m), Box(n), Box(m), <<"networks">>, <<"volumes">>},
           {getStacks, getStacksDrift})
     EXCEPT !.leads = {StackPage(m, "services")}]

DestroyStack(n) ==
  [Control(deleteStacksName(n), {Dirs, File(n), Box(n), <<"networks">>},
           {getStacks, getStacksDrift})
     EXCEPT !.leads = {Page("home")}]

\* The success handler asks the router to look again whether the stack exists:
\* if the user is still there, the page of the stack replaces this one.  That
\* is a move between two pages like any other.
StackNotFound(n) == Control(postStacks, {Dirs, File(n)}, {getStacks, getStacksDrift})

\* Mutant: the handler of a save forgets the files it saved.
StackFilesForgets(n) ==
  InRow({Control(putStacksNameFiles(n), {File(n)},
                 {getStacksName(n), getStacksDrift})},
        getStacksNameFiles(n))

StackFiles(n) ==
  InRow({Control(putStacksNameFiles(n), {File(n)},
                 {getStacksNameFiles(n), getStacksName(n), getStacksDrift}),
         Control(postStacksNameEnv(n), {File(n)},
                 {getStacksNameFiles(n), getStacksDrift})},
        getStacksNameFiles(n))

\* The buttons of a container of stack n.  The table never hands the name of
\* the stack to them (components/containers/table.tsx:166), so that their
\* handler takes its other branch wherever they stand; row is the query of
\* the table.
ContainerActions(n, row) ==
  InRow({Control(call, {Box(n)}, {getContainers, getStacks}) :
           call \in {postContainersIdStart, postContainersIdStop,
                     postContainersIdRestart, deleteContainersId}}, row)

PruneContainersButton == Control(postContainersPrune, Boxes, {getContainers})

ContainersControls ==
  (UNION {ContainerActions(n, getContainers) : n \in Names})
    \union {PruneContainersButton}

ImageActions ==
  InRow({Control(deleteImagesId, {<<"images">>}, {getImages})}, getImages)
PruneImagesButton == Control(postImagesPrune, {<<"images">>}, {getImages})

VolumeActions ==
  InRow({Control(deleteVolumesName, {<<"volumes">>}, {getVolumes})}, getVolumes)
PruneVolumesButton == Control(postVolumesPrune, {<<"volumes">>}, {getVolumes})

NetworkActions ==
  InRow({Control(deleteNetworksName, {<<"networks">>}, {getNetworks})}, getNetworks)
PruneNetworksButton == Control(postNetworksPrune, {<<"networks">>}, {getNetworks})

AccountSettings ==
  {Control(call, {<<"user">>}, {getAuthSession}) :
     call \in {patchAuthUser, postAuthChangeEmail}}

\* A changed password leaves the sessions as they are (api/auth/auth.go:290).
ChangePassword == Control(postAuthChangePassword, {}, {})

SessionsSection ==
  InRow({Control(call, {<<"sessions">>}, {getAuthSessions}) :
           call \in {postAuthSessionsIdRevoke, postAuthSessionsRevokeOthers}},
        getAuthSessions)

ApiKeysSection ==
  InRow({Control(deleteAuthApiKeysId, {<<"api-keys">>}, {getAuthApiKeys})},
        getAuthApiKeys)
  \union {Control(postAuthApiKeys, {<<"api-keys">>}, {getAuthApiKeys})}

PasskeysSection ==
  InRow({Control(deleteAuthPasskeyId, {<<"passkeys">>}, {getAuthPasskeys})},
        getAuthPasskeys)
  \union {Control(postAuthPasskeyRegisterFinish, {<<"passkeys">>}, {getAuthPasskeys})}

SecuritySettings ==
  {ChangePassword} \union SessionsSection \union ApiKeysSection \union PasskeysSection

StackControls(n, tab) ==
  StackDialogs(n) \union {DestroyStack(n)}
  \union {RenameStackDialog(n, m) : m \in Names \ {n}}
  \union CASE tab = "files" -> StackFiles(n)
           [] tab = "services" -> ContainerActions(n, getStacksNameContainers(n))
           [] OTHER -> {}

Controls == [p \in Pages |->
  CASE p.at = "home" -> UNION {StackActions(n) \union {CreateStackButton(n)} : n \in Names}
    [] p.at = "stack" -> StackControls(p.n, p.tab)
    [] p.at = "missing" -> {StackNotFound(p.n)}
    [] p.at = "containers" -> ContainersControls
    [] p.at = "images" -> ImageActions \union {PruneImagesButton}
    [] p.at = "volumes" -> VolumeActions \union {PruneVolumesButton}
    [] p.at = "networks" -> NetworkActions \union {PruneNetworksButton}
    [] p.at = "account" -> AccountSettings
    [] p.at = "security" -> SecuritySettings]
=============================================================================
