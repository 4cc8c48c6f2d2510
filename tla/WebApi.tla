------------------------------- MODULE WebApi -------------------------------
(***************************************************************************)
(* The server's API as the web client sees it: the generated hooks of      *)
(* web/src/lib/api/generated/default/default.ts.  A definition stands for  *)
(* one generated endpoint: its URL function, its request function and the  *)
(* hook around it.  What matters of one is the method and the URL below    *)
(* /api: the URL alone is the key of a query's cache entry, and a mutation *)
(* has none.  "{id}" stands for the identifier of a row of a list.         *)
(***************************************************************************)
CONSTANT Names   \* stack names

Get(url) == [method |-> "GET", url |-> url]
Post(url) == [method |-> "POST", url |-> url]
Put(url) == [method |-> "PUT", url |-> url]
Patch(url) == [method |-> "PATCH", url |-> url]
Delete(url) == [method |-> "DELETE", url |-> url]

-----------------------------------------------------------------------------
(* Queries.                                                                *)

getAuthSession == Get(<<"auth", "session">>)
getAuthSessions == Get(<<"auth", "sessions">>)
getAuthApiKeys == Get(<<"auth", "api-keys">>)
getAuthPasskeys == Get(<<"auth", "passkeys">>)
getAuthProviders == Get(<<"auth", "providers">>)
getSettings == Get(<<"settings">>)
getStacks == Get(<<"stacks">>)
getStacksUpdates == Get(<<"stacks", "updates">>)
getStacksDrift == Get(<<"stacks", "drift">>)
getStacksName(n) == Get(<<"stacks", n>>)
getStacksNameContainers(n) == Get(<<"stacks", n, "containers">>)
getStacksNameFiles(n) == Get(<<"stacks", n, "files">>)
getContainers == Get(<<"containers">>)
getContainersStats == Get(<<"containers", "stats">>)
getImages == Get(<<"images">>)
getImagesStale == Get(<<"images", "stale">>)
getNetworks == Get(<<"networks">>)
getVolumes == Get(<<"volumes">>)

Queries ==
  {getAuthSession, getAuthSessions, getAuthApiKeys, getAuthPasskeys,
   getAuthProviders, getSettings, getStacks, getStacksUpdates,
   getStacksDrift, getContainers, getContainersStats, getImages,
   getImagesStale, getNetworks, getVolumes}
  \union UNION {{getStacksName(n), getStacksNameContainers(n),
                 getStacksNameFiles(n)} : n \in Names}

-----------------------------------------------------------------------------
(* Mutations.                                                              *)

patchAuthUser == Patch(<<"auth", "user">>)
postAuthChangeEmail == Post(<<"auth", "change-email">>)
postAuthChangePassword == Post(<<"auth", "change-password">>)
postAuthApiKeys == Post(<<"auth", "api-keys">>)
deleteAuthApiKeysId == Delete(<<"auth", "api-keys", "{id}">>)
postAuthPasskeyRegisterFinish == Post(<<"auth", "passkey", "register", "finish">>)
deleteAuthPasskeyId == Delete(<<"auth", "passkey", "{id}">>)
postAuthSessionsIdRevoke == Post(<<"auth", "sessions", "{id}", "revoke">>)
postAuthSessionsRevokeOthers == Post(<<"auth", "sessions", "revoke-others">>)

postStacks == Post(<<"stacks">>)
deleteStacksName(n) == Delete(<<"stacks", n>>)
postStacksNameRename(n) == Post(<<"stacks", n, "rename">>)
postStacksNameEnv(n) == Post(<<"stacks", n, "env">>)
putStacksNameFiles(n) == Put(<<"stacks", n, "files">>)
postStackActionUp(n) == Post(<<"stacks", n, "up">>)
postStackActionStop(n) == Post(<<"stacks", n, "stop">>)
postStackActionDown(n) == Post(<<"stacks", n, "down">>)
postStackActionRestart(n) == Post(<<"stacks", n, "restart">>)
postStackActionPull(n) == Post(<<"stacks", n, "pull">>)

postContainersIdStart == Post(<<"containers", "{id}", "start">>)
postContainersIdStop == Post(<<"containers", "{id}", "stop">>)
postContainersIdRestart == Post(<<"containers", "{id}", "restart">>)
deleteContainersId == Delete(<<"containers", "{id}">>)
postContainersPrune == Post(<<"containers", "prune">>)
deleteImagesId == Delete(<<"images", "{id}">>)
postImagesPrune == Post(<<"images", "prune">>)
deleteNetworksName == Delete(<<"networks", "{id}">>)
postNetworksPrune == Post(<<"networks", "prune">>)
deleteVolumesName == Delete(<<"volumes", "{id}">>)
postVolumesPrune == Post(<<"volumes", "prune">>)

\* The same actions, and "update", as streams: lib/api/sse.ts.
streamStackAction(n, verb) == Post(<<"stacks", n, verb, "stream">>)
=============================================================================
