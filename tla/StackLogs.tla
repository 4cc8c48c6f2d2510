----------------------------- MODULE StackLogs -----------------------------
(***************************************************************************)
(* The logs tab of a stack (web/src/components/stacks/logs.tsx) and the    *)
(* handler of its WebSocket (internal/server/api/ws/logs.go).  Each Start  *)
(* opens a socket; all of them share one streaming flag, one wsRef and one *)
(* list of lines, which the events of any of them change.                  *)
(***************************************************************************)
EXTENDS Naturals, Sequences, FiniteSets

CONSTANTS MaxSockets,   \* bound on the times Start is used
          Buffer        \* bound on the messages on their way to the page

ASSUME LogsBoundsAssumption == MaxSockets \in Nat /\ Buffer \in Nat \ {0}

VARIABLES streaming,   \* the state streaming
          wsRef,       \* the set of the socket in wsRef, or {}
          shown,       \* the sockets that the lines shown came from
          started,     \* the sockets made so far
          client,      \* per socket: its readyState
          up,          \* per socket: messages to the server
          down,        \* per socket: messages to the page
          handler,     \* per socket: handleLogsWS
          follower,    \* per socket: its streamStackLogsToWS
          unmounted,   \* sockets of a component that is no longer mounted
          clobbered    \* sockets that an event of another one took from wsRef

logsVars == <<streaming, wsRef, shown, started, client, up, down, handler,
              follower, unmounted, clobbered>>
page == <<streaming, wsRef, shown, clobbered>>
server == <<handler, follower>>

Sockets == 1..MaxSockets
Made == 1..started

\* Types, and while the button says Stop there is a socket to stop, the last
\* one made, that is open or about to be.
LogsTypeOK ==
  /\ streaming \in BOOLEAN /\ wsRef \in SUBSET Sockets /\ shown \in SUBSET Sockets
  /\ started \in 0..MaxSockets
  /\ client \in [Sockets -> {"none", "connecting", "open", "closing", "closed"}]
  /\ up \in [Sockets -> Seq({"init", "close"})]
  /\ down \in [Sockets -> Seq({"log", "end", "error"})]
  /\ handler \in [Sockets -> {"none", "reading", "gone"}]
  /\ follower \in [Sockets -> {"none", "runs", "cancelled", "over"}]
  /\ unmounted \in SUBSET Sockets /\ clobbered \in SUBSET Sockets
  /\ wsRef = IF streaming THEN {started} ELSE {}
  /\ streaming => started \notin unmounted /\ client[started] \in {"connecting", "open"}

LogsInit ==
  /\ streaming = FALSE /\ wsRef = {} /\ shown = {} /\ started = 0
  /\ client = [s \in Sockets |-> "none"]
  /\ up = [s \in Sockets |-> <<>>] /\ down = [s \in Sockets |-> <<>>]
  /\ handler = [s \in Sockets |-> "none"] /\ follower = [s \in Sockets |-> "none"]
  /\ unmounted = {} /\ clobbered = {}

-----------------------------------------------------------------------------
(* The page.                                                               *)

Start ==
  /\ ~streaming /\ started < MaxSockets
  /\ started' = started + 1
  /\ streaming' = TRUE /\ shown' = {} /\ wsRef' = {started'}
  /\ client' = [client EXCEPT ![started'] = "connecting"]
  /\ UNCHANGED <<up, down, server, unmounted, clobbered>>

StopLeavesOpen ==
  /\ streaming
  /\ \E s \in wsRef : client[s] = "open" /\ up' = [up EXCEPT ![s] = Append(@, "close")]
  /\ streaming' = FALSE /\ wsRef' = {}
  /\ UNCHANGED <<shown, started, client, down, server, unmounted, clobbered>>

\* While the socket is connecting, its send throws and nothing is stopped.
Stop ==
  /\ streaming
  /\ \E s \in wsRef : /\ client[s] = "open"
                      /\ up' = [up EXCEPT ![s] = Append(@, "close")]
                      /\ client' = [client EXCEPT ![s] = "closing"]
  /\ streaming' = FALSE /\ wsRef' = {}
  /\ UNCHANGED <<shown, started, down, server, unmounted, clobbered>>

RemountOnly ==
  /\ started > 0
  /\ streaming' = FALSE /\ wsRef' = {} /\ shown' = {}
  /\ unmounted' = Made
  /\ UNCHANGED <<started, client, up, down, server, clobbered>>

\* The tab is left, which closes the socket in wsRef, and opened again.
LogsRemount ==
  /\ started > 0
  /\ client' = [s \in Sockets |-> IF s \in wsRef THEN "closing" ELSE client[s]]
  /\ streaming' = FALSE /\ wsRef' = {} /\ shown' = {}
  /\ unmounted' = Made
  /\ UNCHANGED <<started, up, down, server, clobbered>>

\* What onclose, onerror and the messages "end" and "error" do, whichever
\* socket they are of.
Ends(s) ==
  IF s \in unmounted THEN UNCHANGED page
  ELSE /\ streaming' = FALSE /\ wsRef' = {}
       /\ clobbered' = clobbered \union (wsRef \ {s})
       /\ UNCHANGED shown

\* onopen; the server has accepted the connection.
Opened(s) ==
  /\ client[s] = "connecting"
  /\ client' = [client EXCEPT ![s] = "open"]
  /\ handler' = [handler EXCEPT ![s] = "reading"]
  /\ up' = [up EXCEPT ![s] = <<"init">>]
  /\ UNCHANGED <<page, started, down, follower, unmounted>>

\* A message is for the handlers of a socket that is open.
Message(s) ==
  /\ down[s] # <<>>
  /\ down' = [down EXCEPT ![s] = Tail(@)]
  /\ CASE client[s] # "open" -> UNCHANGED page
       [] client[s] = "open" /\ Head(down[s]) = "log" ->
            /\ shown' = IF s \in unmounted THEN shown ELSE shown \union {s}
            /\ UNCHANGED <<streaming, wsRef, clobbered>>
       [] OTHER -> Ends(s)
  /\ UNCHANGED <<started, client, up, server, unmounted>>

ClosedSilently(s) ==
  /\ client[s] \in {"connecting", "open", "closing"}
  /\ client' = [client EXCEPT ![s] = "closed"]
  /\ UNCHANGED <<page, started, up, down, server, unmounted>>

\* The connection is refused, breaks, or is closed by either side.
Closed(s) ==
  /\ client[s] \in {"connecting", "open", "closing"}
  /\ client' = [client EXCEPT ![s] = "closed"]
  /\ Ends(s)
  /\ UNCHANGED <<started, up, down, server, unmounted>>

-----------------------------------------------------------------------------
(* The server.                                                             *)

Cancelled(s) == follower' = [follower EXCEPT ![s] = IF @ = "runs" THEN "cancelled" ELSE @]
Leaves(s) == Cancelled(s) /\ handler' = [handler EXCEPT ![s] = "gone"]

Receive(s) ==
  /\ handler[s] = "reading" /\ up[s] # <<>>
  /\ up' = [up EXCEPT ![s] = Tail(@)]
  /\ IF Head(up[s]) = "init"
     THEN follower' = [follower EXCEPT ![s] = "runs"] /\ UNCHANGED handler
     ELSE Leaves(s)
  /\ UNCHANGED <<page, started, client, down, unmounted>>

\* conn.Read fails once the client is gone.
ReadFails(s) ==
  /\ handler[s] = "reading" /\ up[s] = <<>> /\ client[s] \in {"closing", "closed"}
  /\ Leaves(s)
  /\ UNCHANGED <<page, started, client, up, down, unmounted>>

Send(s, msg) ==
  IF handler[s] = "gone" THEN UNCHANGED down
  ELSE Len(down[s]) < Buffer /\ down' = [down EXCEPT ![s] = Append(@, msg)]

Log(s) ==
  /\ follower[s] = "runs" /\ Send(s, "log") /\ down' # down
  /\ UNCHANGED <<page, started, client, up, server, unmounted>>

\* The containers are gone, the logs cannot be read, or the stream has been
\* cancelled.
StreamEnds(s) ==
  /\ follower[s] \in {"runs", "cancelled"}
  /\ \E msg \in {"end", "error"} : Send(s, msg)
  /\ follower' = [follower EXCEPT ![s] = "over"]
  /\ UNCHANGED <<page, started, client, up, handler, unmounted>>

CancelledEnds(s) == follower[s] = "cancelled" /\ StreamEnds(s)

LogsNext ==
  \/ Start \/ Stop \/ LogsRemount
  \/ \E s \in Sockets :
       \/ Opened(s) \/ Message(s) \/ Closed(s)
       \/ Receive(s) \/ ReadFails(s) \/ Log(s) \/ StreamEnds(s)

\* Messages arrive, a close is noticed, and a cancelled stream ends.
LogsFairness ==
  \A s \in Sockets : /\ WF_logsVars(Message(s)) /\ WF_logsVars(Receive(s))
                     /\ WF_logsVars(ReadFails(s)) /\ WF_logsVars(CancelledEnds(s))

LogsSpec == LogsInit /\ [][LogsNext]_logsVars /\ LogsFairness

-----------------------------------------------------------------------------
(* After Stop, or the end of the stream, no line is added, unless the end  *)
(* of an earlier socket has taken a later one from wsRef: nothing can stop *)
(* that one.                                                               *)
StoppedShowsNothing ==
  [][~streaming /\ clobbered \subseteq unmounted => shown' \subseteq shown]_logsVars

(* When the tab is left, the server stops following the logs for it, with  *)
(* the same exception.                                                     *)
LeftStreamsEnd ==
  \A s \in Sockets :
    s \in unmounted \ clobbered ~> follower[s] \in {"none", "over"}
=============================================================================
