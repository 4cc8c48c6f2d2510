---------------------------- MODULE ComposeStream ----------------------------
(***************************************************************************)
(* One docker compose command run by internal/docker/stacks.go:            *)
(* StreamCompose starts the process and four goroutines that share the     *)
(* unbuffered channel "out"; the caller is RunCompose, which drains the    *)
(* channel, or handleStackActionStream, which returns as soon as a write   *)
(* to its client fails.                                                    *)
(*                                                                         *)
(* A line is abstracted to its position.  An overlong line is one bigger   *)
(* than the scanner's 1 MiB buffer: the reader of its pipe reports it and  *)
(* stops reading.  Its tail counts as further lines of the pipe.           *)
(***************************************************************************)
EXTENDS Naturals

CONSTANTS Pipes,     \* {stdout, stderr}
          PipeCap,   \* lines the kernel buffers for a pipe
          Outputs    \* outputs a command may produce, one record per pipe

ASSUME PipeCapAssumption == PipeCap \in Nat \ {0}
ASSUME OutputsAssumption ==
  /\ Outputs \subseteq [Pipes -> [len : Nat, long : Nat]]
  /\ \A o \in Outputs : \A p \in Pipes : o[p].long <= o[p].len

VARIABLES
  output,     \* output[p].len lines; .long is the first overlong one or 0
  streaming,  \* the caller is the streaming handler, not RunCompose
  ctx,        \* the request context
  proc,       \* the docker compose process
  written,    \* written[p]: lines the process has written to pipe p
  taken,      \* taken[p]: lines the scanner of pipe p has read
  rpc,        \* control point of the reader goroutine (emit) of each pipe
  wpc,        \* control point of the goroutine that waits for the process
  gpc,        \* control point of the goroutine that owns "out"
  waitErr,    \* the buffered channel waitErr: "none" when empty
  cpc,        \* control point of the caller
  delivered,  \* delivered[p]: lines of pipe p the caller has received
  result      \* what the caller read from waitErr

vars == <<output, streaming, ctx, proc, written, taken, rpc, wpc, gpc,
          waitErr, cpc, delivered, result>>

inputs == <<output, streaming>>
procVars == <<proc, written>>
readerVars == <<taken, rpc>>
tally == <<delivered, result>>
callerVars == <<cpc, tally>>
envVars == <<inputs, ctx, procVars>>

Exit == {"ok", "failed"}

\* The lines a caller can get from pipe p: those before the overlong one.
Readable(p) == IF output[p].long = 0 THEN output[p].len ELSE output[p].long - 1

\* Types, and the order in which a line passes process, scanner and caller.
TypeOK ==
  /\ output \in [Pipes -> [len : Nat, long : Nat]]
  /\ streaming \in BOOLEAN
  /\ ctx \in {"live", "cancelled"}
  /\ proc \in {"running"} \union Exit
  /\ written \in [Pipes -> Nat]
  /\ taken \in [Pipes -> Nat]
  /\ rpc \in [Pipes -> {"idle", "scan", "send", "sendErr", "done"}]
  /\ wpc \in {"idle", "wg", "wait", "reaped", "done"}
  /\ gpc \in {"hello", "loop", "beat", "closed"}
  /\ waitErr \in {"none"} \union Exit
  /\ cpc \in {"recv", "write", "exit", "finished", "gone"}
  /\ delivered \in [Pipes -> Nat]
  /\ result \in {"none"} \union Exit
  /\ \A p \in Pipes : /\ delivered[p] <= taken[p]
                      /\ taken[p] <= written[p]
                      /\ written[p] <= output[p].len

\* The state in which StreamCompose returns: cmd.Start succeeded.
Init ==
  /\ output \in Outputs
  /\ streaming \in BOOLEAN
  /\ ctx = "live"
  /\ proc = "running"
  /\ written = [p \in Pipes |-> 0]
  /\ taken = [p \in Pipes |-> 0]
  /\ rpc = [p \in Pipes |-> "idle"]
  /\ wpc = "idle"
  /\ gpc = "hello"
  /\ waitErr = "none"
  /\ cpc = "recv"
  /\ delivered = [p \in Pipes |-> 0]
  /\ result = "none"

-----------------------------------------------------------------------------
(* The docker compose process and the context that kills it.               *)

ProcWrite(p) ==
  /\ proc = "running"
  /\ written[p] < output[p].len
  /\ written[p] - taken[p] < PipeCap
  /\ written' = [written EXCEPT ![p] = @ + 1]
  /\ UNCHANGED <<inputs, readerVars, callerVars, ctx, proc, wpc, gpc, waitErr>>

ProcExit ==
  /\ proc = "running"
  /\ \A p \in Pipes : written[p] = output[p].len
  /\ proc' \in Exit
  /\ UNCHANGED <<inputs, readerVars, callerVars, ctx, written, wpc, gpc,
                 waitErr>>

\* exec.CommandContext kills the process once the context is done.
ProcKilled ==
  /\ proc = "running"
  /\ ctx = "cancelled"
  /\ proc' = "failed"
  /\ UNCHANGED <<inputs, readerVars, callerVars, ctx, written, wpc, gpc,
                 waitErr>>

\* net/http cancels the request context when the client disconnects.
Disconnect ==
  /\ ctx = "live"
  /\ cpc \notin {"finished", "gone"}
  /\ ctx' = "cancelled"
  /\ UNCHANGED <<inputs, procVars, readerVars, callerVars, wpc, gpc, waitErr>>

-----------------------------------------------------------------------------
(* emit: one reader goroutine per pipe.                                    *)

ScanLine(p) ==
  /\ rpc[p] = "scan"
  /\ taken[p] < written[p]
  /\ taken' = [taken EXCEPT ![p] = @ + 1]
  /\ rpc' = [rpc EXCEPT ![p] =
               IF taken[p] + 1 = output[p].long THEN "sendErr" ELSE "send"]
  /\ UNCHANGED <<envVars, callerVars, wpc, gpc, waitErr>>

ScanEOF(p) ==
  /\ rpc[p] = "scan"
  /\ taken[p] = written[p]
  /\ proc # "running"
  /\ rpc' = [rpc EXCEPT ![p] = "done"]
  /\ UNCHANGED <<envVars, callerVars, taken, wpc, gpc, waitErr>>

-----------------------------------------------------------------------------
(* The waiter: wg.Wait, then waitErr <- cmd.Wait(), then close(done).      *)

\* Mutant: wg.Add(1), so that one finished reader opens the barrier.
WgWaitForOne ==
  /\ wpc = "wg"
  /\ \E p \in Pipes : rpc[p] = "done"
  /\ wpc' = "wait"
  /\ UNCHANGED <<envVars, readerVars, callerVars, gpc, waitErr>>

\* Mutant: cmd.Wait is called without waiting for the readers.
WgWaitSkipped ==
  /\ wpc = "wg"
  /\ wpc' = "wait"
  /\ UNCHANGED <<envVars, readerVars, callerVars, gpc, waitErr>>

WgWait ==
  /\ wpc = "wg"
  /\ \A p \in Pipes : rpc[p] = "done"
  /\ wpc' = "wait"
  /\ UNCHANGED <<envVars, readerVars, callerVars, gpc, waitErr>>

\* Mutant: waitErr is unbuffered, its send needs the caller to receive.
ReapUnbuffered ==
  /\ wpc = "wait"
  /\ proc # "running"
  /\ cpc = "exit"
  /\ waitErr' = proc
  /\ wpc' = "reaped"
  /\ UNCHANGED <<envVars, readerVars, callerVars, gpc>>

Reap ==
  /\ wpc = "wait"
  /\ proc # "running"
  /\ waitErr' = proc
  /\ wpc' = "reaped"
  /\ UNCHANGED <<envVars, readerVars, callerVars, gpc>>

CloseDone ==
  /\ wpc = "reaped"
  /\ wpc' = "done"
  /\ UNCHANGED <<envVars, readerVars, callerVars, gpc, waitErr>>

-----------------------------------------------------------------------------
(* The goroutine that owns "out": heartbeats until done, then close(out).  *)

Tick ==
  /\ gpc = "loop"
  /\ gpc' = "beat"
  /\ UNCHANGED <<envVars, readerVars, callerVars, wpc, waitErr>>

\* Mutant: done is closed before the exit status is sent to waitErr.
CloseOutEarly ==
  /\ gpc \in {"loop", "beat"}
  /\ wpc \in {"wait", "reaped", "done"}
  /\ gpc' = "closed"
  /\ UNCHANGED <<envVars, readerVars, callerVars, wpc, waitErr>>

\* Mutant: the select that sends a heartbeat does not watch done.
CloseOutBetweenBeats ==
  /\ gpc = "loop"
  /\ wpc = "done"
  /\ gpc' = "closed"
  /\ UNCHANGED <<envVars, readerVars, callerVars, wpc, waitErr>>

CloseOut ==
  /\ gpc \in {"loop", "beat"}
  /\ wpc = "done"
  /\ gpc' = "closed"
  /\ UNCHANGED <<envVars, readerVars, callerVars, wpc, waitErr>>

-----------------------------------------------------------------------------
(* The caller.  A receive on the unbuffered channel is one step with the   *)
(* send it meets; the streaming handler then writes to its client.         *)

Receives ==
  /\ cpc = "recv"
  /\ cpc' = IF streaming THEN "write" ELSE "recv"

\* The first item is the command line; only then do the others start.
RecvHello ==
  /\ gpc = "hello"
  /\ Receives
  /\ gpc' = "loop"
  /\ rpc' = [p \in Pipes |-> "scan"]
  /\ wpc' = "wg"
  /\ UNCHANGED <<envVars, taken, waitErr, tally>>

RecvBeat ==
  /\ gpc = "beat"
  /\ Receives
  /\ gpc' = "loop"
  /\ UNCHANGED <<envVars, readerVars, wpc, waitErr, tally>>

RecvLine(p) ==
  /\ rpc[p] = "send"
  /\ Receives
  /\ rpc' = [rpc EXCEPT ![p] = "scan"]
  /\ delivered' = [delivered EXCEPT ![p] = @ + 1]
  /\ UNCHANGED <<envVars, taken, wpc, gpc, waitErr, result>>

\* The scanner gave up on an overlong line: its error is sent, the rest of
\* the pipe is never read.
RecvScanError(p) ==
  /\ rpc[p] = "sendErr"
  /\ Receives
  /\ rpc' = [rpc EXCEPT ![p] = "done"]
  /\ UNCHANGED <<envVars, taken, wpc, gpc, waitErr, tally>>

RecvClosed ==
  /\ cpc = "recv"
  /\ gpc = "closed"
  /\ cpc' = "exit"
  /\ UNCHANGED <<envVars, readerVars, wpc, gpc, waitErr, tally>>

TakeExit ==
  /\ cpc = "exit"
  /\ waitErr # "none"
  /\ result' = waitErr
  /\ waitErr' = "none"
  /\ cpc' = "finished"
  /\ UNCHANGED <<envVars, readerVars, wpc, gpc, delivered>>

WriteOK ==
  /\ cpc = "write"
  /\ cpc' = "recv"
  /\ UNCHANGED <<envVars, readerVars, wpc, gpc, waitErr, tally>>

\* The handler returns on a write error; its return cancels the context.
WriteFails ==
  /\ cpc = "write"
  /\ cpc' = "gone"
  /\ ctx' = "cancelled"
  /\ UNCHANGED <<inputs, procVars, readerVars, wpc, gpc, waitErr, tally>>

-----------------------------------------------------------------------------
Next ==
  \/ \E p \in Pipes : \/ ProcWrite(p)
                      \/ ScanLine(p)
                      \/ ScanEOF(p)
                      \/ RecvLine(p)
                      \/ RecvScanError(p)
  \/ ProcExit
  \/ ProcKilled
  \/ Disconnect
  \/ WgWait
  \/ Reap
  \/ CloseDone
  \/ Tick
  \/ CloseOut
  \/ RecvHello
  \/ RecvBeat
  \/ RecvClosed
  \/ TakeExit
  \/ WriteOK
  \/ WriteFails

Spec == Init /\ [][Next]_vars

(***************************************************************************)
(* Goroutines that can run are scheduled, and the command exits once its   *)
(* output is written or it is killed.  Senders blocked on a channel queue  *)
(* first-in first-out, so one that waits while the caller keeps receiving  *)
(* is served: strong fairness of the receives.  Nothing makes the client   *)
(* disconnect or a write fail.                                             *)
(***************************************************************************)
Fairness ==
  /\ \A p \in Pipes : /\ WF_vars(ProcWrite(p))
                      /\ WF_vars(ScanLine(p))
                      /\ WF_vars(ScanEOF(p))
                      /\ SF_vars(RecvLine(p))
                      /\ SF_vars(RecvScanError(p))
  /\ WF_vars(ProcExit)
  /\ WF_vars(ProcKilled)
  /\ WF_vars(WgWait)
  /\ WF_vars(Reap)
  /\ WF_vars(CloseDone)
  /\ WF_vars(CloseOut)
  /\ SF_vars(RecvHello)
  /\ WF_vars(RecvClosed)
  /\ WF_vars(TakeExit)
  /\ WF_vars(WriteOK)

FairSpec == Spec /\ Fairness

-----------------------------------------------------------------------------
(* Properties.                                                             *)

\* A send on a closed channel panics: when "out" is closed no reader is left
\* that could still send a line or a scan error on it (stacks.go:173-201).
NoSendOnClosed ==
  gpc = "closed" => \A p \in Pipes : rpc[p] = "done"

\* A caller that has drained the channel never blocks on waitErr: the status
\* is in the buffered channel before "out" is closed (stacks.go:195, 223-225).
ExitStatusReady ==
  cpc = "exit" => waitErr # "none"

\* No output is lost: when the caller takes the status of a command that
\* succeeded, or that nothing killed, it has received every readable line.
NoLineLost ==
  (result = "ok" \/ (result = "failed" /\ ctx = "live"))
    => \A p \in Pipes : delivered[p] = Readable(p)

\* The process is blocked for good on a pipe whose reader stopped at an
\* overlong line; heartbeats hide it from the caller (stacks.go:181-188).
Clogged ==
  /\ proc = "running"
  /\ \E p \in Pipes : /\ output[p].long # 0
                      /\ taken[p] = output[p].long
                      /\ written[p] - taken[p] = PipeCap
                      /\ written[p] < output[p].len

\* Readers blocked on "out" after the caller has left, with nobody to receive.
Leaked ==
  cpc = "gone" /\ \E p \in Pipes : rpc[p] \in {"send", "sendErr"}

\* The caller of a command always gets its end, or gives up itself, unless an
\* overlong line clogs a pipe: no goroutine waits for another in a circle.
CallerReturns == <>(cpc \in {"finished", "gone"} \/ Clogged)

\* The goroutines of a command end and its process is reaped unless a pipe is
\* clogged, or the streaming handler left while a line was on its way.
GoroutinesEnd == <>(gpc = "closed" \/ Clogged \/ Leaked)

-----------------------------------------------------------------------------
(* The contract with the caller, and the mapping that shows it is kept.    *)

Contract == INSTANCE StreamContract WITH
  readable <- [p \in Pipes |-> Readable(p)],
  status   <- IF result = "none" THEN waitErr ELSE result,
  closed   <- gpc = "closed"

\* Every step of the stream is a step its contract allows, or changes nothing
\* the caller can tell.
ImplementsContract == Contract!Spec
=============================================================================
