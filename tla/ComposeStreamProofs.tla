------------------------ MODULE ComposeStreamProofs ------------------------
(***************************************************************************)
(* Proofs about ComposeStream for every set of pipes, pipe capacity and    *)
(* output: its safety properties from one inductive invariant, and that it *)
(* implements StreamContract.                                              *)
(***************************************************************************)
EXTENDS ComposeStream, TLAPS

\* The owner of "out" starts the other goroutines after its first send.
StartOrder ==
  /\ gpc = "hello" <=> wpc = "idle"
  /\ \A p \in Pipes : gpc = "hello" <=> rpc[p] = "idle"

\* Readers end, then the status is sent, then done and "out" are closed, then
\* the caller goes on to take the status.
EndOrder ==
  /\ wpc \in {"wait", "reaped", "done"} => \A p \in Pipes : rpc[p] = "done"
  /\ wpc \in {"reaped", "done"}
       => /\ proc \in Exit
          /\ proc = IF result = "none" THEN waitErr ELSE result
  /\ wpc \notin {"reaped", "done"} => waitErr = "none" /\ result = "none"
  /\ gpc = "closed" => wpc = "done"
  /\ cpc \in {"exit", "finished"} => gpc = "closed"
  /\ cpc = "finished" <=> result # "none"

\* A process that was not killed has written its whole output.
ProcOutput ==
  /\ proc = "ok" => \A p \in Pipes : written[p] = output[p].len
  /\ (proc = "failed" /\ ctx = "live")
       => \A p \in Pipes : written[p] = output[p].len

\* Where the lines of pipe p are at each control point of its reader.
ReaderAt(p) ==
  /\ output[p].long <= output[p].len
  /\ delivered[p] <= Readable(p)
  /\ rpc[p] = "idle" => taken[p] = 0 /\ delivered[p] = 0
  /\ rpc[p] = "scan" => taken[p] = delivered[p]
  /\ rpc[p] = "send" => taken[p] = delivered[p] + 1 /\ taken[p] <= Readable(p)
  /\ rpc[p] = "sendErr" => delivered[p] = Readable(p)
  /\ rpc[p] = "done" => \/ delivered[p] = Readable(p)
                        \/ proc = "failed" /\ ctx = "cancelled"

IInv ==
  /\ TypeOK
  /\ StartOrder
  /\ EndOrder
  /\ ProcOutput
  /\ \A p \in Pipes : ReaderAt(p)

LEMMA InitIInv == Init => IInv
<1> SUFFICES ASSUME Init PROVE IInv
  OBVIOUS
<1>1. TypeOK
  BY OutputsAssumption DEF Init, TypeOK, Exit
<1>2. StartOrder /\ EndOrder /\ ProcOutput
  BY DEF Init, StartOrder, EndOrder, ProcOutput, Exit
<1>3. ASSUME NEW p \in Pipes PROVE ReaderAt(p)
  BY OutputsAssumption DEF Init, ReaderAt, Readable
<1> QED BY <1>1, <1>2, <1>3 DEF IInv

\* Reading a line keeps it on the side of the overlong one it is on.
LEMMA ScanLineIInv ==
  ASSUME IInv, NEW p \in Pipes, ScanLine(p) PROVE IInv'
<1>0. ScanLine(p) /\ IInv
  OBVIOUS
<1>1. rpc[p] = "scan" /\ taken[p] < written[p] /\ taken[p] \in Nat
  BY <1>0 DEF ScanLine, IInv, TypeOK
<1>2. TypeOK' /\ StartOrder' /\ EndOrder' /\ ProcOutput'
  BY <1>0, <1>1
     DEF ScanLine, IInv, TypeOK, StartOrder, EndOrder, ProcOutput, Exit,
         envVars, inputs, procVars, callerVars, tally
<1>3. ASSUME NEW q \in Pipes PROVE ReaderAt(q)'
  <2>1. CASE q # p
    BY <1>0, <2>1
       DEF ScanLine, IInv, TypeOK, ReaderAt, Readable, envVars, inputs,
           procVars, callerVars, tally
  <2>2. CASE q = p
    <3> DEFINE len == output[p].len
               long == output[p].long
               t == taken[p]
    <3>1. len \in Nat /\ long \in Nat /\ t \in Nat
      BY DEF IInv, TypeOK
    <3>2. t = delivered[p] /\ t < len /\ long <= len /\ t <= Readable(p)
      BY <1>1 DEF IInv, TypeOK, ReaderAt
    <3>3. /\ taken'[p] = t + 1
          /\ rpc'[p] = IF t + 1 = long THEN "sendErr" ELSE "send"
          /\ UNCHANGED <<output, delivered>>
      BY <1>0 DEF ScanLine, IInv, TypeOK, envVars, inputs, callerVars, tally
    <3>4. t + 1 = long => t = Readable(p)
      BY <3>1 DEF Readable
    <3>5. t + 1 # long => t + 1 <= Readable(p)
      BY <3>1, <3>2 DEF Readable
    <3>6. Readable(p)' = Readable(p)
      BY <3>3 DEF Readable
    <3> HIDE DEF len, long, t
    <3>7. CASE t + 1 = long
      BY <2>2, <3>2, <3>3, <3>4, <3>6, <3>7 DEF ReaderAt, len, long
    <3>8. CASE t + 1 # long
      BY <2>2, <3>2, <3>3, <3>5, <3>6, <3>8 DEF ReaderAt, len, long
    <3> QED BY <3>7, <3>8
  <2> QED BY <2>1, <2>2
<1> QED BY <1>2, <1>3 DEF IInv

LEMMA NextIInv == IInv /\ [Next]_vars => IInv'
<1> SUFFICES ASSUME IInv, [Next]_vars PROVE IInv'
  OBVIOUS
<1> USE DEF IInv, TypeOK, StartOrder, EndOrder, ProcOutput, ReaderAt, Readable,
            Exit, inputs, procVars, readerVars, tally, callerVars, envVars
<1>1. ASSUME NEW p \in Pipes, ProcWrite(p) PROVE IInv'
  BY <1>1, PipeCapAssumption DEF ProcWrite
<1>2. ASSUME NEW p \in Pipes, ScanLine(p) PROVE IInv'
  BY <1>2, ScanLineIInv
<1>3. ASSUME NEW p \in Pipes, ScanEOF(p) PROVE IInv'
  BY <1>3 DEF ScanEOF
<1>4. ASSUME NEW p \in Pipes, RecvLine(p) PROVE IInv'
  BY <1>4 DEF RecvLine, Receives
<1>5. ASSUME NEW p \in Pipes, RecvScanError(p) PROVE IInv'
  BY <1>5 DEF RecvScanError, Receives
<1>6. CASE ProcExit
  BY <1>6 DEF ProcExit
<1>7. CASE ProcKilled
  BY <1>7 DEF ProcKilled
<1>8. CASE Disconnect
  BY <1>8 DEF Disconnect
<1>9. CASE WgWait
  BY <1>9 DEF WgWait
<1>10. CASE Reap
  BY <1>10 DEF Reap
<1>11. CASE CloseDone
  BY <1>11 DEF CloseDone
<1>12. CASE Tick
  BY <1>12 DEF Tick
<1>13. CASE CloseOut
  BY <1>13 DEF CloseOut
<1>14. CASE RecvHello
  BY <1>14 DEF RecvHello, Receives
<1>15. CASE RecvBeat
  BY <1>15 DEF RecvBeat, Receives
<1>16. CASE RecvClosed
  BY <1>16 DEF RecvClosed
<1>17. CASE TakeExit
  BY <1>17 DEF TakeExit
<1>18. CASE WriteOK
  BY <1>18 DEF WriteOK
<1>19. CASE WriteFails
  BY <1>19 DEF WriteFails
<1>20. CASE UNCHANGED vars
  BY <1>20 DEF vars
<1> QED
  BY <1>1, <1>2, <1>3, <1>4, <1>5, <1>6, <1>7, <1>8, <1>9, <1>10, <1>11, <1>12,
     <1>13, <1>14, <1>15, <1>16, <1>17, <1>18, <1>19, <1>20 DEF Next

\* IInv holds in every reachable state.
LEMMA Invariance == Spec => []IInv
  BY InitIInv, NextIInv, PTL DEF Spec

\* Type correctness, and that no line overtakes another stage of its pipe.
THEOREM TypeCorrect == Spec => []TypeOK
  BY Invariance, PTL DEF IInv

\* No goroutine of StreamCompose ever sends on the closed line channel.
THEOREM NoPanic == Spec => []NoSendOnClosed
<1>1. IInv => NoSendOnClosed
  BY DEF IInv, EndOrder, NoSendOnClosed
<1> QED BY <1>1, Invariance, PTL

\* The receive from waitErr that follows the drained channel never blocks.
THEOREM StatusReady == Spec => []ExitStatusReady
<1>1. IInv => ExitStatusReady
  BY DEF IInv, TypeOK, EndOrder, ExitStatusReady, Exit
<1> QED BY <1>1, Invariance, PTL

\* A command that succeeded, or was not killed, has lost no readable line.
THEOREM NothingLost == Spec => []NoLineLost
<1>1. IInv => NoLineLost
  BY DEF IInv, TypeOK, EndOrder, ProcOutput, ReaderAt, NoLineLost, Exit
<1> QED BY <1>1, Invariance, PTL

-----------------------------------------------------------------------------
(* The refinement.                                                         *)

LEMMA InitContract == Init => Contract!Init
  BY OutputsAssumption DEF Init, Contract!Init, Readable

LEMMA StepContract ==
  IInv /\ [Next]_vars => [Contract!Next]_(Contract!contractVars)
<1> SUFFICES ASSUME IInv, [Next]_vars
             PROVE  [Contract!Next]_(Contract!contractVars)
  OBVIOUS
<1> DEFINE status == IF result = "none" THEN waitErr ELSE result
<1> USE DEF inputs, procVars, readerVars, tally, callerVars, envVars
<1>0. (UNCHANGED output /\ UNCHANGED delivered /\ status' = status
         /\ (gpc' = "closed" <=> gpc = "closed"))
        => UNCHANGED Contract!contractVars
  BY DEF Contract!contractVars, Readable
<1>1. ASSUME NEW p \in Pipes, RecvLine(p) PROVE Contract!Deliver(p)
  <2>1. status = "none" /\ delivered[p] < Readable(p)
    BY <1>1 DEF RecvLine, IInv, TypeOK, EndOrder, ReaderAt, Readable
  <2> QED BY <1>1, <2>1 DEF RecvLine, Contract!Deliver, Readable
<1>2. CASE Reap
  <2>1. status = "none" /\ status' = proc /\ proc \in Exit
    BY <1>2 DEF Reap, IInv, TypeOK, EndOrder, Exit
  <2>2. proc = "ok" => \A p \in Pipes : delivered[p] = Readable(p)
    BY <1>2 DEF Reap, IInv, TypeOK, EndOrder, ReaderAt
  <2>3. Contract!Settle
    BY <1>2, <2>1, <2>2 DEF Reap, Contract!Settle, Exit, Readable
  <2> QED BY <2>3 DEF Contract!Next
<1>3. CASE CloseOut
  <2>1. status # "none" /\ gpc # "closed"
    BY <1>3 DEF CloseOut, IInv, TypeOK, EndOrder, Exit
  <2>2. Contract!Close
    BY <1>3, <2>1 DEF CloseOut, Contract!Close, Readable
  <2> QED BY <2>2 DEF Contract!Next
<1>4. CASE TakeExit
  <2>1. status' = status
    BY <1>4 DEF TakeExit, IInv, TypeOK, EndOrder, Exit
  <2> QED BY <1>0, <1>4, <2>1 DEF TakeExit
<1>5. ASSUME NEW p \in Pipes,
             ProcWrite(p) \/ ScanLine(p) \/ ScanEOF(p) \/ RecvScanError(p)
      PROVE  UNCHANGED Contract!contractVars
  BY <1>0, <1>5 DEF ProcWrite, ScanLine, ScanEOF, RecvScanError
<1>6. CASE ProcExit \/ ProcKilled \/ Disconnect \/ WgWait \/ CloseDone \/ Tick
  BY <1>0, <1>6
     DEF ProcExit, ProcKilled, Disconnect, WgWait, CloseDone, Tick
<1>7. CASE RecvHello \/ RecvBeat \/ RecvClosed \/ WriteOK \/ WriteFails
  BY <1>0, <1>7 DEF RecvHello, RecvBeat, RecvClosed, WriteOK, WriteFails
<1>8. CASE UNCHANGED vars
  BY <1>0, <1>8 DEF vars
<1> QED
  BY <1>1, <1>2, <1>3, <1>4, <1>5, <1>6, <1>7, <1>8 DEF Next, Contract!Next

\* StreamCompose and its callers implement StreamContract: lines arrive before
\* the status is known, success means all of them did, close comes last.
THEOREM StreamImplementsContract == Spec => ImplementsContract
  BY InitContract, StepContract, Invariance, PTL
     DEF Spec, ImplementsContract, Contract!Spec
=============================================================================
