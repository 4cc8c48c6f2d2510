------------------------- MODULE StreamViewProofs --------------------------
(***************************************************************************)
(* Proofs about the two views that follow a stream: ActionDialog, for any  *)
(* number of runs and lines and any size of the connection, and in the     *)
(* last part StackLogs, for any number of sockets.                         *)
(***************************************************************************)
EXTENDS ActionDialog, StackLogs, TLAPS

\* What has not been started has left no trace.
Untouched ==
  /\ orphans \subseteq 1..current /\ overlapped \subseteq 1..current
  /\ open => current > 0 /\ current \notin orphans
  /\ \A r \in Runs :
       /\ r > current => pc[r] = "none"
       /\ pc[r] = "none" =>
            command[r] = "none" /\ sent[r] = 0 /\ got[r] = 0 /\ taken[r] = 0

\* The way of the lines: written whole, read up to what is written.
Pipe ==
  \A r \in Runs :
    /\ sent[r] % 2 = 0 /\ got[r] <= sent[r] /\ taken[r] <= got[r] \div 2
    /\ pc[r] \in {"ended", "failed"} => command[r] = "over"
    /\ pc[r] = "ended" => got[r] = sent[r] /\ got[r] \div 2 = taken[r]

\* A run that was started alone is the only one of its dialog.
Alone ==
  current \notin overlapped =>
    \A r \in Runs \ orphans : Active(r) => r = current

\* What an open dialog whose run was started alone knows of it.
Honest ==
  open /\ current \notin overlapped =>
    /\ pc[current] \in {"racing", "ended", "failed"}
    /\ pc[current] = "racing" => running
    /\ pc[current] \in {"racing", "ended"} => Len(lines) = taken[current]

IInv == TypeOK /\ Untouched /\ Pipe /\ Alone /\ Honest /\ LinesOfOneRun

-----------------------------------------------------------------------------

LEMMA Initially == Init => IInv
<1> SUFFICES ASSUME Init PROVE IInv
  OBVIOUS
<1>1. TypeOK
  <2>1. <<>> \in Seq(Runs)
    OBVIOUS
  <2>2. {} \in SUBSET Runs /\ 0 \in 0..MaxRuns /\ 0 \in Nat
    BY BoundsAssumption
  <2> QED BY <2>1, <2>2 DEF Init, TypeOK
<1>2. Untouched /\ Pipe /\ Alone /\ Honest /\ LinesOfOneRun
  BY DEF Init, Untouched, Pipe, Alone, Honest, LinesOfOneRun, Active
<1> QED BY <1>1, <1>2 DEF IInv

LEMMA OpenStep ==
  ASSUME IInv, Open
  PROVE  IInv'
<1>1. /\ current \in Nat /\ current' = current + 1 /\ current' \in Runs
      /\ current' \notin orphans /\ current' \notin overlapped
      /\ pc[current'] = "none" /\ taken[current'] = 0
  BY BoundsAssumption DEF IInv, TypeOK, Untouched, Open, Runs
<1>2. pc' = [pc EXCEPT ![current'] = "racing"] /\ pc'[current'] = "racing"
  BY <1>1 DEF IInv, TypeOK, Open
<1>3. TypeOK'
  BY <1>1, <1>2 DEF IInv, TypeOK, Open, Runs
<1>4. Untouched'
  BY <1>1, <1>2 DEF IInv, TypeOK, Untouched, Open, Runs
<1>5. Pipe'
  BY <1>1, <1>2 DEF IInv, TypeOK, Pipe, Open
<1>6. Alone'
  BY <1>1, <1>2 DEF IInv, TypeOK, Alone, Active, Open
<1>7. Honest' /\ LinesOfOneRun'
  BY <1>1, <1>2 DEF Honest, LinesOfOneRun, Open
<1> QED BY <1>3, <1>4, <1>5, <1>6, <1>7 DEF IInv

LEMMA CloseStep ==
  ASSUME IInv, Close
  PROVE  IInv'
<1>1. \A r \in Runs : pc'[r] = pc[r] \/ (pc[r] = "racing" /\ pc'[r] = "returning")
  BY DEF Close
<1>2. TypeOK'
  BY DEF IInv, TypeOK, Close
<1>3. Untouched' /\ Pipe'
  BY <1>1 DEF IInv, TypeOK, Untouched, Pipe, Close
<1>4. Alone' /\ Honest' /\ LinesOfOneRun'
  BY <1>1 DEF IInv, Alone, Active, Honest, LinesOfOneRun, Close
<1> QED BY <1>2, <1>3, <1>4 DEF IInv

LEMMA RemountStep ==
  ASSUME IInv, Remount
  PROVE  IInv'
<1>1. TypeOK'
  <2>1. <<>> \in Seq(Runs)
    OBVIOUS
  <2>2. {} \in SUBSET Runs /\ 1..current \subseteq Runs
    BY BoundsAssumption DEF IInv, TypeOK, Runs
  <2> QED BY <2>1, <2>2 DEF IInv, TypeOK, Remount
<1>2. Untouched' /\ Pipe'
  BY DEF IInv, TypeOK, Untouched, Pipe, Remount
<1>3. Alone'
  BY BoundsAssumption DEF IInv, TypeOK, Untouched, Alone, Active, Remount, Runs
<1>4. Honest' /\ LinesOfOneRun'
  BY DEF Honest, LinesOfOneRun, Remount
<1> QED BY <1>1, <1>2, <1>3, <1>4 DEF IInv

\* The end of a run, whatever brings it about.
LEMMA FinishStep ==
  ASSUME IInv, NEW r \in Runs, NEW how \in {"ended", "failed", "left"},
         Active(r), Finish(r, how),
         UNCHANGED <<open, lines, current, sent, got, orphans, overlapped>>,
         \/ UNCHANGED taken
         \/ taken' = [taken EXCEPT ![r] = @ + 1] /\ got[r] \div 2 > taken[r]
            /\ how = "left",
         \/ UNCHANGED command
         \/ command' = [command EXCEPT ![r] = "over"],
         how = "left" => pc[r] = "returning",
         how \in {"ended", "failed"} => command'[r] = "over",
         how = "ended" => got[r] = sent[r] /\ got[r] \div 2 = taken[r]
  PROVE  IInv'
<1>1. pc' = [pc EXCEPT ![r] = how] /\ pc'[r] = how
  BY DEF IInv, TypeOK, Finish
<1>2. r <= current
  BY DEF IInv, TypeOK, Untouched, Active, Runs
<1>3. TypeOK'
  <2>1. pc' \in [Runs -> {"none", "racing", "returning", "ended", "failed", "left"}]
    BY <1>1 DEF IInv, TypeOK
  <2>2. running' \in BOOLEAN /\ stopRef' \in SUBSET Runs
    BY DEF IInv, TypeOK, Finish
  <2>3. command' \in [Runs -> {"none", "runs", "over"}]
    BY DEF IInv, TypeOK
  <2>4. taken' \in [Runs -> Nat]
    <3>1. taken \in [Runs -> Nat] /\ taken[r] + 1 \in Nat
      BY DEF IInv, TypeOK
    <3>2. taken' \in {taken, [taken EXCEPT ![r] = taken[r] + 1]}
      OBVIOUS
    <3> QED BY <3>1, <3>2
  <2> QED BY <2>1, <2>2, <2>3, <2>4 DEF IInv, TypeOK
<1>4. Untouched'
  <2>1. ASSUME NEW q \in Runs
        PROVE  /\ q > current => pc'[q] = "none"
               /\ pc'[q] = "none" =>
                    command'[q] = "none" /\ sent[q] = 0 /\ got[q] = 0 /\ taken'[q] = 0
    <3>1. CASE q = r
      BY <3>1, <1>1, <1>2 DEF IInv, TypeOK, Runs
    <3>2. CASE q # r
      BY <3>2, <1>1 DEF IInv, TypeOK, Untouched
    <3> QED BY <3>1, <3>2
  <2> QED BY <2>1 DEF IInv, Untouched
<1>5. Pipe'
  BY <1>1 DEF IInv, TypeOK, Pipe
<1>6. Alone' /\ LinesOfOneRun'
  BY <1>1 DEF IInv, TypeOK, Alone, Active, LinesOfOneRun
<1>7. Honest'
  <2> SUFFICES ASSUME open, current \notin overlapped
               PROVE  /\ pc'[current] \in {"racing", "ended", "failed"}
                      /\ pc'[current] = "racing" => running'
                      /\ pc'[current] \in {"racing", "ended"} =>
                           Len(lines) = taken'[current]
    BY DEF Honest
  <2>1. current \in Runs /\ current \notin orphans
    BY DEF IInv, TypeOK, Untouched, Runs
  <2>2. CASE r = current
    BY <2>1, <2>2, <1>1 DEF IInv, TypeOK, Honest, Active
  <2>3. CASE r # current
    <3>1. r \in orphans
      BY <2>3 DEF IInv, Alone
    <3> QED BY <2>1, <2>3, <3>1, <1>1 DEF IInv, TypeOK, Honest, Finish
  <2> QED BY <2>2, <2>3
<1> QED BY <1>3, <1>4, <1>5, <1>6, <1>7 DEF IInv

LEMMA ReadStep ==
  ASSUME IInv, NEW r \in Runs, Read(r)
  PROVE  IInv'
<1>1. PICK n \in got[r] + 1 .. sent[r] : got' = [got EXCEPT ![r] = n]
  BY DEF Read
<1>2. n \in Nat /\ got[r] \in Nat /\ sent[r] \in Nat /\ n > got[r] /\ n <= sent[r]
  BY DEF IInv, TypeOK
<1>3. TypeOK'
  BY <1>1, <1>2 DEF IInv, TypeOK, Read
<1>4. Untouched'
  BY <1>1, <1>2 DEF IInv, TypeOK, Untouched, Active, Read
<1>5. Pipe'
  BY <1>1, <1>2 DEF IInv, TypeOK, Pipe, Active, Read
<1> QED BY <1>3, <1>4, <1>5 DEF IInv, Alone, Active, Honest, LinesOfOneRun, Read

LEMMA LineStep ==
  ASSUME IInv, NEW r \in Runs, Line(r)
  PROVE  IInv'
<1>1. CASE pc[r] = "returning"
  BY <1>1, FinishStep DEF Line
<1>2. CASE pc[r] = "racing"
  <2>1. /\ taken' = [taken EXCEPT ![r] = @ + 1]
        /\ lines' = IF r \in orphans THEN lines ELSE Append(lines, r)
        /\ UNCHANGED <<open, running, stopRef, current, pc, command, sent, got,
                       orphans, overlapped>>
        /\ got[r] \div 2 > taken[r]
    BY <1>2 DEF Line, ShowLine
  <2>2. lines \in Seq(Runs) /\ taken[r] \in Nat /\ taken[r] + 1 \in Nat
    BY DEF IInv, TypeOK
  <2>3. lines' \in Seq(Runs)
    BY <2>1, <2>2
  <2>4. TypeOK'
    BY <2>1, <2>2, <2>3 DEF IInv, TypeOK
  <2>5. Untouched'
    BY <1>2, <2>1 DEF IInv, TypeOK, Untouched
  <2>6. Pipe'
    BY <1>2, <2>1 DEF IInv, TypeOK, Pipe
  <2>7. Alone'
    BY <2>1 DEF IInv, Alone, Active
  <2>8. current \notin overlapped /\ r \notin orphans => r = current
    BY <1>2 DEF IInv, Alone, Active
  <2>9. LinesOfOneRun'
    <3> SUFFICES ASSUME current \notin overlapped, NEW i \in DOMAIN lines'
                 PROVE  lines'[i] = current
      BY <2>1 DEF LinesOfOneRun
    <3>1. CASE r \in orphans
      BY <3>1, <2>1 DEF IInv, LinesOfOneRun
    <3>2. CASE r \notin orphans
      BY <3>2, <2>1, <2>2, <2>8 DEF IInv, LinesOfOneRun
    <3> QED BY <3>1, <3>2
  <2>10. Honest'
    <3> SUFFICES ASSUME open, current \notin overlapped
                 PROVE  /\ pc[current] \in {"racing", "ended", "failed"}
                        /\ pc[current] = "racing" => running
                        /\ pc[current] \in {"racing", "ended"} =>
                             Len(lines') = taken'[current]
      BY <2>1 DEF Honest
    <3>1. current \in Runs /\ current \notin orphans
      BY DEF IInv, TypeOK, Untouched, Runs
    <3>2. CASE r = current
      <4>1. Len(lines') = Len(lines) + 1 /\ taken'[current] = taken[current] + 1
        BY <3>1, <3>2, <2>1, <2>2 DEF IInv, TypeOK
      <4> QED BY <4>1, <1>2, <3>2 DEF IInv, Honest
    <3>3. CASE r # current
      <4>1. lines' = lines /\ taken'[current] = taken[current]
        BY <3>1, <3>3, <2>1, <2>8 DEF IInv, TypeOK
      <4> QED BY <4>1 DEF IInv, Honest
    <3> QED BY <3>2, <3>3
  <2> QED BY <2>4, <2>5, <2>6, <2>7, <2>9, <2>10 DEF IInv
<1> QED BY <1>1, <1>2 DEF Line, Active

LEMMA EndsStep ==
  ASSUME IInv, NEW r \in Runs, Beat(r) \/ End(r) \/ Break(r)
  PROVE  IInv'
<1>1. CASE Beat(r)
  BY <1>1, FinishStep DEF Beat, Active
<1>2. CASE End(r)
  <2>1. CASE pc[r] = "racing"
    BY <1>2, <2>1, FinishStep DEF End
  <2>2. CASE pc[r] # "racing"
    BY <1>2, <2>2, FinishStep DEF End, Active
  <2> QED BY <2>1, <2>2
<1>3. CASE Break(r)
  <2>1. command'[r] = "over"
    BY <1>3 DEF IInv, TypeOK, Break
  <2> QED BY <1>3, <2>1, FinishStep DEF Break
<1> QED BY <1>1, <1>2, <1>3

LEMMA ServerStep ==
  ASSUME IInv, NEW r \in Runs, Begin(r) \/ Emit(r) \/ Over(r)
  PROVE  IInv'
<1>1. pc[r] # "none"
  BY DEF IInv, TypeOK, Untouched, Active, Begin, Emit, Over
<1>2. UNCHANGED <<open, running, lines, stopRef, current, pc, got, taken, orphans,
                  overlapped>>
  BY DEF Begin, Emit, Over
<1>3. sent[r] \in Nat /\ sent[r] + 2 \in Nat
  BY DEF IInv, TypeOK
<1>4. TypeOK' /\ Untouched' /\ Pipe'
  <2>1. CASE Begin(r)
    BY <2>1, <1>1 DEF IInv, TypeOK, Untouched, Pipe, Active, Begin
  <2>2. CASE Emit(r)
    <3>1. command[r] = "runs" /\ sent' = [sent EXCEPT ![r] = sent[r] + 2]
      BY <2>2 DEF Emit
    <3>2. TypeOK'
      BY <2>2, <3>1, <1>3 DEF IInv, TypeOK, Emit
    <3>3. Untouched'
      BY <2>2, <3>1, <1>1 DEF IInv, TypeOK, Untouched, Emit
    <3>4. Pipe'
      <4>1. (sent[r] + 2) % 2 = 0
        <5>1. \A n \in Nat : n % 2 = 0 => (n + 2) % 2 = 0
          OBVIOUS
        <5> QED BY <5>1, <1>3 DEF IInv, Pipe
      <4>2. got[r] \in Nat /\ got[r] <= sent[r] + 2
        <5>1. got[r] \in Nat /\ got[r] <= sent[r]
          BY DEF IInv, TypeOK, Pipe
        <5> QED BY <5>1, <1>3
      <4>3. ASSUME NEW q \in Runs
            PROVE  sent'[q] % 2 = 0 /\ got[q] <= sent'[q]
        BY <4>1, <4>2, <3>1, <1>3 DEF IInv, TypeOK, Pipe
      <4>4. ASSUME NEW q \in Runs, pc[q] \in {"ended", "failed"}
            PROVE  sent'[q] = sent[q]
        BY <4>4, <3>1 DEF IInv, TypeOK, Pipe
      <4> QED BY <4>3, <4>4, <2>2 DEF IInv, Pipe, Emit
    <3> QED BY <3>2, <3>3, <3>4
  <2>3. CASE Over(r)
    BY <2>3, <1>1 DEF IInv, TypeOK, Untouched, Pipe, Over
  <2> QED BY <2>1, <2>2, <2>3
<1> QED BY <1>2, <1>4 DEF IInv, Alone, Active, Honest, LinesOfOneRun

LEMMA Inductive == IInv /\ [Next]_vars => IInv'
<1> SUFFICES ASSUME IInv, [Next]_vars PROVE IInv'
  OBVIOUS
<1>1. CASE Open \/ Close \/ Remount
  BY <1>1, OpenStep, CloseStep, RemountStep
<1>2. ASSUME NEW r \in Runs, Read(r) \/ Line(r) PROVE IInv'
  BY <1>2, ReadStep, LineStep
<1>3. ASSUME NEW r \in Runs, Beat(r) \/ End(r) \/ Break(r) PROVE IInv'
  BY <1>3, EndsStep
<1>4. ASSUME NEW r \in Runs, Begin(r) \/ Emit(r) \/ Over(r) PROVE IInv'
  BY <1>4, ServerStep
<1>5. CASE UNCHANGED vars
  BY <1>5 DEF vars, IInv, TypeOK, Untouched, Pipe, Alone, Active, Honest, LinesOfOneRun
<1> QED BY <1>1, <1>2, <1>3, <1>4, <1>5 DEF Next

LEMMA Invariant == Spec => []IInv
BY Initially, Inductive, PTL DEF Spec

-----------------------------------------------------------------------------

\* Types, of the dialog, the runs and the counts of lines (action-dialog.tsx).
THEOREM TypeCorrect == Spec => []TypeOK
BY Invariant, PTL DEF IInv

\* An open dialog that shows "Done." does so of a command that is over, however
\* often it was closed, left and opened, unless two runs overlapped.
THEOREM DoneIsOver == Spec => []DoneMeansOver
<1>1. IInv => DoneMeansOver
  <2> SUFFICES ASSUME IInv, open, ~running, current \notin overlapped
               PROVE  pc[current] \in {"ended", "failed"} /\ command[current] = "over"
    BY DEF DoneMeansOver
  <2>1. current \in Runs
    BY DEF IInv, TypeOK, Untouched, Runs
  <2>2. pc[current] \in {"ended", "failed"}
    BY DEF IInv, Honest
  <2> QED BY <2>1, <2>2 DEF IInv, Pipe
<1> QED BY <1>1, Invariant, PTL

\* The lines in the dialog are those of its last run, with that exception.
THEOREM OutputOfOneRun == Spec => []LinesOfOneRun
BY Invariant, PTL DEF IInv

\* A run whose stream ended while the dialog was open shows every line the
\* server wrote, however the connection cut them up.
THEOREM NothingLost == Spec => []AllShown
<1>1. IInv => AllShown
  <2> SUFFICES ASSUME IInv, open, current > 0, current \notin overlapped,
                      pc[current] = "ended"
               PROVE  2 * Len(lines) = sent[current]
    BY DEF AllShown
  <2>1. current \in Runs
    BY DEF IInv, TypeOK, Runs
  <2>2. Len(lines) = taken[current]
    BY DEF IInv, Honest
  <2>3. /\ sent[current] \in Nat /\ sent[current] % 2 = 0
        /\ sent[current] \div 2 = taken[current]
    BY <2>1 DEF IInv, TypeOK, Pipe
  <2> QED BY <2>2, <2>3
<1> QED BY <1>1, Invariant, PTL

-----------------------------------------------------------------------------
(***************************************************************************)
(* StackLogs: the logs tab, the other view that follows a stream.          *)
(***************************************************************************)
\* Only sockets that were made have a past.
Unmade ==
  /\ unmounted \subseteq Made /\ clobbered \subseteq Made
  /\ \A s \in Sockets : s > started => client[s] = "none"

\* The protocol of one socket: the server knows nothing of it before it is
\* open, "init" comes first and once, and "end" or "error" last.
Protocol ==
  \A s \in Sockets :
    /\ client[s] \in {"none", "connecting"} =>
         handler[s] = "none" /\ follower[s] = "none"
    /\ \A i \in DOMAIN up[s] :
         up[s][i] = "init" => i = 1 /\ follower[s] = "none"
    /\ \A i \in DOMAIN down[s] :
         down[s][i] # "log" => i = Len(down[s]) /\ follower[s] = "over"

\* A live socket of the mounted tab is the one Stop would close, or was taken
\* from wsRef by another, or has nothing more to say.
Accounted ==
  \A s \in Sockets \ unmounted :
    client[s] \in {"connecting", "open"} =>
      \/ s \in clobbered
      \/ wsRef = {s}
      \/ follower[s] = "over" /\ down[s] = <<>>

LInv == LogsTypeOK /\ Unmade /\ Protocol /\ Accounted

LEMMA LInitInv == LogsInit => LInv
<1> SUFFICES ASSUME LogsInit PROVE LInv
  OBVIOUS
<1>1. LogsTypeOK
  <2>1. <<>> \in Seq({"init", "close"}) /\ <<>> \in Seq({"log", "end", "error"})
    OBVIOUS
  <2>2. started \in 0 .. MaxSockets
    BY LogsBoundsAssumption DEF LogsInit
  <2> QED BY <2>1, <2>2 DEF LogsInit, LogsTypeOK
<1>2. Unmade /\ Protocol /\ Accounted
  BY DEF LogsInit, Unmade, Protocol, Accounted
<1> QED BY <1>1, <1>2 DEF LInv

LEMMA LStart == ASSUME LInv, Start PROVE LInv'
<1>1. /\ started \in Nat /\ started' = started + 1 /\ started' \in Sockets
      /\ streaming' = TRUE /\ shown' = {} /\ wsRef' = {started'} /\ wsRef = {}
      /\ client' = [client EXCEPT ![started'] = "connecting"]
      /\ UNCHANGED <<up, down, handler, follower, unmounted, clobbered>>
      /\ client[started'] = "none" /\ started' \notin unmounted
  BY LogsBoundsAssumption DEF LInv, Start, LogsTypeOK, Sockets, server, Unmade, Made
<1>2. LogsTypeOK'
  BY <1>1 DEF LInv, LogsTypeOK, Sockets
<1>3. Unmade'
  BY <1>1 DEF LInv, LogsTypeOK, Unmade, Made, Sockets
<1>4. Protocol' /\ Accounted'
  BY <1>1 DEF LInv, LogsTypeOK, Protocol, Accounted
<1> QED BY <1>2, <1>3, <1>4 DEF LInv

LEMMA LStop == ASSUME LInv, Stop PROVE LInv'
<1>1. PICK s \in Sockets :
        /\ wsRef = {s} /\ client[s] = "open"
        /\ up' = [up EXCEPT ![s] = Append(@, "close")]
        /\ client' = [client EXCEPT ![s] = "closing"]
  BY DEF Stop, LInv, LogsTypeOK
<1>2. /\ streaming' = FALSE /\ wsRef' = {}
      /\ UNCHANGED <<shown, started, down, handler, follower, unmounted, clobbered>>
  BY DEF Stop, server
<1>3. /\ up[s] \in Seq({"init", "close"})
      /\ Append(up[s], "close") \in Seq({"init", "close"})
      /\ \A i \in DOMAIN Append(up[s], "close") :
           \/ Append(up[s], "close")[i] = "close"
           \/ i \in DOMAIN up[s] /\ Append(up[s], "close")[i] = up[s][i]
  BY DEF LInv, LogsTypeOK
<1>4. LogsTypeOK'
  BY <1>1, <1>2, <1>3 DEF LInv, LogsTypeOK
<1>5. Unmade'
  BY <1>1, <1>2 DEF LInv, LogsTypeOK, Unmade, Made
<1>6. Protocol'
  BY <1>1, <1>2, <1>3 DEF LInv, LogsTypeOK, Protocol
<1>7. Accounted'
  BY <1>1, <1>2 DEF LInv, LogsTypeOK, Accounted
<1> QED BY <1>4, <1>5, <1>6, <1>7 DEF LInv

LEMMA LRemount == ASSUME LInv, LogsRemount PROVE LInv'
<1>1. /\ client' = [s \in Sockets |->
                      IF s \in wsRef THEN "closing" ELSE client[s]]
      /\ streaming' = FALSE /\ wsRef' = {} /\ shown' = {}
      /\ unmounted' = Made
      /\ UNCHANGED <<started, up, down, handler, follower, clobbered>>
      /\ started \in 0 .. MaxSockets
  BY DEF LogsRemount, server, LInv, LogsTypeOK
<1>2. LogsTypeOK'
  <2>1. Made \in SUBSET Sockets
    BY <1>1, LogsBoundsAssumption DEF Made, Sockets
  <2>2. client' \in [Sockets ->
                        {"none", "connecting", "open", "closing", "closed"}]
    BY <1>1 DEF LInv, LogsTypeOK
  <2> QED BY <1>1, <2>1, <2>2 DEF LInv, LogsTypeOK
<1>3. Unmade'
  BY <1>1 DEF LInv, LogsTypeOK, Unmade, Made, Sockets
<1>4. Protocol'
  BY <1>1 DEF LInv, LogsTypeOK, Protocol
<1>5. Accounted'
  BY <1>1 DEF LInv, LogsTypeOK, Unmade, Accounted, Made, Sockets
<1> QED BY <1>2, <1>3, <1>4, <1>5 DEF LInv

LEMMA LOpened ==
  ASSUME LInv, NEW s \in Sockets, Opened(s)
  PROVE  LInv'
<1>1. /\ client[s] = "connecting" /\ client' = [client EXCEPT ![s] = "open"]
      /\ handler' = [handler EXCEPT ![s] = "reading"]
      /\ up' = [up EXCEPT ![s] = <<"init">>]
      /\ UNCHANGED <<streaming, wsRef, shown, clobbered, started, down,
                     follower, unmounted>>
  BY DEF Opened, page
<1>2. <<"init">> \in Seq({"init", "close"})
  OBVIOUS
<1>3. LogsTypeOK'
  BY <1>1, <1>2 DEF LInv, LogsTypeOK
<1>4. Unmade'
  BY <1>1 DEF LInv, LogsTypeOK, Unmade, Made
<1>5. Protocol'
  BY <1>1 DEF LInv, LogsTypeOK, Protocol
<1>6. Accounted'
  BY <1>1 DEF LInv, LogsTypeOK, Accounted
<1> QED BY <1>3, <1>4, <1>5, <1>6 DEF LInv

\* What the end of socket s does to the page, when s is no longer live or has
\* nothing more to say.
LEMMA LEnds ==
  ASSUME LInv, NEW s \in Sockets, Ends(s),
         client' = client \/ client' = [client EXCEPT ![s] = "closed"],
         client[s] # "none",
         client'[s] = "closed" \/ (follower[s] = "over" /\ down'[s] = <<>>),
         down' \in [Sockets -> Seq({"log", "end", "error"})],
         \A t \in Sockets : t # s => down'[t] = down[t],
         UNCHANGED <<started, up, handler, follower, unmounted>>
  PROVE  LogsTypeOK' /\ Unmade' /\ Accounted'
<1>1. CASE s \in unmounted
  <2>1. UNCHANGED <<streaming, wsRef, shown, clobbered>>
    BY <1>1 DEF Ends, page
  <2> QED BY <1>1, <2>1
          DEF LInv, LogsTypeOK, Unmade, Made, Accounted
<1>2. CASE s \notin unmounted
  <2>1. /\ streaming' = FALSE /\ wsRef' = {} /\ shown' = shown
        /\ clobbered' = clobbered \union (wsRef \ {s})
    BY <1>2 DEF Ends
  <2>2. wsRef \subseteq Made /\ Made \subseteq Sockets
    BY LogsBoundsAssumption DEF LInv, LogsTypeOK, Made, Sockets
  <2>3. LogsTypeOK' /\ Unmade'
    BY <2>1, <2>2 DEF LInv, LogsTypeOK, Unmade, Made
  <2>4. ASSUME NEW t \in Sockets, t \notin unmounted,
               client'[t] \in {"connecting", "open"}
        PROVE  t \in clobbered' \/ (follower[t] = "over" /\ down'[t] = <<>>)
    <3>1. CASE t = s
      BY <2>4, <3>1
    <3>2. CASE t # s
      <4>1. client[t] \in {"connecting", "open"} /\ down'[t] = down[t]
        BY <2>4, <3>2 DEF LInv, LogsTypeOK
      <4>2. \/ t \in clobbered \/ wsRef = {t}
            \/ follower[t] = "over" /\ down[t] = <<>>
        BY <2>4, <4>1 DEF LInv, Accounted
      <4>3. wsRef = {t} => t \in clobbered'
        BY <2>1, <3>2
      <4> QED BY <2>1, <4>1, <4>2, <4>3
    <3> QED BY <3>1, <3>2
  <2>5. Accounted'
    BY <2>4 DEF Accounted
  <2> QED BY <2>3, <2>5
<1> QED BY <1>1, <1>2

LEMMA LMessage ==
  ASSUME LInv, NEW s \in Sockets, Message(s)
  PROVE  LInv'
<1>1. /\ down[s] # <<>> /\ down' = [down EXCEPT ![s] = Tail(down[s])]
      /\ UNCHANGED <<started, client, up, handler, follower, unmounted>>
  BY DEF Message, server
<1>2. /\ down[s] \in Seq({"log", "end", "error"})
      /\ Tail(down[s]) \in Seq({"log", "end", "error"})
      /\ Len(down[s]) \in Nat /\ Len(down[s]) > 0
      /\ Len(Tail(down[s])) = Len(down[s]) - 1
      /\ Head(down[s]) = down[s][1]
      /\ \A i \in DOMAIN Tail(down[s]) :
           i + 1 \in DOMAIN down[s] /\ Tail(down[s])[i] = down[s][i + 1] /\ i \in Nat
  BY <1>1 DEF LInv, LogsTypeOK
<1>3. down' \in [Sockets -> Seq({"log", "end", "error"})]
  BY <1>1, <1>2 DEF LInv, LogsTypeOK
<1>4. Protocol'
  BY <1>1, <1>2 DEF LInv, LogsTypeOK, Protocol
<1>5. CASE client[s] # "open" \/ Head(down[s]) = "log"
  <2>1. /\ UNCHANGED <<streaming, wsRef, clobbered>>
        /\ shown' \in SUBSET Sockets
    BY <1>5 DEF Message, page, LInv, LogsTypeOK
  <2>2. LogsTypeOK' /\ Unmade'
    BY <1>1, <1>3, <2>1 DEF LInv, LogsTypeOK, Unmade, Made
  <2>3. Accounted'
    BY <1>1, <2>1 DEF LInv, LogsTypeOK, Accounted
  <2> QED BY <1>4, <2>2, <2>3 DEF LInv
<1>6. CASE ~(client[s] # "open" \/ Head(down[s]) = "log")
  <2>1. Ends(s)
    BY <1>6 DEF Message
  <2>2. Len(down[s]) = 1 /\ follower[s] = "over"
    <3>1. 1 \in DOMAIN down[s] /\ down[s][1] # "log"
      BY <1>2, <1>6
    <3> QED BY <3>1 DEF LInv, Protocol
  <2>3. down'[s] = <<>>
    BY <1>1, <1>2, <2>2 DEF LInv, LogsTypeOK
  <2>4. \A t \in Sockets : t # s => down'[t] = down[t]
    BY <1>1 DEF LInv, LogsTypeOK
  <2> QED BY <1>1, <1>3, <1>4, <1>6, <2>1, <2>2, <2>3, <2>4, LEnds DEF LInv
<1> QED BY <1>5, <1>6

LEMMA LClosed ==
  ASSUME LInv, NEW s \in Sockets, Closed(s)
  PROVE  LInv'
<1>1. /\ client[s] # "none" /\ client' = [client EXCEPT ![s] = "closed"]
      /\ Ends(s)
      /\ UNCHANGED <<started, up, down, handler, follower, unmounted>>
  BY DEF Closed, server
<1>2. Protocol'
  BY <1>1 DEF LInv, LogsTypeOK, Protocol
<1>3. client'[s] = "closed" /\ down \in [Sockets -> Seq({"log", "end", "error"})]
  BY <1>1 DEF LInv, LogsTypeOK
<1>4. /\ down' \in [Sockets -> Seq({"log", "end", "error"})]
      /\ \A t \in Sockets : t # s => down'[t] = down[t]
  BY <1>1, <1>3
<1>5. LogsTypeOK' /\ Unmade' /\ Accounted'
  BY <1>1, <1>3, <1>4, LEnds
<1> QED BY <1>2, <1>5 DEF LInv

LEMMA LReceive ==
  ASSUME LInv, NEW s \in Sockets, Receive(s)
  PROVE  LInv'
<1>1. /\ handler[s] = "reading" /\ up[s] # <<>>
      /\ up' = [up EXCEPT ![s] = Tail(up[s])]
      /\ UNCHANGED <<streaming, wsRef, shown, clobbered, started, client, down,
                     unmounted>>
      /\ client[s] \notin {"none", "connecting"}
  BY DEF Receive, page, LInv, Protocol
<1>2. /\ up[s] \in Seq({"init", "close"})
      /\ Tail(up[s]) \in Seq({"init", "close"})
      /\ 1 \in DOMAIN up[s] /\ Head(up[s]) = up[s][1]
      /\ \A i \in DOMAIN Tail(up[s]) :
           i + 1 \in DOMAIN up[s] /\ Tail(up[s])[i] = up[s][i + 1] /\ i \in Nat /\ i > 0
  BY <1>1 DEF LInv, LogsTypeOK
<1>3. \A i \in DOMAIN Tail(up[s]) : Tail(up[s])[i] # "init"
  BY <1>2 DEF LInv, Protocol
<1>4. \/ /\ follower[s] = "none"
         /\ follower' = [follower EXCEPT ![s] = "runs"] /\ handler' = handler
      \/ /\ follower' = [follower EXCEPT ![s] =
                           IF @ = "runs" THEN "cancelled" ELSE @]
         /\ handler' = [handler EXCEPT ![s] = "gone"]
  BY <1>2 DEF Receive, Leaves, Cancelled, LInv, Protocol
<1>5. LogsTypeOK'
  BY <1>1, <1>2, <1>4 DEF LInv, LogsTypeOK
<1>6. Unmade'
  BY <1>1 DEF LInv, Unmade, Made
<1>7. \A t \in Sockets : /\ follower[t] = "over" => follower'[t] = "over"
                         /\ t # s => follower'[t] = follower[t]
                         /\ t # s => handler'[t] = handler[t]
  BY <1>4 DEF LInv, LogsTypeOK
<1>8. Protocol'
  BY <1>1, <1>2, <1>3, <1>7 DEF LInv, LogsTypeOK, Protocol
<1>9. Accounted'
  BY <1>1, <1>7 DEF LInv, Accounted
<1> QED BY <1>5, <1>6, <1>8, <1>9 DEF LInv

LEMMA LReadFails ==
  ASSUME LInv, NEW s \in Sockets, ReadFails(s)
  PROVE  LInv'
<1>1. /\ handler[s] = "reading" /\ up[s] = <<>>
      /\ client[s] \in {"closing", "closed"}
      /\ follower' = [follower EXCEPT ![s] =
                        IF @ = "runs" THEN "cancelled" ELSE @]
      /\ handler' = [handler EXCEPT ![s] = "gone"]
      /\ UNCHANGED <<streaming, wsRef, shown, clobbered, started, client, up, down,
                     unmounted>>
  BY DEF ReadFails, Leaves, Cancelled, page
<1>2. LogsTypeOK'
  BY <1>1 DEF LInv, LogsTypeOK
<1>3. Unmade' /\ Accounted'
  BY <1>1 DEF LInv, LogsTypeOK, Unmade, Made, Accounted
<1>4. Protocol'
  BY <1>1 DEF LInv, LogsTypeOK, Protocol
<1> QED BY <1>2, <1>3, <1>4 DEF LInv

\* A stream sends a message, and ends with it unless it is a line of the logs.
LEMMA LSends ==
  ASSUME LInv, NEW s \in Sockets,
         Log(s) \/ StreamEnds(s)
  PROVE  LInv'
<1>1. /\ UNCHANGED <<streaming, wsRef, shown, clobbered, started, client, up,
                     handler, unmounted>>
      /\ follower[s] \in {"runs", "cancelled"}
  BY DEF Log, StreamEnds, page, server
<1>2. PICK msg \in {"log", "end", "error"} :
        /\ Send(s, msg)
        /\ \/ msg = "log" /\ follower' = follower
           \/ follower' = [follower EXCEPT ![s] = "over"]
  BY DEF Log, StreamEnds, server
<1>3. \/ down' = down
      \/ down' = [down EXCEPT ![s] = Append(@, msg)]
  BY <1>2 DEF Send
<1>4. /\ down[s] \in Seq({"log", "end", "error"}) /\ Len(down[s]) \in Nat
      /\ Append(down[s], msg) \in Seq({"log", "end", "error"})
      /\ Len(Append(down[s], msg)) = Len(down[s]) + 1
      /\ \A i \in DOMAIN Append(down[s], msg) :
           \/ i = Len(down[s]) + 1 /\ Append(down[s], msg)[i] = msg
           \/ i \in DOMAIN down[s] /\ Append(down[s], msg)[i] = down[s][i]
  BY <1>2 DEF LInv, LogsTypeOK
<1>5. \A i \in DOMAIN down[s] : down[s][i] = "log"
  BY <1>1 DEF LInv, Protocol
<1>6. LogsTypeOK'
  BY <1>1, <1>2, <1>3, <1>4 DEF LInv, LogsTypeOK
<1>7. Unmade'
  BY <1>1 DEF LInv, Unmade, Made
<1>8. \A t \in Sockets : t # s => down'[t] = down[t] /\ follower'[t] = follower[t]
  BY <1>2, <1>3 DEF LInv, LogsTypeOK
<1>9. \A i \in DOMAIN down'[s] :
        down'[s][i] # "log" => i = Len(down'[s]) /\ follower'[s] = "over"
  BY <1>2, <1>3, <1>4, <1>5 DEF LInv, LogsTypeOK
<1>10. Protocol'
  <2>1. follower'[s] # "none" /\ follower[s] # "none"
    BY <1>1, <1>2 DEF LInv, LogsTypeOK
  <2>2. ASSUME NEW t \in Sockets
        PROVE  /\ client'[t] \in {"none", "connecting"} =>
                    handler'[t] = "none" /\ follower'[t] = "none"
               /\ \A i \in DOMAIN up'[t] :
                    up'[t][i] = "init" => i = 1 /\ follower'[t] = "none"
               /\ \A i \in DOMAIN down'[t] :
                    down'[t][i] # "log" =>
                      i = Len(down'[t]) /\ follower'[t] = "over"
    <3>1. CASE t = s
      BY <1>1, <1>9, <2>1, <3>1 DEF LInv, Protocol
    <3>2. CASE t # s
      BY <1>1, <1>8, <3>2 DEF LInv, Protocol
    <3> QED BY <3>1, <3>2
  <2> QED BY <2>2 DEF Protocol
<1>11. Accounted'
  BY <1>1, <1>8 DEF LInv, Accounted
<1> QED BY <1>6, <1>7, <1>10, <1>11 DEF LInv

LEMMA LNextInv ==
  LInv /\ [LogsNext]_logsVars => LInv'
<1> SUFFICES ASSUME LInv, [LogsNext]_logsVars PROVE LInv'
  OBVIOUS
<1>1. CASE UNCHANGED logsVars
  BY <1>1 DEF logsVars, LInv, LogsTypeOK, Unmade, Made, Protocol, Accounted
<1>2. CASE LogsNext
  BY <1>2, LStart, LStop, LRemount, LOpened, LMessage, LClosed, LReceive,
     LReadFails, LSends DEF LogsNext
<1> QED BY <1>1, <1>2

\* The invariant of the logs tab.
THEOREM LogsInvariance == LogsSpec => []LInv
BY LInitInv, LNextInv, PTL DEF LogsSpec

\* The button of the logs tab says Stop exactly while there is a socket to
\* stop, the last one made, open or about to be.
THEOREM LogsTypeCorrect == LogsSpec => []LogsTypeOK
<1>1. LInv => LogsTypeOK
  BY DEF LInv
<1> QED BY <1>1, LogsInvariance, PTL

\* A logs tab that is stopped shows no new line, unless the end of one socket
\* has taken another from wsRef.
THEOREM LogsStopped ==
  LogsSpec => StoppedShowsNothing
<1>1. ASSUME LInv, LogsNext, ~streaming, clobbered \subseteq unmounted
      PROVE  shown' \subseteq shown
  <2>1. ASSUME NEW s \in Sockets, Message(s) PROVE shown' \subseteq shown
    <3>1. CASE s \in unmounted
      BY <2>1, <3>1 DEF Message, Ends, page
    <3>2. CASE s \notin unmounted
      <4>1. ~(client[s] = "open" /\ Head(down[s]) = "log")
        <5> SUFFICES ASSUME client[s] = "open", Head(down[s]) = "log" PROVE FALSE
          OBVIOUS
        <5>1. wsRef = {} /\ s \notin clobbered
          BY <1>1, <3>2 DEF LInv, LogsTypeOK
        <5>2. down[s] = <<>>
          BY <1>1, <3>2, <5>1 DEF LInv, Accounted
        <5> QED BY <2>1, <5>2 DEF Message
      <4> QED BY <2>1, <3>2, <4>1 DEF Message, Ends, page
    <3> QED BY <3>1, <3>2
  <2>2. ASSUME NEW s \in Sockets, Closed(s) PROVE shown' \subseteq shown
    BY <2>2 DEF Closed, Ends, page
  <2>3. ASSUME NEW s \in Sockets,
               Opened(s) \/ Receive(s) \/ ReadFails(s) \/ Log(s)
                 \/ StreamEnds(s)
        PROVE  shown' \subseteq shown
    BY <2>3 DEF Opened, Receive, ReadFails, Log, StreamEnds, page
  <2>4. ASSUME Start \/ Stop \/ LogsRemount PROVE shown' \subseteq shown
    BY <2>4 DEF Start, Stop, LogsRemount
  <2> QED BY <1>1, <2>1, <2>2, <2>3, <2>4 DEF LogsNext
<1>2. LInv /\ [LogsNext]_logsVars =>
        [~streaming /\ clobbered \subseteq unmounted
           => shown' \subseteq shown]_logsVars
  BY <1>1
<1> QED BY <1>2, LogsInvariance, PTL DEF LogsSpec, StoppedShowsNothing
=============================================================================
