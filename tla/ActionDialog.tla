---------------------------- MODULE ActionDialog ----------------------------
(***************************************************************************)
(* The dialog that runs a compose action and shows its output              *)
(* (web/src/components/stacks/action-dialog.tsx) over the stream of        *)
(* web/src/lib/api/sse.ts.  Opening the dialog starts a run, which is the  *)
(* request, the generator that reads its answer, and the loop that takes   *)
(* lines from the generator until the stream ends or the dialog is closed. *)
(*                                                                         *)
(* A closed dialog leaves the loop at once, but the loop then waits for    *)
(* the generator's return, which is queued behind the read under way: the  *)
(* run ends at the next thing the server sends.  The request is never      *)
(* aborted.  The dialog can be opened again before that.                   *)
(***************************************************************************)
EXTENDS Naturals, Sequences

CONSTANTS MaxRuns,    \* bound on the times the dialog is opened
          MaxLines,   \* bound on the lines of a command
          Window      \* lines that the connection holds when nobody reads

ASSUME BoundsAssumption == MaxRuns \in Nat /\ MaxLines \in Nat /\ Window \in Nat

VARIABLES open,       \* the dialog is open
          running,    \* the state running
          lines,      \* the state lines: the run of each line
          stopRef,    \* the set of the run that stopRef would stop
          current,    \* the last run, 0 before the first
          pc,         \* per run: where its loop is
          command,    \* per run: the compose command behind the stream
          sent,       \* per run: half lines written by the server
          got,        \* per run: half lines read by the generator
          taken,      \* per run: lines yielded by the generator
          orphans,    \* runs of a dialog that is no longer mounted
          overlapped  \* runs started while another one had not ended

vars == <<open, running, lines, stopRef, current, pc, command, sent, got, taken,
          orphans, overlapped>>

Runs == 1..MaxRuns
Active(r) == pc[r] \in {"racing", "returning"}

TypeOK ==
  /\ open \in BOOLEAN /\ running \in BOOLEAN
  /\ lines \in Seq(Runs)
  /\ stopRef \in SUBSET Runs /\ current \in 0..MaxRuns
  /\ pc \in [Runs -> {"none", "racing", "returning", "ended", "failed", "left"}]
  /\ command \in [Runs -> {"none", "runs", "over"}]
  /\ sent \in [Runs -> Nat] /\ got \in [Runs -> Nat] /\ taken \in [Runs -> Nat]
  /\ orphans \in SUBSET Runs /\ overlapped \in SUBSET Runs

Init ==
  /\ open = FALSE /\ running = FALSE /\ lines = <<>> /\ stopRef = {}
  /\ current = 0
  /\ pc = [r \in Runs |-> "none"] /\ command = [r \in Runs |-> "none"]
  /\ sent = [r \in Runs |-> 0] /\ got = [r \in Runs |-> 0]
  /\ taken = [r \in Runs |-> 0]
  /\ orphans = {} /\ overlapped = {}

-----------------------------------------------------------------------------
(* The dialog.                                                             *)

OpenKeepsLines ==
  /\ ~open /\ current < MaxRuns
  /\ current' = current + 1
  /\ open' = TRUE /\ running' = TRUE /\ stopRef' = {current'}
  /\ pc' = [pc EXCEPT ![current'] = "racing"]
  /\ overlapped' = overlapped \union
       IF \E q \in Runs \ orphans : Active(q) THEN {current'} ELSE {}
  /\ UNCHANGED <<lines, command, sent, got, taken, orphans>>

\* The effect on open: run, up to the first wait.
Open ==
  /\ ~open /\ current < MaxRuns
  /\ current' = current + 1
  /\ open' = TRUE /\ running' = TRUE /\ lines' = <<>> /\ stopRef' = {current'}
  /\ pc' = [pc EXCEPT ![current'] = "racing"]
  /\ overlapped' = overlapped \union
       IF \E q \in Runs \ orphans : Active(q) THEN {current'} ELSE {}
  /\ UNCHANGED <<command, sent, got, taken, orphans>>

\* Escape or a click outside closes it whatever runs; so does the button, which
\* is disabled while running.  stopRef resolves the promise of the race.
Close ==
  /\ open /\ open' = FALSE
  /\ pc' = [r \in Runs |-> IF r \in stopRef /\ pc[r] = "racing" THEN "returning" ELSE pc[r]]
  /\ UNCHANGED <<running, lines, stopRef, current, command, sent, got, taken,
                 orphans, overlapped>>

\* The page goes away with the dialog and is shown again.  Nothing stops a run.
Remount ==
  /\ current > 0
  /\ open' = FALSE /\ running' = FALSE /\ lines' = <<>> /\ stopRef' = {}
  /\ orphans' = 1..current
  /\ UNCHANGED <<current, pc, command, sent, got, taken, overlapped>>

\* The finally of the loop, which calls onDone in every case.
Finish(r, how) ==
  /\ pc' = [pc EXCEPT ![r] = how]
  /\ IF r \in orphans THEN UNCHANGED <<running, stopRef>>
                      ELSE running' = FALSE /\ stopRef' = {}

-----------------------------------------------------------------------------
(* The generator and the loop.                                             *)

\* One reader.read: any part of what has come, also half a line.
Read(r) ==
  /\ Active(r) /\ got[r] \div 2 = taken[r]
  /\ \E n \in got[r] + 1 .. sent[r] : got' = [got EXCEPT ![r] = n]
  /\ UNCHANGED <<open, running, lines, stopRef, current, pc, command, sent, taken,
                 orphans, overlapped>>

ShowLine(r) ==
  lines' = IF r \in orphans THEN lines ELSE Append(lines, r)

LineDropsBuffer(r) ==
  /\ Active(r) /\ got[r] \div 2 > taken[r]
  /\ taken' = [taken EXCEPT ![r] = got[r] \div 2]
  /\ IF pc[r] = "racing"
     THEN ShowLine(r) /\ UNCHANGED <<running, stopRef, pc>>
     ELSE Finish(r, "left") /\ UNCHANGED lines
  /\ UNCHANGED <<open, current, command, sent, got, orphans, overlapped>>

LineUnlessReturning(r) ==
  /\ pc[r] = "racing" /\ got[r] \div 2 > taken[r]
  /\ taken' = [taken EXCEPT ![r] = @ + 1]
  /\ ShowLine(r)
  /\ UNCHANGED <<open, running, stopRef, current, pc, command, sent, got, orphans,
                 overlapped>>

\* The generator yields a line: to the loop, or to nobody after a close.
Line(r) ==
  /\ Active(r) /\ got[r] \div 2 > taken[r]
  /\ taken' = [taken EXCEPT ![r] = @ + 1]
  /\ IF pc[r] = "racing"
     THEN ShowLine(r) /\ UNCHANGED <<running, stopRef, pc>>
     ELSE Finish(r, "left") /\ UNCHANGED lines
  /\ UNCHANGED <<open, current, command, sent, got, orphans, overlapped>>

BeatEnds(r) ==
  /\ Active(r) /\ command[r] = "runs" /\ got[r] = sent[r]
  /\ got[r] \div 2 = taken[r]
  /\ Finish(r, "left")
  /\ UNCHANGED <<open, lines, current, command, sent, got, taken, orphans, overlapped>>

\* A heartbeat, which the loop skips but a queued return need not wait after.
Beat(r) ==
  /\ pc[r] = "returning" /\ command[r] = "runs" /\ got[r] = sent[r]
  /\ got[r] \div 2 = taken[r]
  /\ Finish(r, "left")
  /\ UNCHANGED <<open, lines, current, command, sent, got, taken, orphans, overlapped>>

\* The stream ends: the loop ends, and "Done." is the last line.
End(r) ==
  /\ Active(r) /\ command[r] = "over" /\ got[r] = sent[r]
  /\ got[r] \div 2 = taken[r]
  /\ Finish(r, IF pc[r] = "racing" THEN "ended" ELSE "left")
  /\ UNCHANGED <<open, lines, current, command, sent, got, taken, orphans, overlapped>>

\* The request is refused or the connection breaks, which ends the command (its
\* context is cancelled).  The finally runs all the same: "Done." again.
Break(r) ==
  /\ Active(r) /\ got[r] \div 2 = taken[r]
  /\ Finish(r, "failed")
  /\ command' = [command EXCEPT ![r] = "over"]
  /\ UNCHANGED <<open, lines, current, sent, got, taken, orphans, overlapped>>

-----------------------------------------------------------------------------
(* The server: handleStackActionStream, as StreamContract promises it.     *)

Begin(r) ==
  /\ Active(r) /\ command[r] = "none"
  /\ command' = [command EXCEPT ![r] = "runs"]
  /\ UNCHANGED <<open, running, lines, stopRef, current, pc, sent, got, taken,
                 orphans, overlapped>>

\* A line is written in one piece, unless the connection is full.
Emit(r) ==
  /\ command[r] = "runs" /\ sent[r] < 2 * MaxLines /\ sent[r] - got[r] < 2 * Window
  /\ sent' = [sent EXCEPT ![r] = @ + 2]
  /\ UNCHANGED <<open, running, lines, stopRef, current, pc, command, got, taken,
                 orphans, overlapped>>

Over(r) ==
  /\ command[r] = "runs"
  /\ command' = [command EXCEPT ![r] = "over"]
  /\ UNCHANGED <<open, running, lines, stopRef, current, pc, sent, got, taken,
                 orphans, overlapped>>

Next ==
  \/ Open \/ Close \/ Remount
  \/ \E r \in Runs : \/ Read(r) \/ Line(r) \/ Beat(r) \/ End(r) \/ Break(r)
                     \/ Begin(r) \/ Emit(r) \/ Over(r)

\* Reads and the loop go on by themselves; a command begins, and ends.
Fairness ==
  \A r \in Runs : /\ WF_vars(Read(r)) /\ WF_vars(Line(r)) /\ WF_vars(End(r))
                  /\ WF_vars(Begin(r)) /\ WF_vars(Over(r))

Spec == Init /\ [][Next]_vars /\ Fairness

-----------------------------------------------------------------------------
(* An open dialog that says the run is over says so of a command that is   *)
(* over, unless the run was started while an earlier one had not ended:    *)
(* the end of that one then counts as the end of this.                     *)
DoneMeansOver ==
  open /\ ~running /\ current \notin overlapped =>
    pc[current] \in {"ended", "failed"} /\ command[current] = "over"

(* The output is that of one run, with the same exception.                 *)
LinesOfOneRun ==
  current \notin overlapped => \A i \in DOMAIN lines : lines[i] = current

(* No line gets lost on the way through the chunks of the connection: a    *)
(* run whose stream ended while the dialog was open shows all of them.     *)
AllShown ==
  open /\ current > 0 /\ current \notin overlapped /\ pc[current] = "ended" =>
    2 * Len(lines) = sent[current]

(* Every run ends, and with it comes the refresh of the page.              *)
RunEnds == \A r \in Runs : Active(r) ~> ~Active(r)
=============================================================================
