---------------------------- MODULE BruteLimiter ----------------------------
(***************************************************************************)
(* bruteLimiter of internal/server/api/auth/ratelimit.go and the handlers  *)
(* that use one: signInWithPassword (by IP and by identifier) and          *)
(* requestGuard.limit (by IP).  The limiter locks its mutex in each        *)
(* method; a handler checks blocked, works without the lock, and only then *)
(* records a failure or clears the key, so checks of other requests fall   *)
(* in between.                                                             *)
(*                                                                         *)
(* Time is counted in ticks.  time.Now and the update that uses it are one *)
(* step: the mutex is never held for as long as a tick.                    *)
(***************************************************************************)
EXTENDS Integers, Sequences, FiniteSets

CONSTANTS
  Keys,        \* hashed IPs or identifiers
  Clients,     \* requests in progress at once
  Limit,       \* max: failures that lock a key
  Window,      \* failures count for so long
  Lockout,     \* a lock lasts so long
  MaxEntries,  \* signInMaxEntries
  Horizon      \* bound on the clock

ASSUME LimitAssumption == Limit \in Nat \ {0}
\* signInLockout and signInFailureWindow are both 15 minutes.
ASSUME TimesAssumption == /\ Window \in Nat \ {0}
                          /\ Lockout \in Nat
                          /\ Lockout >= Window
ASSUME EntriesAssumption == MaxEntries \in Nat \ {0}
ASSUME HorizonAssumption == Horizon \in Nat
ASSUME ClientsAssumption == "none" \notin Keys /\ IsFiniteSet(Clients)

VARIABLES
  now,
  entries,  \* the keys with a signInAttempts, and that record
  passed    \* passed[c]: the key whose check request c has passed, or "none"

vars == <<now, entries, passed>>

Tracked == DOMAIN entries

\* time.Time's zero value lies before any clock reading.
Never == 0

Attempts == [failures : Seq(Nat), lockedUntil : Nat]

\* Types, and the bound on the memory that clients without a session can use.
TypeOK ==
  /\ now \in Nat
  /\ Tracked \subseteq Keys
  /\ entries \in [Tracked -> Attempts]
  /\ IsFiniteSet(Tracked) /\ Cardinality(Tracked) <= MaxEntries
  /\ passed \in [Clients -> Keys \union {"none"}]

Init ==
  /\ now = 1
  /\ entries = [k \in {} |-> {}]
  /\ passed = [c \in Clients |-> "none"]

-----------------------------------------------------------------------------
Blocked(k) == k \in Tracked /\ entries[k].lockedUntil > now

\* Failures are appended in the order of time, so prune drops a prefix.
FirstFresh(s) == Cardinality({j \in DOMAIN s : s[j] <= now - Window}) + 1

Pruned(s) == SubSeq(s, FirstFresh(s), Len(s))

\* Mutant: sweep forgets the lock, and that failures count for a window.
StaleTooSoon(e) ==
  e.failures = <<>> \/ e.failures[Len(e.failures)] < now

Stale(e) ==
  /\ e.lockedUntil < now
  /\ e.failures = <<>> \/ e.failures[Len(e.failures)] + Window < now

\* Mutant: fail never sweeps.
NeverSwept == Tracked

\* fail sweeps the table first when it is full.
Swept ==
  IF Cardinality(Tracked) >= MaxEntries
  THEN {k \in Tracked : ~Stale(entries[k])}
  ELSE Tracked

\* The entry that fail updates.
Entry(k) == IF k \in Swept THEN entries[k]
            ELSE [failures |-> <<>>, lockedUntil |-> Never]

\* Mutant: old failures are not pruned.
FailedUnpruned(e) ==
  LET failures == Append(e.failures, now) IN
  [failures |-> failures,
   lockedUntil |-> IF Len(failures) >= Limit THEN now + Lockout
                   ELSE e.lockedUntil]

\* Mutant: a key is locked one failure too late.
FailedLate(e) ==
  LET failures == Append(Pruned(e.failures), now) IN
  [failures |-> failures,
   lockedUntil |-> IF Len(failures) > Limit THEN now + Lockout
                   ELSE e.lockedUntil]

Failed(e) ==
  LET failures == Append(Pruned(e.failures), now) IN
  [failures |-> failures,
   lockedUntil |-> IF Len(failures) >= Limit THEN now + Lockout
                   ELSE e.lockedUntil]

HasRoom(k) == k \in Swept \/ Cardinality(Swept) < MaxEntries

-----------------------------------------------------------------------------
Finish(c) == passed' = [passed EXCEPT ![c] = "none"]

\* Mutant: the request goes on without looking at the lock.
CheckNothing(c, k) ==
  /\ passed[c] = "none"
  /\ passed' = [passed EXCEPT ![c] = k]
  /\ UNCHANGED <<now, entries>>

Check(c, k) ==
  /\ passed[c] = "none"
  /\ ~Blocked(k)
  /\ passed' = [passed EXCEPT ![c] = k]
  /\ UNCHANGED <<now, entries>>

\* fail on a key that is tracked or for which there is room.
Record(c) ==
  LET k == passed[c] IN
  /\ k # "none"
  /\ HasRoom(k)
  /\ entries' = [j \in Swept \union {k} |->
                   IF j = k THEN Failed(Entry(k)) ELSE entries[j]]
  /\ Finish(c)
  /\ UNCHANGED now

\* fail on a new key when the table is full: it is not counted.
RecordFull(c) ==
  LET k == passed[c] IN
  /\ k # "none"
  /\ ~HasRoom(k)
  /\ entries' = [j \in Swept |-> entries[j]]
  /\ Finish(c)
  /\ UNCHANGED now

Reset(c) ==
  LET k == passed[c] IN
  /\ k # "none"
  /\ entries' = [j \in Tracked \ {k} |-> entries[j]]
  /\ Finish(c)
  /\ UNCHANGED now

\* The request fails in between (500), or another limiter refuses it.
Drop(c) ==
  /\ passed[c] # "none"
  /\ Finish(c)
  /\ UNCHANGED <<now, entries>>

Tick ==
  /\ now < Horizon
  /\ now' = now + 1
  /\ UNCHANGED <<entries, passed>>

Next ==
  \/ \E c \in Clients : \/ \E k \in Keys : Check(c, k)
                        \/ Record(c)
                        \/ RecordFull(c)
                        \/ Reset(c)
                        \/ Drop(c)
  \/ Tick

Spec == Init /\ [][Next]_vars

-----------------------------------------------------------------------------
(* Properties.                                                             *)

Recent(k) == {i \in DOMAIN entries[k].failures :
                entries[k].failures[i] > now - Window}

\* Who waits for the end of a lock has all attempts again: a key that is not
\* locked has fewer than max failures in the window, also when requests that
\* had passed their check fail during the lock (ratelimit.go:66-88).
UnlockedHasAttempts ==
  \A k \in Tracked : ~Blocked(k) => Cardinality(Recent(k)) < Limit

\* The attempts that check-then-fail lets through: with max - 1 failures
\* counted every request in progress may still fail, and no more.
AttemptsBounded ==
  \A k \in Tracked :
    Cardinality(Recent(k)) + Cardinality({c \in Clients : passed[c] = k})
      < Limit + Cardinality(Clients)

\* A lock is never lost before its time: not to sweep, not to a failure that
\* comes late; only a success that had passed its check clears it.
LockHolds ==
  [][\A k \in Keys :
       Blocked(k) /\ now' = now /\ ~Blocked(k)'
         => \E c \in Clients : passed[c] = k /\ Reset(c)]_vars

\* Every lock is earned: a failure that sets one makes it the max-th within
\* the window, whatever failed, expired and was pruned before.
LockEarned ==
  [][\A k \in Tracked' :
       (k \in Tracked => entries[k].lockedUntil # entries'[k].lockedUntil)
         /\ entries'[k].lockedUntil > now
         => Limit <= Cardinality({i \in DOMAIN entries'[k].failures :
                       entries'[k].failures[i] > now - Window})]_vars

\* A failure goes uncounted only when every entry of a full table still
\* matters: locked, or with a failure in the window (ratelimit.go:70-78).
UncountedOnlyWhenFull ==
  [][\A c \in Clients :
       passed[c] # "none" /\ RecordFull(c) =>
         /\ Cardinality(Tracked') = MaxEntries
         /\ \A k \in Tracked' :
              LET e == entries[k] IN
              \/ e.lockedUntil >= now
              \/ /\ e.failures # <<>>
                 /\ e.failures[Len(e.failures)] + Window >= now]_vars
=============================================================================
