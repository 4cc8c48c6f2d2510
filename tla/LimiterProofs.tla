--------------------------- MODULE LimiterProofs ----------------------------
(***************************************************************************)
(* Proofs about BruteLimiter, and in the last part about ApiKeyLimit, for  *)
(* any keys, clients, limits and times.                                    *)
(***************************************************************************)
EXTENDS BruteLimiter, ApiKeyLimit, FiniteSetTheorems, TLAPS

\* The failures of e later than the window that ends at time t.
After(e, t) == {i \in DOMAIN e.failures : e.failures[i] > t - Window}

Later(s, t) == IF s > t THEN s ELSE t

(***************************************************************************)
(* UnlockedHasAttempts is not inductive: a lock may end at the next tick.  *)
(* Counting from the later of now and the end of the lock is.              *)
(***************************************************************************)
AttemptsLeft(e) ==
  /\ \A i \in DOMAIN e.failures : e.failures[i] <= now
  /\ Cardinality(After(e, Later(e.lockedUntil, now))) < Limit

IInv ==
  /\ TypeOK
  /\ \A k \in Tracked : AttemptsLeft(entries[k])

LEMMA UpTo ==
  ASSUME NEW n \in Nat
  PROVE  IsFiniteSet(1 .. n) /\ Cardinality(1 .. n) = n
BY FS_Interval

\* Pruning leaves a suffix, without what lies in the past of the window.
LEMMA PrunedSuffix ==
  ASSUME NEW s \in Seq(Nat), now \in Nat
  PROVE  \E m \in 1 .. Len(s) + 1 :
           /\ Pruned(s) = SubSeq(s, m, Len(s))
           /\ m = Cardinality({j \in DOMAIN s : s[j] <= now - Window}) + 1
<1> DEFINE Old == {j \in DOMAIN s : s[j] <= now - Window}
<1>1. Len(s) \in Nat /\ DOMAIN s = 1 .. Len(s)
  OBVIOUS
<1>2. IsFiniteSet(1 .. Len(s)) /\ Cardinality(1 .. Len(s)) = Len(s)
  BY <1>1, UpTo
<1>3. IsFiniteSet(Old) /\ Cardinality(Old) <= Len(s)
  BY <1>1, <1>2, FS_Subset
<1>4. Cardinality(Old) \in Nat
  BY <1>3, FS_CardinalityType
<1>5. FirstFresh(s) = Cardinality(Old) + 1
  BY DEF FirstFresh
<1> HIDE DEF Old
<1>6. FirstFresh(s) \in 1 .. Len(s) + 1
  BY <1>1, <1>3, <1>4, <1>5
<1> QED BY <1>5, <1>6 DEF Pruned, Old

LEMMA PrunedType ==
  ASSUME NEW s \in Seq(Nat), now \in Nat
  PROVE  /\ Pruned(s) \in Seq(Nat)
         /\ \A i \in DOMAIN Pruned(s) : \E j \in DOMAIN s : Pruned(s)[i] = s[j]
<1>1. PICK m \in 1 .. Len(s) + 1 : Pruned(s) = SubSeq(s, m, Len(s))
  BY PrunedSuffix
<1>2. Len(s) \in Nat
  OBVIOUS
<1>3. SubSeq(s, m, Len(s)) \in Seq(Nat)
  BY <1>2
<1>4. \A i \in DOMAIN SubSeq(s, m, Len(s)) :
        SubSeq(s, m, Len(s))[i] = s[m + i - 1] /\ m + i - 1 \in DOMAIN s
  BY <1>2
<1> QED BY <1>1, <1>3, <1>4

\* fail leaves a well-formed record with fewer than max failures, or sets a
\* lock at whose end none of them counts.
LEMMA FailedGood ==
  ASSUME NEW e \in Attempts, now \in Nat,
         \A i \in DOMAIN e.failures : e.failures[i] <= now
  PROVE  /\ Failed(e) \in Attempts
         /\ AttemptsLeft(Failed(e))
         /\ Failed(e).lockedUntil >= e.lockedUntil \/ Failed(e).lockedUntil > now
<1> DEFINE s == Append(Pruned(e.failures), now)
           f == Failed(e)
<1>1. /\ e.failures \in Seq(Nat) /\ e.lockedUntil \in Nat
      /\ Limit \in Nat /\ Limit > 0
      /\ Window \in Nat /\ Window > 0 /\ Lockout \in Nat /\ Lockout >= Window
  BY LimitAssumption, TimesAssumption DEF Attempts
<1>2. Pruned(e.failures) \in Seq(Nat)
  BY <1>1, PrunedType
<1>3. s \in Seq(Nat) /\ \A i \in DOMAIN s : s[i] <= now
  <2>1. \A i \in DOMAIN Pruned(e.failures) : Pruned(e.failures)[i] <= now
    BY <1>1, PrunedType
  <2> QED BY <1>2, <2>1
<1>4. /\ f.failures = s
      /\ f.lockedUntil = IF Len(s) >= Limit THEN now + Lockout
                         ELSE e.lockedUntil
      /\ f \in Attempts
  BY <1>1, <1>3 DEF Failed, Attempts
<1> HIDE DEF s, f
<1>5. Cardinality(After(f, Later(f.lockedUntil, now))) < Limit
  <2>1. CASE Len(s) >= Limit
    <3>1. f.lockedUntil = now + Lockout
      BY <1>4, <2>1
    <3>2. After(f, Later(f.lockedUntil, now)) = {}
      BY <1>1, <1>3, <1>4, <3>1 DEF After, Later
    <3> QED BY <1>1, <3>2, FS_EmptySet
  <2>2. CASE ~(Len(s) >= Limit)
    <3>0. PICK n \in Nat : n = Len(s)
      BY <1>3
    <3>1. IsFiniteSet(1 .. n) /\ Cardinality(1 .. n) = n
      BY UpTo
    <3>2. After(f, Later(f.lockedUntil, now)) \subseteq 1 .. n
      BY <1>3, <1>4, <3>0 DEF After
    <3>3. Cardinality(After(f, Later(f.lockedUntil, now))) <= n
      BY <3>1, <3>2, FS_Subset
    <3>4. Cardinality(After(f, Later(f.lockedUntil, now))) \in Nat
      BY <3>1, <3>2, FS_Subset, FS_CardinalityType
    <3> QED BY <1>1, <3>0, <2>2, <3>3, <3>4
  <2> QED BY <2>1, <2>2
<1>6. AttemptsLeft(f)
  BY <1>3, <1>4, <1>5 DEF AttemptsLeft
<1>7. f.lockedUntil >= e.lockedUntil \/ f.lockedUntil > now
  BY <1>1, <1>4
<1> QED BY <1>4, <1>6, <1>7 DEF f

LEMMA InitIInv == Init => IInv
<1> SUFFICES ASSUME Init PROVE IInv
  OBVIOUS
<1>1. Tracked = {}
  BY DEF Init, Tracked
<1>2. IsFiniteSet({}) /\ Cardinality({}) = 0
  BY FS_EmptySet
<1>3. TypeOK
  BY <1>1, <1>2, EntriesAssumption DEF Init, TypeOK
<1> QED BY <1>1, <1>3 DEF IInv

LEMMA SweptFacts ==
  ASSUME IInv
  PROVE  /\ Swept \subseteq Tracked
         /\ IsFiniteSet(Swept)
         /\ Cardinality(Swept) <= Cardinality(Tracked)
         /\ Cardinality(Tracked) \in Nat /\ Cardinality(Swept) \in Nat
<1>1. IsFiniteSet(Tracked) /\ Swept \subseteq Tracked
  BY DEF IInv, TypeOK, Swept
<1>2. PICK t, w : t = Tracked /\ w = Swept
  OBVIOUS
<1> QED BY <1>1, <1>2, FS_Subset, FS_CardinalityType

\* An update of the table keeps the invariant when its entries are old ones
\* or good ones, and it does not grow beyond its bound.
LEMMA TableStep ==
  ASSUME IInv, now' = now,
         passed' \in [Clients -> Keys \union {"none"}],
         NEW T \in SUBSET Keys, IsFiniteSet(T), Cardinality(T) <= MaxEntries,
         entries' = [k \in T |-> entries'[k]],
         \A k \in T : \/ k \in Tracked /\ entries'[k] = entries[k]
                      \/ entries'[k] \in Attempts /\ AttemptsLeft(entries'[k])
  PROVE  IInv'
<1>1. Tracked' = T
  BY DEF Tracked
<1>2. \A k \in T : entries'[k] \in Attempts /\ AttemptsLeft(entries'[k])
  BY DEF IInv, TypeOK
<1>3. TypeOK'
  BY <1>1, <1>2 DEF IInv, TypeOK
<1>4. ASSUME NEW k \in Tracked' PROVE AttemptsLeft(entries[k])'
  BY <1>1, <1>2 DEF AttemptsLeft, After, Later
<1> QED BY <1>3, <1>4 DEF IInv

LEMMA EntryGood ==
  ASSUME IInv, NEW k \in Keys
  PROVE  /\ Entry(k) \in Attempts /\ now \in Nat
         /\ \A i \in DOMAIN Entry(k).failures : Entry(k).failures[i] <= now
<1>1. CASE k \in Swept
  BY <1>1, SweptFacts DEF IInv, TypeOK, Entry, AttemptsLeft
<1>2. CASE k \notin Swept
  BY <1>2 DEF IInv, TypeOK, Entry, Attempts, Never
<1> QED BY <1>1, <1>2

LEMMA RecordIInv ==
  ASSUME IInv, NEW c \in Clients, Record(c)
  PROVE  IInv'
<1>1. PICK k : k = passed[c]
  OBVIOUS
<1>2. k \in Keys
  BY <1>1 DEF Record, IInv, TypeOK
<1>3. passed' \in [Clients -> Keys \union {"none"}] /\ now' = now
  BY DEF Record, Finish, IInv, TypeOK
<1>4. PICK w : w = Swept
  OBVIOUS
<1>5. PICK T : T = w \union {k}
  OBVIOUS
<1>6. /\ IsFiniteSet(w) /\ w \subseteq Tracked
      /\ Cardinality(w) <= MaxEntries
      /\ k \in w \/ Cardinality(w) < MaxEntries
      /\ Cardinality(w) \in Nat /\ MaxEntries \in Nat
  BY <1>1, <1>4, SweptFacts, EntriesAssumption DEF Record, HasRoom, IInv, TypeOK
<1>7. IsFiniteSet(T) /\ Cardinality(T) <= MaxEntries
  BY <1>5, <1>6, FS_AddElement
<1>8. T \in SUBSET Keys
  BY <1>2, <1>5, <1>6 DEF IInv, TypeOK
<1>9. entries' = [j \in T |-> IF j = k THEN Failed(Entry(k)) ELSE entries[j]]
  BY <1>1, <1>4, <1>5 DEF Record
<1>10. Failed(Entry(k)) \in Attempts /\ AttemptsLeft(Failed(Entry(k)))
  <2>1. PICK e : e = Entry(k)
    OBVIOUS
  <2> QED BY <1>2, <2>1, EntryGood, FailedGood
<1>11. \A j \in T : \/ j \in Tracked /\ entries'[j] = entries[j]
                    \/ entries'[j] \in Attempts /\ AttemptsLeft(entries'[j])
  BY <1>5, <1>6, <1>9, <1>10
<1>12. entries' = [j \in T |-> entries'[j]]
  BY <1>9
<1> QED BY <1>3, <1>7, <1>8, <1>11, <1>12, TableStep

LEMMA ShrinkIInv ==
  ASSUME IInv, NEW c \in Clients, RecordFull(c) \/ Reset(c)
  PROVE  IInv'
<1>1. PICK T : entries' = [j \in T |-> entries[j]] /\ T \subseteq Tracked
  BY SweptFacts DEF RecordFull, Reset
<1>2. passed' \in [Clients -> Keys \union {"none"}] /\ now' = now
  BY DEF RecordFull, Reset, Finish, IInv, TypeOK
<1>3. PICK t : t = Tracked
  OBVIOUS
<1>4. /\ IsFiniteSet(t) /\ Cardinality(t) <= MaxEntries /\ t \subseteq Keys
      /\ MaxEntries \in Nat
  BY <1>3, EntriesAssumption DEF IInv, TypeOK
<1>5. IsFiniteSet(T) /\ Cardinality(T) <= Cardinality(t)
        /\ Cardinality(T) \in Nat /\ Cardinality(t) \in Nat
  BY <1>1, <1>3, <1>4, FS_Subset, FS_CardinalityType
<1>6. IsFiniteSet(T) /\ Cardinality(T) <= MaxEntries /\ T \in SUBSET Keys
  BY <1>1, <1>3, <1>4, <1>5
<1>7. /\ entries' = [k \in T |-> entries'[k]]
      /\ \A k \in T : k \in Tracked /\ entries'[k] = entries[k]
  BY <1>1
<1> QED BY <1>2, <1>6, <1>7, TableStep

LEMMA TickIInv ==
  ASSUME IInv, Tick
  PROVE  IInv'
<1>1. now \in Nat /\ now' = now + 1 /\ entries' = entries
  BY DEF IInv, TypeOK, Tick
<1>2. TypeOK'
  BY DEF IInv, TypeOK, Tick, Tracked
<1>3. ASSUME NEW k \in Tracked' PROVE AttemptsLeft(entries[k])'
  <2>1. PICK e : e = entries[k] /\ e \in Attempts /\ AttemptsLeft(e)
    BY <1>1 DEF IInv, TypeOK, Tracked
  <2>2. e.failures \in Seq(Nat) /\ e.lockedUntil \in Nat /\ Limit \in Nat
          /\ Window \in Nat
    BY <2>1, LimitAssumption, TimesAssumption DEF Attempts
  <2>3. PICK old, new : /\ old = After(e, Later(e.lockedUntil, now))
                        /\ new = After(e, Later(e.lockedUntil, now + 1))
    OBVIOUS
  <2>4. new \subseteq old /\ old \subseteq 1 .. Len(e.failures)
    BY <1>1, <2>2, <2>3 DEF After, Later
  <2>5. PICK n \in Nat : n = Len(e.failures)
    BY <2>2
  <2>6. IsFiniteSet(old)
    BY <2>4, <2>5, UpTo, FS_Subset
  <2>7. Cardinality(new) <= Cardinality(old)
          /\ Cardinality(new) \in Nat /\ Cardinality(old) \in Nat
    BY <2>4, <2>6, FS_Subset, FS_CardinalityType
  <2>8. Cardinality(old) < Limit
    BY <2>1, <2>3 DEF AttemptsLeft
  <2>9. Cardinality(new) < Limit
    BY <2>2, <2>7, <2>8
  <2>10. \A i \in DOMAIN e.failures : e.failures[i] <= now + 1
    BY <1>1, <2>1, <2>2 DEF AttemptsLeft
  <2>11. entries'[k] = e
    BY <1>1, <2>1
  <2> QED BY <1>1, <2>3, <2>9, <2>10, <2>11 DEF AttemptsLeft, After, Later
<1> QED BY <1>2, <1>3 DEF IInv

LEMMA NextIInv == IInv /\ [Next]_vars => IInv'
<1> SUFFICES ASSUME IInv, [Next]_vars PROVE IInv'
  OBVIOUS
<1>1. ASSUME UNCHANGED <<now, entries>>,
             passed' \in [Clients -> Keys \union {"none"}]
      PROVE  IInv'
  BY <1>1 DEF IInv, TypeOK, Tracked, AttemptsLeft, After, Later
<1>2. ASSUME NEW c \in Clients, NEW k \in Keys, Check(c, k) PROVE IInv'
  BY <1>1, <1>2 DEF Check, IInv, TypeOK
<1>3. ASSUME NEW c \in Clients, Drop(c) PROVE IInv'
  BY <1>1, <1>3 DEF Drop, Finish, IInv, TypeOK
<1>4. ASSUME UNCHANGED vars PROVE IInv'
  BY <1>1, <1>4 DEF vars, IInv, TypeOK
<1> QED BY <1>2, <1>3, <1>4, RecordIInv, ShrinkIInv, TickIInv DEF Next

\* The invariant that the theorems below use.
THEOREM Invariance == Spec => []IInv
BY InitIInv, NextIInv, PTL DEF Spec

\* The table is well typed and never holds more than signInMaxEntries keys.
THEOREM TypeCorrect == Spec => []TypeOK
<1>1. IInv => TypeOK
  BY DEF IInv
<1> QED BY <1>1, Invariance, PTL

\* A key that is not locked has fewer than max failures in the window.
THEOREM AttemptsRestored == Spec => []UnlockedHasAttempts
<1>1. IInv => UnlockedHasAttempts
  <2> SUFFICES ASSUME IInv, NEW k \in Tracked, ~Blocked(k)
               PROVE  Cardinality(Recent(k)) < Limit
    BY DEF UnlockedHasAttempts
  <2>1. Later(entries[k].lockedUntil, now) = now
    BY DEF Blocked, Later
  <2>2. Recent(k) = After(entries[k], now)
    BY DEF Recent, After
  <2> QED BY <2>1, <2>2 DEF IInv, AttemptsLeft
<1> QED BY <1>1, Invariance, PTL

\* No sweep and no late failure ends a lock; only a success that had passed
\* its check does.
THEOREM LocksHold == Spec => LockHolds
<1>1. ASSUME IInv, Next, NEW k \in Keys, Blocked(k), now' = now,
             ~Blocked(k)'
      PROVE  \E c \in Clients : passed[c] = k /\ Reset(c)
  <2>1. k \in Tracked /\ entries[k] \in Attempts /\ now \in Nat
          /\ entries[k].lockedUntil > now
    BY <1>1 DEF Blocked, IInv, TypeOK
  <2>2. k \in Swept
    BY <2>1 DEF Swept, Stale, Attempts
  <2>3. ASSUME NEW c \in Clients, Record(c) PROVE FALSE
    <3>1. PICK p : p = passed[c] /\ p \in Keys
      BY <1>1, <2>3 DEF Record, IInv, TypeOK
    <3>2. entries' = [j \in Swept \union {p} |->
                        IF j = p THEN Failed(Entry(p)) ELSE entries[j]]
      BY <2>3, <3>1 DEF Record
    <3>3. Tracked' = Swept \union {p}
      BY <3>2 DEF Tracked
    <3>4. CASE p = k
      <4>1. PICK e : e = Entry(k)
        OBVIOUS
      <4>2. e = entries[k]
        BY <2>2, <4>1 DEF Entry
      <4>3. /\ Failed(e) \in Attempts
            /\ Failed(e).lockedUntil >= e.lockedUntil
                 \/ Failed(e).lockedUntil > now
        BY <1>1, <4>1, EntryGood, FailedGood
      <4>4. Failed(e).lockedUntil > now
        BY <2>1, <4>2, <4>3 DEF Attempts
      <4> QED BY <1>1, <2>2, <3>2, <3>3, <3>4, <4>1, <4>4 DEF Blocked
    <3>5. CASE p # k
      BY <1>1, <2>1, <2>2, <3>2, <3>3, <3>5 DEF Blocked
    <3> QED BY <3>4, <3>5
  <2>4. ASSUME NEW c \in Clients, RecordFull(c) PROVE FALSE
    BY <1>1, <2>1, <2>2, <2>4 DEF RecordFull, Blocked, Tracked
  <2>5. ASSUME NEW c \in Clients, Reset(c), passed[c] # k PROVE FALSE
    BY <1>1, <2>1, <2>5 DEF Reset, Blocked, Tracked
  <2>6. ASSUME UNCHANGED entries PROVE FALSE
    BY <1>1, <2>6 DEF Blocked, Tracked
  <2>7. ~Tick
    BY <1>1, <2>1 DEF Tick
  <2> QED BY <1>1, <2>3, <2>4, <2>5, <2>6, <2>7 DEF Next, Check, Drop
<1>2. IInv /\ [Next]_vars =>
        [\A k \in Keys :
           Blocked(k) /\ now' = now /\ ~Blocked(k)'
             => \E c \in Clients : passed[c] = k /\ Reset(c)]_vars
  BY <1>1
<1> QED BY <1>2, Invariance, PTL DEF Spec, LockHolds

\* A failure goes uncounted only when every entry of a full table matters.
THEOREM UncountedWhenFull == Spec => UncountedOnlyWhenFull
<1>1. ASSUME IInv, NEW c \in Clients, passed[c] # "none", RecordFull(c)
      PROVE  /\ Cardinality(Tracked') = MaxEntries
             /\ \A k \in Tracked' :
                  LET e == entries[k] IN
                  \/ e.lockedUntil >= now
                  \/ /\ e.failures # <<>>
                     /\ e.failures[Len(e.failures)] + Window >= now
  <2>1. Tracked' = Swept
    BY <1>1 DEF RecordFull, Tracked
  <2>2. /\ Cardinality(Swept) >= MaxEntries
        /\ Cardinality(Tracked) <= MaxEntries
        /\ Cardinality(Swept) <= Cardinality(Tracked)
        /\ Cardinality(Swept) \in Nat /\ Cardinality(Tracked) \in Nat
        /\ MaxEntries \in Nat
    BY <1>1, SweptFacts, EntriesAssumption
    DEF RecordFull, HasRoom, IInv, TypeOK
  <2>3. Cardinality(Tracked) >= MaxEntries /\ Cardinality(Swept) = MaxEntries
    BY <2>2
  <2>4. ASSUME NEW k \in Swept
        PROVE  \/ entries[k].lockedUntil >= now
               \/ /\ entries[k].failures # <<>>
                  /\ entries[k].failures[Len(entries[k].failures)] + Window
                       >= now
    <3>1. k \in Tracked /\ ~Stale(entries[k])
      BY <2>3, <2>4 DEF Swept
    <3>2. PICK e \in Attempts : e = entries[k]
      BY <1>1, <3>1 DEF IInv, TypeOK
    <3>3. /\ e.lockedUntil \in Nat /\ now \in Nat /\ Window \in Nat
          /\ e.failures # <<>> => e.failures[Len(e.failures)] \in Nat
      BY <1>1, <3>2, TimesAssumption DEF Attempts, IInv, TypeOK
    <3>4. \/ ~(e.lockedUntil < now)
          \/ e.failures # <<>> /\ ~(e.failures[Len(e.failures)] + Window < now)
      BY <3>1, <3>2 DEF Stale
    <3> QED BY <3>2, <3>3, <3>4
  <2> QED BY <2>1, <2>3, <2>4
<1>2. IInv /\ [Next]_vars =>
        [\A c \in Clients :
           passed[c] # "none" /\ RecordFull(c) =>
             /\ Cardinality(Tracked') = MaxEntries
             /\ \A k \in Tracked' :
                  LET e == entries[k] IN
                  \/ e.lockedUntil >= now
                  \/ /\ e.failures # <<>>
                     /\ e.failures[Len(e.failures)] + Window >= now]_vars
  BY <1>1
<1> QED BY <1>2, Invariance, PTL DEF Spec, UncountedOnlyWhenFull

-----------------------------------------------------------------------------
(***************************************************************************)
(* AttemptsBounded: the failures in the window and the requests that have  *)
(* passed the check of one key.                                            *)
(***************************************************************************)
Waiting(k) == {c \in Clients : passed[c] = k}

LEMMA AfterFinite ==
  ASSUME NEW e \in Attempts, NEW t \in Nat
  PROVE  /\ IsFiniteSet(After(e, t)) /\ Cardinality(After(e, t)) \in Nat
         /\ After(e, t) \subseteq 1 .. Len(e.failures) /\ Len(e.failures) \in Nat
<1>1. After(e, t) \subseteq 1 .. Len(e.failures) /\ Len(e.failures) \in Nat
  BY DEF After, Attempts
<1>2. IsFiniteSet(1 .. Len(e.failures))
  BY <1>1, UpTo
<1> QED BY <1>1, <1>2, FS_Subset, FS_CardinalityType

LEMMA WaitingFinite ==
  ASSUME NEW k
  PROVE  /\ IsFiniteSet(Waiting(k)) /\ Cardinality(Waiting(k)) \in Nat
         /\ Cardinality(Waiting(k)) <= Cardinality(Clients)
         /\ Cardinality(Clients) \in Nat
BY ClientsAssumption, FS_Subset, FS_CardinalityType DEF Waiting

\* A failure adds one to those in the window: what pruning leaves of them was
\* among them, at another place.
LEMMA FailedAddsOne ==
  ASSUME NEW e \in Attempts, now \in Nat
  PROVE  Cardinality(After(Failed(e), now)) <= Cardinality(After(e, now)) + 1
<1>1. PICK s \in Seq(Nat) : s = e.failures
  BY DEF Attempts
<1>2. Len(s) \in Nat /\ Window \in Nat /\ DOMAIN s = 1 .. Len(s)
  BY <1>1, TimesAssumption
<1>3. PICK m \in 1 .. Len(s) + 1 : Pruned(s) = SubSeq(s, m, Len(s))
  BY <1>1, PrunedSuffix
<1>4. PICK n \in Nat : n = Len(s) + 1 - m
  <2>1. Len(s) + 1 - m \in Nat
    BY <1>2, <1>3
  <2> QED BY <2>1
<1>5. PICK p \in Seq(Nat) : p = Pruned(s)
  BY <1>1, PrunedType
<1>6. Len(p) = n /\ \A i \in 1 .. n : p[i] = s[m + i - 1]
  BY <1>2, <1>3, <1>4, <1>5
<1>7. PICK f \in Seq(Nat) : f = Append(p, now)
  <2>1. Append(p, now) \in Seq(Nat)
    BY <1>5
  <2> QED BY <2>1
<1>8. Failed(e).failures = f
  BY <1>1, <1>5, <1>7 DEF Failed
<1>9. /\ DOMAIN f = 1 .. n + 1
      /\ \A i \in 1 .. n : f[i] = s[m + i - 1]
  BY <1>6, <1>7
<1> DEFINE A == {i \in DOMAIN f : f[i] > now - Window}
           Kept == A \ {n + 1}
           Were == {i \in DOMAIN s : s[i] > now - Window}
           place == [i \in Kept |-> m + i - 1]
<1>10. After(Failed(e), now) = A /\ After(e, now) = Were
  BY <1>1, <1>8 DEF After
<1>11. ASSUME NEW i \in Kept PROVE m + i - 1 \in Were
  <2>1. i \in 1 .. n + 1 /\ i # n + 1 /\ f[i] > now - Window
    BY <1>9
  <2>2. m + i - 1 \in 1 .. Len(s)
    BY <1>2, <1>3, <1>4, <2>1
  <2> QED BY <1>2, <1>9, <2>1, <2>2
<1>12. Kept \subseteq 1 .. n + 1 /\ IsFiniteSet(1 .. n + 1) /\ A \subseteq 1 .. n + 1
  BY <1>4, <1>9, UpTo
<1>13. Kept \subseteq Nat /\ m \in Nat
  BY <1>3, <1>4, <1>12
<1>14. Were \subseteq 1 .. Len(s) /\ IsFiniteSet(1 .. Len(s))
  BY <1>2, UpTo
<1>15. Kept = A \ {n + 1}
  OBVIOUS
<1> HIDE DEF Kept, Were, A
<1>16. place \in [Kept -> Were]
  BY <1>11
<1>17. \A i, j \in Kept : place[i] = place[j] => i = j
  BY <1>13
<1>18. IsFiniteSet(A) /\ IsFiniteSet(Kept) /\ IsFiniteSet(Were)
  BY <1>12, <1>14, FS_Subset
<1>19. /\ Cardinality(A) \in Nat /\ Cardinality(Kept) \in Nat
       /\ Cardinality(Were) \in Nat
  BY <1>18, FS_CardinalityType
<1>20. ~(Cardinality(Were) < Cardinality(Kept))
  <2> SUFFICES ASSUME Cardinality(Were) < Cardinality(Kept) PROVE FALSE
    OBVIOUS
  <2> HIDE DEF place
  <2>1. \E i, j \in Kept : i # j /\ place[i] = place[j]
    BY <1>16, <1>18, FS_PigeonHole
  <2> QED BY <1>17, <2>1
<1>21. Cardinality(A) <= Cardinality(Kept) + 1
  <2>1. Cardinality(Kept) = IF n + 1 \in A THEN Cardinality(A) - 1
                                           ELSE Cardinality(A)
    BY <1>15, <1>18, FS_RemoveElement
  <2> QED BY <1>19, <2>1
<1> QED BY <1>10, <1>19, <1>20, <1>21

\* Fits(R, W): AttemptsBounded for one key, by its two sets.
Fits(R, W) == Cardinality(R) + Cardinality(W) < Limit + Cardinality(Clients)

LEMMA BoundedFits == AttemptsBounded <=> \A k \in Tracked : Fits(Recent(k), Waiting(k))
BY DEF AttemptsBounded, Fits, Waiting

LEMMA RecentFacts ==
  ASSUME IInv, NEW k \in Tracked
  PROVE  /\ entries[k] \in Attempts /\ now \in Nat /\ k \in Keys
         /\ Recent(k) = After(entries[k], now)
         /\ IsFiniteSet(Recent(k)) /\ Cardinality(Recent(k)) \in Nat
<1>1. entries[k] \in Attempts /\ now \in Nat /\ k \in Keys
  BY DEF IInv, TypeOK
<1>2. Recent(k) = After(entries[k], now)
  BY DEF Recent, After
<1> QED BY <1>1, <1>2, AfterFinite

\* Fewer failures in the window and fewer requests fit when more did.
LEMMA ShrunkFits ==
  ASSUME NEW R, IsFiniteSet(R), NEW W, IsFiniteSet(W), Fits(R, W),
         NEW R2 \in SUBSET R, NEW W2 \in SUBSET W
  PROVE  Fits(R2, W2)
<1>1. /\ Cardinality(R2) <= Cardinality(R) /\ Cardinality(W2) <= Cardinality(W)
      /\ IsFiniteSet(R2) /\ IsFiniteSet(W2)
  BY FS_Subset
<1>2. /\ Cardinality(R) \in Nat /\ Cardinality(W) \in Nat
      /\ Cardinality(R2) \in Nat /\ Cardinality(W2) \in Nat
      /\ Cardinality(Clients) \in Nat /\ Limit \in Nat
  BY <1>1, FS_CardinalityType, ClientsAssumption, LimitAssumption
<1> QED BY <1>1, <1>2 DEF Fits

\* A request passes its check: the key is not locked, and has an attempt left.
LEMMA CheckFits ==
  ASSUME IInv, AttemptsBounded, NEW c \in Clients, NEW j \in Keys, Check(c, j),
         NEW k \in Tracked
  PROVE  Fits(Recent(k), Waiting(k)')
<1>1. k \in Keys /\ Cardinality(Recent(k)) \in Nat
  BY RecentFacts
<1>2. CASE k = j
  <2>1. Cardinality(Recent(k)) < Limit
    <3>1. /\ Later(entries[k].lockedUntil, now) = now
          /\ Recent(k) = After(entries[k], now)
      BY <1>2 DEF Check, Blocked, Later, Recent, After
    <3> QED BY <3>1 DEF IInv, AttemptsLeft
  <2>2. PICK W : W = Waiting(k)'
    OBVIOUS
  <2>3. W \subseteq Clients
    BY <2>2 DEF Waiting
  <2>4. /\ Cardinality(W) <= Cardinality(Clients)
        /\ Cardinality(W) \in Nat /\ Cardinality(Clients) \in Nat
    BY <2>3, ClientsAssumption, FS_Subset, FS_CardinalityType
  <2>5. Fits(Recent(k), W)
    BY <1>1, <2>1, <2>4, LimitAssumption DEF Fits
  <2> QED BY <2>2, <2>5
<1>3. CASE k # j
  <2>1. Waiting(k)' \subseteq Waiting(k)
    BY <1>3 DEF Check, Waiting, IInv, TypeOK
  <2>2. Fits(Recent(k), Waiting(k)) /\ IsFiniteSet(Recent(k))
    BY BoundedFits, RecentFacts
  <2> QED BY <2>1, <2>2, ShrunkFits, WaitingFinite
<1> QED BY <1>2, <1>3

\* A failure is counted, and its request no longer waits.
LEMMA RecordFits ==
  ASSUME IInv, AttemptsBounded, NEW c \in Clients, Record(c), NEW k \in Tracked'
  PROVE  Fits(Recent(k), Waiting(k))'
<1>1. PICK p \in Keys : p = passed[c]
  BY DEF Record, IInv, TypeOK
<1>2. /\ entries' = [j \in Swept \union {p} |->
                       IF j = p THEN Failed(Entry(p)) ELSE entries[j]]
      /\ passed' = [passed EXCEPT ![c] = "none"] /\ now' = now
      /\ passed \in [Clients -> Keys \union {"none"}]
      /\ Swept \subseteq Tracked
  BY <1>1, SweptFacts DEF Record, Finish, IInv, TypeOK
<1>3. k \in Swept \union {p}
  BY <1>2 DEF Tracked
<1>4. CASE k # p
  <2>1. k \in Tracked /\ entries'[k] = entries[k]
    BY <1>2, <1>3, <1>4
  <2>2. k \in Keys
    BY <2>1, RecentFacts
  <2>3. Recent(k)' = Recent(k) /\ Waiting(k)' \subseteq Waiting(k)
    BY <1>2, <2>1, <2>2, ClientsAssumption DEF Recent, Waiting
  <2>4. Fits(Recent(k), Waiting(k)) /\ IsFiniteSet(Recent(k))
    BY <2>1, BoundedFits, RecentFacts
  <2>5. Fits(Recent(k)', Waiting(k)')
    BY <2>3, <2>4, ShrunkFits, WaitingFinite
  <2> QED BY <2>5 DEF Fits
<1>5. CASE k = p
  <2>1. PICK e : e = Entry(p)
    OBVIOUS
  <2>2. e \in Attempts /\ now \in Nat
    BY <2>1, EntryGood
  <2>3. PICK R, R2 : R = After(e, now) /\ R2 = After(Failed(e), now)
    OBVIOUS
  <2>4. Cardinality(R2) <= Cardinality(R) + 1
    BY <2>2, <2>3, FailedAddsOne
  <2>5. Cardinality(R) \in Nat
    BY <2>2, <2>3, AfterFinite
  <2>6. Failed(e) \in Attempts
    BY <2>1, <2>2, EntryGood, FailedGood
  <2>7. Cardinality(R2) \in Nat
    BY <2>2, <2>3, <2>6, AfterFinite
  <2>8. Recent(k)' = R2
    BY <1>2, <1>5, <2>1, <2>3 DEF Recent, After
  <2>9. PICK W, W2 : W = Waiting(k) /\ W2 = Waiting(k)'
    OBVIOUS
  <2>10. W2 = W \ {c} /\ c \in W
    BY <1>1, <1>2, <1>5, <2>9, ClientsAssumption DEF Waiting
  <2>11. Cardinality(W2) = Cardinality(W) - 1
    BY <2>9, <2>10, WaitingFinite, FS_RemoveElement
  <2>12. /\ Cardinality(W) \in Nat /\ Cardinality(Clients) \in Nat
         /\ Cardinality(W) <= Cardinality(Clients)
         /\ Limit \in Nat \ {0}
    BY <2>9, WaitingFinite, LimitAssumption
  <2>13. Cardinality(R) + Cardinality(W) < Limit + Cardinality(Clients)
    <3>1. CASE k \in Swept
      <4>1. k \in Tracked /\ e = entries[k]
        BY <1>2, <1>5, <2>1, <3>1 DEF Entry
      <4>2. R = Recent(k)
        BY <2>3, <4>1, RecentFacts
      <4> QED BY <2>9, <4>1, <4>2, BoundedFits DEF Fits
    <3>2. CASE k \notin Swept
      <4>1. R = {}
        BY <1>5, <2>1, <2>3, <3>2 DEF Entry, After
      <4>2. Cardinality(R) = 0
        BY <4>1, FS_EmptySet
      <4> QED BY <2>12, <4>2
    <3> QED BY <3>1, <3>2
  <2>14. Cardinality(R2) + Cardinality(W2) < Limit + Cardinality(Clients)
    BY <2>4, <2>5, <2>7, <2>11, <2>12, <2>13
  <2> QED BY <2>8, <2>9, <2>14 DEF Fits
<1> QED BY <1>4, <1>5

\* A step that keeps a part of the table, lets time pass or ends a request.
LEMMA OtherFits ==
  ASSUME IInv, AttemptsBounded, NEW k \in Tracked,
         entries'[k] = entries[k], now' >= now, now' \in Nat,
         \A c \in Clients : passed'[c] \in {passed[c], "none"}
  PROVE  Fits(Recent(k), Waiting(k))'
<1>1. /\ entries[k] \in Attempts /\ now \in Nat /\ k \in Keys
      /\ IsFiniteSet(Recent(k)) /\ Fits(Recent(k), Waiting(k))
  BY RecentFacts, BoundedFits
<1>2. Recent(k)' \subseteq Recent(k)
  BY <1>1, TimesAssumption DEF Recent, Attempts
<1>3. Waiting(k)' \subseteq Waiting(k)
  BY <1>1, ClientsAssumption DEF Waiting
<1>4. Fits(Recent(k)', Waiting(k)')
  BY <1>1, <1>2, <1>3, ShrunkFits, WaitingFinite
<1> QED BY <1>4 DEF Fits

LEMMA NextBounded == IInv /\ AttemptsBounded /\ [Next]_vars => AttemptsBounded'
<1> SUFFICES ASSUME IInv, AttemptsBounded, [Next]_vars, NEW k \in Tracked'
             PROVE  Fits(Recent(k), Waiting(k))'
  BY DEF AttemptsBounded, Fits, Waiting
<1>1. ASSUME NEW c \in Clients, NEW j \in Keys, Check(c, j)
      PROVE  Fits(Recent(k), Waiting(k))'
  <2>1. k \in Tracked /\ Recent(k)' = Recent(k)
    BY <1>1 DEF Check, Tracked, Recent
  <2>2. Fits(Recent(k), Waiting(k)')
    BY <1>1, <2>1, CheckFits
  <2> QED BY <2>1, <2>2 DEF Fits
<1>2. ASSUME NEW c \in Clients, Record(c) PROVE Fits(Recent(k), Waiting(k))'
  BY <1>2, RecordFits
<1>3. now \in Nat
  BY DEF IInv, TypeOK
<1>4. ASSUME NEW c \in Clients, RecordFull(c) \/ Reset(c) \/ Drop(c)
      PROVE  Fits(Recent(k), Waiting(k))'
  <2>1. k \in Tracked /\ entries'[k] = entries[k] /\ now' = now
    BY <1>4, SweptFacts DEF RecordFull, Reset, Drop, Tracked
  <2>2. \A d \in Clients : passed'[d] \in {passed[d], "none"}
    BY <1>4 DEF RecordFull, Reset, Drop, Finish, IInv, TypeOK
  <2> QED BY <1>3, <2>1, <2>2, OtherFits
<1>5. CASE Tick
  BY <1>3, <1>5, OtherFits DEF Tick, Tracked
<1>6. CASE UNCHANGED vars
  BY <1>3, <1>6, OtherFits DEF vars, Tracked
<1> QED BY <1>1, <1>2, <1>4, <1>5, <1>6 DEF Next

\* The requests that have passed their check cannot bring the failures of a
\* key, together with themselves, beyond max and the number of clients.
THEOREM AttemptsStayBounded == Spec => []AttemptsBounded
<1>1. Init => AttemptsBounded
  BY DEF Init, AttemptsBounded, Tracked
<1> QED BY <1>1, NextBounded, Invariance, PTL DEF Spec

-----------------------------------------------------------------------------
(***************************************************************************)
(* LockEarned: failures are in the order of time, so that the prefix which *)
(* pruning drops is what lies before the window, and all that it leaves    *)
(* counts.                                                                 *)
(***************************************************************************)
InOrder(s) == \A i, j \in DOMAIN s : i <= j => s[i] <= s[j]

OInv == \A k \in Tracked : InOrder(entries[k].failures)

LEMMA PrunedFresh ==
  ASSUME NEW s \in Seq(Nat), InOrder(s), now \in Nat
  PROVE  /\ \A i \in DOMAIN Pruned(s) : Pruned(s)[i] > now - Window
         /\ InOrder(Pruned(s))
<1> DEFINE Old == {j \in DOMAIN s : s[j] <= now - Window}
<1>1. Len(s) \in Nat /\ DOMAIN s = 1 .. Len(s) /\ Window \in Nat
  BY TimesAssumption
<1>2. PICK m \in 1 .. Len(s) + 1 : /\ Pruned(s) = SubSeq(s, m, Len(s))
                                   /\ m = Cardinality(Old) + 1
  BY PrunedSuffix
<1>3. Old \subseteq 1 .. Len(s) /\ IsFiniteSet(1 .. Len(s))
  BY <1>1, UpTo
<1>4. IsFiniteSet(Old) /\ Cardinality(Old) \in Nat
  <2> HIDE DEF Old
  <2> QED BY <1>3, FS_Subset, FS_CardinalityType
<1>5. ASSUME NEW i \in m .. Len(s) PROVE s[i] > now - Window
  <2> SUFFICES ASSUME i \in Old PROVE FALSE
    BY <1>1, <1>2
  <2>1. i \in Nat /\ i \in DOMAIN s /\ s[i] <= now - Window
    BY <1>1, <1>2
  <2>2. ASSUME NEW j \in 1 .. i PROVE j \in Old
    <3>1. j \in DOMAIN s /\ j <= i
      BY <1>1, <2>1
    <3>2. s[j] <= s[i] /\ s[j] \in Nat /\ s[i] \in Nat
      BY <2>1, <3>1 DEF InOrder
    <3> QED BY <1>1, <2>1, <3>1, <3>2
  <2>3. 1 .. i \subseteq Old
    BY <2>2
  <2>4. Cardinality(1 .. i) = i
    BY <2>1, UpTo
  <2>5. i <= Cardinality(Old)
    <3> HIDE DEF Old
    <3>1. Cardinality(1 .. i) <= Cardinality(Old)
      BY <1>4, <2>3, FS_Subset
    <3> QED BY <2>4, <3>1
  <2> QED BY <1>2, <1>4, <2>1, <2>5
<1> HIDE DEF Old
<1>6. PICK n \in Nat : n = Len(s) + 1 - m
  <2>1. Len(s) + 1 - m \in Nat
    BY <1>1, <1>2
  <2> QED BY <2>1
<1>7. PICK p \in Seq(Nat) : p = Pruned(s)
  BY PrunedType
<1>8. DOMAIN p = 1 .. n /\ \A i \in 1 .. n : p[i] = s[m + i - 1]
  BY <1>1, <1>2, <1>6, <1>7
<1>9. ASSUME NEW i \in 1 .. n
      PROVE  m + i - 1 \in m .. Len(s) /\ m + i - 1 \in DOMAIN s
  BY <1>1, <1>2, <1>6
<1>10. \A i \in 1 .. n : p[i] > now - Window
  BY <1>5, <1>8, <1>9
<1>11. ASSUME NEW i \in 1 .. n, NEW j \in 1 .. n, i <= j
       PROVE  s[m + i - 1] <= s[m + j - 1]
  <2>1. m + i - 1 <= m + j - 1
    BY <1>1, <1>2, <1>6, <1>11
  <2> QED BY <1>9, <2>1 DEF InOrder
<1>12. InOrder(p)
  BY <1>8, <1>11 DEF InOrder
<1> QED BY <1>7, <1>8, <1>10, <1>12

\* A failure keeps the order, and the lock it sets is earned.
LEMMA FailedEarned ==
  ASSUME NEW e \in Attempts, InOrder(e.failures), now \in Nat,
         \A i \in DOMAIN e.failures : e.failures[i] <= now
  PROVE  /\ InOrder(Failed(e).failures)
         /\ \/ Failed(e).lockedUntil = e.lockedUntil
            \/ Limit <= Cardinality(After(Failed(e), now))
<1>1. PICK s \in Seq(Nat) : s = e.failures
  BY DEF Attempts
<1>2. PICK p \in Seq(Nat) : p = Pruned(s)
  BY <1>1, PrunedType
<1>3. /\ InOrder(p)
      /\ \A i \in DOMAIN p : p[i] > now - Window /\ p[i] <= now
  <2>1. InOrder(p) /\ \A i \in DOMAIN p : p[i] > now - Window
    BY <1>1, <1>2, PrunedFresh
  <2>2. ASSUME NEW i \in DOMAIN p PROVE p[i] <= now
    BY <1>1, <1>2, <2>2, PrunedType
  <2> QED BY <2>1, <2>2
<1>4. PICK f : f = Append(p, now)
  OBVIOUS
<1>5. f \in Seq(Nat)
  BY <1>2, <1>4
<1>6. PICK n \in Nat : n = Len(p)
  BY <1>2
<1>7. /\ DOMAIN p = 1 .. n /\ DOMAIN f = 1 .. n + 1 /\ Len(f) = n + 1
      /\ \A i \in 1 .. n : f[i] = p[i]
      /\ f[n + 1] = now
  BY <1>2, <1>4, <1>6
<1>8. /\ Failed(e).failures = f
      /\ \/ Failed(e).lockedUntil = e.lockedUntil
         \/ Len(f) >= Limit
  BY <1>1, <1>2, <1>4 DEF Failed
<1>9. InOrder(f)
  <2> SUFFICES ASSUME NEW i \in 1 .. n + 1, NEW j \in 1 .. n + 1, i <= j
               PROVE  f[i] <= f[j]
    BY <1>7 DEF InOrder
  <2>1. CASE j \in 1 .. n
    <3>1. i \in 1 .. n
      BY <1>6, <2>1
    <3> QED BY <1>3, <1>7, <2>1, <3>1 DEF InOrder
  <2>2. CASE j = n + 1 /\ i \in 1 .. n
    BY <1>3, <1>7, <2>2
  <2>3. CASE j = n + 1 /\ i = n + 1
    BY <1>7, <2>3
  <2>4. /\ i \in 1 .. n \/ i = n + 1
        /\ j \in 1 .. n \/ j = n + 1
    BY <1>6
  <2> QED BY <2>1, <2>2, <2>3, <2>4
<1>10. \A i \in 1 .. n + 1 : f[i] > now - Window
  <2> SUFFICES ASSUME NEW i \in 1 .. n + 1 PROVE f[i] > now - Window
    OBVIOUS
  <2>1. CASE i \in 1 .. n
    BY <1>3, <1>7, <2>1
  <2>2. CASE i = n + 1
    BY <1>7, <2>2, TimesAssumption
  <2>3. i \in 1 .. n \/ i = n + 1
    BY <1>6
  <2> QED BY <2>1, <2>2, <2>3
<1>11. After(Failed(e), now) = 1 .. n + 1
  BY <1>7, <1>8, <1>10 DEF After
<1>12. Cardinality(1 .. n + 1) = n + 1
  BY <1>6, UpTo
<1> QED BY <1>7, <1>8, <1>9, <1>11, <1>12

\* The entry that a failure changes, before and after it.
LEMMA RecordEarned ==
  ASSUME IInv, OInv, NEW c \in Clients, Record(c), NEW k \in Tracked'
  PROVE  /\ InOrder(entries'[k].failures)
         /\ \/ k \in Tracked /\ entries'[k].lockedUntil = entries[k].lockedUntil
            \/ entries'[k].lockedUntil = Never
            \/ Limit <= Cardinality(After(entries'[k], now))
<1>1. PICK p \in Keys : p = passed[c]
  BY DEF Record, IInv, TypeOK
<1>2. /\ entries' = [j \in Swept \union {p} |->
                       IF j = p THEN Failed(Entry(p)) ELSE entries[j]]
      /\ Swept \subseteq Tracked
  BY <1>1, SweptFacts DEF Record
<1>3. k \in Swept \union {p}
  BY <1>2 DEF Tracked
<1>4. CASE k # p
  <2>1. k \in Tracked /\ entries'[k] = entries[k]
    BY <1>2, <1>3, <1>4
  <2> QED BY <2>1 DEF OInv
<1>5. CASE k = p
  <2>1. PICK e : e = Entry(p)
    OBVIOUS
  <2>2. entries'[k] = Failed(e)
    BY <1>2, <1>5, <2>1
  <2>3. /\ e \in Attempts /\ now \in Nat
        /\ \A i \in DOMAIN e.failures : e.failures[i] <= now
    BY <2>1, EntryGood
  <2>4. /\ InOrder(e.failures)
        /\ \/ k \in Tracked /\ e.lockedUntil = entries[k].lockedUntil
           \/ e.lockedUntil = Never
    <3>1. CASE k \in Swept
      BY <1>2, <1>5, <2>1, <3>1 DEF Entry, OInv
    <3>2. CASE k \notin Swept
      <4>1. e.failures = <<>> /\ e.lockedUntil = Never
        BY <1>5, <2>1, <3>2 DEF Entry
      <4> QED BY <4>1 DEF InOrder
    <3> QED BY <3>1, <3>2
  <2>5. /\ InOrder(Failed(e).failures)
        /\ \/ Failed(e).lockedUntil = e.lockedUntil
           \/ Limit <= Cardinality(After(Failed(e), now))
    BY <2>3, <2>4, FailedEarned
  <2> QED BY <2>2, <2>4, <2>5
<1> QED BY <1>4, <1>5

\* No other step changes an entry that stays.
LEMMA OthersKeep ==
  ASSUME IInv, [Next]_vars, ~\E c \in Clients : Record(c), NEW k \in Tracked'
  PROVE  k \in Tracked /\ entries'[k] = entries[k]
<1>1. ASSUME NEW c \in Clients, RecordFull(c) \/ Reset(c)
      PROVE  k \in Tracked /\ entries'[k] = entries[k]
  BY <1>1, SweptFacts DEF RecordFull, Reset, Tracked
<1>2. ASSUME entries' = entries
      PROVE  k \in Tracked /\ entries'[k] = entries[k]
  BY <1>2 DEF Tracked
<1> QED BY <1>1, <1>2 DEF Next, Check, Drop, Tick, vars

\* A lock is set only by the max-th failure within the window.
THEOREM LocksEarned == Spec => LockEarned
<1>1. Init => OInv
  BY DEF Init, OInv, Tracked
<1>2. IInv /\ OInv /\ [Next]_vars => OInv'
  <2> SUFFICES ASSUME IInv, OInv, [Next]_vars, NEW k \in Tracked'
               PROVE  InOrder(entries'[k].failures)
    BY DEF OInv
  <2>1. CASE \E c \in Clients : Record(c)
    BY <2>1, RecordEarned
  <2>2. CASE ~\E c \in Clients : Record(c)
    BY <2>2, OthersKeep DEF OInv
  <2> QED BY <2>1, <2>2
<1>3. ASSUME IInv, OInv, [Next]_vars, NEW k \in Tracked',
             k \in Tracked => entries[k].lockedUntil # entries'[k].lockedUntil,
             entries'[k].lockedUntil > now
      PROVE  Limit <= Cardinality({i \in DOMAIN entries'[k].failures :
                        entries'[k].failures[i] > now - Window})
  <2>1. PICK c \in Clients : Record(c)
    BY <1>3, OthersKeep
  <2>2. entries'[k].lockedUntil # Never
    BY <1>3 DEF Never, IInv, TypeOK
  <2>3. Limit <= Cardinality(After(entries'[k], now))
    BY <1>3, <2>1, <2>2, RecordEarned
  <2> QED BY <2>3 DEF After
<1>4. IInv /\ OInv /\ [Next]_vars =>
        [\A k \in Tracked' :
           (k \in Tracked => entries[k].lockedUntil # entries'[k].lockedUntil)
             /\ entries'[k].lockedUntil > now
             => Limit <= Cardinality({i \in DOMAIN entries'[k].failures :
                           entries'[k].failures[i] > now - Window})]_vars
  BY <1>3
<1> QED BY <1>1, <1>2, <1>4, Invariance, PTL DEF Spec, LockEarned

-----------------------------------------------------------------------------
(***************************************************************************)
(* ApiKeyLimit: the limit of one key, for any limit, window and requests.  *)
(***************************************************************************)
(***************************************************************************)
(* RateBounded is not inductive: it says nothing of what the next request  *)
(* finds in the row.  The row counts what was let through in the shortened *)
(* window, its time is late by at most Delay, and so is a reading.         *)
(***************************************************************************)
KInv ==
  /\ KeyTypeOK
  /\ time \in 1 .. KeyHorizon
  /\ \A i \in DOMAIN granted :
       granted[i] <= time /\ last # Null /\ granted[i] <= last + Delay
  /\ GrantedSince(time - (KeyWindow - Delay)) <= count
  /\ \A c \in Callers :
       clock[c] # Null => clock[c] <= time /\ time <= clock[c] + Delay

\* The requests let through from time t on, in a sequence of their times.
Since(g, t) == {i \in DOMAIN g : g[i] >= t}

LEMMA SinceType ==
  ASSUME NEW g \in Seq(Int), NEW t
  PROVE  IsFiniteSet(Since(g, t)) /\ Cardinality(Since(g, t)) \in Nat
<1>1. PICK n \in Nat : n = Len(g) /\ DOMAIN g = 1 .. n
  OBVIOUS
<1>2. IsFiniteSet(1 .. n)
  BY UpTo
<1>3. Since(g, t) \subseteq 1 .. n
  BY <1>1 DEF Since
<1> QED BY <1>2, <1>3, FS_Subset, FS_CardinalityType

\* A window that starts later counts no more.
LEMMA SinceLater ==
  ASSUME NEW g \in Seq(Int), NEW t \in Int, NEW u \in Int, t <= u
  PROVE  Cardinality(Since(g, u)) <= Cardinality(Since(g, t))
<1>1. \A i \in DOMAIN g : g[i] \in Int
  OBVIOUS
<1>2. Since(g, u) \subseteq Since(g, t)
  BY <1>1 DEF Since
<1> QED BY <1>2, SinceType, FS_Subset

\* One more request adds one, and is the only one when all others are older.
LEMMA SinceGranted ==
  ASSUME NEW g \in Seq(Int), NEW n \in Int, NEW t \in Int
  PROVE  /\ Cardinality(Since(Append(g, n), t)) <= Cardinality(Since(g, t)) + 1
         /\ (\A i \in DOMAIN g : g[i] < t)
              => Cardinality(Since(Append(g, n), t)) <= 1
<1>1. PICK l : l = Len(g) + 1
  OBVIOUS
<1>2. PICK S, S2 : S = Since(g, t) /\ S2 = Since(Append(g, n), t)
  OBVIOUS
<1>3. Append(g, n) \in Seq(Int)
  OBVIOUS
<1>4. /\ IsFiniteSet(S) /\ IsFiniteSet(S2)
      /\ Cardinality(S) \in Nat /\ Cardinality(S2) \in Nat
  BY <1>2, <1>3, SinceType
<1>5. S2 \subseteq S \union {l}
  BY <1>1, <1>2 DEF Since
<1>6. /\ IsFiniteSet(S \union {l})
      /\ Cardinality(S \union {l}) \in Nat
      /\ Cardinality(S \union {l}) <= Cardinality(S) + 1
  <2>1. /\ IsFiniteSet(S \union {l})
        /\ \/ Cardinality(S \union {l}) = Cardinality(S)
           \/ Cardinality(S \union {l}) = Cardinality(S) + 1
    BY <1>4, FS_AddElement
  <2> QED BY <1>4, <2>1
<1>7. Cardinality(S2) <= Cardinality(S \union {l})
  BY <1>5, <1>6, FS_Subset
<1>8. ASSUME \A i \in DOMAIN g : g[i] < t PROVE Cardinality(S) = 0
  <2>1. \A i \in DOMAIN g : g[i] \in Int
    OBVIOUS
  <2>2. S = {}
    BY <1>2, <1>8, <2>1 DEF Since
  <2> QED BY <2>2, FS_EmptySet
<1> QED BY <1>2, <1>4, <1>6, <1>7, <1>8

LEMMA KInitInv == KeyInit => KInv
<1> SUFFICES ASSUME KeyInit PROVE KInv
  OBVIOUS
<1>1. DOMAIN granted = {} /\ granted \in Seq(Times)
  BY DEF KeyInit
<1>2. GrantedSince(time - (KeyWindow - Delay)) = 0
  <2>1. {i \in DOMAIN granted : granted[i] >= time - (KeyWindow - Delay)} = {}
    BY <1>1
  <2> QED BY <2>1, FS_EmptySet DEF GrantedSince
<1> QED BY <1>1, <1>2,
           MaxRequestsAssumption, KeyTimesAssumption, KeyHorizonAssumption
        DEF KeyInit, KInv, KeyTypeOK, Null, Times

LEMMA KGrantInv ==
  ASSUME KInv, NEW c \in Callers, Grant(c)
  PROVE  KInv'
<1> DEFINE t == time - (KeyWindow - Delay)
<1>1. /\ KeyWindow \in Nat /\ Delay \in Nat /\ Delay <= KeyWindow
      /\ MaxRequests \in Nat /\ MaxRequests > 0 /\ KeyHorizon \in Nat
  BY MaxRequestsAssumption, KeyTimesAssumption, KeyHorizonAssumption
<1>2. /\ time \in Times /\ time \in Int /\ time > 0 /\ granted \in Seq(Times)
      /\ clock[c] \in Times /\ clock[c] \in Int /\ clock[c] > 0
      /\ clock[c] <= time /\ time <= clock[c] + Delay
      /\ last \in Int /\ count \in Nat
  BY <1>1 DEF KInv, KeyTypeOK, Grant, Times, Null
<1>2a. granted \in Seq(Int)
  BY <1>1, <1>2 DEF Times
<1>3. /\ granted' = Append(granted, time) /\ last' = clock[c] /\ time' = time
      /\ clock' = [clock EXCEPT ![c] = Null] /\ stored' = stored
      /\ count' = IF Idle(c) THEN 1 ELSE count + 1
  BY DEF Grant
<1>4. granted' \in Seq(Times) /\ Len(granted') = Len(granted) + 1
        /\ granted'[Len(granted) + 1] = time /\ Len(granted) \in Nat
  BY <1>2, <1>3
<1>5. \A i \in DOMAIN granted' :
        \/ i \in DOMAIN granted /\ granted'[i] = granted[i]
        \/ granted'[i] = time
  BY <1>2, <1>3
<1>6. \A i \in DOMAIN granted : granted[i] \in Int /\ granted[i] <= time
  BY <1>2a DEF KInv
<1>7. count' \in 0 .. MaxRequests
  BY <1>1, <1>2, <1>3 DEF Grant, Matches, KInv, KeyTypeOK
<1>8. KeyTypeOK'
  <2>1. last' # Null => \E i \in DOMAIN granted' :
             granted'[i] \in last' .. last' + Delay /\ granted'[i] <= time'
    BY <1>1, <1>2, <1>3, <1>4
  <2> QED BY <1>2, <1>3, <1>4, <1>7, <2>1 DEF KInv, KeyTypeOK
<1>9. \A i \in DOMAIN granted' :
        granted'[i] <= time /\ last' # Null /\ granted'[i] <= last' + Delay
  BY <1>1, <1>2, <1>3, <1>5, <1>6 DEF Null
<1>10. Cardinality(Since(granted', t)) <= count'
  <2>1. Cardinality(Since(granted, t)) <= count
    BY DEF KInv, GrantedSince, Since
  <2>2. t \in Int
    BY <1>1, <1>2
  <2>3. /\ Cardinality(Since(granted, t)) \in Nat
        /\ Cardinality(Since(granted', t)) \in Nat
    <3>1. granted' \in Seq(Int)
      BY <1>2, <1>2a, <1>3
    <3> HIDE DEF t
    <3> QED BY <1>2a, <3>1, SinceType
  <2>4. CASE ~Idle(c)
    <3>1. Cardinality(Since(granted', t)) <= Cardinality(Since(granted, t)) + 1
      BY <1>2, <1>2a, <1>3, <2>2, SinceGranted
    <3> QED BY <1>2, <1>3, <2>1, <2>3, <2>4, <3>1
  <2>5. CASE Idle(c)
    <3>1. \A i \in DOMAIN granted : granted[i] < t
      BY <1>1, <1>2, <1>6, <2>5 DEF Idle, KInv
    <3>2. Cardinality(Since(granted', t)) <= 1
      BY <1>2, <1>2a, <1>3, <2>2, <3>1, SinceGranted
    <3> QED BY <1>3, <2>5, <3>2
  <2> QED BY <2>4, <2>5
<1>11. \A d \in Callers : clock'[d] # Null =>
                            clock'[d] <= time /\ time <= clock'[d] + Delay
  BY <1>3 DEF KInv, KeyTypeOK
<1> QED BY <1>3, <1>8, <1>9, <1>10, <1>11
        DEF KInv, GrantedSince, Since

LEMMA KNextInv == KInv /\ [KeyNext]_keyVars => KInv'
<1> SUFFICES ASSUME KInv, [KeyNext]_keyVars PROVE KInv'
  OBVIOUS
<1>1. ASSUME UNCHANGED <<time, count, last, granted>>, stored' \in BOOLEAN,
             clock' \in [Callers -> Times \union {Null}],
             \A d \in Callers : clock'[d] # Null =>
               clock'[d] <= time /\ time <= clock'[d] + Delay
      PROVE  KInv'
  BY <1>1 DEF KInv, KeyTypeOK, GrantedSince
<1>2. ASSUME NEW c \in Callers, Verify(c) PROVE KInv'
  <2>1. time \in Times /\ time <= time + Delay
    BY MaxRequestsAssumption, KeyTimesAssumption, KeyHorizonAssumption
    DEF KInv, Times
  <2> QED BY <1>1, <1>2, <2>1 DEF Verify, KInv, KeyTypeOK
<1>3. ASSUME NEW c \in Callers, Refuse(c) \/ Fails(c) PROVE KInv'
  BY <1>1, <1>3 DEF Refuse, Fails, KInv, KeyTypeOK
<1>4. ASSUME Delete PROVE KInv'
  BY <1>1, <1>4 DEF Delete, KInv, KeyTypeOK
<1>5. ASSUME UNCHANGED keyVars PROVE KInv'
  BY <1>1, <1>5 DEF keyVars, KInv, KeyTypeOK
<1>6. ASSUME KeyTick PROVE KInv'
  <2>1. /\ time \in 1 .. KeyHorizon /\ time' = time + 1 /\ time < KeyHorizon
        /\ UNCHANGED <<stored, count, last, clock, granted>>
        /\ KeyHorizon \in Nat /\ Delay \in Nat /\ KeyWindow \in Nat
    BY <1>6, MaxRequestsAssumption, KeyTimesAssumption, KeyHorizonAssumption
    DEF KeyTick, KInv
  <2>2. granted \in Seq(Times) /\ last \in Int /\ count \in Nat
    BY <2>1, MaxRequestsAssumption, KeyTimesAssumption, KeyHorizonAssumption
    DEF KInv, KeyTypeOK, Times, Null
  <2>2a. granted \in Seq(Int)
    BY <2>1, <2>2 DEF Times
  <2>3. KeyTypeOK'
    <3>1. \A i \in DOMAIN granted : granted[i] <= time + 1
      BY <2>1, <2>2 DEF KInv, Times
    <3> QED BY <2>1, <3>1 DEF KInv, KeyTypeOK
  <2>4. \A i \in DOMAIN granted :
          granted[i] <= time + 1 /\ last # Null /\ granted[i] <= last + Delay
    BY <2>1, <2>2 DEF KInv, Times
  <2>5. Cardinality(Since(granted, time + 1 - (KeyWindow - Delay))) <= count
    <3> DEFINE t == time - (KeyWindow - Delay)
               u == time + 1 - (KeyWindow - Delay)
    <3>1. t \in Int /\ u \in Int /\ t <= u
      BY <2>1
    <3>2. Cardinality(Since(granted, t)) <= count
      BY DEF KInv, GrantedSince, Since
    <3> HIDE DEF t, u
    <3>3. Cardinality(Since(granted, u)) <= Cardinality(Since(granted, t))
      BY <2>2a, <3>1, SinceLater
    <3>4. /\ Cardinality(Since(granted, t)) \in Nat
          /\ Cardinality(Since(granted, u)) \in Nat
      BY <2>2a, SinceType
    <3>5. Cardinality(Since(granted, u)) <= count
      BY <2>2, <3>2, <3>3, <3>4
    <3> QED BY <3>5 DEF u
  <2>6. ASSUME NEW d \in Callers, clock[d] # Null
        PROVE  clock[d] <= time + 1 /\ time + 1 <= clock[d] + Delay
    <3>1. clock[d] \in Int
      BY <2>1, <2>6 DEF KInv, KeyTypeOK, Times
    <3> QED BY <1>6, <2>1, <2>6, <3>1 DEF KeyTick, KInv
  <2>7. GrantedSince(time - (KeyWindow - Delay))' <= count'
    BY <2>1, <2>5 DEF GrantedSince, Since
  <2>8. time' \in 1 .. KeyHorizon
    BY <2>1
  <2> QED BY <2>1, <2>3, <2>4, <2>6, <2>7, <2>8 DEF KInv
<1> QED BY <1>2, <1>3, <1>4, <1>5, <1>6, KGrantInv DEF KeyNext

\* The invariant of one key.
THEOREM KeyInvariance == KeySpec => []KInv
BY KInitInv, KNextInv, PTL DEF KeySpec

\* The row stays well typed, its count within the key's limit, and its time
\* is that of a request that was let through, up to the delay of its reading.
THEOREM KeyTypeCorrect == KeySpec => []KeyTypeOK
<1>1. KInv => KeyTypeOK
  BY DEF KInv
<1> QED BY <1>1, KeyInvariance, PTL

\* A key lets through at most its limit in any window less the delay, though
\* its counter restarts only after an idle one.
THEOREM KeyRateBounded == KeySpec => []RateBounded
<1>1. KInv => RateBounded
  <2> SUFFICES ASSUME KInv
               PROVE  GrantedSince(time - (KeyWindow - Delay)) <= MaxRequests
    BY DEF RateBounded
  <2>1. granted \in Seq(Times) /\ count \in 0 .. MaxRequests
    BY DEF KInv, KeyTypeOK
  <2>1a. granted \in Seq(Int)
    BY <2>1, MaxRequestsAssumption, KeyTimesAssumption, KeyHorizonAssumption
    DEF Times
  <2>2. PICK n : n = GrantedSince(time - (KeyWindow - Delay))
    OBVIOUS
  <2>3. n \in Nat /\ n <= count
    BY <2>1a, <2>2, SinceType DEF KInv, GrantedSince, Since
  <2> QED BY <2>1, <2>2, <2>3, MaxRequestsAssumption, KeyTimesAssumption, KeyHorizonAssumption
<1> QED BY <1>1, KeyInvariance, PTL

\* Retrying never keeps a key refused: whoever is refused was let through
\* within the last window.
THEOREM KeyRefusalEnds == KeySpec => RefusalEnds
<1>1. ASSUME KInv, NEW c \in Callers, Refuse(c), clock[c] # Null, stored
      PROVE  GrantedSince(clock[c] - KeyWindow) > 0
  <2>1. last # Null /\ ~(last < clock[c] - KeyWindow)
    BY <1>1 DEF Refuse, Matches, Idle
  <2>2. /\ last \in Int /\ clock[c] \in Int /\ KeyWindow \in Int /\ Delay \in Nat
        /\ granted \in Seq(Int)
    BY <1>1, MaxRequestsAssumption, KeyTimesAssumption, KeyHorizonAssumption
    DEF KInv, KeyTypeOK, Times, Null
  <2>3. PICK i \in DOMAIN granted : granted[i] \in last .. last + Delay
    BY <1>1, <2>1 DEF KInv, KeyTypeOK
  <2>4. PICK S : S = Since(granted, clock[c] - KeyWindow)
    OBVIOUS
  <2>5. i \in S
    BY <2>1, <2>2, <2>3, <2>4 DEF Since
  <2>6. IsFiniteSet(S) /\ Cardinality(S) \in Nat
    BY <2>2, <2>4, SinceType
  <2>7. Cardinality(S) # 0
    BY <2>5, <2>6, FS_EmptySet
  <2> QED BY <2>4, <2>6, <2>7 DEF GrantedSince, Since
<1>2. KInv /\ [KeyNext]_keyVars =>
        [\A c \in Callers :
           Refuse(c) /\ clock[c] # Null /\ stored
             => GrantedSince(clock[c] - KeyWindow) > 0]_keyVars
  BY <1>1
<1> QED BY <1>2, KeyInvariance, PTL DEF KeySpec, RefusalEnds
=============================================================================
