------------------------- MODULE ImageUpdatesProofs -------------------------
(***************************************************************************)
(* Proofs about ImageUpdates for any lookups, stack actions, time to live  *)
(* and delay.                                                              *)
(***************************************************************************)
EXTENDS ImageUpdates, TLAPS

\* The digests the registry has or will have were never replaced.
Current == \A d \in Digests : d >= remote => old[d] = 0

\* An entry is as old as its digest, but for the delay of its storing.
Remembered ==
  cache # NoEntry => old[cache.digest] <= cache.age + Slack

\* An answer on its way was true when it was read.
Carried ==
  \A k \in Checks : check[k].pc = "told" =>
    /\ check[k].digest <= remote
    /\ old[check[k].digest] <= check[k].age

\* Without a late answer, nothing on its way is older than the last clearing.
NothingLate ==
  ~late => \A k \in Checks : check[k].pc = "told" => check[k].digest >= cleared

IInv ==
  /\ TypeOK
  /\ Current
  /\ Remembered
  /\ Carried
  /\ ClearedForGood
  /\ NothingLate

LEMMA InitIInv == Init => IInv
<1> SUFFICES ASSUME Init PROVE IInv
  OBVIOUS
<1> USE TTLAssumption, SlackAssumption, MaxPushesAssumption
<1>1. Idle \in Lookups /\ Idle.pc # "told" /\ 0 \in Digests /\ 0 \in 0 .. Ancient
  BY DEF Idle, Lookups, Digests, Ancient
<1>2. TypeOK
  <2>1. check \in [Checks -> Lookups] /\ old \in [Digests -> 0 .. Ancient]
    BY <1>1 DEF Init
  <2>2. /\ shown \in [Checks -> Digests \union {Unknown, Pending}]
        /\ request \in [Requests -> {"idle", "up", "clear"}]
    BY DEF Init
  <2>3. /\ remote \in Digests /\ pulled \in 0 .. remote
        /\ running \in 0 .. pulled /\ cleared \in 0 .. pulled
    BY DEF Init, Digests
  <2>4. cache = NoEntry /\ late \in BOOLEAN /\ settled \in BOOLEAN
    BY DEF Init
  <2> QED BY <2>1, <2>2, <2>3, <2>4 DEF TypeOK
<1>3. Current /\ Carried /\ NothingLate
  BY <1>1 DEF Init, Current, Carried, NothingLate
<1>4. Remembered /\ ClearedForGood
  BY DEF Init, Remembered, ClearedForGood
<1> QED BY <1>2, <1>3, <1>4 DEF IInv

\* A lookup that is over leaves the others alone.
LEMMA Over ==
  ASSUME IInv, NEW k \in Checks, check' = [check EXCEPT ![k] = Idle],
         NEW s \in Digests \union {Unknown, Pending},
         shown' = [shown EXCEPT ![k] = s],
         UNCHANGED <<remote, pulled, running, request, histories>>
  PROVE  /\ cache' = NoEntry \/ cache' \in [digest : 0 .. remote, age : 0 .. TTL]
              => TypeOK'
         /\ Current' /\ Carried' /\ NothingLate'
<1>1. Idle \in Lookups
  BY SlackAssumption, MaxPushesAssumption DEF Idle, Digests, Lookups
<1>2. \A j \in Checks : check'[j] = IF j = k THEN Idle ELSE check[j]
  BY DEF IInv, TypeOK
<1>3. check' \in [Checks -> Lookups]
  BY <1>1 DEF IInv, TypeOK
<1>4. shown' \in [Checks -> Digests \union {Unknown, Pending}]
  BY DEF IInv, TypeOK
<1>5. cache' = NoEntry \/ cache' \in [digest : 0 .. remote, age : 0 .. TTL]
        => TypeOK'
  BY <1>3, <1>4 DEF IInv, TypeOK, histories
<1>6. Current'
  BY DEF IInv, Current, histories
<1>7. Idle.pc # "told"
  BY DEF Idle
<1>8. Carried' /\ NothingLate'
  BY <1>2, <1>7 DEF IInv, Carried, NothingLate, histories
<1> QED BY <1>5, <1>6, <1>8

\* A lookup that goes on without an answer leaves the rest alone.
LEMMA GoesOn ==
  ASSUME IInv, NEW k \in Checks,
         NEW j \in Lookups, j.pc # "told",
         check' = [check EXCEPT ![k] = j],
         shown' \in [Checks -> Digests \union {Unknown, Pending}],
         UNCHANGED <<remote, pulled, running, cache, request, histories>>
  PROVE  IInv'
<1>1. \A i \in Checks : check'[i] = IF i = k THEN j ELSE check[i]
  BY DEF IInv, TypeOK
<1>3. check' \in [Checks -> Lookups]
  BY DEF IInv, TypeOK
<1>4. TypeOK'
  BY <1>3 DEF IInv, TypeOK, histories
<1>5. Current' /\ Remembered' /\ ClearedForGood'
  BY DEF IInv, Current, Remembered, ClearedForGood, histories
<1>6. Carried' /\ NothingLate'
  BY <1>1 DEF IInv, Carried, NothingLate, histories
<1> QED BY <1>4, <1>5, <1>6 DEF IInv

\* Stack actions that neither clear the cache nor look at it.
LEMMA ActionApart ==
  ASSUME IInv, pulled' \in pulled .. remote, running' \in 0 .. pulled',
         request' \in [Requests -> {"idle", "up", "clear"}],
         UNCHANGED <<remote, cache, check, shown, histories>>
  PROVE  IInv'
<1>1. TypeOK'
  BY MaxPushesAssumption DEF IInv, TypeOK, histories, Digests
<1>2. Current' /\ Remembered' /\ ClearedForGood' /\ Carried' /\ NothingLate'
  BY DEF IInv, Current, Remembered, ClearedForGood, Carried, NothingLate,
         histories
<1> QED BY <1>1, <1>2 DEF IInv

LEMMA StepIInv == IInv /\ [Next]_vars => IInv'
<1> SUFFICES ASSUME IInv, [Next]_vars PROVE IInv'
  OBVIOUS
<1> USE TTLAssumption, SlackAssumption, MaxPushesAssumption
<1>1. ASSUME NEW k \in Checks, List(k) PROVE IInv'
  <2> DEFINE j == [Idle EXCEPT !.pc = "listed", !.ran = running,
                               !.calm = settled]
  <2>1. j \in Lookups /\ j.pc # "told"
    <3>1. running \in Digests /\ settled \in BOOLEAN
      BY DEF IInv, TypeOK, Digests
    <3>2. 0 \in Digests /\ 0 \in 0 .. Slack
      BY DEF Digests
    <3> QED BY <3>1, <3>2 DEF Idle, Lookups
  <2>2. check' = [check EXCEPT ![k] = j]
    BY <1>1 DEF List
  <2>3. shown' \in [Checks -> Digests \union {Unknown, Pending}]
    BY <1>1 DEF List, IInv, TypeOK
  <2> HIDE DEF j
  <2> QED BY <1>1, <2>1, <2>2, <2>3, GoesOn DEF List
<1>2. ASSUME NEW k \in Checks, Hit(k) PROVE IInv'
  <2>1. cache # NoEntry /\ cache \in [digest : 0 .. remote, age : 0 .. TTL]
    BY <1>2 DEF Hit, Fresh, IInv, TypeOK
  <2>2. cache.digest \in Digests
    BY <2>1 DEF IInv, TypeOK, Digests
  <2>3. TypeOK' /\ Current' /\ Carried' /\ NothingLate'
    BY <1>2, <2>1, <2>2, Over DEF Hit
  <2>4. Remembered' /\ ClearedForGood'
    BY <1>2 DEF Hit, IInv, Remembered, ClearedForGood, histories
  <2> QED BY <2>3, <2>4 DEF IInv
<1>3. ASSUME NEW k \in Checks, Miss(k) PROVE IInv'
  <2> DEFINE j == [check[k] EXCEPT !.pc = "asking"]
  <2>1. j \in Lookups /\ j.pc # "told"
    <3>1. check[k] \in Lookups
      BY DEF IInv, TypeOK
    <3> QED BY <3>1 DEF Lookups
  <2>2. check' = [check EXCEPT ![k] = j]
    BY <1>3 DEF Miss
  <2>3. shown' \in [Checks -> Digests \union {Unknown, Pending}]
    BY <1>3 DEF Miss, IInv, TypeOK
  <2> HIDE DEF j
  <2> QED BY <1>3, <2>1, <2>2, <2>3, GoesOn DEF Miss
<1>4. ASSUME NEW k \in Checks, Told(k) PROVE IInv'
  <2> DEFINE j == [check[k] EXCEPT !.pc = "told", !.digest = remote, !.age = 0]
  <2>1. check' = [check EXCEPT ![k] = j]
    BY <1>4 DEF Told, IInv, TypeOK
  <2>2. /\ j \in Lookups
        /\ j.digest = remote /\ j.age = 0
    <3>1. check[k] \in Lookups /\ remote \in Digests /\ 0 \in 0 .. Slack
      BY DEF IInv, TypeOK
    <3> QED BY <3>1 DEF Lookups
  <2> HIDE DEF j
  <2>3. \A i \in Checks : check'[i] = IF i = k THEN j ELSE check[i]
    BY <2>1 DEF IInv, TypeOK
  <2>4. check' \in [Checks -> Lookups]
    BY <2>1, <2>2 DEF IInv, TypeOK
  <2>5. TypeOK'
    BY <1>4, <2>4 DEF Told, IInv, TypeOK, histories
  <2>6. Current' /\ Remembered' /\ ClearedForGood'
    BY <1>4 DEF Told, IInv, Current, Remembered, ClearedForGood, histories
  <2>7. old[remote] = 0 /\ remote \in Nat
    BY DEF IInv, TypeOK, Current, Digests
  <2>8. Carried'
    <3> SUFFICES ASSUME NEW i \in Checks, check'[i].pc = "told"
                 PROVE  /\ check'[i].digest <= remote'
                        /\ old'[check'[i].digest] <= check'[i].age
      BY DEF Carried
    <3>1. remote' = remote /\ old' = old
      BY <1>4 DEF Told, histories
    <3>2. CASE i = k
      BY <2>2, <2>3, <2>7, <3>1, <3>2
    <3>3. CASE i # k
      BY <2>3, <3>1, <3>3 DEF IInv, Carried
    <3> QED BY <3>2, <3>3
  <2>9. NothingLate'
    BY <1>4, <2>2, <2>3
       DEF Told, IInv, TypeOK, NothingLate, histories, Digests
  <2> QED BY <2>5, <2>6, <2>8, <2>9 DEF IInv
<1>5. ASSUME NEW k \in Checks, AskFails(k) PROVE IInv'
  <2>1. TypeOK' /\ Current' /\ Carried' /\ NothingLate'
    BY <1>5, Over DEF AskFails, IInv, TypeOK
  <2>2. Remembered' /\ ClearedForGood'
    BY <1>5 DEF AskFails, IInv, Remembered, ClearedForGood, histories
  <2> QED BY <2>1, <2>2 DEF IInv
<1>6. ASSUME NEW k \in Checks, Store(k) PROVE IInv'
  <2>1. /\ check[k].digest \in Digests /\ check[k].digest <= remote
        /\ old[check[k].digest] <= check[k].age
        /\ check[k].age \in 0 .. Slack
        /\ old[check[k].digest] \in Nat
    BY <1>6 DEF Store, IInv, TypeOK, Carried, Lookups
  <2>2. cache' = [digest |-> check[k].digest, age |-> 0]
    BY <1>6 DEF Store
  <2>3. cache' \in [digest : 0 .. remote, age : 0 .. TTL]
    BY <2>1, <2>2 DEF IInv, TypeOK, Digests
  <2>4. TypeOK' /\ Current' /\ Carried' /\ NothingLate'
    BY <1>6, <2>1, <2>3, Over DEF Store
  <2>5. Remembered'
    BY <1>6, <2>1, <2>2 DEF Store, Remembered, histories
  <2>6. ClearedForGood'
    BY <1>6, <2>2 DEF Store, IInv, ClearedForGood, NothingLate, histories
  <2> QED BY <2>4, <2>5, <2>6 DEF IInv
<1>7. ASSUME NEW r \in Requests, NEW next \in {"up", "clear"}, Pull(r, next)
      PROVE IInv'
  BY <1>7, ActionApart DEF Pull, IInv, TypeOK, Digests
<1>8. ASSUME NEW r \in Requests, PullFails(r) PROVE IInv'
  BY <1>8, ActionApart DEF PullFails, IInv, TypeOK, Digests
<1>9. ASSUME NEW r \in Requests, Up(r) PROVE IInv'
  BY <1>9, ActionApart DEF Up, IInv, TypeOK, Digests
<1>10. ASSUME NEW r \in Requests, UpFails(r) PROVE IInv'
  BY <1>10, ActionApart DEF UpFails, IInv, TypeOK, Digests
<1>11. ASSUME NEW r \in Requests, PlainUp(r) PROVE IInv'
  BY <1>11, ActionApart DEF PlainUp, IInv, TypeOK, Digests
<1>12. ASSUME NEW r \in Requests, Clear(r) PROVE IInv'
  <2>1. TypeOK'
    BY <1>12 DEF Clear, IInv, TypeOK, Digests
  <2>2. Current' /\ Remembered' /\ ClearedForGood' /\ Carried'
    BY <1>12 DEF Clear, IInv, Current, Remembered, ClearedForGood, Carried
  <2>3. NothingLate'
    BY <1>12 DEF Clear, IInv, TypeOK, NothingLate, Digests, Lookups
  <2> QED BY <2>1, <2>2, <2>3 DEF IInv
<1>13. ASSUME Push PROVE IInv'
  <2>1. /\ remote \in Nat /\ remote' = remote + 1 /\ remote' \in Digests
        /\ 0 .. remote \subseteq 0 .. remote'
    BY <1>13 DEF Push, IInv, TypeOK, Digests
  <2>2. cache' = NoEntry \/ cache' \in [digest : 0 .. remote', age : 0 .. TTL]
    BY <1>13, <2>1 DEF Push, IInv, TypeOK
  <2>3. TypeOK'
    BY <1>13, <2>1, <2>2 DEF Push, IInv, TypeOK
  <2>4. Current' /\ Remembered' /\ ClearedForGood'
    BY <1>13, <2>1
       DEF Push, IInv, Current, Remembered, ClearedForGood, Digests
  <2>5. Carried' /\ NothingLate'
    BY <1>13, <2>1 DEF Push, IInv, TypeOK, Carried, NothingLate, Digests, Lookups
  <2> QED BY <2>3, <2>4, <2>5 DEF IInv
<1>14. ASSUME Tick PROVE IInv'
  <2>1. /\ old' \in [Digests -> 0 .. Ancient]
        /\ \A d \in Digests : d >= remote => old'[d] = old[d]
        /\ \A d \in Digests : old'[d] <= old[d] + 1 /\ old'[d] <= Ancient
    BY <1>14 DEF Tick, IInv, TypeOK, Older, Ancient, Digests
  <2>2. /\ cache = NoEntry => cache' = NoEntry
        /\ cache # NoEntry =>
             /\ cache \in [digest : 0 .. remote, age : 0 .. TTL]
             /\ cache' \in [digest : 0 .. remote, age : 0 .. TTL]
             /\ cache'.digest = cache.digest
             /\ cache'.age = cache.age + 1 \/ cache'.age = TTL
    BY <1>14 DEF Tick, IInv, TypeOK
  <2>3. \A k \in Checks :
          /\ check'[k] \in Lookups
          /\ check'[k].pc = check[k].pc /\ check'[k].digest = check[k].digest
          /\ check[k].pc = "told" => check'[k].age = check[k].age + 1
    <3> SUFFICES ASSUME NEW k \in Checks
                 PROVE  /\ check'[k] \in
                              Lookups
                        /\ check'[k].pc = check[k].pc
                        /\ check'[k].digest = check[k].digest
                        /\ check[k].pc = "told"
                             => check'[k].age = check[k].age + 1
      OBVIOUS
    <3>1. check[k] \in Lookups
      BY DEF IInv, TypeOK
    <3>2. check'[k] = IF check[k].pc = "told"
                        THEN [check[k] EXCEPT !.age = @ + 1] ELSE check[k]
      BY <1>14 DEF Tick
    <3>3. check[k].pc = "told" => check[k].age < Slack
      BY <1>14 DEF Tick
    <3> QED BY <3>1, <3>2, <3>3 DEF Lookups
  <2>4. check' \in [Checks -> Lookups]
    BY <1>14, <2>3 DEF Tick
  <2>5. TypeOK'
    BY <1>14, <2>1, <2>2, <2>4 DEF Tick, IInv, TypeOK
  <2>6. Current'
    BY <1>14, <2>1 DEF Tick, IInv, Current
  <2>7. Remembered'
    <3> SUFFICES ASSUME cache' # NoEntry
                 PROVE  old'[cache'.digest] <= cache'.age + Slack
      BY DEF Remembered, NoEntry, Unknown
    <3>1. cache # NoEntry
      BY <2>2
    <3>2. /\ cache.digest \in Digests /\ cache.age \in Nat
          /\ old[cache.digest] <= cache.age + Slack
          /\ old[cache.digest] \in Nat
      BY <2>2, <3>1 DEF IInv, TypeOK, Remembered, Digests, Ancient
    <3>3. /\ cache'.digest = cache.digest
          /\ cache'.age = cache.age + 1 \/ cache'.age = TTL
      BY <2>2, <3>1
    <3>4. /\ old'[cache.digest] <= old[cache.digest] + 1
          /\ old'[cache.digest] <= TTL + Slack
          /\ old'[cache.digest] \in Nat
      BY <2>1, <3>2 DEF Ancient
    <3> QED BY <3>2, <3>3, <3>4
  <2>8. ClearedForGood'
    BY <1>14, <2>2 DEF Tick, IInv, ClearedForGood, NoEntry, Unknown
  <2>9. Carried'
    <3> SUFFICES ASSUME NEW k \in Checks, check'[k].pc = "told"
                 PROVE  /\ check'[k].digest <= remote'
                        /\ old'[check'[k].digest] <= check'[k].age
      BY DEF Carried
    <3>1. /\ check[k].pc = "told" /\ check[k].digest \in Digests
          /\ check[k].age \in Nat
      BY <2>3 DEF IInv, TypeOK, Lookups
    <3>2. /\ check[k].digest <= remote
          /\ old[check[k].digest] <= check[k].age
          /\ old[check[k].digest] \in Nat
      BY <3>1 DEF IInv, TypeOK, Carried, Ancient
    <3>3. /\ check'[k].digest = check[k].digest
          /\ check'[k].age = check[k].age + 1
          /\ remote' = remote
      BY <1>14, <2>3, <3>1 DEF Tick
    <3>4. /\ old'[check[k].digest] <= old[check[k].digest] + 1
          /\ old'[check[k].digest] \in Nat
      BY <2>1, <3>1 DEF Ancient
    <3> QED BY <3>1, <3>2, <3>3, <3>4
  <2>10. NothingLate'
    BY <1>14, <2>3 DEF Tick, IInv, NothingLate
  <2> QED BY <2>5, <2>6, <2>7, <2>8, <2>9, <2>10 DEF IInv
<1>15. CASE UNCHANGED vars
  <2>1. TypeOK' /\ Current' /\ Remembered'
    BY <1>15 DEF vars, IInv, TypeOK, Current, Remembered
  <2>2. Carried' /\ ClearedForGood' /\ NothingLate'
    BY <1>15 DEF vars, IInv, Carried, ClearedForGood, NothingLate
  <2> QED BY <2>1, <2>2 DEF IInv
<1> QED
  BY <1>1, <1>2, <1>3, <1>4, <1>5, <1>6, <1>7, <1>8, <1>9, <1>10, <1>11,
     <1>12, <1>13, <1>14, <1>15 DEF Next

\* IInv holds in every reachable state.
THEOREM Invariance == Spec => []IInv
BY InitIInv, StepIInv, PTL DEF Spec

\* Types, the order of the digests, and the bound on the ages.
THEOREM TypeCorrect == Spec => []TypeOK
<1>1. IInv => TypeOK
  BY DEF IInv
<1> QED BY <1>1, Invariance, PTL

\* After a cleared cache nothing older than the pull comes back, unless a
\* lookup held an older answer when it was cleared.
THEOREM StaysCleared == Spec => []ClearedForGood
<1>1. IInv => ClearedForGood
  BY DEF IInv
<1> QED BY <1>1, Invariance, PTL

\* What a check answers was the registry's digest within the time to live of
\* an entry and the delay of its storing.
THEOREM AnswersFresh == Spec => AnswerFresh
<1>1. IInv /\ [Next]_vars =>
        [\A k \in Checks : Answered(k) => old[shown'[k]] < TTL + Slack]_vars
  <2> SUFFICES ASSUME IInv, Next, NEW k \in Checks, Answered(k)
               PROVE  old[shown'[k]] < TTL + Slack
    BY DEF vars
  <2> USE TTLAssumption, SlackAssumption
  <2>1. shown'[k] # shown[k] /\ shown'[k] # Unknown /\ shown'[k] # Pending
    BY MaxPushesAssumption DEF Answered, Pending, Unknown, Digests
  <2>2. ASSUME NEW j \in Checks, Hit(j) PROVE old[shown'[k]] < TTL + Slack
    <3>1. shown'[k] = cache.digest
      BY <2>1, <2>2 DEF Hit, IInv, TypeOK
    <3>2. /\ cache # NoEntry /\ cache.age < TTL /\ cache.age \in Nat
          /\ cache.digest \in Digests
      <4>1. cache # NoEntry /\ cache.age < TTL
        BY <2>2 DEF Hit, Fresh
      <4>2. cache \in [digest : 0 .. remote, age : 0 .. TTL] /\ remote \in Digests
        BY <4>1 DEF IInv, TypeOK
      <4> QED BY <4>1, <4>2, MaxPushesAssumption DEF Digests
    <3>3. old[cache.digest] <= cache.age + Slack /\ old[cache.digest] \in Nat
      BY <3>2 DEF IInv, TypeOK, Remembered, Ancient
    <3> QED BY <3>1, <3>2, <3>3
  <2>3. ASSUME NEW j \in Checks, Store(j) PROVE old[shown'[k]] < TTL + Slack
    <3>1. shown'[k] = check[j].digest
      BY <2>1, <2>3 DEF Store, IInv, TypeOK
    <3>2. /\ check[j].age \in 0 .. Slack /\ check[j].digest \in Digests
          /\ old[check[j].digest] <= check[j].age
      BY <2>3 DEF Store, IInv, TypeOK, Carried, Lookups
    <3>3. old[check[j].digest] \in Nat
      BY <3>2 DEF IInv, TypeOK, Ancient
    <3> QED BY <3>1, <3>2, <3>3
  <2>4. ASSUME NEW j \in Checks, List(j) \/ AskFails(j) PROVE FALSE
    BY <2>1, <2>4 DEF List, AskFails, IInv, TypeOK
  <2>5. ASSUME UNCHANGED shown PROVE FALSE
    BY <2>1, <2>5
  <2> QED
    BY <2>2, <2>3, <2>4, <2>5
       DEF Next, Miss, Told, Pull, PullFails, Up, UpFails, PlainUp, Clear,
           Push, Tick
<1> QED BY <1>1, Invariance, PTL DEF Spec, AnswerFresh
=============================================================================
