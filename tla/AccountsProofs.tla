--------------------------- MODULE AccountsProofs ---------------------------
(***************************************************************************)
(* Proofs about Accounts for any emails, identities, callbacks and bound.  *)
(***************************************************************************)
EXTENDS Accounts, TLAPS

\* What Seed has done so far: nothing before its first statement, and the
\* server serves only when that one has been done.
Seeded ==
  /\ phase = "create" => users = <<>>
  /\ phase \in {"credential", "serving"} => users # <<>>

IInv == TypeOK /\ SignInIsLinked /\ OneAdmin /\ Seeded

Pending == [at : Steps, sub : Subjects, email : Emails,
            user : DOMAIN users \union {None}]

LEMMA IdleFacts ==
  Idle.at = "idle" /\ Idle.user = None /\ Idle.at \notin Steps
BY DEF Idle, Steps

\* A callback that is not idle is a whole one.
LEMMA InProgress ==
  ASSUME TypeOK, NEW k \in Callbacks, callback[k].at \in Steps
  PROVE  callback[k] \in Pending /\ phase = "serving"
BY IdleFacts DEF TypeOK, Pending

LEMMA InitIInv == Init => IInv
<1> SUFFICES ASSUME Init PROVE IInv
  OBVIOUS
<1>1. TypeOK
  BY MaxUsersAssumption, IdleFacts DEF Init, TypeOK
<1>2. SignInIsLinked /\ OneAdmin /\ Seeded
  BY IdleFacts DEF Init, SignInIsLinked, OneAdmin, Seeded
<1> QED BY <1>1, <1>2 DEF IInv

\* A step of one callback that writes nothing.
LEMMA CallbackStep ==
  ASSUME IInv, NEW k \in Callbacks, NEW r \in {Idle} \union Pending,
         callback' = [callback EXCEPT ![k] = r],
         r # Idle => phase = "serving",
         r.at \in {"link", "session"} => r.user # None,
         r.at = "session" => linked[r.sub] = r.user,
         UNCHANGED <<phase, users, admins, passwords, linked>>
  PROVE  IInv'
<1>1. /\ callback' \in [Callbacks -> {Idle} \union Pending]
      /\ \A j \in Callbacks : callback'[j] = IF j = k THEN r ELSE callback[j]
  BY DEF IInv, TypeOK, Pending
<1>2. \A j \in Callbacks :
        /\ callback'[j] # Idle => phase = "serving"
        /\ callback'[j].at \in {"link", "session"} => callback'[j].user # None
        /\ callback'[j].at = "session"
             => linked[callback'[j].sub] = callback'[j].user
  BY <1>1 DEF IInv, TypeOK, SignInIsLinked
<1>3. TypeOK'
  BY <1>1, <1>2 DEF IInv, TypeOK, Pending
<1>4. SignInIsLinked' /\ OneAdmin' /\ Seeded'
  BY <1>2 DEF IInv, SignInIsLinked, OneAdmin, Seeded
<1> QED BY <1>3, <1>4 DEF IInv

\* A new user: no email is taken twice, and what refers to users stays valid.
LEMMA NewUser ==
  ASSUME TypeOK, NEW e \in Emails, TakenBy(e) = {}, Len(users) < MaxUsers,
         users' = Append(users, e)
  PROVE  /\ users' \in Seq(Emails) /\ Len(users') <= MaxUsers /\ users' # <<>>
         /\ \A u, v \in DOMAIN users' : users'[u] = users'[v] => u = v
         /\ DOMAIN users \subseteq DOMAIN users'
         /\ Len(users) + 1 \in DOMAIN users'
         /\ Len(users) + 1 # None
<1>1. users \in Seq(Emails) /\ Len(users) \in Nat /\ MaxUsers \in Nat
  BY MaxUsersAssumption DEF TypeOK
<1>2. /\ users' \in Seq(Emails) /\ Len(users') = Len(users) + 1
      /\ DOMAIN users' = 1 .. Len(users) + 1 /\ DOMAIN users = 1 .. Len(users)
      /\ users'[Len(users) + 1] = e
      /\ \A u \in DOMAIN users : users'[u] = users[u]
  BY <1>1
<1>3. \A u, v \in DOMAIN users : users[u] = users[v] => u = v
  BY DEF TypeOK
<1>4. \A u \in DOMAIN users : users[u] # e
  BY DEF TakenBy
<1>5. \A u \in DOMAIN users' : u \in DOMAIN users \/ u = Len(users) + 1
  BY <1>1, <1>2
<1>6. \A u, v \in DOMAIN users' : users'[u] = users'[v] => u = v
  BY <1>2, <1>3, <1>4, <1>5
<1>7. users' # <<>>
  BY <1>1, <1>2
<1> QED BY <1>1, <1>2, <1>6, <1>7 DEF None

LEMMA StepIInv == IInv /\ [Next]_vars => IInv'
<1> SUFFICES ASSUME IInv, [Next]_vars PROVE IInv'
  OBVIOUS
<1>0. TypeOK /\ users \in Seq(Emails) /\ Len(users) \in Nat
  BY DEF IInv, TypeOK
<1>1. ASSUME Start PROVE IInv'
  <2>1. \A k \in Callbacks : callback[k] = Idle
    BY <1>1 DEF Start, IInv, TypeOK
  <2>2. TypeOK'
    BY <1>1, <2>1 DEF Start, IInv, TypeOK
  <2>3. SignInIsLinked' /\ OneAdmin' /\ Seeded'
    BY <1>1 DEF Start, IInv, SignInIsLinked, OneAdmin, Seeded
  <2> QED BY <2>2, <2>3 DEF IInv
<1>2. ASSUME SeedUser PROVE IInv'
  <2>1. /\ \A k \in Callbacks : callback[k] = Idle
        /\ users = <<>> /\ Len(users) = 0 /\ DOMAIN users = {}
    BY <1>2 DEF SeedUser, IInv, TypeOK, Seeded
  <2>2. TakenBy(AdminEmail) = {} /\ Len(users) < MaxUsers
    BY <2>1, MaxUsersAssumption DEF TakenBy
  <2>3. /\ users' \in Seq(Emails) /\ Len(users') <= MaxUsers /\ users' # <<>>
        /\ \A u, v \in DOMAIN users' : users'[u] = users'[v] => u = v
        /\ DOMAIN users \subseteq DOMAIN users'
        /\ 1 \in DOMAIN users'
    BY <1>0, <1>2, <2>1, <2>2, NewUser, AdminEmailAssumption DEF SeedUser
  <2>4. admins = {} /\ admins' = {1}
    BY <1>2, <2>1 DEF SeedUser, IInv, TypeOK
  <2>5. callback' \in [Callbacks -> {Idle} \union Pending']
    BY <1>2, <2>1 DEF SeedUser, IInv, TypeOK
  <2>6. linked' \in [Subjects -> DOMAIN users' \union {None}]
    BY <1>2, <2>3 DEF SeedUser, IInv, TypeOK
  <2>7. \A k \in Callbacks :
          /\ callback'[k] = Idle
          /\ callback'[k].at \in {"link", "session"} => callback'[k].user # None
    BY <1>2, <2>1, IdleFacts DEF SeedUser
  <2>8. TypeOK'
    BY <1>2, <2>3, <2>4, <2>5, <2>6, <2>7
       DEF SeedUser, IInv, TypeOK, Pending
  <2>9. SignInIsLinked'
    BY <2>7, IdleFacts DEF SignInIsLinked
  <2>10. OneAdmin' /\ Seeded'
    BY <1>2, <2>3, <2>4 DEF SeedUser, OneAdmin, Seeded
  <2> QED BY <2>8, <2>9, <2>10 DEF IInv
<1>3. ASSUME SeedCredential PROVE IInv'
  <2>1. TypeOK'
    BY <1>3 DEF SeedCredential, IInv, TypeOK
  <2>2. SignInIsLinked' /\ OneAdmin' /\ Seeded'
    BY <1>3 DEF SeedCredential, IInv, SignInIsLinked, OneAdmin, Seeded
  <2> QED BY <2>1, <2>2 DEF IInv
<1>4. ASSUME SeedFails PROVE IInv'
  <2>1. \A k \in Callbacks : callback[k] = Idle
    BY <1>4 DEF SeedFails, IInv, TypeOK
  <2>2. TypeOK'
    BY <1>4, <2>1 DEF SeedFails, IInv, TypeOK
  <2>3. SignInIsLinked' /\ OneAdmin' /\ Seeded'
    BY <1>4 DEF SeedFails, IInv, SignInIsLinked, OneAdmin, Seeded
  <2> QED BY <2>2, <2>3 DEF IInv
<1>5. ASSUME Crash PROVE IInv'
  <2>1. \A k \in Callbacks : callback'[k] = Idle
    BY <1>5 DEF Crash
  <2>2. TypeOK'
    BY <1>5, <2>1, IdleFacts DEF Crash, IInv, TypeOK
  <2>3. SignInIsLinked' /\ OneAdmin' /\ Seeded'
    BY <1>5, <2>1, IdleFacts DEF Crash, IInv, SignInIsLinked, OneAdmin, Seeded
  <2> QED BY <2>2, <2>3 DEF IInv
<1>6. ASSUME NEW k \in Callbacks, NEW s \in Subjects, NEW e \in Emails,
             Begin(k, s, e)
      PROVE  IInv'
  <2> DEFINE r == [at |-> "lookup", sub |-> s, email |-> e, user |-> None]
  <2>1. r \in Pending /\ r.at = "lookup"
    BY DEF Pending, Steps
  <2> HIDE DEF r
  <2> QED BY <1>6, <2>1, CallbackStep DEF Begin, r
<1>7. ASSUME NEW k \in Callbacks, FindLink(k) PROVE IInv'
  <2> DEFINE u == linked[callback[k].sub]
             r == [callback[k] EXCEPT !.at = "session", !.user = u]
  <2>1. callback[k] \in Pending /\ phase = "serving"
    BY <1>0, <1>7, InProgress DEF FindLink, Steps
  <2>2. u \in DOMAIN users /\ u # None
    BY <1>7, <2>1 DEF FindLink, IInv, TypeOK, Pending
  <2>3. r \in Pending /\ r.user = u /\ r.sub = callback[k].sub
    BY <2>1, <2>2 DEF Pending, Steps
  <2>4. callback' = [callback EXCEPT ![k] = r]
    BY <1>7 DEF FindLink, Goes
  <2> HIDE DEF r
  <2> QED BY <1>7, <2>1, <2>2, <2>3, <2>4, CallbackStep DEF FindLink
<1>8. ASSUME NEW k \in Callbacks, FindNoLink(k) PROVE IInv'
  <2> DEFINE r == [callback[k] EXCEPT !.at = "email", !.user = None]
  <2>1. callback[k] \in Pending /\ phase = "serving"
    BY <1>0, <1>8, InProgress DEF FindNoLink, Steps
  <2>2. r \in Pending /\ r.at = "email"
    BY <2>1 DEF Pending, Steps
  <2>3. callback' = [callback EXCEPT ![k] = r]
    BY <1>8 DEF FindNoLink, Goes
  <2> HIDE DEF r
  <2> QED BY <1>8, <2>1, <2>2, <2>3, CallbackStep DEF FindNoLink
<1>9. ASSUME NEW k \in Callbacks, FindEmail(k) PROVE IInv'
  <2>1. callback[k] \in Pending /\ phase = "serving"
    BY <1>0, <1>9, InProgress DEF FindEmail, Steps
  <2>2. ASSUME Goes(k, "create", None) PROVE IInv'
    <3> DEFINE r == [callback[k] EXCEPT !.at = "create", !.user = None]
    <3>1. r \in Pending /\ r.at = "create"
      BY <2>1 DEF Pending, Steps
    <3>2. callback' = [callback EXCEPT ![k] = r]
      BY <2>2 DEF Goes
    <3> HIDE DEF r
    <3> QED BY <1>9, <2>1, <3>1, <3>2, CallbackStep DEF FindEmail
  <2>3. ASSUME NEW u \in TakenBy(callback[k].email), Goes(k, "link", u)
        PROVE  IInv'
    <3> DEFINE r == [callback[k] EXCEPT !.at = "link", !.user = u]
    <3>1. u \in DOMAIN users /\ u # None
      BY <1>0 DEF TakenBy, None
    <3>2. r \in Pending /\ r.at = "link" /\ r.user = u
      BY <2>1, <3>1 DEF Pending, Steps
    <3>3. callback' = [callback EXCEPT ![k] = r]
      BY <2>3 DEF Goes
    <3> HIDE DEF r
    <3> QED BY <1>9, <2>1, <3>1, <3>2, <3>3, CallbackStep DEF FindEmail
  <2> QED BY <1>9, <2>2, <2>3 DEF FindEmail
<1>10. ASSUME NEW k \in Callbacks, CreateUser(k) PROVE IInv'
  <2> DEFINE r == [callback[k] EXCEPT !.at = "link", !.user = Len(users) + 1]
  <2>1. callback[k] \in Pending /\ phase = "serving"
    BY <1>0, <1>10, InProgress DEF CreateUser, Steps
  <2>2. /\ users' \in Seq(Emails) /\ Len(users') <= MaxUsers /\ users' # <<>>
        /\ \A u, v \in DOMAIN users' : users'[u] = users'[v] => u = v
        /\ DOMAIN users \subseteq DOMAIN users'
        /\ Len(users) + 1 \in DOMAIN users'
        /\ Len(users) + 1 # None
    <3>1. callback[k].email \in Emails
      BY <2>1 DEF Pending
    <3> QED BY <1>0, <1>10, <3>1, NewUser DEF CreateUser
  <2>3. r \in Pending' /\ r.at = "link" /\ r.user # None
    BY <2>1, <2>2 DEF Pending, Steps
  <2>4. callback' = [callback EXCEPT ![k] = r]
    BY <1>10 DEF CreateUser, Goes
  <2> HIDE DEF r
  <2>5. \A j \in Callbacks : callback'[j] = IF j = k THEN r ELSE callback[j]
    BY <2>4 DEF IInv, TypeOK
  <2>6. callback' \in [Callbacks -> {Idle} \union Pending']
    <3>1. callback \in [Callbacks -> {Idle} \union Pending]
      BY DEF IInv, TypeOK, Pending
    <3>2. Pending \subseteq Pending'
      BY <2>2 DEF Pending
    <3> QED BY <2>3, <2>4, <3>1, <3>2
  <2>7. linked' \in [Subjects -> DOMAIN users' \union {None}]
    BY <1>10, <2>2 DEF CreateUser, IInv, TypeOK
  <2>8. \A j \in Callbacks :
          /\ callback'[j] # Idle => phase' = "serving"
          /\ callback'[j].at \in {"link", "session"} => callback'[j].user # None
    BY <1>10, <2>1, <2>3, <2>5 DEF CreateUser, IInv, TypeOK
  <2>9. TypeOK'
    BY <1>10, <2>2, <2>6, <2>7, <2>8 DEF CreateUser, IInv, TypeOK, Pending
  <2>10. SignInIsLinked'
    BY <1>10, <2>3, <2>5 DEF CreateUser, IInv, SignInIsLinked
  <2>11. users # <<>>
    BY <2>1 DEF IInv, Seeded
  <2>12. OneAdmin' /\ Seeded'
    BY <1>10, <2>1, <2>2, <2>11 DEF CreateUser, IInv, OneAdmin, Seeded
  <2> QED BY <2>9, <2>10, <2>12 DEF IInv
<1>11. ASSUME NEW k \in Callbacks, Link(k) PROVE IInv'
  <2> DEFINE u == callback[k].user
             r == [callback[k] EXCEPT !.at = "session", !.user = u]
  <2>1. callback[k] \in Pending /\ phase = "serving"
    BY <1>0, <1>11, InProgress DEF Link, Steps
  <2>2. u \in DOMAIN users /\ u # None
    BY <1>11, <2>1 DEF Link, IInv, TypeOK, Pending
  <2>3. r \in Pending /\ r.user = u /\ r.sub = callback[k].sub
    BY <2>1, <2>2 DEF Pending, Steps
  <2>4. callback' = [callback EXCEPT ![k] = r]
    BY <1>11 DEF Link, Goes
  <2> HIDE DEF r
  <2>5. /\ callback' \in [Callbacks -> {Idle} \union Pending]
        /\ \A j \in Callbacks : callback'[j] = IF j = k THEN r ELSE callback[j]
    BY <2>3, <2>4 DEF IInv, TypeOK, Pending
  <2>6. callback[k].sub \in Subjects
    BY <2>1 DEF Pending
  <2>7. /\ linked' \in [Subjects -> DOMAIN users \union {None}]
        /\ \A s \in Subjects :
             linked'[s] = IF s = callback[k].sub THEN u ELSE linked[s]
    BY <1>11, <2>2, <2>6 DEF Link, IInv, TypeOK
  <2>8. \A j \in Callbacks :
          /\ callback'[j] # Idle => phase' = "serving"
          /\ callback'[j].at \in {"link", "session"} => callback'[j].user # None
    BY <1>11, <2>1, <2>2, <2>3, <2>5 DEF Link, IInv, TypeOK
  <2>9. TypeOK'
    BY <1>11, <2>5, <2>7, <2>8 DEF Link, IInv, TypeOK, Pending
  <2>10. SignInIsLinked'
    <3> SUFFICES ASSUME NEW j \in Callbacks, callback'[j].at = "session"
                 PROVE  linked'[callback'[j].sub] = callback'[j].user
      BY DEF SignInIsLinked
    <3>1. CASE j = k
      BY <2>3, <2>5, <2>6, <2>7, <3>1
    <3>2. CASE j # k
      <4>1. callback'[j] = callback[j] /\ callback[j].at = "session"
        BY <2>5, <3>2
      <4>2. callback[j] \in Pending
        BY <1>0, <4>1, InProgress DEF Steps
      <4>3. /\ linked[callback[j].sub] = callback[j].user
            /\ callback[j].user # None
        BY <4>1 DEF IInv, SignInIsLinked, TypeOK
      <4>4. callback[j].sub # callback[k].sub
        BY <1>11, <4>3 DEF Link
      <4> QED BY <2>7, <4>1, <4>2, <4>3, <4>4 DEF Pending
    <3> QED BY <3>1, <3>2
  <2>11. OneAdmin' /\ Seeded'
    BY <1>11 DEF Link, IInv, OneAdmin, Seeded
  <2> QED BY <2>9, <2>10, <2>11 DEF IInv
<1>12. ASSUME NEW k \in Callbacks, SignIn(k) \/ Fails(k) PROVE IInv'
  BY <1>12, CallbackStep, IdleFacts DEF SignIn, Fails, Ends
<1>13. ASSUME NEW u \in DOMAIN users, NEW e \in Emails, ChangeEmail(u, e)
       PROVE  IInv'
  <2>1. /\ users' \in Seq(Emails) /\ Len(users') = Len(users)
        /\ DOMAIN users' = DOMAIN users
        /\ \A v \in DOMAIN users : users'[v] = IF v = u THEN e ELSE users[v]
    BY <1>0, <1>13 DEF ChangeEmail
  <2>2. \A v \in DOMAIN users : users[v] # e
    BY <1>13 DEF ChangeEmail, TakenBy
  <2>3. \A v, w \in DOMAIN users' : users'[v] = users'[w] => v = w
    BY <2>1, <2>2 DEF IInv, TypeOK
  <2>4. TypeOK'
    BY <1>13, <2>1, <2>3 DEF ChangeEmail, IInv, TypeOK
  <2>5. users # <<>> /\ users' # <<>>
    BY <1>0, <2>1
  <2>6. SignInIsLinked' /\ OneAdmin' /\ Seeded'
    BY <1>13, <2>5
       DEF ChangeEmail, IInv, SignInIsLinked, OneAdmin, Seeded
  <2> QED BY <2>4, <2>6 DEF IInv
<1>14. ASSUME NEW u \in DOMAIN users, ResetPassword(u) PROVE IInv'
  <2>1. TypeOK'
    BY <1>14 DEF ResetPassword, IInv, TypeOK
  <2>2. SignInIsLinked' /\ OneAdmin' /\ Seeded'
    BY <1>14 DEF ResetPassword, IInv, SignInIsLinked, OneAdmin, Seeded
  <2> QED BY <2>1, <2>2 DEF IInv
<1>15. CASE UNCHANGED vars
  <2>1. TypeOK'
    BY <1>15 DEF vars, IInv, TypeOK
  <2>2. SignInIsLinked' /\ OneAdmin' /\ Seeded'
    BY <1>15 DEF vars, IInv, SignInIsLinked, OneAdmin, Seeded
  <2> QED BY <2>1, <2>2 DEF IInv
<1> QED
  BY <1>1, <1>2, <1>3, <1>4, <1>5, <1>6, <1>7, <1>8, <1>9, <1>10, <1>11,
     <1>12, <1>13, <1>14, <1>15 DEF Next

\* IInv holds in every reachable state.
THEOREM Invariance == Spec => []IInv
BY InitIInv, StepIInv, PTL DEF Spec

\* Types and the constraints of the schema.
THEOREM TypeCorrect == Spec => []TypeOK
<1>1. IInv => TypeOK
  BY DEF IInv
<1> QED BY <1>1, Invariance, PTL

\* A callback signs in the account its identity is linked to.
THEOREM SignsInLinked == Spec => []SignInIsLinked
<1>1. IInv => SignInIsLinked
  BY DEF IInv
<1> QED BY <1>1, Invariance, PTL

\* There is exactly one admin, the first user, whatever start-ups failed.
THEOREM SeededOnce == Spec => []OneAdmin
<1>1. IInv => OneAdmin
  BY DEF IInv
<1> QED BY <1>1, Invariance, PTL
=============================================================================
