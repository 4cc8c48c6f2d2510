------------------------------ MODULE Accounts ------------------------------
(***************************************************************************)
(* The accounts of internal/db: Seed creates the first one before the      *)
(* server listens (cmd/dockstack/main.go), findOrLinkOAuthUser             *)
(* (internal/server/api/auth/oauth.go) finds, creates and links those of   *)
(* identities of the OIDC provider.  Each SQL statement is one step: no    *)
(* function uses a transaction, and the process may die between any two.   *)
(* A user id is its position in the table; no code deletes users.          *)
(***************************************************************************)
EXTENDS Naturals, Sequences

CONSTANTS
  Emails,
  AdminEmail,  \* ADMIN_EMAIL
  Subjects,    \* identities at the provider
  Callbacks,   \* callbacks in progress at once
  MaxUsers     \* bound on the users

ASSUME AdminEmailAssumption == AdminEmail \in Emails
ASSUME MaxUsersAssumption == MaxUsers \in Nat \ {0}

VARIABLES
  phase,      \* what main is doing
  users,      \* users[u]: the email of user u
  admins,     \* users with role "admin"
  passwords,  \* users with a row in credentials
  linked,     \* linked[s]: the user of oauth_accounts for subject s, or None
  callback    \* callback[k]: the step, subject, email and user of callback k

vars == <<phase, users, admins, passwords, linked, callback>>

None == 0
Ids == 1 .. MaxUsers
Idle == [at |-> "idle", sub |-> None, email |-> None, user |-> None]
Steps == {"lookup", "email", "create", "link", "session"}

TakenBy(e) == {u \in DOMAIN users : users[u] = e}

\* Types and the UNIQUE and REFERENCES constraints of the schema.
TypeOK ==
  /\ phase \in {"down", "create", "credential", "serving"}
  /\ users \in Seq(Emails) /\ Len(users) <= MaxUsers
  /\ \A u, v \in DOMAIN users : users[u] = users[v] => u = v
  /\ admins \subseteq DOMAIN users
  /\ passwords \subseteq DOMAIN users
  /\ linked \in [Subjects -> DOMAIN users \union {None}]
  /\ callback \in [Callbacks -> {Idle} \union
       [at : Steps, sub : Subjects, email : Emails,
        user : DOMAIN users \union {None}]]
  /\ \A k \in Callbacks :
       /\ callback[k] # Idle => phase = "serving"
       /\ callback[k].at \in {"link", "session"} => callback[k].user # None

Init ==
  /\ phase = "down"
  /\ users = <<>>
  /\ admins = {}
  /\ passwords = {}
  /\ linked = [s \in Subjects |-> None]
  /\ callback = [k \in Callbacks |-> Idle]

-----------------------------------------------------------------------------
(* Start-up.                                                               *)

\* CountUsers.
Start ==
  /\ phase = "down"
  /\ phase' = IF users = <<>> THEN "create" ELSE "serving"
  /\ UNCHANGED <<users, admins, passwords, linked, callback>>

SeedUser ==
  /\ phase = "create"
  /\ phase' = "credential"
  /\ users' = Append(users, AdminEmail)
  /\ admins' = admins \union {Len(users) + 1}
  /\ UNCHANGED <<passwords, linked, callback>>

SeedCredential ==
  /\ phase = "credential"
  /\ phase' = "serving"
  /\ passwords' = passwords \union admins
  /\ UNCHANGED <<users, admins, linked, callback>>

\* Mutant: main serves although Seed returned an error.
SeedFailsUnheeded ==
  /\ phase \in {"create", "credential"}
  /\ phase' = "serving"
  /\ UNCHANGED <<users, admins, passwords, linked, callback>>

\* A statement fails: main exits.
SeedFails ==
  /\ phase \in {"create", "credential"}
  /\ phase' = "down"
  /\ UNCHANGED <<users, admins, passwords, linked, callback>>

\* The process ends, and with it every request.
Crash ==
  /\ phase # "down"
  /\ phase' = "down"
  /\ callback' = [k \in Callbacks |-> Idle]
  /\ UNCHANGED <<users, admins, passwords, linked>>

-----------------------------------------------------------------------------
(* A callback, from the answer of the provider.                            *)

Goes(k, at, u) == callback' = [callback EXCEPT ![k].at = at, ![k].user = u]
Ends(k) == callback' = [callback EXCEPT ![k] = Idle]

Begin(k, s, e) ==
  /\ phase = "serving"
  /\ callback[k] = Idle
  /\ callback' = [callback EXCEPT ![k] =
       [at |-> "lookup", sub |-> s, email |-> e, user |-> None]]
  /\ UNCHANGED <<phase, users, admins, passwords, linked>>

\* OAuthUserID.
FindLink(k) ==
  /\ callback[k].at = "lookup"
  /\ linked[callback[k].sub] # None
  /\ Goes(k, "session", linked[callback[k].sub])
  /\ UNCHANGED <<phase, users, admins, passwords, linked>>

\* No row, or an error of the query: both go on with the email.
FindNoLink(k) ==
  /\ callback[k].at = "lookup"
  /\ Goes(k, "email", None)
  /\ UNCHANGED <<phase, users, admins, passwords, linked>>

\* UserByEmail.
FindEmail(k) ==
  /\ callback[k].at = "email"
  /\ IF TakenBy(callback[k].email) = {}
     THEN Goes(k, "create", None)
     ELSE \E u \in TakenBy(callback[k].email) : Goes(k, "link", u)
  /\ UNCHANGED <<phase, users, admins, passwords, linked>>

CreateUser(k) ==
  /\ callback[k].at = "create"
  /\ TakenBy(callback[k].email) = {}
  /\ Len(users) < MaxUsers
  /\ users' = Append(users, callback[k].email)
  /\ Goes(k, "link", Len(users) + 1)
  /\ UNCHANGED <<phase, admins, passwords, linked>>

Link(k) ==
  /\ callback[k].at = "link"
  /\ linked[callback[k].sub] = None
  /\ linked' = [linked EXCEPT ![callback[k].sub] = callback[k].user]
  /\ Goes(k, "session", callback[k].user)
  /\ UNCHANGED <<phase, users, admins, passwords>>

\* CreateSession.
SignIn(k) ==
  /\ callback[k].at = "session"
  /\ Ends(k)
  /\ UNCHANGED <<phase, users, admins, passwords, linked>>

\* Mutant: an identity that could not be linked is signed in all the same.
FailsUnheeded(k) ==
  /\ callback[k].at \in Steps
  /\ IF callback[k].at = "link" THEN Goes(k, "session", callback[k].user)
                                ELSE Ends(k)
  /\ UNCHANGED <<phase, users, admins, passwords, linked>>

\* A statement fails, by a UNIQUE constraint or otherwise: the answer is 500
\* and what earlier statements did stays.
Fails(k) ==
  /\ callback[k].at \in Steps
  /\ Ends(k)
  /\ UNCHANGED <<phase, users, admins, passwords, linked>>

-----------------------------------------------------------------------------
(* Other requests.                                                         *)

ChangeEmail(u, e) ==
  /\ phase = "serving"
  /\ TakenBy(e) = {}
  /\ users' = [users EXCEPT ![u] = e]
  /\ UNCHANGED <<phase, admins, passwords, linked, callback>>

\* handleResetPassword, for a user that asked for a token.
ResetPassword(u) ==
  /\ phase = "serving"
  /\ passwords' = passwords \union {u}
  /\ UNCHANGED <<phase, users, admins, linked, callback>>

Next ==
  \/ Start
  \/ SeedUser
  \/ SeedCredential
  \/ SeedFails
  \/ Crash
  \/ \E k \in Callbacks :
       \/ \E s \in Subjects, e \in Emails : Begin(k, s, e)
       \/ FindLink(k)
       \/ FindNoLink(k)
       \/ FindEmail(k)
       \/ CreateUser(k)
       \/ Link(k)
       \/ SignIn(k)
       \/ Fails(k)
  \/ \E u \in DOMAIN users :
       \/ \E e \in Emails : ChangeEmail(u, e)
       \/ ResetPassword(u)

Spec == Init /\ [][Next]_vars

-----------------------------------------------------------------------------
(* Properties.                                                             *)

\* Whatever callbacks overlap, fail half way or follow a change of an email,
\* one that gets to its session signs in the account its identity is linked
\* to, and none other (oauth.go:178-197).
SignInIsLinked ==
  \A k \in Callbacks :
    callback[k].at = "session" => linked[callback[k].sub] = callback[k].user

\* The first user is the admin, and the only one: a start-up that failed or
\* was killed in Seed never leaves a table that later starts take for seeded
\* while it lacks the admin, nor one with two (seed.go:15-45).
OneAdmin == users # <<>> => admins = {1}
=============================================================================
