---------------------------- MODULE ApiKeyLimit -----------------------------
(***************************************************************************)
(* One API key in HumaRequireAuth (internal/server/api/auth/middleware.go):*)
(* VerifyKey reads its row, RateLimit reads the clock and then updates the *)
(* row in one SQL statement (internal/db/queries/api_keys.sql).  Other     *)
(* requests, a deletion and the clock come in between.                     *)
(***************************************************************************)
EXTENDS Integers, Sequences, FiniteSets

CONSTANTS
  Callers,      \* requests in progress at once
  MaxRequests,  \* rate_limit_max
  KeyWindow,    \* rate_limit_window
  Delay,        \* how old a clock reading can be when its update is made
  KeyHorizon    \* bound on the clock

ASSUME MaxRequestsAssumption == MaxRequests \in Nat \ {0}
ASSUME KeyTimesAssumption == KeyWindow \in Nat \ {0} /\ Delay \in 0 .. KeyWindow
ASSUME KeyHorizonAssumption == KeyHorizon \in Nat \ {0}

VARIABLES
  time,
  stored,   \* the row exists
  count,    \* request_count
  last,     \* last_request_at, Null at first
  clock,    \* clock[c]: what request c has read from the clock, or Null
  granted   \* history: when each request was let through

keyVars == <<time, stored, count, last, clock, granted>>

Null == 0
Times == 1 .. KeyHorizon

\* Requests let through from time t on.
GrantedSince(t) == Cardinality({i \in DOMAIN granted : granted[i] >= t})

\* Types, and what the columns say of the past: a request was let through at
\* the time of last_request_at or soon after, and the count never passes max.
KeyTypeOK ==
  /\ time \in Nat
  /\ stored \in BOOLEAN
  /\ count \in 0 .. MaxRequests
  /\ last \in Times \union {Null}
  /\ clock \in [Callers -> Times \union {Null}]
  /\ granted \in Seq(Times)
  /\ last # Null => \E i \in DOMAIN granted :
                      granted[i] \in last .. last + Delay /\ granted[i] <= time

KeyInit ==
  /\ time = 1
  /\ stored = TRUE
  /\ count = 0
  /\ last = Null
  /\ clock = [c \in Callers |-> Null]
  /\ granted = <<>>

\* VerifyKey finds the key, RateLimit calls time.Now.
Verify(c) ==
  /\ clock[c] = Null
  /\ stored
  /\ clock' = [clock EXCEPT ![c] = time]
  /\ UNCHANGED <<time, stored, count, last, granted>>

\* Mutant: last_request_at <= window_start.
IdleEarly(c) == last = Null \/ last <= clock[c] - KeyWindow

\* No request for longer than the window.
Idle(c) == last = Null \/ last < clock[c] - KeyWindow

\* Mutant: request_count <= max.
MatchesOneMore(c) == stored /\ (count <= MaxRequests \/ Idle(c))

\* The WHERE clause of UpdateAPIKeyRateLimit.
Matches(c) == stored /\ (count < MaxRequests \/ Idle(c))

Grant(c) ==
  /\ clock[c] # Null
  /\ Matches(c)
  /\ count' = IF Idle(c) THEN 1 ELSE count + 1
  /\ last' = clock[c]
  /\ granted' = Append(granted, time)
  /\ clock' = [clock EXCEPT ![c] = Null]
  /\ UNCHANGED <<time, stored>>

\* Mutant: a refused request still moves last_request_at.
RefuseBumps(c) ==
  /\ clock[c] # Null
  /\ ~Matches(c)
  /\ last' = clock[c]
  /\ clock' = [clock EXCEPT ![c] = Null]
  /\ UNCHANGED <<time, stored, count, granted>>

\* No row was updated: 429.
Refuse(c) ==
  /\ clock[c] # Null
  /\ ~Matches(c)
  /\ clock' = [clock EXCEPT ![c] = Null]
  /\ UNCHANGED <<time, stored, count, last, granted>>

\* The statement fails: 500.
Fails(c) ==
  /\ clock[c] # Null
  /\ clock' = [clock EXCEPT ![c] = Null]
  /\ UNCHANGED <<time, stored, count, last, granted>>

Delete ==
  /\ stored
  /\ stored' = FALSE
  /\ UNCHANGED <<time, count, last, clock, granted>>

KeyTick ==
  /\ time < KeyHorizon
  /\ \A c \in Callers : clock[c] # Null => time - clock[c] < Delay
  /\ time' = time + 1
  /\ UNCHANGED <<stored, count, last, clock, granted>>

KeyNext ==
  \/ \E c \in Callers : \/ Verify(c)
                        \/ Grant(c)
                        \/ Refuse(c)
                        \/ Fails(c)
  \/ Delete
  \/ KeyTick

KeySpec == KeyInit /\ [][KeyNext]_keyVars

-----------------------------------------------------------------------------
(* Properties.                                                             *)

\* At most max requests in any window, though the count only restarts after
\* an idle one.  Requests that update the row with an old clock reading can
\* make an idle spell look longer than it is, by as much as they were late.
RateBounded == GrantedSince(time - (KeyWindow - Delay)) <= MaxRequests

\* A refused request does not put off the end of the refusals: whoever is
\* refused was let through within the last window, however often it retried.
RefusalEnds ==
  [][\A c \in Callers :
       Refuse(c) /\ clock[c] # Null /\ stored
         => GrantedSince(clock[c] - KeyWindow) > 0]_keyVars
=============================================================================
