--------------------------- MODULE BrowserSession ---------------------------
(***************************************************************************)
(* Who the web client takes the user for, and who the server does: the     *)
(* sign-in pages (web/src/routes/auth), the guard of the private pages     *)
(* (routes/_private/route.tsx), the cached session and its provider        *)
(* (lib/app-context/session.tsx), and the sessions of internal/auth.       *)
(*                                                                         *)
(* One tab is watched.  Its browser has one cookie, which other tabs       *)
(* change too, and sessions end on other devices.  Whose a session is      *)
(* makes no difference here.  The cache entry follows the library as in    *)
(* WebQueries; SessionProvider observes it as long as the application      *)
(* runs.  A request that was replaced has no effect, so only that of the   *)
(* running fetch is kept.  All private pages are one page here, and so are *)
(* the two for a forgotten password.                                       *)
(***************************************************************************)
EXTENDS Naturals

CONSTANTS MaxSessions,  \* bound on the sessions ever created
          Ways,         \* sign-ins of the tab at once: password, passkey
          NoCookie,     \* the browser has no session cookie
          Undefined,    \* the entry has no data
          Null          \* the data of setQueryData(key, null)

ASSUME MaxSessionsAssumption == MaxSessions \in Nat \ {0}
ASSUME ValuesAssumption == /\ Undefined # Null
                           /\ {NoCookie, Undefined, Null} \intersect Nat = {}

VARIABLES
  made,       \* how many sessions were created; a session is its number
  alive,      \* the sessions with a row that has not expired
  cookie,     \* the browser's
  tab,        \* what the tab shows
  nav,        \* whether a navigation waits at the guard of the private pages
  entry,      \* the cached session and its status
  fetch,      \* the request of the running fetch
  signing,    \* the sign-ins under way
  leaving,    \* the sign-out under way
  resetting,  \* whether a password reset is under way
  out,        \* signed out in this tab, and nobody has signed in since
  muddled,    \* signs of the user have crossed, see SignedIn
  due         \* a sign-in of this tab has still to be followed by its page

sessionVars == <<made, alive, cookie, tab, nav, entry, fetch, signing, leaving,
                 resetting, out, muddled, due>>
server == <<made, alive>>
cached == <<entry, fetch>>
forms == <<signing, leaving, resetting>>
history == <<out, muddled, due>>

AuthPages == {"sign-in", "recovery"}
Sids == 1..made
Cookies == Sids \union {NoCookie}

NoFetch == [at |-> "none", cookie |-> NoCookie, answer |-> NoCookie]
NotSigning == [at |-> "none", sid |-> NoCookie, alone |-> TRUE]
NotLeaving == [at |-> "none", cookie |-> NoCookie]

\* isAuthenticated of useSession: the last answer was a session.
Authenticated == entry.status = "success"
Fetching == fetch # NoFetch

\* Types; a navigation waits for a running fetch, and only without data.
SessionTypeOK ==
  /\ made \in 0..MaxSessions
  /\ alive \subseteq Sids
  /\ cookie \in Cookies
  /\ tab \in AuthPages \union {"blank", "private"}
  /\ nav => entry.data = Undefined /\ Fetching
  /\ tab = "blank" => nav
  /\ entry \in [data : Sids \union {Undefined}, stale : BOOLEAN,
                status : {"pending", "success", "error"}]
  /\ Authenticated => entry.data \in Sids
  /\ fetch \in [at : {"none", "asked", "answered"},
                cookie : Cookies, answer : Cookies]
  /\ signing \in [Ways -> [at : {"none", "sent", "served"},
                           sid : Cookies, alone : BOOLEAN]]
  /\ leaving \in [at : {"none", "sent", "served"}, cookie : Cookies]
  /\ {resetting, out, muddled, due} \subseteq BOOLEAN

-----------------------------------------------------------------------------
(* The cache entry.                                                        *)

Ask(c) == [at |-> "asked", cookie |-> c, answer |-> NoCookie]

Empty == [data |-> Undefined, status |-> "pending", stale |-> FALSE]

\* A page load: a new application, without anything of the one before, whose
\* SessionProvider asks for the session.
Load(p, c) ==
  /\ tab' = IF p = "private" THEN "blank" ELSE p
  /\ nav' = (p = "private")
  /\ entry' = Empty
  /\ fetch' = Ask(c)
  /\ signing' = [w \in Ways |-> NotSigning]
  /\ leaving' = NotLeaving
  /\ resetting' = FALSE
  /\ muddled' = FALSE /\ due' = FALSE

SessionInit ==
  /\ made = 0 /\ alive = {} /\ cookie = NoCookie
  /\ tab = "blank" /\ nav = TRUE
  /\ entry = Empty
  /\ fetch = Ask(NoCookie)
  /\ signing = [w \in Ways |-> NotSigning]
  /\ leaving = NotLeaving
  /\ resetting = FALSE /\ out = FALSE /\ muddled = FALSE /\ due = FALSE

-----------------------------------------------------------------------------
(* The guard: beforeLoad of /_private.                                     *)

\* Mutant: the guard asks the cache, and never the server.
EnterCached(c) ==
  /\ tab' = IF entry.data \in Sids THEN "private" ELSE "sign-in"
  /\ nav' = FALSE
  /\ UNCHANGED cached

\* ensureQueryData is content with any data, also with that of a session that
\* has ended; without data it waits for the running fetch, or starts one.
Enter(c) ==
  IF entry.data # Undefined
  THEN /\ tab' = IF entry.data = Null THEN "sign-in" ELSE "private"
       /\ nav' = FALSE
       /\ UNCHANGED cached
  ELSE /\ tab' = tab
       /\ nav' = TRUE
       /\ fetch' = IF Fetching THEN fetch ELSE Ask(c)
       /\ UNCHANGED entry

\* The fetch a navigation waits for has ended, with a session or without.
Decide(found) ==
  /\ tab' = IF ~nav THEN tab ELSE IF found THEN "private" ELSE "sign-in"
  /\ nav' = FALSE

\* A link between private pages.
Follow ==
  /\ tab = "private" /\ ~nav
  /\ Enter(cookie)
  /\ UNCHANGED <<server, cookie, forms, history>>

\* A link between the pages of sign-in, or the browser's way back to one.
GotoAuth(p) ==
  /\ tab # p /\ tab # "blank"
  /\ tab' = p /\ nav' = FALSE
  /\ due' = FALSE
  /\ UNCHANGED <<server, cookie, cached, forms, out, muddled>>

\* The sign-in page sends a user who is signed in to the home page.
Bounce ==
  /\ tab = "sign-in" /\ Authenticated /\ ~nav
  /\ Enter(cookie)
  /\ UNCHANGED <<server, cookie, forms, history>>

Reload(p) ==
  /\ Load(p, cookie)
  /\ UNCHANGED <<server, cookie, out>>

-----------------------------------------------------------------------------
(* The requests of the session.                                            *)

\* The server goes by the cookie that was sent, and answers 401 without a row.
AnswerSession ==
  /\ fetch.at = "asked"
  /\ fetch' = [fetch EXCEPT !.at = "answered",
                            !.answer = IF fetch.cookie \in alive
                                       THEN fetch.cookie ELSE NoCookie]
  /\ UNCHANGED <<server, cookie, tab, nav, entry, forms, history>>

Refused == [entry EXCEPT !.status = "error", !.stale = TRUE]

ArriveSession ==
  LET found == fetch.answer # NoCookie
  IN  /\ fetch.at = "answered"
      /\ entry' = IF found
                  THEN [data |-> fetch.answer, status |-> "success", stale |-> FALSE]
                  ELSE Refused
      /\ fetch' = NoFetch
      /\ Decide(found)
      /\ signing' = [w \in Ways |-> [signing[w] EXCEPT !.alone = @ /\ ~found]]
      /\ muddled' = (muddled /\ fetch.cookie # cookie)
      /\ due' = (due /\ tab' # "private")
      /\ UNCHANGED <<server, cookie, leaving, resetting, out>>

\* The network or the server fails: to the client that is no session either.
FailSession ==
  /\ Fetching
  /\ entry' = Refused
  /\ fetch' = NoFetch
  /\ Decide(FALSE)
  /\ due' = FALSE
  /\ UNCHANGED <<server, cookie, forms, out, muddled>>

\* The staleTime of SessionProvider passes.
SessionAges ==
  /\ entry.data # Undefined /\ ~entry.stale
  /\ entry' = [entry EXCEPT !.stale = TRUE]
  /\ UNCHANGED <<server, cookie, tab, nav, fetch, forms, history>>

FocusSession ==
  /\ ~Fetching
  /\ entry.stale \/ entry.data = Undefined
  /\ fetch' = Ask(cookie)
  /\ UNCHANGED <<server, cookie, tab, nav, entry, forms, history>>

\* The account page has changed the profile, and invalidates the session.
ProfileSaved ==
  /\ tab = "private" /\ entry.data # Undefined
  /\ entry' = [entry EXCEPT !.stale = TRUE]
  /\ fetch' = Ask(cookie)
  /\ UNCHANGED <<server, cookie, tab, nav, forms, history>>

-----------------------------------------------------------------------------
(* Signing in.                                                             *)

CreateSession ==
  /\ made < MaxSessions
  /\ made' = made + 1
  /\ alive' = alive \union {made'}

Submit(w) ==
  /\ signing[w].at = "none"
  /\ signing' = [signing EXCEPT ![w] = [NotSigning EXCEPT !.at = "sent"]]
  /\ UNCHANGED <<server, cookie, tab, nav, cached, leaving, resetting, history>>

\* Mutant: the sign-in page does not look at the session.
SignInAnyway(w) == tab = "sign-in" /\ Submit(w)

SignIn(w) == tab = "sign-in" /\ ~Authenticated /\ Submit(w)

ServeSignIn(w) ==
  /\ signing[w].at = "sent"
  /\ CreateSession
  /\ signing' = [signing EXCEPT ![w].at = "served", ![w].sid = made']
  /\ UNCHANGED <<cookie, tab, nav, cached, leaving, resetting, history>>

\* It is refused, or its answer is lost.
SignInFails(w) ==
  /\ signing[w].at # "none"
  /\ signing' = [signing EXCEPT ![w] = NotSigning]
  /\ UNCHANGED <<server, cookie, tab, nav, cached, leaving, resetting, history>>

(***************************************************************************)
(* The answer with the cookie, and the navigation to the page the user had *)
(* asked for.  The cached session is left as it is.  The sign-in crosses a *)
(* fetch under way, which speaks of the cookie before, and a session that  *)
(* came while the sign-in was under way.                                   *)
(***************************************************************************)
SignedIn(w) ==
  LET crosses == ~signing[w].alone \/ Fetching
  IN  /\ signing[w].at = "served"
      /\ cookie' = signing[w].sid
      /\ signing' = [signing EXCEPT ![w] = NotSigning]
      /\ Enter(cookie')
      /\ out' = FALSE
      /\ muddled' = (muddled \/ crosses)
      /\ due' = (~crosses /\ cookie' \in alive /\ tab' # "private")
      /\ UNCHANGED <<server, leaving, resetting>>

\* The way over the OIDC provider leaves the application and loads it again.
OAuthSignIn ==
  /\ tab = "sign-in" /\ ~Authenticated
  /\ CreateSession
  /\ cookie' = made'
  /\ out' = FALSE
  /\ Load("private", cookie')

ResetPassword ==
  /\ tab = "recovery" /\ ~resetting
  /\ resetting' = TRUE
  /\ UNCHANGED <<server, cookie, tab, nav, cached, signing, leaving, history>>

\* Its success leads to the sign-in page, wherever the user is by then.
ResetDone ==
  /\ resetting
  /\ resetting' = FALSE
  /\ tab' = "sign-in" /\ nav' = FALSE
  /\ due' = FALSE
  /\ UNCHANGED <<server, cookie, cached, signing, leaving, out, muddled>>

ResetFails ==
  /\ resetting
  /\ resetting' = FALSE
  /\ UNCHANGED <<server, cookie, tab, nav, cached, signing, leaving, history>>

-----------------------------------------------------------------------------
(* Signing out.                                                            *)

\* The sidebar with its button is there for a user who is signed in.
SignOut ==
  /\ Authenticated /\ leaving = NotLeaving
  /\ leaving' = [at |-> "sent", cookie |-> cookie]
  /\ UNCHANGED <<server, cookie, tab, nav, cached, signing, resetting, history>>

\* The row is deleted; an error of that is ignored.
ServeSignOut ==
  /\ leaving.at = "sent"
  /\ leaving' = [leaving EXCEPT !.at = "served"]
  /\ alive' \in {alive, alive \ {leaving.cookie}}
  /\ UNCHANGED <<made, cookie, tab, nav, cached, signing, resetting, history>>

\* Mutant: the user is sent to the sign-in page within the application, and
\* a running fetch goes on.
SignedOutInPlace ==
  /\ leaving.at = "served"
  /\ cookie' = NoCookie
  /\ out' = TRUE
  /\ tab' = "sign-in" /\ nav' = FALSE
  /\ entry' = [Empty EXCEPT !.status = "error"]
  /\ leaving' = NotLeaving
  /\ UNCHANGED <<server, fetch, signing, resetting, muddled, due>>

\* The cookie and the cache are cleared, and the sign-in page is loaded anew.
SignedOut ==
  /\ leaving.at = "served"
  /\ cookie' = NoCookie
  /\ out' = TRUE
  /\ Load("sign-in", NoCookie)
  /\ UNCHANGED server

\* Mutant: the data becomes null, but the cache is not cleared.
SignOutFailsUncleared ==
  /\ leaving.at # "none"
  /\ leaving' = NotLeaving
  /\ Decide(FALSE)
  /\ entry' = [data |-> Null, status |-> "success", stale |-> FALSE]
  /\ UNCHANGED <<server, cookie, fetch, signing, resetting, history>>

\* The answer is lost: the cache is cleared, which cancels a running fetch,
\* and nothing else; whether the user is still signed in is asked again.
SignOutFails ==
  /\ leaving.at # "none"
  /\ leaving' = NotLeaving
  /\ Decide(FALSE)
  /\ entry' = Empty
  /\ fetch' = Ask(cookie)
  /\ due' = FALSE
  /\ UNCHANGED <<server, cookie, signing, resetting, out, muddled>>

-----------------------------------------------------------------------------
(* Others.                                                                 *)

\* A session expires, or is revoked from another device.
End(s) ==
  /\ alive' = alive \ {s}
  /\ due' = (due /\ s # cookie)
  /\ UNCHANGED <<made, cookie, tab, nav, cached, forms, out, muddled>>

OtherTabSignsIn ==
  /\ CreateSession
  /\ cookie' = made'
  /\ out' = FALSE /\ muddled' = TRUE /\ due' = FALSE
  /\ UNCHANGED <<tab, nav, cached, forms>>

OtherTabSignsOut ==
  /\ cookie # NoCookie
  /\ alive' = alive \ {cookie}
  /\ cookie' = NoCookie
  /\ due' = FALSE
  /\ UNCHANGED <<made, tab, nav, cached, forms, out, muddled>>

SessionNext ==
  \/ Follow \/ Bounce \/ SessionAges \/ FocusSession \/ ProfileSaved
  \/ \E p \in AuthPages : GotoAuth(p)
  \/ \E p \in AuthPages \union {"private"} : Reload(p)
  \/ AnswerSession \/ ArriveSession \/ FailSession
  \/ \E w \in Ways : SignIn(w) \/ ServeSignIn(w) \/ SignInFails(w) \/ SignedIn(w)
  \/ OAuthSignIn \/ OtherTabSignsIn \/ OtherTabSignsOut
  \/ ResetPassword \/ ResetDone \/ ResetFails
  \/ SignOut \/ ServeSignOut \/ SignedOut \/ SignOutFails
  \/ \E s \in alive : End(s)

(***************************************************************************)
(* A request that is made again and again is answered some time, and the   *)
(* answer arrives; React runs the effects of what it has rendered.         *)
(***************************************************************************)
SessionFairness ==
  /\ WF_sessionVars(Bounce)
  /\ SF_sessionVars(AnswerSession) /\ SF_sessionVars(ArriveSession)

SessionSpec == SessionInit /\ [][SessionNext]_sessionVars /\ SessionFairness

-----------------------------------------------------------------------------
(* After a sign-out in this tab nobody is shown as signed in there, and no *)
(* private page is shown, until somebody signs in in this browser: not     *)
(* even when a request of the session was under way at the sign-out, or    *)
(* the row could not be deleted (session.tsx:27, auth.go:192).             *)
SignedOutStaysOut == out => tab # "private" /\ ~Authenticated

(* The session the sidebar shows is the one the server goes by.  A sign-in *)
(* does not ask for the session again (sign-in.tsx:49): that it shows the  *)
(* right user rests on nobody being signed in when the form is used, and   *)
(* fails where muddled says.                                               *)
ShownIsServed ==
  Authenticated /\ cookie \in alive /\ ~muddled => entry.data = cookie

(* A sign-in leads to its page: until that is shown the navigation is on   *)
(* its way, and nothing brings the user back to the form but a fetch that  *)
(* the sign-in has crossed, a failure, or the end of the session           *)
(* (sign-in.tsx:51, route.tsx:8).                                          *)
SignInLands == due => nav

(* Every navigation ends: the guard, which goes by the data, and the       *)
(* sign-in page, which goes by the status, do not send the user back and   *)
(* forth for ever (route.tsx:15, sign-in.tsx:75).                          *)
NavigationEnds ==
  LET Turning == nav \/ (tab = "sign-in" /\ Authenticated)
  IN  Turning ~> ~Turning
=============================================================================
