------------------------------- MODULE SignOn -------------------------------
(***************************************************************************)
(* Signing in and out: app/auth.py behind the SessionMiddleware of         *)
(* app/main.py, and the tabs of one browser.  A session is a cookie and    *)
(* nothing else: every answer writes back the session its request carried, *)
(* as it was when the request was sent, and all tabs share the cookie.     *)
(* A tab has one request at a time: a navigation's, or its page's, which    *)
(* polls, or sends what a person clicks.                                   *)
(* The identity provider answers, refuses, or cannot be reached; a handler *)
(* may raise an exception of any other kind.                               *)
(***************************************************************************)
CONSTANTS
  Tabs,   \* tabs of the browser
  States, \* values of the OAuth state parameter
  None

VARIABLES
  jar,    \* the browser's session cookie
  path,   \* each tab: what it asks for; "refetch" and "root" are polls that were
          \* redirected to /auth/login and to /, "relogin" is a click that was
  cookie, \* the session a tab's request carries, None when it is not sent yet
  want,   \* the state that a tab's sign-in is for
  doc,    \* the page in each tab; a "message" polls no more, as the dashboard that
          \* says "Session expired"
  blame,  \* history: what other tabs did to the cookie since a tab set out, or was
          \* last sent to the provider
  out     \* history: signed out, and no sign-in or outdated answer since

tab == <<path, cookie, want, doc>>
vars == <<jar, tab, blame, out>>

Session == [user : BOOLEAN, state : States \cup {None}]
ASSUME NoneAssumption == None \notin States /\ None \notin Session

Empty == [user |-> FALSE, state |-> None]
Pages == {"dashboard", "wireguard"}
Fetched == {"api", "root", "refetch", "click", "relogin"}
Served == Pages \cup Fetched \cup {"login", "callback", "logout"}

TypeOK ==
  /\ jar \in Session /\ out \in BOOLEAN
  /\ path \in [Tabs -> Served \cup {"none", "idp"}]
  /\ cookie \in [Tabs -> Session \cup {None}]
  /\ want \in [Tabs -> States \cup {None}]
  /\ doc \in [Tabs -> Pages \cup {"message"}]
  /\ blame \in [Tabs -> SUBSET {"stale", "person", "dashboard", "wireguard"}]
  /\ \A t \in Tabs :
       /\ cookie[t] # None => path[t] \in Served
       /\ want[t] # None <=> path[t] \in {"idp", "callback"}
       /\ path[t] \in Fetched => doc[t] \in Pages

----------------------------------------------------------------------------
(* A tab's request                                                         *)

Waits(t) == path[t] \in Served
Sent(t) == Waits(t) /\ cookie[t] # None

\* The tab goes on to p: its request will carry the cookie of that moment.
Goto(t, p, s) ==
  /\ path' = [path EXCEPT ![t] = p]
  /\ cookie' = [cookie EXCEPT ![t] = None]
  /\ want' = [want EXCEPT ![t] = s]
Follow(t, p) == Goto(t, p, None) /\ UNCHANGED doc
Show(t, d) == Goto(t, "none", None) /\ doc' = [doc EXCEPT ![t] = d]

\* SessionMiddleware: the answer to t sets the cookie to s; an empty session
\* deletes the cookie that came with the request.
Kept(t, s) == IF s = Empty /\ cookie[t] = Empty THEN jar ELSE s
Kind(t) ==
  IF cookie[t] # jar THEN "stale"
  ELSE IF path[t] = "refetch" THEN doc[t] ELSE "person"
SetCookie(t, s) ==
  /\ jar' = Kept(t, s)
  /\ blame' = [u \in Tabs |->
                IF path'[u] = "none" \/ (u = t /\ path'[t] = "idp") THEN {}
                ELSE IF u # t /\ jar' # jar THEN blame[u] \cup {Kind(t)} ELSE blame[u]]

\* Signed out ends with a sign-in, or when an outdated answer sets the cookie.
Resend(t, s) ==
  SetCookie(t, s) /\ out' = (out /\ (cookie[t] = jar \/ jar' = jar))

----------------------------------------------------------------------------
(* The browser                                                             *)

\* A person opens a page or logs out, perhaps instead of signing in.
Visit(t) ==
  /\ path[t] \in {"none", "idp"}
  /\ \E p \in Pages \cup {"logout"} : Follow(t, p)
  /\ blame' = [blame EXCEPT ![t] = {}]
  /\ UNCHANGED <<jar, out>>

\* The timers of dashboard.js, which stops its own, and wireguard.js.
Poll_Unstopped(t) ==
  /\ path[t] = "none"
  /\ Follow(t, "api")
  /\ UNCHANGED <<jar, blame, out>>
Poll(t) ==
  /\ path[t] = "none" /\ doc[t] \in Pages
  /\ Follow(t, "api")
  /\ UNCHANGED <<jar, blame, out>>

\* A person's click that changes something: a button of the dashboard, a form of
\* the WireGuard page; those of the network and routing pages are like it.
Click(t) ==
  /\ path[t] = "none" /\ doc[t] \in Pages
  /\ Follow(t, "click")
  /\ UNCHANGED <<jar, blame, out>>

Send(t) ==
  /\ Waits(t) /\ cookie[t] = None
  /\ cookie' = [cookie EXCEPT ![t] = jar]
  /\ UNCHANGED <<jar, path, want, doc, blame, out>>

\* The identity provider sends the tab back, at once or after a dialogue.
SignIn(t) ==
  /\ path[t] = "idp"
  /\ Goto(t, "callback", want[t])
  /\ UNCHANGED <<jar, doc, blame, out>>

\* The cookie's fourteen days pass without an answer.
Lapse ==
  /\ \A t \in Tabs : path[t] = "none"
  /\ jar' = Empty
  /\ UNCHANGED <<tab, blame, out>>

----------------------------------------------------------------------------
(* The server                                                              *)

\* A page: current_user sends whoever is not signed in to /auth/login.
ServePage(t) ==
  /\ path[t] \in Pages /\ Sent(t)
  /\ IF cookie[t].user THEN Show(t, path[t]) ELSE Follow(t, "login")
  /\ Resend(t, cookie[t])

\* A poll that is redirected: dashboard.js stops, wireguard.js is taken there.
Redirected_Followed(t, p) == Follow(t, p)
Redirected(t, p) == IF doc[t] = "dashboard" THEN Show(t, "message") ELSE Follow(t, p)
ServeApi(t) ==
  /\ path[t] \in {"api", "root"} /\ Sent(t)
  /\ IF cookie[t].user THEN Show(t, doc[t]) ELSE Redirected(t, "refetch")
  /\ Resend(t, cookie[t])

\* A click's request follows its redirect, from the dashboard too.
ServeClick(t) ==
  /\ path[t] = "click" /\ Sent(t)
  /\ IF cookie[t].user THEN Show(t, doc[t]) ELSE Follow(t, "relogin")
  /\ Resend(t, cookie[t])

\* authorize_redirect keeps one state in the session.  A poll or a click gets no
\* further: the browser blocks it at the identity provider.
InUse(t) == {jar.state} \cup {want[u] : u \in Tabs}
            \cup {cookie[u].state : u \in {v \in Tabs \ {t} : cookie[v] # None}}
NewState(t) == CHOOSE s \in States : s \notin InUse(t)
Reached(t) ==
  /\ \E s \in States : s \notin InUse(t) \* a bound on States
  /\ \/ path[t] = "login" /\ Goto(t, "idp", NewState(t)) /\ UNCHANGED doc
     \/ path[t] # "login" /\ Show(t, doc[t])
  /\ Resend(t, [cookie[t] EXCEPT !.state = NewState(t)])
Unreachable_Home(t) ==
  /\ IF path[t] = "login" THEN Follow(t, "dashboard") ELSE Show(t, doc[t])
  /\ Resend(t, cookie[t])
Unreachable(t) ==
  /\ Show(t, IF path[t] = "login" THEN "message" ELSE doc[t])
  /\ Resend(t, cookie[t])
ServeLogin(t) ==
  /\ path[t] \in {"login", "refetch", "relogin"} /\ Sent(t)
  /\ Reached(t) \/ Unreachable(t)

\* authorize_access_token takes the state out of the session before it asks for
\* the token, and refuses a state that is not there; an error that the provider
\* sends back is raised before that.
Accepted(t) ==
  /\ cookie[t].state = want[t]
  /\ Follow(t, "dashboard")
  /\ SetCookie(t, [user |-> TRUE, state |-> None]) /\ out' = FALSE
Refused(t) ==
  /\ Show(t, "message")
  /\ \/ Resend(t, cookie[t])
     \/ cookie[t].state = want[t] /\ Resend(t, [cookie[t] EXCEPT !.state = None])
ServeCallback(t) ==
  /\ path[t] = "callback" /\ Sent(t)
  /\ Accepted(t) \/ Refused(t)

\* The session is cleared; then the provider's page, this server's when that
\* cannot be reached, or /auth/login when the provider has none.
Cleared_State(t) == [cookie[t] EXCEPT !.state = None]
Cleared(t) == Empty
ServeLogout(t) ==
  /\ path[t] = "logout" /\ Sent(t)
  /\ Show(t, "message") \/ Follow(t, "login")
  /\ SetCookie(t, Cleared(t))
  /\ out' = (out \/ cookie[t] \in {jar} \cup (Session \ {Empty}))

\* The handler of unhandled exceptions answers above SessionMiddleware: a
\* redirect to / where that cannot loop, a message elsewhere.
Fails(t) ==
  /\ Sent(t) /\ path[t] # "callback"
  /\ CASE path[t] = "wireguard" -> Follow(t, "dashboard")
       [] path[t] = "api" -> Redirected(t, "root")
       [] path[t] \in Fetched \ {"api"} -> Show(t, doc[t])
       [] OTHER -> Show(t, "message")
  /\ blame' = IF path'[t] = "none" THEN [blame EXCEPT ![t] = {}] ELSE blame
  /\ UNCHANGED <<jar, out>>

Serve(t) ==
  \/ ServePage(t) \/ ServeApi(t) \/ ServeClick(t) \/ ServeLogin(t) \/ ServeCallback(t) \/ ServeLogout(t)
  \/ Fails(t)

----------------------------------------------------------------------------

Init ==
  /\ jar = Empty /\ out = FALSE
  /\ path = [t \in Tabs |-> "none"] /\ cookie = [t \in Tabs |-> None]
  /\ want = [t \in Tabs |-> None] /\ doc = [t \in Tabs |-> "message"]
  /\ blame = [t \in Tabs |-> {}]

Next ==
  \/ Lapse
  \/ \E t \in Tabs : Visit(t) \/ Poll(t) \/ Click(t) \/ Send(t) \/ SignIn(t) \/ Serve(t)

Spec == Init /\ [][Next]_vars

\* The browser sends what it is to send, and the server answers: its requests
\* to the identity provider have a timeout.
FairSpec == Spec /\ \A t \in Tabs : WF_vars(Send(t)) /\ WF_vars(Serve(t))

----------------------------------------------------------------------------
(* Properties                                                              *)

\* The provider sent a tab back, and the session has not the state it was given.
Mismatch(t) == path[t] = "callback" /\ Sent(t) /\ cookie[t].state # want[t]

\* A sign-in fails for its state only when another tab signed in or out, a person
\* clicked in one whose session had ended, a WireGuard page polled, or an answer
\* arrived that was older than the session it overwrote: a dashboard that polls,
\* however long, spoils none.
SignInHolds ==
  \A t \in Tabs : Mismatch(t) => blame[t] \cap {"person", "wireguard", "stale"} # {}

\* Polling in another tab never spoils a sign-in.
PollsDoNotDisturb ==
  \A t \in Tabs : Mismatch(t) => blame[t] \cap {"person", "stale"} # {}

\* Who has signed out stays so in every tab until somebody signs in, whatever
\* answers polls and navigations get, but for an answer to a request that
\* carried another session than the one it overwrites.
SignedOutStays == out => ~jar.user

\* A tab that has asked this server for a page gets one, or the provider's:
\* redirects do not go on, unless another tab keeps changing the session.
NavigationEnds ==
  \A t \in Tabs : Waits(t) ~> (~Waits(t) \/ blame[t] # {})

=============================================================================
