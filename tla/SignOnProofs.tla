---------------------------- MODULE SignOnProofs ----------------------------
(***************************************************************************)
(* Theorems about SignOn, for any tabs and any states.                     *)
(***************************************************************************)
EXTENDS SignOn, TLAPS

----------------------------------------------------------------------------
(* The inductive invariant                                                 *)

\* Only polls of a page that does not stop are redirected.
Stopped == \A t \in Tabs : path[t] \in {"root", "refetch"} => doc[t] = "wireguard"

Spoilt(t) == blame[t] \cap {"person", "wireguard", "stale"} # {}

\* A sign-in has its state in the session its request carries, or in the
\* browser's while it has not been sent; or another tab is to blame.
Holding ==
  \A t \in Tabs : path[t] \in {"idp", "callback"} /\ ~Spoilt(t) =>
    want[t] = IF cookie[t] # None THEN cookie[t].state ELSE jar.state

IInv == TypeOK /\ Stopped /\ Holding /\ SignedOutStays

USE NoneAssumption

\* The browser starts with no cookie and nothing to ask.
LEMMA InitInv == Init => IInv
<1> SUFFICES ASSUME Init PROVE IInv  OBVIOUS
<1> USE DEF Init
<1>1. TypeOK  BY DEF TypeOK, Session, Empty, Fetched
<1>2. Stopped /\ Holding /\ SignedOutStays  BY DEF Stopped, Holding, SignedOutStays
<1> QED  BY <1>1, <1>2 DEF IInv

\* What every answer to a tab's request has in common: it sets the cookie as
\* SetCookie does, the tab goes on to something that is not a provider's, and
\* signed out stays so unless the cookie was outdated.
LEMMA AnswerInv ==
  ASSUME NEW t \in Tabs, NEW s \in Session, IInv, Sent(t), SetCookie(t, s),
         NEW p \in Served \cup {"none", "idp"}, NEW w \in States \cup {None},
         NEW d \in Pages \cup {"message"},
         path' = [path EXCEPT ![t] = p],
         cookie' = [cookie EXCEPT ![t] = None],
         want' = [want EXCEPT ![t] = w],
         doc' = [doc EXCEPT ![t] = d],
         p # "callback", w # None <=> p = "idp", p = "idp" => w = s.state,
         p \in {"root", "refetch"} => d = "wireguard", p \in Fetched => d \in Pages,
         p = "idp" => s # Empty,
         out' \in BOOLEAN, SignedOutStays'
  PROVE  IInv'
<1> USE DEF IInv, TypeOK
<1>1. cookie[t] \in Session /\ path[t] \in Served
  BY DEF Sent, Waits
<1>2. jar' \in Session
  BY DEF SetCookie, Kept, Session
<1>3. Kind(t) \in {"stale", "person", "wireguard"}
  BY <1>1 DEF Kind, Stopped
<1>4. blame' \in [Tabs -> SUBSET {"stale", "person", "dashboard", "wireguard"}]
  BY <1>3 DEF SetCookie
<1>5. TypeOK'
  <2>1. \A u \in Tabs : u # t => /\ path'[u] = path[u] /\ cookie'[u] = cookie[u]
                                /\ want'[u] = want[u] /\ doc'[u] = doc[u]
    OBVIOUS
  <2>2. path'[t] = p /\ cookie'[t] = None /\ want'[t] = w /\ doc'[t] = d
    OBVIOUS
  <2>4. \A u \in Tabs :
          /\ cookie'[u] # None => path'[u] \in Served
          /\ want'[u] # None <=> path'[u] \in {"idp", "callback"}
          /\ path'[u] \in Fetched => doc'[u] \in Pages
    BY <2>1, <2>2 DEF Fetched
  <2> QED  BY <1>2, <1>4, <2>4
<1>6. Stopped'
  BY DEF Stopped
<1>7. Holding'
  <2> SUFFICES ASSUME NEW u \in Tabs, path'[u] \in {"idp", "callback"}, ~Spoilt(u)'
               PROVE  want'[u] = IF cookie'[u] # None THEN cookie'[u].state ELSE jar'.state
    BY DEF Holding
  <2>1. CASE u = t
    <3>1. p = "idp" /\ w = s.state /\ cookie'[t] = None /\ want'[t] = w
      BY <2>1
    <3> QED  BY <2>1, <3>1 DEF SetCookie, Kept
  <2>2. CASE u # t
    <3>1. path[u] \in {"idp", "callback"} /\ want'[u] = want[u] /\ cookie'[u] = cookie[u]
      BY <2>2
    <3>2. blame'[u] = IF jar' # jar THEN blame[u] \cup {Kind(t)} ELSE blame[u]
      BY <2>2, <3>1 DEF SetCookie
    <3>3. jar' = jar /\ ~Spoilt(u)
      BY <1>3, <3>2 DEF Spoilt
    <3> QED  BY <3>1, <3>3 DEF Holding
  <2> QED  BY <2>1, <2>2
<1> QED  BY <1>5, <1>6, <1>7

\* An answer that ends a request.
LEMMA ShowInv ==
  ASSUME NEW t \in Tabs, NEW s \in Session, NEW d \in Pages \cup {"message"},
         IInv, Sent(t), SetCookie(t, s), Show(t, d), out' \in BOOLEAN, SignedOutStays'
  PROVE  IInv'
<1>1. /\ path' = [path EXCEPT ![t] = "none"] /\ cookie' = [cookie EXCEPT ![t] = None]
      /\ want' = [want EXCEPT ![t] = None] /\ doc' = [doc EXCEPT ![t] = d]
  BY DEF Show, Goto
<1>2. "none" \in Served \cup {"none", "idp"} /\ "none" \notin Fetched
  BY DEF Fetched
<1> QED  BY <1>1, <1>2, AnswerInv

\* An answer that redirects to this server.
LEMMA FollowInv ==
  ASSUME NEW t \in Tabs, NEW s \in Session,
         NEW p \in {"login", "dashboard", "root", "refetch", "relogin"},
         p \in {"root", "refetch"} => doc[t] = "wireguard", p = "relogin" => doc[t] \in Pages,
         IInv, Sent(t), SetCookie(t, s), Follow(t, p), out' \in BOOLEAN, SignedOutStays'
  PROVE  IInv'
<1>1. doc[t] \in Pages \cup {"message"} /\ doc' = [doc EXCEPT ![t] = doc[t]]
  BY DEF IInv, TypeOK, Follow
<1>2. /\ path' = [path EXCEPT ![t] = p] /\ cookie' = [cookie EXCEPT ![t] = None]
      /\ want' = [want EXCEPT ![t] = None]
  BY DEF Follow, Goto
<1>3. p \in Served /\ p \notin {"idp", "callback"} /\ (p \in Fetched => doc[t] \in Pages)
  BY DEF Served, Fetched, Pages
<1> QED  BY <1>1, <1>2, <1>3, AnswerInv

\* The answers that carry the session as it was, or with another state.
LEMMA ResendOut ==
  ASSUME NEW t \in Tabs, NEW s \in Session, IInv, Sent(t), Resend(t, s),
         s.user = cookie[t].user
  PROVE  out' \in BOOLEAN /\ SignedOutStays'
<1> USE DEF IInv, TypeOK
<1>1. out' = (out /\ (cookie[t] = jar \/ jar' = jar)) /\ jar' = Kept(t, s)
  BY DEF Resend, SetCookie
<1> QED  BY <1>1 DEF SignedOutStays, Kept

LEMMA SentSession ==
  ASSUME NEW t \in Tabs, TypeOK, Sent(t)
  PROVE  cookie[t] \in Session
<1> QED  BY DEF TypeOK, Sent

\* A page is served, or its visitor is sent to sign in.
LEMMA ServePageInv ==
  ASSUME NEW t \in Tabs, IInv, ServePage(t)
  PROVE  IInv'
<1>1. Sent(t) /\ Resend(t, cookie[t]) /\ path[t] \in Pages
  BY DEF ServePage
<1>2. cookie[t] \in Session
  BY <1>1, SentSession DEF IInv
<1>3. out' \in BOOLEAN /\ SignedOutStays'
  BY <1>1, <1>2, ResendOut
<1>4. SetCookie(t, cookie[t])
  BY <1>1 DEF Resend
<1>5. CASE cookie[t].user
  <2>1. Show(t, path[t]) /\ path[t] \in Pages \cup {"message"}
    BY <1>1, <1>5 DEF ServePage
  <2> QED  BY <1>1, <1>2, <1>3, <1>4, <2>1, ShowInv
<1>6. CASE ~cookie[t].user
  <2>1. Follow(t, "login")
    BY <1>6 DEF ServePage
  <2> QED  BY <1>1, <1>2, <1>3, <1>4, <2>1, FollowInv
<1> QED  BY <1>5, <1>6

\* A poll is answered, stopped or taken on.
LEMMA ServeApiInv ==
  ASSUME NEW t \in Tabs, IInv, ServeApi(t)
  PROVE  IInv'
<1>1. Sent(t) /\ Resend(t, cookie[t]) /\ path[t] \in {"api", "root"}
  BY DEF ServeApi
<1>2. cookie[t] \in Session
  BY <1>1, SentSession DEF IInv
<1>3. out' \in BOOLEAN /\ SignedOutStays'
  BY <1>1, <1>2, ResendOut
<1>4. SetCookie(t, cookie[t])
  BY <1>1 DEF Resend
<1>5. doc[t] \in Pages
  BY <1>1 DEF IInv, TypeOK, Fetched
<1>6. \/ \E d \in Pages \cup {"message"} : Show(t, d)
      \/ doc[t] = "wireguard" /\ Follow(t, "refetch")
  BY <1>5 DEF ServeApi, Redirected, Pages
<1> QED  BY <1>1, <1>2, <1>3, <1>4, <1>6, ShowInv, FollowInv

\* A click is answered or taken on.
LEMMA ServeClickInv ==
  ASSUME NEW t \in Tabs, IInv, ServeClick(t)
  PROVE  IInv'
<1>1. Sent(t) /\ Resend(t, cookie[t]) /\ path[t] = "click"
  BY DEF ServeClick
<1>2. cookie[t] \in Session
  BY <1>1, SentSession DEF IInv
<1>3. out' \in BOOLEAN /\ SignedOutStays'
  BY <1>1, <1>2, ResendOut
<1>4. SetCookie(t, cookie[t])
  BY <1>1 DEF Resend
<1>5. doc[t] \in Pages
  BY <1>1 DEF IInv, TypeOK, Fetched
<1>6. Show(t, doc[t]) \/ Follow(t, "relogin")
  BY DEF ServeClick
<1> QED  BY <1>1, <1>2, <1>3, <1>4, <1>5, <1>6, ShowInv, FollowInv

\* The provider is reached, with a new state, or it is not.
LEMMA ServeLoginInv ==
  ASSUME NEW t \in Tabs, IInv, ServeLogin(t)
  PROVE  IInv'
<1>1. Sent(t) /\ path[t] \in {"login", "refetch", "relogin"}
  BY DEF ServeLogin
<1>2. cookie[t] \in Session
  BY <1>1, SentSession DEF IInv
<1>3. doc[t] \in Pages \cup {"message"}
  BY DEF IInv, TypeOK
<1>4. CASE Unreachable(t)
  <2>1. Resend(t, cookie[t]) /\ \E d \in Pages \cup {"message"} : Show(t, d)
    BY <1>3, <1>4 DEF Unreachable
  <2>2. SetCookie(t, cookie[t])
    BY <2>1 DEF Resend
  <2> QED  BY <1>1, <1>2, <2>1, <2>2, ResendOut, ShowInv
<1>5. CASE Reached(t)
  <2> DEFINE n == NewState(t)
  <2> DEFINE s == [cookie[t] EXCEPT !.state = n]
  <2>1. n \in States
    BY <1>5 DEF Reached, NewState
  <2>2. /\ Resend(t, s)
        /\ (path[t] = "login" /\ Goto(t, "idp", n) /\ UNCHANGED doc) \/ Show(t, doc[t])
    BY <1>5 DEF Reached
  <2> HIDE DEF n
  <2>3. s \in Session /\ s.user = cookie[t].user /\ s.state = n /\ s # Empty
    BY <1>2, <2>1 DEF Session, Empty
  <2> HIDE DEF s
  <2>4. SetCookie(t, s)
    BY <2>2 DEF Resend
  <2>5. out' \in BOOLEAN /\ SignedOutStays'
    BY <1>1, <2>2, <2>3, ResendOut
  <2>6. CASE Show(t, doc[t])
    BY <1>1, <1>3, <2>3, <2>4, <2>5, <2>6, ShowInv
  <2>7. CASE Goto(t, "idp", n) /\ UNCHANGED doc
    <3>1. doc' = [doc EXCEPT ![t] = doc[t]]
      BY <2>7 DEF IInv, TypeOK
    <3>2. /\ path' = [path EXCEPT ![t] = "idp"] /\ cookie' = [cookie EXCEPT ![t] = None]
          /\ want' = [want EXCEPT ![t] = n]
      BY <2>7 DEF Goto
    <3>3. n # None /\ "idp" \notin Fetched
      BY <2>1 DEF Fetched
    <3> QED  BY <1>1, <1>3, <2>1, <2>3, <2>4, <2>5, <3>1, <3>2, <3>3, AnswerInv
  <2> QED  BY <2>2, <2>6, <2>7
<1> QED  BY <1>4, <1>5 DEF ServeLogin

\* A sign-in is accepted or refused.
LEMMA ServeCallbackInv ==
  ASSUME NEW t \in Tabs, IInv, ServeCallback(t)
  PROVE  IInv'
<1>1. Sent(t)
  BY DEF ServeCallback
<1>2. cookie[t] \in Session
  BY <1>1, SentSession DEF IInv
<1>3. CASE Accepted(t)
  <2> DEFINE s == [user |-> TRUE, state |-> None]
  <2>1. s \in Session
    BY DEF Session
  <2>2. SetCookie(t, s) /\ Follow(t, "dashboard") /\ out' = FALSE
    BY <1>3 DEF Accepted
  <2> HIDE DEF s
  <2>3. out' \in BOOLEAN /\ SignedOutStays'
    BY <2>2 DEF SignedOutStays
  <2> QED  BY <1>1, <2>1, <2>2, <2>3, FollowInv
<1>4. CASE Refused(t)
  <2>1. PICK s \in Session : Resend(t, s) /\ s.user = cookie[t].user
    <3>1. [cookie[t] EXCEPT !.state = None] \in Session
      BY <1>2 DEF Session
    <3>2. [cookie[t] EXCEPT !.state = None].user = cookie[t].user
      BY <1>2 DEF Session
    <3> QED  BY <1>2, <1>4, <3>1, <3>2 DEF Refused
  <2>2. Show(t, "message") /\ SetCookie(t, s)
    BY <1>4, <2>1 DEF Refused, Resend
  <2>3. out' \in BOOLEAN /\ SignedOutStays'
    BY <1>1, <2>1, ResendOut
  <2> QED  BY <1>1, <2>2, <2>3, ShowInv
<1> QED  BY <1>3, <1>4 DEF ServeCallback

\* A session is cleared.
LEMMA ServeLogoutInv ==
  ASSUME NEW t \in Tabs, IInv, ServeLogout(t)
  PROVE  IInv'
<1>1. Sent(t) /\ SetCookie(t, Empty) /\ (Show(t, "message") \/ Follow(t, "login"))
  BY DEF ServeLogout, Cleared
<1>2. Empty \in Session /\ cookie[t] \in Session
  BY <1>1, SentSession DEF Session, Empty, IInv
<1>3. out' \in BOOLEAN
  BY DEF ServeLogout, IInv, TypeOK
<1>4. SignedOutStays'
  <2>1. jar' = IF cookie[t] = Empty THEN jar ELSE Empty
    BY <1>1 DEF SetCookie, Kept
  <2>2. out' => out \/ cookie[t] = jar \/ cookie[t] # Empty
    BY DEF ServeLogout
  <2> QED  BY <2>1, <2>2 DEF SignedOutStays, IInv, Empty
<1> QED  BY <1>1, <1>2, <1>3, <1>4, ShowInv, FollowInv

\* A handler raises an exception: the cookie is left alone.
LEMMA FailsInv ==
  ASSUME NEW t \in Tabs, IInv, Fails(t)
  PROVE  IInv'
<1> USE DEF IInv, TypeOK
<1>1. PICK p \in {"none", "dashboard", "root"}, d \in Pages \cup {"message"} :
        /\ Goto(t, p, None) /\ doc' = [doc EXCEPT ![t] = d]
        /\ p = "root" => d = "wireguard"
  <2>1. path[t] \in Served /\ doc[t] \in Pages \cup {"message"} /\ doc = [doc EXCEPT ![t] = doc[t]]
    BY DEF Fails, Sent, Waits
  <2>2. path[t] \in Fetched => doc[t] \in Pages
    OBVIOUS
  <2> QED  BY <2>1, <2>2 DEF Fails, Redirected, Show, Follow, Fetched, Pages
<1>2. /\ blame' = IF path'[t] = "none" THEN [blame EXCEPT ![t] = {}] ELSE blame
      /\ UNCHANGED <<jar, out>>
  BY DEF Fails
<1>3. TypeOK'
  BY <1>1, <1>2 DEF Goto, Served, Fetched, Pages
<1>4. Stopped' /\ SignedOutStays'
  BY <1>1, <1>2 DEF Goto, Stopped, SignedOutStays
<1>5. Holding'
  BY <1>1, <1>2 DEF Goto, Holding, Spoilt
<1> QED  BY <1>3, <1>4, <1>5

\* What the browser does.
LEMMA VisitInv ==
  ASSUME NEW t \in Tabs, IInv, Visit(t)
  PROVE  IInv'
<1> USE DEF IInv, Visit, Follow, Goto
<1>1. TypeOK'  BY DEF TypeOK, Served, Fetched, Pages
<1>2. Stopped' /\ Holding' /\ SignedOutStays'
  BY DEF TypeOK, Stopped, Holding, Spoilt, SignedOutStays, Pages
<1> QED  BY <1>1, <1>2

LEMMA PollInv ==
  ASSUME NEW t \in Tabs, IInv, Poll(t)
  PROVE  IInv'
<1> USE DEF IInv, Poll, Follow, Goto
<1>1. TypeOK'  BY DEF TypeOK, Served, Fetched, Pages
<1>2. Stopped' /\ Holding' /\ SignedOutStays'
  BY DEF TypeOK, Stopped, Holding, Spoilt, SignedOutStays
<1> QED  BY <1>1, <1>2

LEMMA ClickInv ==
  ASSUME NEW t \in Tabs, IInv, Click(t)
  PROVE  IInv'
<1> USE DEF IInv, Click, Follow, Goto
<1>1. TypeOK'  BY DEF TypeOK, Served, Fetched, Pages
<1>2. Stopped' /\ Holding' /\ SignedOutStays'
  BY DEF TypeOK, Stopped, Holding, Spoilt, SignedOutStays
<1> QED  BY <1>1, <1>2

LEMMA SendInv ==
  ASSUME NEW t \in Tabs, IInv, Send(t)
  PROVE  IInv'
<1> USE DEF IInv, Send
<1>1. TypeOK'  BY DEF TypeOK, Waits
<1>2. Stopped' /\ Holding' /\ SignedOutStays'
  BY DEF TypeOK, Stopped, Holding, Spoilt, SignedOutStays
<1> QED  BY <1>1, <1>2

LEMMA SignInInv ==
  ASSUME NEW t \in Tabs, IInv, SignIn(t)
  PROVE  IInv'
<1> USE DEF IInv, SignIn, Goto
<1>1. TypeOK'  BY DEF TypeOK, Served, Fetched, Pages
<1>2. Stopped' /\ SignedOutStays'  BY DEF TypeOK, Stopped, SignedOutStays
<1>3. Holding'
  <2>1. cookie[t] = None
    BY DEF TypeOK, Served, Fetched, Pages
  <2> QED  BY <2>1 DEF TypeOK, Holding, Spoilt
<1> QED  BY <1>1, <1>2, <1>3

LEMMA LapseInv ==
  ASSUME IInv, Lapse
  PROVE  IInv'
<1> USE DEF IInv, Lapse, tab
<1>1. TypeOK'  BY DEF TypeOK, Session, Empty
<1>2. Stopped' /\ Holding' /\ SignedOutStays'
  BY DEF TypeOK, Stopped, Holding, Spoilt, SignedOutStays, Empty
<1> QED  BY <1>1, <1>2

----------------------------------------------------------------------------
(* The theorems                                                            *)

LEMMA StepInv == IInv /\ [Next]_vars => IInv'
<1> SUFFICES ASSUME IInv, [Next]_vars PROVE IInv'  OBVIOUS
<1>1. ASSUME NEW t \in Tabs, Visit(t) \/ Poll(t) \/ Click(t) \/ Send(t) \/ SignIn(t)
      PROVE  IInv'
  BY <1>1, VisitInv, PollInv, ClickInv, SendInv, SignInInv
<1>2. ASSUME NEW t \in Tabs, Serve(t)
      PROVE  IInv'
  BY <1>2, ServePageInv, ServeApiInv, ServeClickInv, ServeLoginInv, ServeCallbackInv, ServeLogoutInv,
     FailsInv DEF Serve
<1>3. CASE UNCHANGED vars
  BY <1>3 DEF vars, tab, IInv, TypeOK, Stopped, Holding, Spoilt, SignedOutStays
<1> QED  BY <1>1, <1>2, <1>3, LapseInv DEF Next

LEMMA InductiveInvariant == Spec => []IInv
<1> QED  BY InitInv, StepInv, PTL DEF Spec

\* The variables keep their types: only a request that waits for this server
\* carries a session, and a poll is a page's.
THEOREM TypeCorrect == Spec => []TypeOK
<1>1. IInv => TypeOK  BY DEF IInv
<1> QED  BY <1>1, InductiveInvariant, PTL

\* In a browser with any number of tabs, a sign-in keeps its state unless
\* another tab signs in or out, a person clicks in one that is signed out, a
\* WireGuard page polls or an outdated answer arrives.
THEOREM SignInsHold == Spec => []SignInHolds
<1>1. IInv => SignInHolds
  BY DEF IInv, Holding, Spoilt, SignInHolds, Mismatch, Sent
<1> QED  BY <1>1, InductiveInvariant, PTL

\* In any number of tabs, who has signed out stays so.
THEOREM SignedOutLasts == Spec => []SignedOutStays
<1>1. IInv => SignedOutStays  BY DEF IInv
<1> QED  BY <1>1, InductiveInvariant, PTL

=============================================================================
