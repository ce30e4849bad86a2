----------------------------- MODULE AuthProofs ------------------------------
(* Proofs about Auth, for any tabs, pages and losses of the session.         *)
EXTENDS Auth, TLAPS

-----------------------------------------------------------------------------
(* Type correctness.                                                         *)

\* What the helpers on sessions and cookies return.
LEMMA EmptyType == Empty \in Sessions /\ NoCookie \in Cookies
  BY AuthAssumption DEF Empty, NoCookie, Cookies, Sessions

LEMMA SessionType ==
    ASSUME NEW cookie \in Cookies PROVE Session(cookie) \in Sessions
  BY EmptyType DEF Cookies, Session

LEMMA CookieType ==
    ASSUME secret \in 1..(losses + 1), losses \in 0..MaxLosses, NEW old, NEW session \in Sessions
    PROVE  Cookie(old, session) \in Cookies \cup {None}
<1>1. [key |-> secret, session |-> session] \in Cookies
  BY AuthAssumption DEF Cookies
<1>2. QED
  BY <1>1, EmptyType DEF Cookie

LEMMA ForgetType ==
    ASSUME NEW t \in Tabs, NEW cookie \in Cookies \cup {None}
    PROVE  /\ Forget(t, cookie) \in Cookies \cup {None}
           /\ cookie \in Cookies => Forget(t, cookie) \in Cookies
  BY AuthAssumption DEF Forget, Cookies, Sessions

\* What is on the wire of a tab, by where the tab is.
LEMMA WireType ==
    ASSUME TypeOK, NEW t \in Tabs
    PROVE  /\ at[t] = "sent" => wire[t] \in Requests /\ wire[t].cookie \in Cookies
           /\ at[t] = "answered" => /\ wire[t] \in Responses
                                    /\ wire[t].cookie \in Cookies \cup {None}
           /\ at[t] \in {"rest", "idp"} => wire[t] = Nothing
  BY DEF TypeOK, Requests, Responses

\* What a reply leaves of the types.
LEMMA ReplyType ==
    ASSUME TypeOK, NEW t \in Tabs, at[t] = "sent", NEW to, NEW path, NEW session \in Sessions,
           Reply(t, to, path, session),
           \/ to \in {"shown", "page"} /\ path \in Paths
           \/ to = "login" /\ path \in Paths \cup {None},
           asked' \in [Tabs -> Paths \cup {None}]
    PROVE  TypeOK'
<1>1. Cookie(wire[t].cookie, session) \in Cookies \cup {None}
  BY CookieType DEF TypeOK
<1>2. wire'[t] \in Responses
  BY <1>1 DEF Reply, Responses, Message, TypeOK
<1>3. QED
  BY <1>2 DEF Reply, TypeOK, Message

\* The variables hold values of their types, and a page that is fetched, shown
\* or led to has an address.
LEMMA TypeStep == TypeOK /\ [Next]_vars => TypeOK'
<1> SUFFICES ASSUME TypeOK, [Next]_vars PROVE TypeOK'
  OBVIOUS
<1>1. ASSUME NEW t \in Tabs, NEW p \in Paths, OpenPage(t, p) PROVE TypeOK'
  <2>1. Message("page", p, jar) \in Requests
    BY DEF Message, Requests, TypeOK
  <2>2. QED
    BY <1>1, <2>1 DEF OpenPage, Send, Ask, TypeOK
<1>2. ASSUME NEW t \in Tabs, PressLogout(t) PROVE TypeOK'
  <2>1. Message("logout", Root, jar) \in Requests
    BY AuthAssumption DEF Message, Requests, TypeOK
  <2>2. QED
    BY <1>2, <2>1, AuthAssumption DEF PressLogout, Send, Ask, TypeOK
<1>3. ASSUME NEW t \in Tabs, Approve(t) \/ Deny(t) PROVE TypeOK'
  <2>1. Message("callback", None, jar) \in Requests /\ Message("denied", None, jar) \in Requests
    BY DEF Message, Requests, TypeOK
  <2>2. QED
    BY <1>3, <2>1 DEF Approve, Deny, Send, Disturb, TypeOK
<1>4. ASSUME NEW t \in Tabs, Receive(t) PROVE TypeOK'
  <2> DEFINE cookie == IF wire[t].cookie = None THEN jar ELSE wire[t].cookie
  <2>1. wire[t] \in Responses /\ cookie \in Cookies
    BY <1>4, WireType DEF Receive, TypeOK
  <2>2. CASE wire[t].to \in {"shown", "error"} /\ Rest(t, wire[t].path)
    <3>1. wire[t].path \in Paths \cup {None}
      BY <2>1 DEF Responses
    <3>2. QED
      BY <1>4, <2>1, <2>2, <3>1 DEF Receive, Rest, TypeOK
  <2>3. CASE wire[t].to = "idp"
    BY <1>4, <2>1, <2>3 DEF Receive, Rest, TypeOK
  <2>4. CASE wire[t].to \in {"page", "login"}
    <3>1. Message(wire[t].to, wire[t].path, cookie) \in Requests
      BY <2>1, <2>4 DEF Responses, Requests, Message
    <3>2. QED
      BY <1>4, <2>1, <2>4, <3>1 DEF Receive, Rest, Send, TypeOK
  <2>5. QED
    BY <1>4, <2>2, <2>3, <2>4 DEF Receive
<1>5. ASSUME NEW t \in Tabs, Page(t) PROVE TypeOK'
  <2>1. at[t] = "sent" /\ wire[t].path \in Paths /\ Session(wire[t].cookie) \in Sessions
    BY <1>5, WireType, SessionType DEF Page, Asks, Requests
  <2>2. QED
    BY <1>5, <2>1, ReplyType DEF Page, TypeOK
<1>6. ASSUME NEW t \in Tabs, Login(t) PROVE TypeOK'
  <2> DEFINE next == OrRoot(wire[t].path)
             begun == [Session(Forget(t, wire[t].cookie)) EXCEPT !.next = next, !.logins = @ \cup {t}]
             answer == Message("idp", None, Cookie(wire[t].cookie, begun))
  <2>1. at[t] = "sent" /\ next \in Paths /\ wire[t].cookie \in Cookies
    BY <1>6, WireType, AuthAssumption DEF Login, BeginLogin, Asks, Requests, OrRoot
  <2>2. begun \in Sessions
    <3>1. Session(Forget(t, wire[t].cookie)) \in Sessions
      BY <2>1, ForgetType, SessionType
    <3>2. QED
      BY <2>1, <3>1 DEF Sessions
  <2>3. answer \in Responses
    BY <2>2, CookieType DEF TypeOK, Responses, Message
  <2>4. Forget(t, jar) \in Cookies
    BY ForgetType DEF TypeOK
  <2>5. ASSUME NEW u \in Tabs \ {t}
        PROVE  /\ at[u] = "sent" => [wire[u] EXCEPT !.cookie = Forget(t, @)] \in Requests
               /\ at[u] = "answered" => [wire[u] EXCEPT !.cookie = Forget(t, @)] \in Responses
               /\ at[u] \in {"rest", "idp"} => [wire[u] EXCEPT !.cookie = Forget(t, @)] = Nothing
    <3>1. CASE at[u] = "sent"
      BY <3>1, WireType, ForgetType DEF Requests
    <3>2. CASE at[u] = "answered"
      BY <3>2, WireType, ForgetType DEF Responses
    <3>3. CASE at[u] \in {"rest", "idp"}
      BY <3>3, WireType DEF Nothing, Message, Forget
    <3>4. QED
      BY <3>1, <3>2, <3>3
  <2>6. QED
    BY <1>6, <2>1, <2>3, <2>4, <2>5 DEF Login, BeginLogin, TypeOK
<1>7. ASSUME NEW t \in Tabs, Callback(t) PROVE TypeOK'
  <2>1. at[t] = "sent" /\ Session(wire[t].cookie) \in Sessions
    BY <1>7, WireType, SessionType DEF Callback, Matches, Asks
  <2>2. LoggedIn(t) \in Sessions /\ OrRoot(Session(wire[t].cookie).next) \in Paths
    BY <2>1, AuthAssumption DEF LoggedIn, OrRoot, Sessions
  <2>3. QED
    BY <1>7, <2>1, <2>2, ReplyType DEF Callback, TypeOK
<1>8. ASSUME NEW t \in Tabs, Restarted(t) PROVE TypeOK'
  <2>1. at[t] = "sent" /\ Session(wire[t].cookie) \in Sessions
    BY <1>8, WireType, SessionType DEF Restarted, Asks
  <2>2. QED
    BY <1>8, <2>1, ReplyType DEF Restarted, TypeOK
<1>9. ASSUME NEW t \in Tabs, CodeRefused(t) PROVE TypeOK'
  <2>1. at[t] = "sent" /\ Session(wire[t].cookie) \in Sessions
    BY <1>9, WireType, SessionType DEF CodeRefused, Matches, Asks
  <2>2. [Session(wire[t].cookie) EXCEPT !.logins = @ \ {t}] \in Sessions
    BY <2>1 DEF Sessions
  <2>3. asked' \in [Tabs -> Paths \cup {None}]
    BY <1>9 DEF CodeRefused, Disturb, TypeOK
  <2>4. QED
    BY <1>9, <2>1, <2>2, <2>3, ReplyType DEF CodeRefused
<1>10. ASSUME NEW t \in Tabs, Logout(t) PROVE TypeOK'
  BY <1>10, EmptyType, ReplyType, AuthAssumption DEF Logout, Asks, TypeOK
<1>11. ASSUME NEW t \in Tabs, IdpDown(t) PROVE TypeOK'
  <2>1. Message("error", None, None) \in Responses
    BY DEF Message, Responses
  <2>2. QED
    BY <1>11, <2>1 DEF IdpDown, TypeOK
<1>12. CASE Expire
  BY <1>12, EmptyType, AuthAssumption DEF Expire, Disturb, TypeOK
<1>13. CASE Restart
  BY <1>13, AuthAssumption DEF Restart, Disturb, TypeOK
<1>14. CASE UNCHANGED vars
  BY <1>14 DEF vars, TypeOK
<1>15. QED
  BY <1>1, <1>2, <1>3, <1>4, <1>5, <1>6, <1>7, <1>8, <1>9, <1>10, <1>11, <1>12, <1>13, <1>14
     DEF Next, Serve

LEMMA TypeInit == Init => TypeOK
  BY EmptyType, AuthAssumption DEF Init, TypeOK

\* Whatever the tabs, the IdP and the server do, and however often the session
\* is lost: the variables hold values of their types, and a page that is
\* fetched, shown or led to has an address.
THEOREM TypeCorrect == Spec => []TypeOK
  BY TypeInit, TypeStep, PTL DEF Spec

-----------------------------------------------------------------------------
(* Where a login lands.                                                      *)

\* The cookie holds the login of t, and it leads to the page p.
Promises(cookie, t, p) ==
    /\ cookie.key = secret
    /\ t \in cookie.session.logins
    /\ cookie.session.next = p

\* t is on its way to p.
OnCourse(t, p) ==
    /\ at[t] = "rest" => shown[t] \in {None, p}
    /\ at[t] = "sent" =>
          /\ wire[t].to # "denied"
          /\ wire[t].to \in {"page", "login"} => wire[t].path = p
          /\ wire[t].to = "logout" => p = Root
          /\ wire[t].to = "callback" => Promises(wire[t].cookie, t, p)
    /\ at[t] = "answered" =>
          /\ wire[t].to \in {"shown", "page", "login"} => wire[t].path = p
          /\ wire[t].to = "idp" =>
                wire[t].cookie # None /\ Promises(wire[t].cookie, t, p)
    /\ at[t] = "idp" => Promises(jar, t, p)

\* A tab that is alone with its request is on its way to what it asked for.
Course ==
    \A t \in Tabs : asked[t] # None =>
        /\ \A u \in Tabs \ {t} : ~InFlight(u)
        /\ OnCourse(t, asked[t])

\* The server answers t: all others are where they were, and if one of them is
\* on its way, t is not in flight.
LEMMA Answered ==
    ASSUME TypeOK, Course, NEW t \in Tabs, at[t] \in {"sent", "answered"},
           asked' = [asked EXCEPT ![t] = asked'[t]], asked'[t] \in {asked[t], None},
           \A u \in Tabs \ {t} : at'[u] = at[u],
           asked'[t] # None => OnCourse(t, asked[t])'
    PROVE  Course'
<1>1. \A u \in Tabs \ {t} : asked[u] = None
  BY DEF Course, InFlight
<1>2. \A u \in Tabs \ {t} : asked'[u] = None
  BY <1>1 DEF TypeOK
<1>3. asked'[t] # None => \A u \in Tabs \ {t} : ~InFlight(u)'
  BY DEF Course, InFlight
<1>4. QED
  BY <1>2, <1>3 DEF Course

\* The replies that hand the path on.
LEMMA ReplyCourse ==
    ASSUME TypeOK, Course, NEW t \in Tabs, at[t] = "sent", NEW to, NEW path, NEW session,
           Reply(t, to, path, session), UNCHANGED asked, to # "idp",
           asked[t] # None /\ to \in {"shown", "page", "login"} => path = asked[t]
    PROVE  Course'
<1>1. asked' = [asked EXCEPT ![t] = asked'[t]] /\ \A u \in Tabs \ {t} : at'[u] = at[u]
  BY DEF TypeOK, Reply
<1>2. asked[t] # None => OnCourse(t, asked[t])'
  BY DEF OnCourse, Reply, Message, TypeOK
<1>3. QED
  BY <1>1, <1>2, Answered

\* Every step of the browser, the server and the IdP keeps Course.
LEMMA CourseStep == TypeOK /\ Course /\ [Next]_vars => Course'
<1> SUFFICES ASSUME TypeOK, Course, [Next]_vars PROVE Course'
  OBVIOUS
<1>1. ASSUME NEW t \in Tabs, NEW p \in Paths, OpenPage(t, p) PROVE Course'
  <2>1. \A u \in Tabs \ {t} : asked'[u] = None
    BY <1>1 DEF OpenPage, Ask
  <2>2. ASSUME asked'[t] # None
        PROVE  (\A u \in Tabs \ {t} : ~InFlight(u)') /\ OnCourse(t, asked[t])'
    BY <1>1, <2>2 DEF OpenPage, Ask, Send, Message, InFlight, OnCourse, TypeOK
  <2>3. QED
    BY <2>1, <2>2 DEF Course
<1>2. ASSUME NEW t \in Tabs, PressLogout(t) PROVE Course'
  <2>1. \A u \in Tabs \ {t} : asked'[u] = None
    BY <1>2 DEF PressLogout, Ask
  <2>2. ASSUME asked'[t] # None
        PROVE  (\A u \in Tabs \ {t} : ~InFlight(u)') /\ OnCourse(t, asked[t])'
    BY <1>2, <2>2 DEF PressLogout, Ask, Send, Message, InFlight, OnCourse, TypeOK
  <2>3. QED
    BY <2>1, <2>2 DEF Course
<1>3. ASSUME NEW t \in Tabs, Approve(t) PROVE Course'
  <2>1. \A u \in Tabs \ {t} : asked'[u] = None
    BY <1>3 DEF Approve, Disturb
  <2>2. ASSUME asked'[t] # None
        PROVE  (\A u \in Tabs \ {t} : ~InFlight(u)') /\ OnCourse(t, asked[t])'
    <3>1. asked'[t] = asked[t]
      BY <1>3 DEF Approve, Disturb
    <3>2. Promises(jar, t, asked[t]) /\ \A u \in Tabs \ {t} : ~InFlight(u)
      BY <1>3, <2>2, <3>1 DEF Course, OnCourse, Approve
    <3>3. QED
      BY <1>3, <3>1, <3>2 DEF Approve, Send, Message, InFlight, OnCourse, Promises, TypeOK
  <2>3. QED
    BY <2>1, <2>2 DEF Course
<1>4. ASSUME NEW t \in Tabs, Deny(t) PROVE Course'
  BY <1>4 DEF Deny, Disturb, Course
<1>5. ASSUME NEW t \in Tabs, Receive(t) PROVE Course'
  <2>1. wire[t] \in Responses /\ at[t] = "answered"
    BY <1>5 DEF Receive, TypeOK
  <2>2. ASSUME asked[t] # None PROVE OnCourse(t, asked[t])'
    <3>1. OnCourse(t, asked[t])
      BY <2>2 DEF Course
    <3>2. CASE wire[t].to \in {"shown", "error"}
      BY <1>5, <2>1, <3>1, <3>2 DEF Receive, Rest, OnCourse, Responses, TypeOK
    <3>3. CASE wire[t].to = "idp"
      BY <1>5, <2>1, <3>1, <3>3 DEF Receive, OnCourse, Promises, TypeOK
    <3>4. CASE wire[t].to \in {"page", "login"}
      BY <1>5, <2>1, <3>1, <3>4 DEF Receive, Send, Message, OnCourse, TypeOK
    <3>5. QED
      BY <1>5, <3>2, <3>3, <3>4 DEF Receive
  <2>3. asked' = asked /\ \A u \in Tabs \ {t} : at'[u] = at[u]
    BY <1>5 DEF Receive, Rest, Send, TypeOK
  <2>4. QED
    BY <2>1, <2>2, <2>3, Answered DEF TypeOK
<1>6. ASSUME NEW t \in Tabs, Page(t) PROVE Course'
  BY <1>6, ReplyCourse DEF Page, Asks, Course, OnCourse
<1>7. ASSUME NEW t \in Tabs, Login(t) PROVE Course'
  <2> DEFINE s == Session(Forget(t, wire[t].cookie))
             begun == [s EXCEPT !.next = OrRoot(wire[t].path), !.logins = @ \cup {t}]
             cookie == Cookie(wire[t].cookie, begun)
  <2>1. at[t] = "sent" /\ wire[t].to = "login" /\ wire[t].cookie \in Cookies
    BY <1>7, WireType DEF Login, BeginLogin, Asks
  <2>2. s \in Sessions
    BY <2>1, ForgetType, SessionType
  <2>3. t \in begun.logins /\ begun.next = OrRoot(wire[t].path) /\ begun # Empty
    BY <2>2 DEF Sessions, Empty
  <2>4. cookie = [key |-> secret, session |-> begun]
    BY <2>3 DEF Cookie
  <2>5. begun \in Sessions
    <3>1. OrRoot(wire[t].path) \in Paths \cup {None}
      BY <2>1, WireType, AuthAssumption DEF OrRoot, Requests
    <3>2. QED
      BY <2>2, <3>1 DEF Sessions
  <2>6. cookie # None
    BY <2>4, <2>5, AuthAssumption DEF Cookies, TypeOK
  <2>7. ASSUME asked[t] # None PROVE OnCourse(t, asked[t])'
    <3>1. wire[t].path = asked[t]
      BY <2>1, <2>7 DEF Course, OnCourse
    <3>2. OrRoot(wire[t].path) = asked[t]
      BY <2>7, <3>1 DEF OrRoot
    <3>3. wire'[t] = Message("idp", None, cookie) /\ at'[t] = "answered"
      BY <1>7 DEF Login, BeginLogin, TypeOK
    <3>4. asked' = asked /\ secret' = secret
      BY <1>7 DEF Login, BeginLogin
    <3> HIDE DEF cookie, begun
    <3>5. cookie.key = secret /\ t \in cookie.session.logins
          /\ cookie.session.next = asked[t]
      BY <2>3, <2>4, <3>2
    <3>6. /\ wire'[t].to = "idp" /\ wire'[t].cookie = cookie
          /\ wire'[t].cookie # None
      BY <2>6, <3>3 DEF Message
    <3>7. QED
      BY <3>3, <3>4, <3>5, <3>6 DEF OnCourse, Promises
  <2>8. asked' = asked /\ \A u \in Tabs \ {t} : at'[u] = at[u]
    BY <1>7 DEF Login, BeginLogin, TypeOK
  <2>9. QED
    BY <2>1, <2>7, <2>8, Answered DEF TypeOK
<1>8. ASSUME NEW t \in Tabs, Callback(t) PROVE Course'
  <2>1. at[t] = "sent" /\ wire[t].to = "callback"
    BY <1>8 DEF Callback, Matches, Asks
  <2>2. asked[t] # None => OrRoot(Session(wire[t].cookie).next) = asked[t]
    BY <2>1 DEF Course, OnCourse, Promises, Session, OrRoot
  <2>3. QED
    BY <1>8, <2>1, <2>2, ReplyCourse DEF Callback
<1>9. ASSUME NEW t \in Tabs, Restarted(t) PROVE Course'
  <2>1. at[t] = "sent" /\ (wire[t].to = "callback" => t \notin Session(wire[t].cookie).logins)
        /\ wire[t].to \in {"callback", "denied"}
    BY <1>9 DEF Restarted, Matches, Asks
  <2>2. asked[t] = None
    BY <2>1 DEF Course, OnCourse, Promises, Session
  <2>3. QED
    BY <1>9, <2>1, <2>2, ReplyCourse DEF Restarted
<1>10. ASSUME NEW t \in Tabs, CodeRefused(t) PROVE Course'
  <2>1. at[t] = "sent"
    BY <1>10 DEF CodeRefused, Matches, Asks
  <2>2. asked' = [asked EXCEPT ![t] = None]
    BY <1>10 DEF CodeRefused, Disturb, TypeOK
  <2>3. \A u \in Tabs \ {t} : at'[u] = at[u]
    BY <1>10 DEF CodeRefused, Reply, TypeOK
  <2>4. QED
    BY <2>1, <2>2, <2>3, Answered DEF TypeOK
<1>11. ASSUME NEW t \in Tabs, Logout(t) PROVE Course'
  BY <1>11, ReplyCourse DEF Logout, Asks, Course, OnCourse
<1>12. ASSUME NEW t \in Tabs, IdpDown(t) PROVE Course'
  <2>1. at[t] = "sent" /\ at' = [at EXCEPT ![t] = "answered"]
        /\ wire' = [wire EXCEPT ![t] = Message("error", None, None)] /\ asked' = asked
    BY <1>12 DEF IdpDown, Matches, Asks
  <2>2. OnCourse(t, asked[t])'
    BY <2>1 DEF OnCourse, Message, TypeOK
  <2>3. QED
    BY <2>1, <2>2, Answered DEF TypeOK
<1>13. CASE Expire \/ Restart
  BY <1>13 DEF Expire, Restart, Disturb, Course
<1>14. CASE UNCHANGED vars
  BY <1>14 DEF vars, Course, OnCourse, Promises, InFlight
<1>15. QED
  BY <1>1, <1>2, <1>3, <1>4, <1>5, <1>6, <1>7, <1>8, <1>9, <1>10, <1>11, <1>12, <1>13, <1>14
     DEF Next, Serve

\* A tab that nothing interferes with lands on the page its user asked for,
\* whatever other logins were begun, denied or lost before.
THEOREM Lands == Spec => []LandsWhereAsked
<1>1. Init => Course
  BY DEF Init, Course
<1>2. Course => LandsWhereAsked
  BY DEF Course, OnCourse, LandsWhereAsked
<1>3. QED
  BY <1>1, <1>2, CourseStep, TypeCorrect, PTL DEF Spec
=============================================================================
