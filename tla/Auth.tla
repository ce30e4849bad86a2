-------------------------------- MODULE Auth ---------------------------------
(* The OIDC login of the web service, slack_log/web/auth.py: the tabs of one *)
(* browser, the server, and the identity provider (IdP).                     *)
(*                                                                           *)
(* The server keeps no session.  A request carries the browser's cookie, the *)
(* whole session signed with the server's secret; the response carries it    *)
(* back as the handler left it, whatever other responses have put into the   *)
(* browser in between (Starlette's SessionMiddleware, external).  authlib    *)
(* (external) keeps in the session which logins have begun; a login of a tab *)
(* is named by the tab, which presents no other one than its last.           *)
EXTENDS Naturals, FiniteSets

CONSTANTS
    Tabs,
    Paths,      \* the pages
    Root,       \* "/"
    MaxLosses,  \* bound: logouts, expired sessions and restarts
    None

Sessions == [user : BOOLEAN, next : Paths \cup {None}, logins : SUBSET Tabs]
Cookies == [key : 0..(MaxLosses + 1), session : Sessions]

ASSUME AuthAssumption ==
    /\ Root \in Paths
    /\ MaxLosses \in Nat
    /\ None \notin Paths \cup Cookies

VARIABLES
    jar,      \* the browser's cookie
    secret,   \* session_secret: random in each process if it is not configured
    losses,
    at,       \* rest, sent, answered, or idp
    wire,     \* the request of a tab that is sent, the response if answered
    shown,    \* the page a tab at rest shows, None if it shows an error
    asked     \* the page its user asked for, None once something interfered

vars == <<jar, secret, losses, at, wire, shown, asked>>

-----------------------------------------------------------------------------
(* Sessions and cookies.                                                     *)

Empty == [user |-> FALSE, next |-> None, logins |-> {}]
NoCookie == [key |-> 0, session |-> Empty]

\* What a handler finds: a cookie under another secret is no session.
Session(cookie) == IF cookie.key = secret THEN cookie.session ELSE Empty

\* The cookie of a response; None leaves the browser's alone.
Cookie(old, session) ==
    IF session # Empty THEN [key |-> secret, session |-> session]
    ELSE IF Session(old) # Empty THEN NoCookie ELSE None

\* t begins another login: whatever is left of an earlier one matches nothing.
\* (authlib keeps that in the session for an hour: a cookie that grows above the
\* 4 KB a browser takes is not modelled.)
Forget(t, cookie) ==
    IF cookie = None THEN None ELSE [cookie EXCEPT !.session.logins = @ \ {t}]

-----------------------------------------------------------------------------
(* The browser.                                                              *)

Message(to, path, cookie) == [to |-> to, path |-> path, cookie |-> cookie]
Nothing == Message("nothing", None, None)
InFlight(t) == at[t] \in {"sent", "answered"}

Send(t, to, path, cookie) ==
    /\ at' = [at EXCEPT ![t] = "sent"]
    /\ wire' = [wire EXCEPT ![t] = Message(to, path, cookie)]

Rest(t, page) ==
    /\ at' = [at EXCEPT ![t] = "rest"]
    /\ wire' = [wire EXCEPT ![t] = Nothing]
    /\ shown' = [shown EXCEPT ![t] = page]

\* The user asks in t for the page p, which interferes with all other tabs, and
\* a tab that still waits for a response with this one.
Ask(t, p) ==
    asked' = [u \in Tabs |-> IF u = t /\ \A v \in Tabs \ {t} : ~InFlight(v)
                             THEN p ELSE None]

Disturb(tabs) == asked' = [t \in Tabs |-> IF t \in tabs THEN None ELSE asked[t]]

Init ==
    /\ jar = NoCookie /\ secret = 1 /\ losses = 0
    /\ at = [t \in Tabs |-> "rest"]
    /\ wire = [t \in Tabs |-> Nothing]
    /\ shown = [t \in Tabs |-> None]
    /\ asked = [t \in Tabs |-> None]

\* Also in a tab that waits at the IdP.
OpenPage(t, p) ==
    /\ ~InFlight(t)
    /\ Send(t, "page", p, jar)
    /\ Ask(t, p)
    /\ shown' = [shown EXCEPT ![t] = None]
    /\ UNCHANGED <<jar, secret, losses>>

\* The logout button of a page; what follows is the home page.
PressLogout(t) ==
    /\ at[t] = "rest" /\ shown[t] # None
    /\ losses < MaxLosses
    /\ losses' = losses + 1
    /\ Send(t, "logout", Root, jar)
    /\ Ask(t, Root)
    /\ shown' = [shown EXCEPT ![t] = None]
    /\ UNCHANGED <<jar, secret>>

\* The IdP sends the browser back, with a code or with an error.
Approve(t) ==
    /\ at[t] = "idp"
    /\ Send(t, "callback", None, jar)
    /\ Disturb(Tabs \ {t})
    /\ UNCHANGED <<jar, secret, losses, shown>>

Deny(t) ==
    /\ at[t] = "idp"
    /\ Send(t, "denied", None, jar)
    /\ Disturb(Tabs)
    /\ UNCHANGED <<jar, secret, losses, shown>>

\* A response comes in: its cookie replaces the browser's, and its redirect is
\* followed with it.
Receive(t) ==
    LET r == wire[t]
        cookie == IF r.cookie = None THEN jar ELSE r.cookie
    IN  /\ at[t] = "answered"
        /\ jar' = cookie
        /\ \/ r.to \in {"shown", "error"} /\ Rest(t, r.path)
           \/ /\ r.to = "idp"
              /\ at' = [at EXCEPT ![t] = "idp"]
              /\ wire' = [wire EXCEPT ![t] = Nothing]
              /\ UNCHANGED shown
           \/ /\ r.to \in {"page", "login"}
              /\ Send(t, r.to, r.path, cookie)
              /\ UNCHANGED shown
        /\ UNCHANGED <<secret, losses, asked>>

-----------------------------------------------------------------------------
(* The server.                                                               *)

Asks(t, to) == at[t] = "sent" /\ wire[t].to = to

Reply(t, to, path, session) ==
    /\ at' = [at EXCEPT ![t] = "answered"]
    /\ wire' = [wire EXCEPT ![t] = Message(to, path, Cookie(@.cookie, session))]
    /\ UNCHANGED <<jar, secret, losses, shown>>

\* AuthMiddleware: the page, or a redirect to the login that names it.
Page(t) ==
    LET s == Session(wire[t].cookie)
    IN  /\ Asks(t, "page")
        /\ Reply(t, IF s.user THEN "shown" ELSE "login", wire[t].path, s)
        /\ UNCHANGED asked

\* The page that was named, or the default of request.query_params.get and
\* session.pop.
OrRoot(path) == IF path = None THEN Root ELSE path

\* _login: one `next` for the browser, and the login for authorize_redirect.
BeginLogin(t, next) ==
    LET s == Session(Forget(t, wire[t].cookie))
    IN  /\ Asks(t, "login")
        /\ at' = [at EXCEPT ![t] = "answered"]
        /\ wire' = [u \in Tabs |->
               IF u # t THEN [wire[u] EXCEPT !.cookie = Forget(t, @)]
               ELSE Message("idp", None, Cookie(wire[t].cookie,
                                [s EXCEPT !.next = next, !.logins = @ \cup {t}]))]
        /\ jar' = Forget(t, jar)
        /\ UNCHANGED <<secret, losses, shown, asked>>

\* Mutation: a `next` that is already there is kept.
LoginKeepsNext(t) ==
    LET next == Session(wire[t].cookie).next
    IN  BeginLogin(t, IF next = None THEN OrRoot(wire[t].path) ELSE next)

Login(t) == BeginLogin(t, OrRoot(wire[t].path))

Matches(t) == Asks(t, "callback") /\ t \in Session(wire[t].cookie).logins

LoggedIn(t) ==
    [user |-> TRUE, next |-> None, logins |-> Session(wire[t].cookie).logins \ {t}]

\* Mutation: session.pop("next") without a default.
CallbackNoDefault(t) ==
    /\ Matches(t)
    /\ Reply(t, "page", Session(wire[t].cookie).next, LoggedIn(t))
    /\ UNCHANGED asked

\* Mutation: the session is cleared when the login is over.
CallbackClears(t) ==
    /\ Matches(t)
    /\ Reply(t, "page", OrRoot(Session(wire[t].cookie).next), Empty)
    /\ UNCHANGED asked

\* _callback: the code is exchanged for a token, the page asked for follows.
Callback(t) ==
    /\ Matches(t)
    /\ Reply(t, "page", OrRoot(Session(wire[t].cookie).next), LoggedIn(t))
    /\ UNCHANGED asked

\* MismatchingStateError, or OAuthError for the IdP's error: another login, for
\* no page.
Restarted(t) ==
    /\ \/ Asks(t, "denied")
       \/ Asks(t, "callback") /\ ~Matches(t)
    /\ Reply(t, "login", None, Session(wire[t].cookie))
    /\ UNCHANGED asked

\* OAuthError for a code that is refused: authlib has dropped the login.
CodeRefused(t) ==
    /\ Matches(t)
    /\ Reply(t, "login", None, [Session(wire[t].cookie) EXCEPT !.logins = @ \ {t}])
    /\ Disturb({t})

\* _logout; the IdP's end_session_endpoint, if it has one, leads to / as well.
Logout(t) ==
    /\ Asks(t, "logout")
    /\ Reply(t, "page", Root, Empty)
    /\ UNCHANGED asked

\* The IdP cannot be reached: an error page, which sets no cookie.
IdpDown(t) ==
    /\ Asks(t, "login") \/ Matches(t)
    /\ at' = [at EXCEPT ![t] = "answered"]
    /\ wire' = [wire EXCEPT ![t] = Message("error", None, None)]
    /\ UNCHANGED <<jar, secret, losses, shown, asked>>

\* The cookie expires.
Expire ==
    /\ losses < MaxLosses
    /\ losses' = losses + 1
    /\ jar' = NoCookie
    /\ Disturb(Tabs)
    /\ UNCHANGED <<secret, at, wire, shown>>

\* Another process, with another secret if SESSION_SECRET_KEY is not set; the
\* requests it has not answered fail.
Restart ==
    /\ losses < MaxLosses
    /\ losses' = losses + 1
    /\ secret' \in {secret, secret + 1}
    /\ at' = [t \in Tabs |-> IF at[t] = "sent" THEN "rest" ELSE at[t]]
    /\ wire' = [t \in Tabs |-> IF at[t] = "sent" THEN Nothing ELSE wire[t]]
    /\ Disturb(Tabs)
    /\ UNCHANGED <<jar, shown>>

Serve(t) == Page(t) \/ Login(t) \/ Restarted(t) \/ Logout(t)

Next ==
    \/ \E t \in Tabs :
          \/ \E p \in Paths : OpenPage(t, p)
          \/ PressLogout(t) \/ Approve(t) \/ Deny(t) \/ Receive(t)
          \/ Serve(t) \/ Callback(t) \/ CodeRefused(t) \/ IdpDown(t)
    \/ Expire \/ Restart

Spec == Init /\ [][Next]_vars

\* Requests are served and answers come in; a user who is asked again and again
\* logs in some day, and the IdP accepts one of the codes.
LiveSpec ==
    /\ Spec
    /\ \A t \in Tabs :
          /\ WF_vars(Serve(t)) /\ WF_vars(Receive(t))
          /\ SF_vars(Approve(t)) /\ SF_vars(Callback(t))

-----------------------------------------------------------------------------
Requests ==
    [to : {"page", "logout"}, path : Paths, cookie : Cookies]
        \cup [to : {"login"}, path : Paths \cup {None}, cookie : Cookies]
        \cup [to : {"callback", "denied"}, path : {None}, cookie : Cookies]

Responses ==
    [to : {"shown", "page"}, path : Paths, cookie : Cookies \cup {None}]
        \cup [to : {"login"}, path : Paths \cup {None}, cookie : Cookies \cup {None}]
        \cup [to : {"idp", "error"}, path : {None}, cookie : Cookies \cup {None}]

\* Types; a page that is fetched, shown or led to has an address, the callback's
\* included.
TypeOK ==
    /\ jar \in Cookies
    /\ losses \in 0..MaxLosses /\ secret \in 1..(losses + 1)
    /\ at \in [Tabs -> {"rest", "sent", "answered", "idp"}]
    /\ shown \in [Tabs -> Paths \cup {None}]
    /\ asked \in [Tabs -> Paths \cup {None}]
    /\ wire \in [Tabs -> Requests \cup Responses \cup {Nothing}]
    /\ \A t \in Tabs :
          /\ at[t] = "sent" => wire[t] \in Requests
          /\ at[t] = "answered" => wire[t] \in Responses
          /\ at[t] \in {"rest", "idp"} => wire[t] = Nothing

\* "Original path preserved so login can bounce back" (tests/test_auth.py): a
\* tab shows the page its user asked for, whatever logins were left half done
\* before, unless another tab, a denied login or the loss of the session came
\* between.
LandsWhereAsked ==
    \A t \in Tabs : at[t] = "rest" /\ shown[t] # None /\ asked[t] # None =>
                       shown[t] = asked[t]

\* A tab ends with a page or an error page and is not sent round for ever, if
\* two tabs do not go on talking to the server at the same moment (each may then
\* overwrite the login of the other one).
Overlap == \E t, u \in Tabs : t # u /\ InFlight(t) /\ InFlight(u)
EveryTabArrives ==
    <>[]~Overlap => \A t \in Tabs : at[t] # "rest" ~> at[t] = "rest"
=============================================================================
