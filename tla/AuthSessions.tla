---------------------------- MODULE AuthSessions ----------------------------
(***************************************************************************)
(* Signing in and staying signed in (backend/auth, the web client's        *)
(* api/client.js, App.jsx and AuthVerify.jsx).  The tabs of one browser    *)
(* share one cookie jar and work for one user.  The cookie is a refresh    *)
(* token that every use replaces; the access token lives in the memory of  *)
(* a tab.  A request reads the database, then commits what it makes of     *)
(* what it read, then is answered, and the three are far enough apart for  *)
(* the requests of other tabs to come between.                             *)
(***************************************************************************)
EXTENDS Integers

CONSTANTS
    Tab,            \* the tabs of the browser
    Watched,        \* the tabs whose progress is checked: one is enough, they differ in their name only
    Link,           \* the sign-in links ever asked for
    Slot,           \* the sign-in requests that may be in progress together
    None,
    LastTry,        \* the tries after the first that tryRefresh makes: 2 in the code
    MaxTokens,      \* bound: refresh tokens ever issued
    MaxCalls,       \* bound: the API calls of a tab that wait for a new access token
    MaxOpens,       \* bound: pages ever opened or reloaded by the user
    Losses          \* requests and answers may be lost

ASSUME AuthAssumption ==
    /\ None \notin Tab \cup Link /\ Watched \subseteq Tab
    /\ LastTry \in Nat /\ MaxTokens \in Nat /\ MaxCalls \in Nat /\ MaxOpens \in Nat
    /\ Losses \in BOOLEAN

LinkState == {"unsent", "fresh", "used", "expired"}
Token == 0..MaxTokens               \* 0: no token, and of a row, that there is no row

\* a sessions row is known by the token it was created with
SessionRow == [token : Token, lapsed : BOOLEAN]
NoRow == [token |-> 0, lapsed |-> FALSE]

Page == {"closed", "loading", "verify", "app", "login"}
TabState == [page : Page, access : {"none", "live", "dead"},
             link : Link \cup {None}, tries : 0..LastTry]
Closed == [page |-> "closed", access |-> "none", link |-> None, tries |-> 0]

\* tab: the tab that waits for the answer, or None when its page is gone;
\* row: the row the request has read; result and cookie: its answer
Request == [pc : {"free", "sent", "read", "answered"},
            kind : {"refresh", "verify", "logout"}, tab : Tab \cup {None},
            cookie : Token, link : Link \cup {None}, row : Token,
            result : {"ok", "401", "error"}]
Free == [pc |-> "free", kind |-> "refresh", tab |-> None, cookie |-> 0, link |-> None,
         row |-> 0, result |-> "ok"]

NoCalls == [stale |-> 0, waiting |-> 0]

VARIABLES
    link,       \* magic_link_tokens
    row,        \* sessions
    issued,     \* refresh tokens issued so far
    jar,        \* the cookie of the browser
    tab,        \* its pages
    call,       \* of a page's calls, those on their way with an expired token, and those that wait
    request,    \* the sign-in requests in progress
    opens,      \* pages opened so far
    signIns,    \* of each link, the sessions it created
    raced,      \* two sign-in requests were in progress together, or an answer was lost
    out         \* the user has signed out, and no page has sent a link since

vars == <<link, row, issued, jar, tab, call, request, opens, signIns, raced, out>>
client == <<jar, tab, call, opens, out>>
server == <<link, row, issued, signIns>>

TypeOK ==
    /\ link \in [Link -> LinkState]
    /\ row \in [1..MaxTokens -> SessionRow]
    /\ issued \in Token /\ jar \in Token
    /\ tab \in [Tab -> TabState]
    /\ call \in [Tab -> [stale : 0..MaxCalls, waiting : 0..MaxCalls]]
    /\ request \in [Slot -> Request]
    /\ opens \in 0..MaxOpens
    /\ signIns \in [Link -> Token]
    /\ raced \in BOOLEAN /\ out \in BOOLEAN

\* the browser has no cookie yet, or it comes back with that of a session a link has created
Init ==
    /\ jar \in {0, 1} \cap Token
    /\ issued = jar
    /\ row = [i \in 1..MaxTokens |-> IF i = jar THEN [token |-> i, lapsed |-> FALSE] ELSE NoRow]
    /\ link = [l \in Link |-> IF jar = 1 THEN "used" ELSE "unsent"]
    /\ signIns = [l \in Link |-> jar]
    /\ tab = [t \in Tab |-> Closed]
    /\ call = [t \in Tab |-> NoCalls]
    /\ request = [q \in Slot |-> Free]
    /\ opens = 0
    /\ raced = FALSE /\ out = FALSE

-----------------------------------------------------------------------------
(* The server *)

RowsOf(token) == {i \in 1..MaxTokens : token # 0 /\ row[i].token = token}

\* the row that the cookie of a request names
RowRead(q) == CHOOSE i \in RowsOf(request[q].cookie) : TRUE

Answer(q, result, cookie) ==
    request' = [request EXCEPT ![q] = [Free EXCEPT !.pc = "answered", !.result = result, !.cookie = cookie,
                                                   !.kind = request[q].kind, !.tab = request[q].tab]]

\* request_magic_link, from any device; the row is committed, then the link is mailed
RequestLink(l) ==
    /\ link[l] = "unsent"
    /\ link' = [link EXCEPT ![l] = "fresh"]
    /\ UNCHANGED <<row, issued, signIns, client, request, raced>>

\* faulty variant: a link that was used is accepted again
AcceptsUsed(l) == link[l] \in {"fresh", "used"}

\* verify_magic_link accepts a link that is neither used nor expired
Accepts(l) == link[l] = "fresh"

ReadVerify(q) ==
    /\ request[q].pc = "sent" /\ request[q].kind = "verify"
    /\ IF Accepts(request[q].link)
       THEN request' = [request EXCEPT ![q].pc = "read"]
       ELSE Answer(q, "401", 0)
    /\ UNCHANGED <<server, client, raced>>

\* a request or commit that fails changes nothing; so does one past the bound on tokens
CommitFails(q) ==
    /\ \/ request[q].pc = "read" /\ issued = MaxTokens
       \/ request[q].pc \in {"sent", "read"} /\ Losses
    /\ Answer(q, "error", 0)
    /\ UNCHANGED <<server, client, raced>>

\* ... and in one commit marks it used and creates the session
CommitVerify(q) ==
    /\ request[q].pc = "read" /\ request[q].kind = "verify" /\ issued < MaxTokens
    /\ link' = [link EXCEPT ![request[q].link] = "used"]
    /\ issued' = issued + 1
    /\ row' = [row EXCEPT ![issued + 1] = [token |-> issued + 1, lapsed |-> FALSE]]
    /\ signIns' = [signIns EXCEPT ![request[q].link] = @ + 1]
    /\ Answer(q, "ok", issued + 1)
    /\ UNCHANGED <<client, raced>>

\* rotate_refresh_token: a cookie that names a session, an active user
ReadRefresh(q) ==
    /\ request[q].pc = "sent" /\ request[q].kind = "refresh"
    /\ IF \E i \in RowsOf(request[q].cookie) : ~row[i].lapsed
       THEN request' = [request EXCEPT ![q] = [@ EXCEPT
                !.pc = "read", !.row = RowRead(q)]]
       ELSE Answer(q, "401", 0)
    /\ UNCHANGED <<server, client, raced>>

\* faulty variant: the answer carries the token that was just replaced
RotatedBack(q) == request[q].cookie

\* the new token is both stored and answered
Rotated(q) == issued + 1

\* faulty variant: the session is written back when it has gone
RowWasRead(q) == TRUE

\* an UPDATE of a row that has gone is an error
RowStands(q) == row[request[q].row].token # 0

\* ... and it replaces the token of the row it has read, whatever that is by now
CommitRefresh(q) ==
    /\ request[q].pc = "read" /\ request[q].kind = "refresh" /\ issued < MaxTokens
    /\ IF RowStands(q)
       THEN /\ issued' = issued + 1
            /\ row' = [row EXCEPT ![request[q].row] = [token |-> issued + 1, lapsed |-> FALSE]]
            /\ Answer(q, "ok", Rotated(q))
       ELSE Answer(q, "error", 0) /\ UNCHANGED <<issued, row>>
    /\ UNCHANGED <<link, signIns, client, raced>>

\* invalidate_session; the cookie is deleted by the answer
ReadLogout(q) ==
    /\ request[q].pc = "sent" /\ request[q].kind = "logout"
    /\ IF RowsOf(request[q].cookie) # {}
       THEN request' = [request EXCEPT ![q] = [@ EXCEPT
                !.pc = "read", !.row = RowRead(q)]]
       ELSE Answer(q, "ok", 0)
    /\ UNCHANGED <<server, client, raced>>

CommitLogout(q) ==
    /\ request[q].pc = "read" /\ request[q].kind = "logout"
    /\ row' = [row EXCEPT ![request[q].row] = NoRow]
    /\ Answer(q, "ok", 0)
    /\ UNCHANGED <<link, issued, signIns, client, raced>>

\* fifteen minutes for a link; ninety days for a session, when the requests of before are long
\* over and the access tokens dead; a user who is made inactive is refused
\* in the same places, with links and sessions that both count as lapsed
Elapse ==
    /\ \/ \E l \in Link : /\ link[l] = "fresh"
                          /\ link' = [link EXCEPT ![l] = "expired"]
                          /\ UNCHANGED row
       \/ \E i \in 1..MaxTokens : /\ row[i].token # 0 /\ ~row[i].lapsed
                                  /\ \A q \in Slot : request[q].pc = "free"
                                  /\ \A t \in Tab : tab[t].access # "live" /\ call[t] = NoCalls
                                  /\ row' = [row EXCEPT ![i].lapsed = TRUE]
                                  /\ UNCHANGED link
    /\ UNCHANGED <<issued, signIns, client, request, raced>>

-----------------------------------------------------------------------------
(* The browser *)

Pending(t) == {q \in Slot : request[q].pc # "free" /\ request[q].tab = t}

Orphaned(t) == [q \in Slot |-> IF q \in Pending(t) THEN [request[q] EXCEPT !.tab = None] ELSE request[q]]

\* a request leaves a tab with the cookie of that moment; reqs: the others by then
Send(t, kind, l, reqs) ==
    LET free == {q \in Slot : reqs[q].pc = "free"} IN
    /\ free # {}
    /\ request' = [reqs EXCEPT ![CHOOSE q \in free : TRUE] =
            [Free EXCEPT !.pc = "sent", !.kind = kind, !.tab = t, !.cookie = jar, !.link = l]]
    /\ raced' = (raced \/ free # Slot)

Loading(l) == [Closed EXCEPT !.page = "loading", !.link = l]

\* a page is opened or reloaded, perhaps by a sign-in link: App first tries to refresh
Open(t, l) ==
    /\ opens < MaxOpens
    /\ l # None => link[l] # "unsent"
    /\ Send(t, "refresh", None, Orphaned(t))
    /\ tab' = [tab EXCEPT ![t] = Loading(l)]
    /\ call' = [call EXCEPT ![t] = NoCalls]
    /\ opens' = opens + 1
    /\ UNCHANGED <<server, jar, out>>

\* AuthVerify, once App has tried the cookie
SendVerify(t) ==
    /\ tab[t].page = "verify" /\ Pending(t) = {}
    /\ Send(t, "verify", tab[t].link, request)
    /\ out' = FALSE
    /\ UNCHANGED <<server, jar, tab, call, opens>>

\* Settings, handleLogout
SignOut(t) ==
    /\ tab[t].page = "app" /\ Pending(t) = {}
    /\ Send(t, "logout", None, request)
    /\ UNCHANGED <<server, client>>

\* an answer from a page that is gone still sets the cookie; a failed one never does, the
\* exception that is raised drops the header that would have deleted it
JarAfter(r) == IF r.result = "ok" THEN r.cookie ELSE jar

\* a page keeps what it asks for, and after what failed nothing
Signed(t) == [tab[t] EXCEPT !.page = "app", !.access = "live", !.link = None, !.tries = 0]
Refused(t) == [Closed EXCEPT !.page = IF tab[t].link # None THEN "verify" ELSE "login", !.link = tab[t].link]

\* faulty variant: only the call that sent the refresh goes on
WakeFirst(t) == [call[t] EXCEPT !.waiting = IF @ > 0 THEN @ - 1 ELSE 0]

\* every call that waits for the refresh retries with the new token
Wake(t) == [call[t] EXCEPT !.waiting = 0]

TriesLeft(t) == tab[t].tries < LastTry

\* faulty variant: tries are not counted
SameTry(t) == tab[t].tries

NextTry(t) == tab[t].tries + 1

\* the mount's refresh: again on a passing error, else whatever it has come to
DeliverMount(t, q) ==
    /\ request[q].pc = "answered" /\ q \in Pending(t)
    /\ request[q].kind = "refresh" /\ tab[t].page = "loading"
    /\ jar' = JarAfter(request[q])
    /\ IF request[q].result = "error" /\ TriesLeft(t)
       THEN /\ Send(t, "refresh", None, [request EXCEPT ![q] = Free])
            /\ tab' = [tab EXCEPT ![t].tries = NextTry(t)]
       ELSE /\ tab' = [tab EXCEPT ![t] =
                IF request[q].result = "ok" /\ @.link = None THEN Signed(t)
                ELSE IF request[q].result = "ok" THEN [@ EXCEPT !.page = "verify", !.access = "live", !.tries = 0]
                ELSE Refused(t)]
            /\ request' = [request EXCEPT ![q] = Free]
            /\ UNCHANGED raced
    /\ UNCHANGED <<server, call, opens, out>>

DeliverVerify(t, q) ==
    /\ request[q].pc = "answered" /\ q \in Pending(t) /\ request[q].kind = "verify"
    /\ jar' = JarAfter(request[q])
    /\ tab' = [tab EXCEPT ![t] = IF request[q].result = "ok" THEN Signed(t)
                                 ELSE [@ EXCEPT !.page = "login", !.link = None]]
    /\ request' = [request EXCEPT ![q] = Free]
    /\ UNCHANGED <<server, call, opens, raced, out>>

\* faulty variant: signing out leaves the cookie
JarKept(r) == jar

JarAfterLogout(r) == IF r.result = "ok" THEN 0 ELSE jar

\* whatever came of the request, the page forgets the user
DeliverLogout(t, q) ==
    /\ request[q].pc = "answered" /\ q \in Pending(t) /\ request[q].kind = "logout"
    /\ jar' = JarAfterLogout(request[q])
    /\ tab' = [tab EXCEPT ![t] = [Closed EXCEPT !.page = "login"]]
    /\ out' = (out \/ request[q].result = "ok")
    /\ request' = [request EXCEPT ![q] = Free]
    /\ UNCHANGED <<server, call, opens, raced>>

\* the interceptor's refresh: all who wait retry, and a login page with a token leaves for the
\* app; or the page is loaded again for the login
DeliverShared(t, q) ==
    /\ request[q].pc = "answered" /\ q \in Pending(t)
    /\ request[q].kind = "refresh" /\ tab[t].page \in {"app", "login"}
    /\ jar' = JarAfter(request[q])
    /\ IF request[q].result = "ok"
       THEN /\ tab' = [tab EXCEPT ![t] = Signed(t)]
            /\ call' = [call EXCEPT ![t] = Wake(t)]
            /\ request' = [request EXCEPT ![q] = Free]
            /\ UNCHANGED raced
       ELSE /\ tab' = [tab EXCEPT ![t] = Loading(None)]
            /\ call' = [call EXCEPT ![t] = NoCalls]
            /\ Send(t, "refresh", None, [Orphaned(t) EXCEPT ![q] = Free])
    /\ UNCHANGED <<server, opens, out>>

\* the answer to a page that is gone
DeliverNobody(q) ==
    /\ request[q].pc = "answered" /\ request[q].tab = None
    /\ jar' = IF request[q].kind = "logout" THEN JarAfterLogout(request[q]) ELSE JarAfter(request[q])
    /\ request' = [request EXCEPT ![q] = Free]
    /\ UNCHANGED <<server, tab, call, opens, raced, out>>

\* the connection drops and the answer is lost, axios reports an error; a request that is lost
\* before it arrives is one that the server fails
Lose(q) ==
    /\ Losses /\ request[q].pc = "answered" /\ request[q].result # "error"
    /\ Answer(q, "error", 0)
    /\ raced' = TRUE
    /\ UNCHANGED <<server, client>>

-----------------------------------------------------------------------------
(* Calls of the API *)

ExpireAccess(t) ==
    /\ tab[t].access = "live" /\ tab[t].page = "app"
    /\ tab' = [tab EXCEPT ![t].access = "dead"]
    /\ UNCHANGED <<server, jar, call, opens, request, raced, out>>

\* a call whose token is accepted (get_current_user) changes nothing here: these are the others,
\* sent with an expired token or reaching the server after it expired; one that leaves during a
\* refresh is one that left before it and is refused late
CallApi(t) ==
    /\ tab[t].page = "app" /\ tab[t].access = "dead" /\ Pending(t) = {}
    /\ call[t].stale + call[t].waiting < MaxCalls
    /\ call' = [call EXCEPT ![t].stale = @ + 1]
    /\ UNCHANGED <<server, jar, tab, opens, request, raced, out>>

\* refreshPromise: one refresh for all the calls that find their token expired
NoneRefreshing(t) == \A q \in Pending(t) : request[q].kind # "refresh"

Unauthorised(t) ==
    /\ call[t].stale > 0
    /\ call' = [call EXCEPT ![t] = [stale |-> @.stale - 1, waiting |-> @.waiting + 1]]
    /\ IF NoneRefreshing(t) THEN Send(t, "refresh", None, request)
       ELSE UNCHANGED <<request, raced>>
    /\ UNCHANGED <<server, jar, tab, opens, out>>

Server(q) ==
    \/ ReadVerify(q) \/ CommitVerify(q) \/ ReadRefresh(q) \/ CommitRefresh(q)
    \/ ReadLogout(q) \/ CommitLogout(q) \/ CommitFails(q)

Delivery(q) ==
    \/ DeliverNobody(q)
    \/ \E t \in Tab : \/ DeliverMount(t, q) \/ DeliverVerify(t, q)
                      \/ DeliverLogout(t, q) \/ DeliverShared(t, q)

Next ==
    \/ \E q \in Slot : Server(q) \/ Delivery(q) \/ Lose(q)
    \/ \E l \in Link : RequestLink(l)
    \/ Elapse
    \/ \E t \in Tab :
        \/ SendVerify(t) \/ SignOut(t) \/ ExpireAccess(t) \/ CallApi(t) \/ Unauthorised(t)
        \/ \E l \in Link \cup {None} : Open(t, l)

Spec == Init /\ [][Next]_vars

\* the server answers what it is sent, and the tabs handle what they are answered
Fairness ==
    /\ \A q \in Slot : WF_vars(Server(q)) /\ WF_vars(Delivery(q))
    /\ \A t \in Tab : WF_vars(SendVerify(t)) /\ WF_vars(Unauthorised(t))

FairSpec == Spec /\ Fairness

-----------------------------------------------------------------------------
(* Properties *)

(* Between its requests the browser holds no token of a session that is gone (rotate_refresh_token,      *)
(* invalidate_session), unless two requests have met or an answer was lost: those can strand it.         *)
CookieNamesSession ==
    (\A q \in Slot : request[q].pc = "free") /\ jar # 0 => raced \/ RowsOf(jar) # {}

(* A sign-in link creates one session (verify_magic_link), unless two requests for it met.               *)
LinkSignsInOnce == \A l \in Link : signIns[l] > 1 => raced

(* A session ends for good: a refresh that has read it before it was signed out does not bring it back   *)
(* (rotate_refresh_token), and the browser that signed out keeps no cookie, unless a refresh met it.     *)
SignedOutForGood ==
    /\ [](out => raced \/ jar = 0)
    /\ [][\A i \in 1..issued : row[i].token = 0 => row'[i].token = 0]_vars

(* Every wait of the client ends, though answers are lost and a page refreshes once for all its calls:   *)
(* no page stays on its loading screen or on the verification of a link (App.jsx, AuthVerify.jsx), and   *)
(* no call waits for a new token for ever, however many find theirs expired (api/client.js).             *)
EveryWaitEnds ==
    \A t \in Watched :
        /\ tab[t].page \in {"loading", "verify"} ~> tab[t].page \in {"app", "login"}
        /\ call[t] # NoCalls ~> call[t] = NoCalls
=============================================================================
