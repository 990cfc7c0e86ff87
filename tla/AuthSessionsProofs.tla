------------------------- MODULE AuthSessionsProofs -------------------------
(***************************************************************************)
(* Signing in and out for any number of tabs, links and requests, with or  *)
(* without losses.  As long as requests come one at a time, the cookie of  *)
(* the browser, the one that a request carries and the row it has read     *)
(* name the same session; that is what the induction carries from the      *)
(* sending of a request to the delivery of its answer.                     *)
(***************************************************************************)
EXTENDS AuthSessions, TLAPS

Active(q) == request[q].pc # "free"
Stands(token) == token = 0 \/ RowsOf(token) # {}

\* The pages: one that verifies has a link, and what waits is counted.
PageInv ==
    /\ tab \in [Tab -> TabState]
    /\ call \in [Tab -> [stale : 0..MaxCalls, waiting : 0..MaxCalls]]
    /\ opens \in 0..MaxOpens
    /\ \A t \in Tab : tab[t].page = "verify" => tab[t].link # None
    /\ \A t \in Tab : call[t].stale + call[t].waiting <= MaxCalls

WireTyped ==
    /\ link \in [Link -> LinkState]
    /\ row \in [1..MaxTokens -> SessionRow]
    /\ issued \in Token /\ jar \in Token
    /\ request \in [Slot -> Request]
    /\ signIns \in [Link -> Token]
    /\ raced \in BOOLEAN /\ out \in BOOLEAN

\* A request to verify carries its link.
LinksCarried ==
    \A q \in Slot : request[q].kind = "verify" /\ request[q].pc \in {"sent", "read"} =>
        request[q].link # None

\* Sessions are created with the tokens that were issued.
WithinIssued ==
    /\ \A l \in Link : signIns[l] <= issued
    /\ \A i \in 1..MaxTokens : row[i].token # 0 => i <= issued

\* A refresh or a sign-out that has read the database has read a row.
RowsRead ==
    \A q \in Slot : request[q].pc = "read" /\ request[q].kind # "verify" =>
        request[q].row \in 1..MaxTokens

\* Requests that never met come one at a time.
Alone == ~raced => \A p, q \in Slot : Active(p) /\ Active(q) => p = q

\* A link that has signed somebody in is spent, and one that is accepted is not.
LinksSpent ==
    /\ \A l \in Link : signIns[l] > 0 => link[l] = "used"
    /\ \A l \in Link : signIns[l] > 1 => raced
    /\ \A q \in Slot : ~raced /\ request[q].pc = "read" /\ request[q].kind = "verify" =>
           signIns[request[q].link] = 0

\* The cookie names a session, the request under way carries it and has read that
\* session, and an answer carries the cookie that names it from now on.
CookiesAgree ==
    ~raced =>
        /\ (\A q \in Slot : request[q].pc # "answered") => Stands(jar)
        /\ \A q \in Slot : request[q].pc \in {"sent", "read"} => request[q].cookie = jar
        /\ \A q \in Slot : request[q].pc = "read" /\ request[q].kind # "verify" =>
               row[request[q].row].token = jar /\ jar # 0
        /\ \A q \in Slot : request[q].pc = "answered" =>
               IF request[q].result = "ok" THEN request[q].kind = "logout" \/ Stands(request[q].cookie)
                                           ELSE Stands(jar)

\* After the sign-out no request carries a session, and no answer brings one.
StaysOut ==
    ~raced /\ out =>
        /\ jar = 0
        /\ \A q \in Slot : Active(q) =>
               /\ request[q].kind # "verify" /\ request[q].pc # "read"
               /\ request[q].pc = "answered" /\ request[q].result = "ok" =>
                      request[q].kind = "logout" \/ request[q].cookie = 0

WireInv ==
    /\ WireTyped /\ LinksCarried /\ WithinIssued /\ RowsRead
    /\ Alone /\ LinksSpent /\ CookiesAgree /\ StaysOut

USE AuthAssumption

LEMMA FreeRequest == Free \in Request /\ Free.pc = "free"
    BY DEF Free, Request, Token

\* The request that an answer makes of one.
LEMMA AnswerTyped ==
    ASSUME WireTyped, NEW q \in Slot, NEW result \in {"ok", "401", "error"}, NEW cookie \in Token,
           Answer(q, result, cookie)
    PROVE  /\ request' \in [Slot -> Request]
           /\ request'[q].pc = "answered" /\ request'[q].kind = request[q].kind
           /\ request'[q].result = result /\ request'[q].cookie = cookie
           /\ \A p \in Slot \ {q} : request'[p] = request[p]
<1> DEFINE r == [Free EXCEPT !.pc = "answered", !.result = result, !.cookie = cookie,
                             !.kind = request[q].kind, !.tab = request[q].tab]
<1>1. request[q].kind \in {"refresh", "verify", "logout"} /\ request[q].tab \in Tab \cup {None}
    BY DEF WireTyped, Request
<1>2. r \in Request /\ r.pc = "answered" /\ r.kind = request[q].kind
      /\ r.result = result /\ r.cookie = cookie
    BY <1>1, FreeRequest DEF Request
<1>3. r \in Request
    BY <1>2
<1>4. request' = [request EXCEPT ![q] = r]
    BY DEF Answer
<1> HIDE DEF r
<1>5. QED
    BY <1>2, <1>3, <1>4 DEF WireTyped

\* A request that has read a row is otherwise as it was.
LEMMA ReadTyped ==
    ASSUME WireTyped, NEW q \in Slot, NEW i \in Token,
           request' = [request EXCEPT ![q] = [@ EXCEPT !.pc = "read", !.row = i]]
    PROVE  /\ request' \in [Slot -> Request]
           /\ request'[q].pc = "read" /\ request'[q].row = i
           /\ request'[q].kind = request[q].kind /\ request'[q].cookie = request[q].cookie
           /\ request'[q].link = request[q].link
           /\ \A p \in Slot \ {q} : request'[p] = request[p]
<1> DEFINE r == [request[q] EXCEPT !.pc = "read", !.row = i]
<1>0. request[q] \in Request
    BY DEF WireTyped
<1>1. r \in Request /\ r.pc = "read" /\ r.row = i /\ r.kind = request[q].kind
      /\ r.cookie = request[q].cookie /\ r.link = request[q].link
    BY <1>0 DEF Request
<1>2. request' = [request EXCEPT ![q] = r]
    OBVIOUS
<1> HIDE DEF r
<1>3. QED
    BY <1>1, <1>2 DEF WireTyped

\* What a page sends, and when it makes requests meet.
LEMMA SendTyped ==
    ASSUME WireTyped, NEW t \in Tab, NEW kind \in {"refresh", "verify", "logout"},
           NEW l \in Link \cup {None}, NEW reqs \in [Slot -> Request], Send(t, kind, l, reqs)
    PROVE  /\ request' \in [Slot -> Request] /\ raced' \in BOOLEAN
           /\ \E q \in Slot : /\ request'[q].pc = "sent" /\ request'[q].kind = kind
                              /\ request'[q].cookie = jar /\ request'[q].link = l
                              /\ \A p \in Slot \ {q} : request'[p] = reqs[p]
           /\ ~raced' => ~raced /\ \A p \in Slot : reqs[p].pc = "free"
<1>1. PICK q \in Slot : request' = [reqs EXCEPT ![q] =
            [Free EXCEPT !.pc = "sent", !.kind = kind, !.tab = t, !.cookie = jar, !.link = l]]
    BY DEF Send
<1> DEFINE r == [Free EXCEPT !.pc = "sent", !.kind = kind, !.tab = t, !.cookie = jar, !.link = l]
<1>2. jar \in Token
    BY DEF WireTyped
<1>3. r \in Request /\ r.pc = "sent" /\ r.kind = kind /\ r.cookie = jar /\ r.link = l
    BY <1>2, FreeRequest DEF Request
<1>4. request' = [reqs EXCEPT ![q] = r]
    BY <1>1
<1> HIDE DEF r
<1>6. /\ request' \in [Slot -> Request]
      /\ request'[q] = r /\ \A p \in Slot \ {q} : request'[p] = reqs[p]
    BY <1>3, <1>4
<1>7. raced' = (raced \/ {p \in Slot : reqs[p].pc = "free"} # Slot)
    BY DEF Send
<1>8. raced' \in BOOLEAN /\ (~raced' => ~raced /\ \A p \in Slot : reqs[p].pc = "free")
    BY <1>7 DEF WireTyped
<1>9. QED
    BY <1>3, <1>6, <1>8

\* A page that goes leaves its requests to nobody.
LEMMA OrphansTyped ==
    ASSUME WireTyped, NEW t \in Tab
    PROVE  /\ Orphaned(t) \in [Slot -> Request]
           /\ \A q \in Slot : /\ Orphaned(t)[q].pc = request[q].pc
                              /\ Orphaned(t)[q].kind = request[q].kind
                              /\ Orphaned(t)[q].row = request[q].row
                              /\ Orphaned(t)[q].link = request[q].link
<1>1. ASSUME NEW q \in Slot
      PROVE  LET r == [request[q] EXCEPT !.tab = None] IN
             r \in Request /\ r.pc = request[q].pc /\ r.kind = request[q].kind
             /\ r.row = request[q].row /\ r.link = request[q].link
    <2>1. request[q] \in Request
        BY DEF WireTyped
    <2>2. QED
        BY <2>1 DEF Request
<1>2. QED
    BY <1>1 DEF Orphaned, WireTyped

-----------------------------------------------------------------------------
(* What the steps of the server keep *)

\* A refusal, an error, or the sign-out of a session that has gone.
LEMMA AnswerKeeps ==
    ASSUME WireInv, NEW q \in Slot, request[q].pc \in {"sent", "read"},
           NEW result \in {"ok", "401", "error"}, Answer(q, result, 0),
           result = "ok" => request[q].kind = "logout", UNCHANGED <<server, client, raced>>
    PROVE  WireInv'
<1>1. /\ request' \in [Slot -> Request]
      /\ request'[q].pc = "answered" /\ request'[q].kind = request[q].kind
      /\ request'[q].result = result /\ request'[q].cookie = 0
      /\ \A p \in Slot \ {q} : request'[p] = request[p]
    BY AnswerTyped DEF WireInv, Token
<1>2. WireTyped' /\ LinksCarried' /\ WithinIssued' /\ RowsRead'
    BY <1>1 DEF WireInv, WireTyped, LinksCarried, WithinIssued, RowsRead, server, client
<1>3. Alone' /\ LinksSpent'
    BY <1>1 DEF WireInv, Alone, LinksSpent, Active, server, client
<1>4. CookiesAgree'
    <2>1. SUFFICES ASSUME ~raced PROVE CookiesAgree'
        BY DEF CookiesAgree
    <2>2. \A p \in Slot \ {q} : request[p].pc = "free"
        BY <2>1 DEF WireInv, Alone, Active
    <2>3. Stands(jar) /\ request[q].cookie = jar
        BY <2>1, <2>2 DEF WireInv, CookiesAgree
    <2>4. QED
        BY <1>1, <2>1, <2>2, <2>3 DEF CookiesAgree, Stands, RowsOf, server, client
<1>5. StaysOut'
    BY <1>1 DEF WireInv, StaysOut, Active, server, client
<1>6. QED
    BY <1>2, <1>3, <1>4, <1>5 DEF WireInv

\* A request that is accepted: a fresh link, or a cookie that names a session.
LEMMA ReadKeeps ==
    ASSUME WireInv, NEW q \in Slot, request[q].pc = "sent",
           request' \in [Slot -> Request], request'[q].pc = "read",
           request'[q].kind = request[q].kind, request'[q].cookie = request[q].cookie,
           request'[q].link = request[q].link,
           \A p \in Slot \ {q} : request'[p] = request[p],
           request[q].kind = "verify" => link[request[q].link] = "fresh",
           request[q].kind # "verify" =>
               /\ request'[q].row \in 1..MaxTokens
               /\ request[q].cookie # 0 /\ row[request'[q].row].token = request[q].cookie,
           UNCHANGED <<server, client, raced>>
    PROVE  WireInv'
<1>1. WireTyped' /\ LinksCarried' /\ WithinIssued' /\ RowsRead' /\ Alone'
    BY DEF WireInv, WireTyped, LinksCarried, WithinIssued, RowsRead, Alone, Active, server, client
<1>2. LinksSpent'
    <2>1. request[q].kind = "verify" => request[q].link \in Link
        BY DEF WireInv, WireTyped, LinksCarried, Request
    <2>2. ASSUME NEW l \in Link, link[l] = "fresh" PROVE signIns[l] = 0
        <3>1. signIns[l] \in 0..MaxTokens /\ ~(signIns[l] > 0)
            BY <2>2 DEF WireInv, WireTyped, LinksSpent, Token
        <3>2. QED
            BY <3>1
    <2>3. QED
        BY <2>1, <2>2 DEF WireInv, LinksSpent, server
<1>3. CookiesAgree'
    BY DEF WireInv, CookiesAgree, Stands, RowsOf, server, client
<1>4. StaysOut'
    BY DEF WireInv, StaysOut, CookiesAgree, Active, server, client
<1>5. QED
    BY <1>1, <1>2, <1>3, <1>4 DEF WireInv

LEMMA CommitVerifyKeeps ==
    ASSUME WireInv, NEW q \in Slot, CommitVerify(q)
    PROVE  WireInv'
<1>0. PICK l \in Link : l = request[q].link
    BY DEF CommitVerify, WireInv, WireTyped, LinksCarried, Request
<1>1. /\ request[q].pc = "read" /\ request[q].kind = "verify" /\ issued < MaxTokens
      /\ link' = [link EXCEPT ![l] = "used"] /\ issued' = issued + 1
      /\ row' = [row EXCEPT ![issued + 1] = [token |-> issued + 1, lapsed |-> FALSE]]
      /\ signIns' = [signIns EXCEPT ![l] = @ + 1]
      /\ jar' = jar /\ out' = out /\ raced' = raced
      /\ issued \in Token /\ issued + 1 \in Token
    BY <1>0 DEF CommitVerify, client, WireInv, WireTyped, Token
<1>2. /\ request' \in [Slot -> Request]
      /\ request'[q].pc = "answered" /\ request'[q].kind = "verify"
      /\ request'[q].result = "ok" /\ request'[q].cookie = issued + 1
      /\ \A p \in Slot \ {q} : request'[p] = request[p]
    BY <1>1, AnswerTyped DEF CommitVerify, WireInv
<1>3. WireTyped' /\ WithinIssued'
    BY <1>1, <1>2 DEF WireInv, WireTyped, WithinIssued, SessionRow, LinkState, Token
<1>4. LinksCarried' /\ RowsRead' /\ Alone'
    BY <1>1, <1>2 DEF WireInv, LinksCarried, RowsRead, Alone, Active
<1>5. ~raced => /\ signIns[l] = 0
                /\ \A p \in Slot \ {q} : request[p].pc = "free"
    BY <1>0, <1>1 DEF WireInv, Alone, LinksSpent, Active
<1>6. LinksSpent'
    BY <1>1, <1>2, <1>5 DEF WireInv, WireTyped, LinksSpent, Token
<1>7. CookiesAgree'
    <2>1. issued + 1 \in 1..MaxTokens /\ row'[issued + 1].token = issued + 1
        BY <1>1 DEF WireInv, WireTyped, Token
    <2>2. QED
        BY <1>1, <1>2, <1>5, <2>1 DEF CookiesAgree, Stands, RowsOf
<1>8. StaysOut'
    BY <1>1 DEF WireInv, StaysOut, Active
<1>9. QED
    BY <1>3, <1>4, <1>6, <1>7, <1>8 DEF WireInv

LEMMA CommitRefreshKeeps ==
    ASSUME WireInv, NEW q \in Slot, CommitRefresh(q)
    PROVE  WireInv'
<1>1. CASE ~RowStands(q)
    BY <1>1, AnswerKeeps DEF CommitRefresh, server
<1>2. CASE RowStands(q)
    <2>0. PICK i \in 1..MaxTokens : i = request[q].row
        BY DEF CommitRefresh, WireInv, RowsRead
    <2>1. /\ request[q].pc = "read" /\ request[q].kind = "refresh"
          /\ row[i].token # 0 /\ issued' = issued + 1
          /\ row' = [row EXCEPT ![i] = [token |-> issued + 1, lapsed |-> FALSE]]
          /\ Answer(q, "ok", issued + 1)
          /\ link' = link /\ signIns' = signIns /\ jar' = jar /\ out' = out /\ raced' = raced
          /\ issued \in Token /\ issued + 1 \in Token
        BY <1>2, <2>0
        DEF CommitRefresh, RowStands, Rotated, client, WireInv, WireTyped, Token
    <2>2. /\ request' \in [Slot -> Request]
          /\ request'[q].pc = "answered" /\ request'[q].kind = "refresh"
          /\ request'[q].result = "ok" /\ request'[q].cookie = issued + 1
          /\ \A p \in Slot \ {q} : request'[p] = request[p]
        BY <2>1, AnswerTyped DEF WireInv
    <2>3. WireTyped' /\ WithinIssued'
        BY <2>1, <2>2 DEF WireInv, WireTyped, WithinIssued, SessionRow, Token
    <2>4. LinksCarried' /\ RowsRead' /\ Alone' /\ LinksSpent'
        BY <2>1, <2>2 DEF WireInv, LinksCarried, RowsRead, Alone, LinksSpent, Active
    <2>5. CookiesAgree'
        <3>1. ~raced => \A p \in Slot \ {q} : request[p].pc = "free"
            BY <2>1 DEF WireInv, Alone, Active
        <3>2. row'[i].token = issued + 1
            BY <2>1 DEF WireInv, WireTyped
        <3>3. QED
            BY <2>1, <2>2, <3>1, <3>2 DEF CookiesAgree, Stands, RowsOf
    <2>6. StaysOut'
        BY <2>1 DEF WireInv, StaysOut, Active
    <2>7. QED
        BY <2>3, <2>4, <2>5, <2>6 DEF WireInv
<1>3. QED
    BY <1>1, <1>2

LEMMA CommitLogoutKeeps ==
    ASSUME WireInv, NEW q \in Slot, CommitLogout(q)
    PROVE  WireInv'
<1>0. PICK i \in 1..MaxTokens : i = request[q].row
    BY DEF CommitLogout, WireInv, RowsRead
<1>1. /\ request[q].pc = "read" /\ request[q].kind = "logout"
      /\ row' = [row EXCEPT ![i] = NoRow] /\ Answer(q, "ok", 0)
      /\ link' = link /\ issued' = issued /\ signIns' = signIns
      /\ jar' = jar /\ out' = out /\ raced' = raced
    BY <1>0 DEF CommitLogout, client
<1>2. /\ request' \in [Slot -> Request]
      /\ request'[q].pc = "answered" /\ request'[q].kind = "logout"
      /\ request'[q].result = "ok" /\ request'[q].cookie = 0
      /\ \A p \in Slot \ {q} : request'[p] = request[p]
    BY <1>1, AnswerTyped DEF WireInv, Token
<1>3. WireTyped' /\ WithinIssued'
    BY <1>1, <1>2 DEF WireInv, WireTyped, WithinIssued, SessionRow, NoRow, Token
<1>4. LinksCarried' /\ RowsRead' /\ Alone' /\ LinksSpent'
    BY <1>1, <1>2 DEF WireInv, LinksCarried, RowsRead, Alone, LinksSpent, Active
<1>5. CookiesAgree'
    <2>1. ~raced => \A p \in Slot \ {q} : request[p].pc = "free"
        BY <1>1 DEF WireInv, Alone, Active
    <2>2. QED
        BY <1>1, <1>2, <2>1 DEF CookiesAgree
<1>6. StaysOut'
    BY <1>1, <1>2 DEF WireInv, StaysOut, Active
<1>7. QED
    BY <1>3, <1>4, <1>5, <1>6 DEF WireInv

\* A row that a cookie names is found.
LEMMA RowIsRead ==
    ASSUME NEW q \in Slot, RowsOf(request[q].cookie) # {}
    PROVE  /\ RowRead(q) \in 1..MaxTokens
           /\ request[q].cookie # 0 /\ row[RowRead(q)].token = request[q].cookie
    BY DEF RowRead, RowsOf

LEMMA ServerKeeps ==
    ASSUME WireInv, NEW q \in Slot, Server(q) \/ Lose(q)
    PROVE  WireInv'
<1>1. CASE ReadVerify(q)
    <2>1. CASE Accepts(request[q].link)
        <3>1. request[q] \in Request /\ request' = [request EXCEPT ![q].pc = "read"]
            BY <1>1, <2>1 DEF ReadVerify, WireInv, WireTyped
        <3>2. LET r == [request[q] EXCEPT !.pc = "read"] IN
              /\ r \in Request /\ r.pc = "read" /\ r.kind = request[q].kind
              /\ r.cookie = request[q].cookie /\ r.link = request[q].link
            BY <3>1 DEF Request
        <3>3. /\ request' \in [Slot -> Request]
              /\ request'[q].pc = "read" /\ request'[q].kind = request[q].kind
              /\ request'[q].cookie = request[q].cookie /\ request'[q].link = request[q].link
              /\ \A p \in Slot \ {q} : request'[p] = request[p]
            BY <3>1, <3>2 DEF WireInv, WireTyped
        <3>4. QED
            BY <1>1, <2>1, <3>3, ReadKeeps DEF ReadVerify, Accepts
    <2>2. CASE ~Accepts(request[q].link)
        BY <1>1, <2>2, AnswerKeeps DEF ReadVerify
    <2>3. QED
        BY <2>1, <2>2
<1>2. ASSUME request[q].pc = "sent", request[q].kind # "verify", UNCHANGED <<server, client, raced>>,
             RowsOf(request[q].cookie) # {},
             request' = [request EXCEPT ![q] = [@ EXCEPT !.pc = "read", !.row = RowRead(q)]]
      PROVE  WireInv'
    <2>1. PICK i \in Token : i = RowRead(q)
        BY <1>2, RowIsRead DEF Token
    <2>2. request' = [request EXCEPT ![q] = [@ EXCEPT !.pc = "read", !.row = i]]
        BY <1>2, <2>1
    <2>3. /\ request' \in [Slot -> Request]
          /\ request'[q].pc = "read" /\ request'[q].row = i
          /\ request'[q].kind = request[q].kind /\ request'[q].cookie = request[q].cookie
          /\ request'[q].link = request[q].link
          /\ \A p \in Slot \ {q} : request'[p] = request[p]
        BY <2>2, ReadTyped DEF WireInv
    <2>4. QED
        BY <1>2, <2>1, <2>3, RowIsRead, ReadKeeps
<1>3. CASE ReadRefresh(q)
    <2>1. CASE \E i \in RowsOf(request[q].cookie) : ~row[i].lapsed
        BY <1>2, <1>3, <2>1 DEF ReadRefresh
    <2>2. CASE ~\E i \in RowsOf(request[q].cookie) : ~row[i].lapsed
        BY <1>3, <2>2, AnswerKeeps DEF ReadRefresh
    <2>3. QED
        BY <2>1, <2>2
<1>4. CASE ReadLogout(q)
    <2>1. CASE RowsOf(request[q].cookie) # {}
        BY <1>2, <1>4, <2>1 DEF ReadLogout
    <2>2. CASE RowsOf(request[q].cookie) = {}
        BY <1>4, <2>2, AnswerKeeps DEF ReadLogout
    <2>3. QED
        BY <2>1, <2>2
<1>5. CASE CommitFails(q)
    BY <1>5, AnswerKeeps DEF CommitFails
<1>6. CASE Lose(q)
    <2>1. /\ request' \in [Slot -> Request] /\ request'[q].pc = "answered"
          /\ \A p \in Slot \ {q} : request'[p] = request[p]
        BY <1>6, AnswerTyped DEF Lose, WireInv, Token
    <2>2. raced' = TRUE /\ UNCHANGED <<server, client>>
        BY <1>6 DEF Lose
    <2>3. QED
        BY <2>1, <2>2
        DEF WireInv, WireTyped, LinksCarried, WithinIssued, RowsRead, Alone, LinksSpent,
            CookiesAgree, StaysOut, server, client
<1>7. QED
    BY <1>1, <1>3, <1>4, <1>5, <1>6, CommitVerifyKeeps, CommitRefreshKeeps, CommitLogoutKeeps
    DEF Server

\* Links are asked for, and links and sessions lapse, beside the requests.
LEMMA OutsideKeeps ==
    ASSUME WireInv, Elapse \/ \E l \in Link : RequestLink(l)
    PROVE  WireInv'
<1>1. ASSUME NEW l \in Link, NEW state \in {"fresh", "expired"}, link[l] # "used",
             link' = [link EXCEPT ![l] = state], UNCHANGED <<row, issued, signIns, client, request, raced>>
      PROVE  WireInv'
    <2>1. WireTyped'
        BY <1>1 DEF WireInv, WireTyped, LinkState, client
    <2>2. LinksSpent'
        BY <1>1 DEF WireInv, WireTyped, LinksSpent
    <2>3. QED
        BY <1>1, <2>1, <2>2
        DEF WireInv, LinksCarried, WithinIssued, RowsRead, Alone, Active, CookiesAgree,
            Stands, RowsOf, StaysOut, client
<1>2. ASSUME NEW i \in 1..MaxTokens, row' = [row EXCEPT ![i].lapsed = TRUE],
             UNCHANGED <<link, issued, signIns, client, request, raced>>
      PROVE  WireInv'
    <2>1. row' \in [1..MaxTokens -> SessionRow] /\ \A j \in 1..MaxTokens : row'[j].token = row[j].token
        BY <1>2 DEF WireInv, WireTyped, SessionRow
    <2>2. \A token \in Token : RowsOf(token)' = RowsOf(token)
        BY <2>1 DEF RowsOf
    <2>3. WireTyped' /\ LinksCarried' /\ WithinIssued' /\ RowsRead' /\ Alone' /\ LinksSpent' /\ StaysOut'
        BY <1>2, <2>1
        DEF WireInv, WireTyped, LinksCarried, WithinIssued, RowsRead, Alone, Active, LinksSpent,
            StaysOut, client
    <2>4. CookiesAgree'
        <3>1. \A q \in Slot : request[q].pc = "read" /\ request[q].kind # "verify" =>
                  row'[request[q].row].token = row[request[q].row].token
            BY <2>1 DEF WireInv, RowsRead
        <3>2. \A token : RowsOf(token) # {} => {j \in 1..MaxTokens : token # 0 /\ row'[j].token = token} # {}
            BY <2>1 DEF RowsOf
        <3>3. QED
            BY <1>2, <3>1, <3>2 DEF WireInv, CookiesAgree, Stands, RowsOf, client
    <2>5. QED
        BY <2>3, <2>4 DEF WireInv
<1>3. QED
    BY <1>1, <1>2 DEF Elapse, RequestLink

-----------------------------------------------------------------------------
(* What the steps of the browser keep *)

\* An answer is delivered: the cookie that it leaves names a session, or there is none.
LEMMA DeliveryKeeps ==
    ASSUME WireInv, NEW q \in Slot, request[q].pc = "answered",
           request' = [request EXCEPT ![q] = Free],
           jar' = IF request[q].kind = "logout" THEN JarAfterLogout(request[q]) ELSE JarAfter(request[q]),
           out' \in BOOLEAN, out' => out \/ (request[q].kind = "logout" /\ request[q].result = "ok"),
           UNCHANGED <<server, raced>>
    PROVE  WireInv'
<1>1. /\ request' \in [Slot -> Request]
      /\ request'[q].pc = "free" /\ \A p \in Slot \ {q} : request'[p] = request[p]
    BY FreeRequest DEF WireInv, WireTyped
<1>2. /\ request[q].cookie \in Token
      /\ jar' = IF request[q].result # "ok" THEN jar
                ELSE IF request[q].kind = "logout" THEN 0 ELSE request[q].cookie
    BY DEF JarAfter, JarAfterLogout, WireInv, WireTyped, Request
<1>3. WireTyped' /\ LinksCarried' /\ WithinIssued' /\ RowsRead' /\ Alone' /\ LinksSpent'
    BY <1>1, <1>2
    DEF WireInv, WireTyped, LinksCarried, WithinIssued, RowsRead, Alone, Active, LinksSpent, Token, server
<1>4. ~raced => \A p \in Slot : request'[p].pc = "free"
    BY <1>1 DEF WireInv, Alone, Active
<1>5. CookiesAgree'
    BY <1>2, <1>4 DEF WireInv, CookiesAgree, Stands, RowsOf, server
<1>6. StaysOut'
    BY <1>2, <1>4 DEF WireInv, StaysOut, Active
<1>7. QED
    BY <1>3, <1>5, <1>6 DEF WireInv

\* A request is sent, when a page is opened, verifies, signs out, tries again, or finds its
\* token expired; reqs: the requests of before, without one whose answer failed.
LEMMA SendKeeps ==
    ASSUME WireInv, NEW t \in Tab, NEW kind \in {"refresh", "verify", "logout"},
           NEW l \in Link \cup {None}, kind = "verify" => l # None,
           NEW reqs \in [Slot -> Request], Send(t, kind, l, reqs),
           \A p \in Slot : reqs[p].pc # "free" =>
               /\ reqs[p].pc = request[p].pc /\ reqs[p].kind = request[p].kind
               /\ reqs[p].row = request[p].row /\ reqs[p].link = request[p].link,
           \A p \in Slot : reqs[p].pc = "free" =>
               request[p].pc = "free" \/ (request[p].pc = "answered" /\ request[p].result # "ok"),
           out' \in BOOLEAN, out' => out /\ kind # "verify",
           UNCHANGED <<server, jar>>
    PROVE  WireInv'
<1>1. PICK q \in Slot : /\ request'[q].pc = "sent" /\ request'[q].kind = kind
                        /\ request'[q].cookie = jar /\ request'[q].link = l
                        /\ \A p \in Slot \ {q} : request'[p] = reqs[p]
    BY SendTyped DEF WireInv
<1>2. /\ request' \in [Slot -> Request] /\ raced' \in BOOLEAN
      /\ ~raced' => ~raced /\ \A p \in Slot : reqs[p].pc = "free"
    BY SendTyped DEF WireInv
<1>3. WireTyped' /\ LinksCarried' /\ WithinIssued' /\ RowsRead'
    BY <1>1, <1>2
    DEF WireInv, WireTyped, LinksCarried, WithinIssued, RowsRead, server
<1>4. Alone' /\ LinksSpent'
    BY <1>1, <1>2 DEF WireInv, Alone, Active, LinksSpent, server
<1>5. CookiesAgree'
    <2>1. SUFFICES ASSUME ~raced' PROVE CookiesAgree'
        BY DEF CookiesAgree
    <2>2. \A p \in Slot : request[p].pc = "free" \/ (request[p].pc = "answered" /\ request[p].result # "ok")
        BY <1>2, <2>1
    <2>3. Stands(jar)
        BY <1>2, <2>1, <2>2 DEF WireInv, CookiesAgree
    <2>4. QED
        BY <1>1, <1>2, <2>1, <2>3 DEF CookiesAgree, Stands, RowsOf, server
<1>6. StaysOut'
    BY <1>1, <1>2 DEF WireInv, StaysOut, Active
<1>7. QED
    BY <1>3, <1>4, <1>5, <1>6 DEF WireInv

\* A page changes, and perhaps what its calls do.
LEMMA PageKeeps ==
    ASSUME PageInv, NEW t \in Tab, NEW v \in TabState, v.page = "verify" => v.link # None,
           tab' = [tab EXCEPT ![t] = v],
           NEW c \in [stale : 0..MaxCalls, waiting : 0..MaxCalls], c.stale + c.waiting <= MaxCalls,
           call' = [call EXCEPT ![t] = c], opens' \in 0..MaxOpens
    PROVE  PageInv'
    BY DEF PageInv

LEMMA TabChanges ==
    ASSUME PageInv, NEW t \in Tab, NEW v \in TabState, v.page = "verify" => v.link # None,
           tab' = [tab EXCEPT ![t] = v], UNCHANGED <<call, opens>>
    PROVE  PageInv'
    BY DEF PageInv

LEMMA CallsChange ==
    ASSUME PageInv, NEW t \in Tab, UNCHANGED <<tab, opens>>,
           NEW c \in [stale : 0..MaxCalls, waiting : 0..MaxCalls], c.stale + c.waiting <= MaxCalls,
           call' = [call EXCEPT ![t] = c]
    PROVE  PageInv'
    BY DEF PageInv

\* What a page's fields may hold.
LEMMA FieldValues ==
    /\ "app" \in Page /\ "verify" \in Page /\ "login" \in Page /\ "loading" \in Page
    /\ 0 \in 0..LastTry /\ None \in Link \cup {None}
    BY DEF Page

\* The pages that an answer leads to.
LEMMA PagesTyped ==
    ASSUME PageInv, NEW t \in Tab, NEW l \in Link \cup {None}
    PROVE  /\ tab[t] \in TabState /\ Closed \in TabState
           /\ Loading(l) \in TabState /\ Loading(l).page = "loading"
           /\ Signed(t) \in TabState /\ Signed(t).page = "app"
           /\ Refused(t) \in TabState /\ (Refused(t).page = "verify" => Refused(t).link # None)
           /\ NoCalls \in [stale : 0..MaxCalls, waiting : 0..MaxCalls] /\ NoCalls.stale + NoCalls.waiting <= MaxCalls
<1>1. tab[t] \in TabState
    BY DEF PageInv
<1>2. Closed \in TabState
    BY DEF Closed, TabState, Page
<1>3. Loading(l) \in TabState /\ Loading(l).page = "loading"
    BY <1>2 DEF Loading, TabState, Page
<1>4. Signed(t) \in TabState /\ Signed(t).page = "app"
    <2> DEFINE a == [tab[t] EXCEPT !.page = "app"]
               b == [a EXCEPT !.access = "live"]
               c == [b EXCEPT !.link = None]
    <2>1. a \in TabState /\ a.page = "app"
        BY <1>1, FieldValues DEF TabState
    <2> HIDE DEF a
    <2>2. b \in TabState /\ b.page = "app"
        BY <2>1, FieldValues DEF TabState
    <2> HIDE DEF b
    <2>3. c \in TabState /\ c.page = "app"
        BY <2>2, FieldValues DEF TabState
    <2> HIDE DEF c
    <2>4. [c EXCEPT !.tries = 0] \in TabState /\ [c EXCEPT !.tries = 0].page = "app"
        BY <2>3, FieldValues DEF TabState
    <2>5. Signed(t) = [c EXCEPT !.tries = 0]
        BY DEF Signed, a, b, c
    <2>6. QED
        BY <2>4, <2>5
<1>5. Refused(t) \in TabState /\ (Refused(t).page = "verify" => Refused(t).link # None)
    <2>1. tab[t].link \in Link \cup {None}
        BY <1>1 DEF TabState
    <2>2. PICK page \in {"verify", "login"} : page = IF tab[t].link # None THEN "verify" ELSE "login"
        OBVIOUS
    <2>3. Refused(t) = [Closed EXCEPT !.page = page, !.link = tab[t].link]
        BY <2>2 DEF Refused
    <2>4. QED
        BY <1>2, <2>1, <2>2, <2>3 DEF TabState, Page
<1>6. NoCalls \in [stale : 0..MaxCalls, waiting : 0..MaxCalls] /\ NoCalls.stale + NoCalls.waiting <= MaxCalls
    BY DEF NoCalls
<1>7. QED
    BY <1>1, <1>2, <1>3, <1>4, <1>5, <1>6

LEMMA OpenKeeps ==
    ASSUME PageInv, WireInv, NEW t \in Tab, NEW l \in Link \cup {None}, Open(t, l)
    PROVE  PageInv' /\ WireInv'
<1>1. PageInv'
    <2>1. opens' \in 0..MaxOpens
        BY DEF Open, PageInv
    <2>2. QED
        BY <2>1, PagesTyped, PageKeeps DEF Open
<1>2. WireInv'
    <2>1. None \in Link \cup {None} /\ out' = out /\ out \in BOOLEAN /\ UNCHANGED <<server, jar>>
        BY DEF Open, WireInv, WireTyped
    <2>2. QED
        BY <2>1, OrphansTyped, SendKeeps DEF Open, WireInv
<1>3. QED
    BY <1>1, <1>2

\* AuthVerify, the sign-out, and a call that finds its token expired.
LEMMA AsksKeep ==
    ASSUME PageInv, WireInv, NEW t \in Tab, SendVerify(t) \/ SignOut(t) \/ Unauthorised(t)
    PROVE  PageInv' /\ WireInv'
<1>0. request \in [Slot -> Request] /\ out \in BOOLEAN /\ None \in Link \cup {None}
    BY DEF WireInv, WireTyped
<1>1. CASE SendVerify(t)
    <2>1. tab[t].link \in Link \cup {None} /\ tab[t].link # None
        BY <1>1 DEF SendVerify, PageInv, TabState
    <2>2. WireInv'
        BY <1>0, <1>1, <2>1, SendKeeps DEF SendVerify
    <2>3. QED
        BY <1>1, <2>2 DEF SendVerify, PageInv
<1>2. CASE SignOut(t)
    <2>1. WireInv'
        BY <1>0, <1>2, SendKeeps DEF SignOut, client
    <2>2. QED
        BY <1>2, <2>1 DEF SignOut, client, PageInv
<1>3. CASE Unauthorised(t)
    <2>1. PageInv'
        <3>1. PICK c : c = [stale |-> call[t].stale - 1, waiting |-> call[t].waiting + 1]
            OBVIOUS
        <3>2. /\ call' = [call EXCEPT ![t] = c] /\ UNCHANGED <<tab, opens>>
              /\ call[t].stale \in 0..MaxCalls /\ call[t].waiting \in 0..MaxCalls
              /\ call[t].stale + call[t].waiting <= MaxCalls /\ call[t].stale > 0
            BY <1>3, <3>1 DEF Unauthorised, PageInv
        <3>3. c \in [stale : 0..MaxCalls, waiting : 0..MaxCalls] /\ c.stale + c.waiting <= MaxCalls
            BY <3>1, <3>2
        <3>4. QED
            BY <3>2, <3>3, CallsChange
    <2>2. WireInv'
        <3>1. CASE UNCHANGED <<request, raced>>
            BY <1>3, <3>1
            DEF Unauthorised, WireInv, WireTyped, LinksCarried, WithinIssued, RowsRead, Alone, Active,
                LinksSpent, CookiesAgree, Stands, RowsOf, StaysOut, server
        <3>2. CASE Send(t, "refresh", None, request)
            BY <1>0, <1>3, <3>2, SendKeeps DEF Unauthorised
        <3>3. QED
            BY <1>3, <3>1, <3>2 DEF Unauthorised
    <2>3. QED
        BY <2>1, <2>2
<1>4. QED
    BY <1>1, <1>2, <1>3

\* An answer reaches the page that waits for it, or nobody.
LEMMA DeliverKeeps ==
    ASSUME PageInv, WireInv, NEW q \in Slot, Delivery(q)
    PROVE  PageInv' /\ WireInv'
<1>0. /\ request \in [Slot -> Request] /\ out \in BOOLEAN /\ None \in Link \cup {None}
      /\ [request EXCEPT ![q] = Free] \in [Slot -> Request]
    BY FreeRequest DEF WireInv, WireTyped
<1>1. CASE DeliverNobody(q)
    <2>1. WireInv'
        BY <1>0, <1>1, DeliveryKeeps DEF DeliverNobody
    <2>2. QED
        BY <1>1, <2>1 DEF DeliverNobody, PageInv
<1>2. ASSUME NEW t \in Tab, DeliverMount(t, q) PROVE PageInv' /\ WireInv'
    <2>1. CASE request[q].result = "error" /\ TriesLeft(t)
        <3>1. /\ Send(t, "refresh", None, [request EXCEPT ![q] = Free])
              /\ tab' = [tab EXCEPT ![t].tries = NextTry(t)]
              /\ jar' = jar /\ UNCHANGED <<server, call, opens, out>>
              /\ request[q].pc = "answered"
            BY <1>2, <2>1 DEF DeliverMount, JarAfter
        <3>2. PageInv'
            <4>1. tab[t] \in TabState /\ tab[t].tries + 1 \in 0..LastTry
                BY <2>1 DEF PageInv, TriesLeft, TabState
            <4> DEFINE v == [tab[t] EXCEPT !.tries = tab[t].tries + 1]
            <4>2. v \in TabState /\ v.page = tab[t].page /\ v.link = tab[t].link
                BY <4>1 DEF TabState
            <4>3. tab' = [tab EXCEPT ![t] = v]
                BY <3>1 DEF NextTry
            <4> HIDE DEF v
            <4>4. v.page = "verify" => v.link # None
                BY <4>2 DEF PageInv
            <4>5. QED
                BY <3>1, <4>2, <4>3, <4>4, TabChanges
        <3>3. WireInv'
            BY <1>0, <2>1, <3>1, SendKeeps, FreeRequest
        <3>4. QED
            BY <3>2, <3>3
    <2>2. CASE ~(request[q].result = "error" /\ TriesLeft(t))
        <3>1. PICK v : v = IF request[q].result = "ok" /\ tab[t].link = None THEN Signed(t)
                           ELSE IF request[q].result = "ok"
                                THEN [tab[t] EXCEPT !.page = "verify", !.access = "live", !.tries = 0]
                                ELSE Refused(t)
            OBVIOUS
        <3>2. /\ tab' = [tab EXCEPT ![t] = v] /\ request' = [request EXCEPT ![q] = Free]
              /\ jar' = JarAfter(request[q]) /\ UNCHANGED <<server, call, opens, out, raced>>
              /\ request[q].pc = "answered" /\ request[q].kind = "refresh"
            BY <1>2, <2>2, <3>1 DEF DeliverMount
        <3>3. v \in TabState /\ (v.page = "verify" => v.link # None)
            <4>1. tab[t] \in TabState
                BY PagesTyped, <1>0
            <4> DEFINE a == [tab[t] EXCEPT !.page = "verify"]
                       b == [a EXCEPT !.access = "live"]
                       c == [b EXCEPT !.tries = 0]
            <4>2. a \in TabState /\ a.link = tab[t].link
                BY <4>1, FieldValues DEF TabState
            <4> HIDE DEF a
            <4>3. b \in TabState /\ b.link = tab[t].link
                BY <4>2, FieldValues DEF TabState
            <4> HIDE DEF b
            <4>4. c \in TabState /\ c.link = tab[t].link
                BY <4>3, FieldValues DEF TabState
            <4> HIDE DEF c
            <4>5. c = [tab[t] EXCEPT !.page = "verify", !.access = "live", !.tries = 0]
                BY DEF a, b, c
            <4>6. QED
                BY <1>0, <3>1, <4>4, <4>5, PagesTyped
        <3>4. PageInv'
            BY <3>2, <3>3, TabChanges
        <3>5. WireInv'
            BY <1>0, <3>2, DeliveryKeeps
        <3>6. QED
            BY <3>4, <3>5
    <2>3. QED
        BY <2>1, <2>2
<1>3. ASSUME NEW t \in Tab, DeliverVerify(t, q) PROVE PageInv' /\ WireInv'
    <2>1. PageInv'
        <3>1. PICK v : v = IF request[q].result = "ok" THEN Signed(t)
                           ELSE [tab[t] EXCEPT !.page = "login", !.link = None]
            OBVIOUS
        <3>2. tab' = [tab EXCEPT ![t] = v] /\ UNCHANGED <<call, opens>>
            BY <1>3, <3>1 DEF DeliverVerify
        <3>3. tab[t] \in TabState /\ Signed(t) \in TabState /\ Signed(t).page = "app"
            BY <1>0, PagesTyped
        <3>4. LET w == [tab[t] EXCEPT !.page = "login", !.link = None] IN
              w \in TabState /\ w.page = "login"
            BY <3>3 DEF TabState, Page
        <3>5. QED
            BY <3>1, <3>2, <3>3, <3>4, TabChanges
    <2>2. WireInv'
        BY <1>0, <1>3, DeliveryKeeps DEF DeliverVerify
    <2>3. QED
        BY <2>1, <2>2
<1>4. ASSUME NEW t \in Tab, DeliverLogout(t, q) PROVE PageInv' /\ WireInv'
    <2>1. PageInv'
        <3>1. LET w == [Closed EXCEPT !.page = "login"] IN w \in TabState /\ w.page = "login"
            BY <1>0, PagesTyped DEF TabState, Page
        <3>2. QED
            BY <1>4, <3>1, TabChanges DEF DeliverLogout
    <2>2. WireInv'
        BY <1>0, <1>4, DeliveryKeeps DEF DeliverLogout
    <2>3. QED
        BY <2>1, <2>2
<1>5. ASSUME NEW t \in Tab, DeliverShared(t, q) PROVE PageInv' /\ WireInv'
    <2>1. CASE request[q].result = "ok"
        <3>1. /\ tab' = [tab EXCEPT ![t] = Signed(t)] /\ call' = [call EXCEPT ![t] = Wake(t)]
              /\ request' = [request EXCEPT ![q] = Free] /\ jar' = JarAfter(request[q])
              /\ UNCHANGED <<server, opens, out, raced>>
              /\ request[q].pc = "answered" /\ request[q].kind = "refresh"
            BY <1>5, <2>1 DEF DeliverShared
        <3>2. Wake(t) \in [stale : 0..MaxCalls, waiting : 0..MaxCalls] /\ Wake(t).stale + Wake(t).waiting <= MaxCalls
            <4>1. /\ call[t] \in [stale : 0..MaxCalls, waiting : 0..MaxCalls]
                BY DEF PageInv
            <4>2. Wake(t) = [stale |-> call[t].stale, waiting |-> 0]
                BY <4>1 DEF Wake
            <4>3. QED
                BY <4>1, <4>2
        <3>3. PageInv'
            <4>1. opens' \in 0..MaxOpens
                BY <3>1 DEF PageInv
            <4>2. QED
                BY <1>0, <3>1, <3>2, <4>1, PagesTyped, PageKeeps
        <3>4. WireInv'
            BY <1>0, <3>1, DeliveryKeeps
        <3>5. QED
            BY <3>3, <3>4
    <2>2. CASE request[q].result # "ok"
        <3>1. PICK reqs : reqs = [Orphaned(t) EXCEPT ![q] = Free]
            OBVIOUS
        <3>2. /\ tab' = [tab EXCEPT ![t] = Loading(None)] /\ call' = [call EXCEPT ![t] = NoCalls]
              /\ Send(t, "refresh", None, reqs) /\ jar' = jar
              /\ UNCHANGED <<server, opens, out>> /\ request[q].pc = "answered"
            BY <1>5, <2>2, <3>1 DEF DeliverShared, JarAfter
        <3>3. /\ reqs \in [Slot -> Request] /\ reqs[q].pc = "free"
              /\ \A p \in Slot \ {q} : /\ reqs[p].pc = request[p].pc /\ reqs[p].kind = request[p].kind
                                       /\ reqs[p].row = request[p].row /\ reqs[p].link = request[p].link
            BY <3>1, OrphansTyped, FreeRequest DEF WireInv
        <3>4. PageInv'
            <4>1. opens' \in 0..MaxOpens
                BY <3>2 DEF PageInv
            <4>2. QED
                BY <1>0, <3>2, <4>1, PagesTyped, PageKeeps
        <3>5. WireInv'
            BY <1>0, <2>2, <3>2, <3>3, SendKeeps
        <3>6. QED
            BY <3>4, <3>5
    <2>3. QED
        BY <2>1, <2>2
<1>6. QED
    BY <1>1, <1>2, <1>3, <1>4, <1>5 DEF Delivery

\* A token expires while its page is open, and a call meets that.
LEMMA CallsKeep ==
    ASSUME PageInv, WireInv, NEW t \in Tab, ExpireAccess(t) \/ CallApi(t)
    PROVE  PageInv' /\ WireInv'
<1>1. WireInv'
    BY DEF ExpireAccess, CallApi, WireInv, WireTyped, LinksCarried, WithinIssued, RowsRead, Alone,
           Active, LinksSpent, CookiesAgree, Stands, RowsOf, StaysOut, server
<1>2. CASE ExpireAccess(t)
    <2> DEFINE v == [tab[t] EXCEPT !.access = "dead"]
    <2>1. tab[t] \in TabState /\ tab[t].page = "app"
        BY <1>2 DEF ExpireAccess, PageInv
    <2>2. v \in TabState /\ v.page = "app"
        BY <2>1 DEF TabState
    <2>3. tab' = [tab EXCEPT ![t] = v] /\ UNCHANGED <<call, opens>>
        BY <1>2 DEF ExpireAccess
    <2> HIDE DEF v
    <2>4. QED
        BY <1>1, <2>2, <2>3, TabChanges
<1>3. CASE CallApi(t)
    <2>1. PICK c : c = [stale |-> call[t].stale + 1, waiting |-> call[t].waiting]
        OBVIOUS
    <2>2. /\ call[t] \in [stale : 0..MaxCalls, waiting : 0..MaxCalls]
          /\ call[t].stale + call[t].waiting < MaxCalls
          /\ UNCHANGED <<tab, opens>> /\ call' = [call EXCEPT ![t].stale = @ + 1]
        BY <1>3 DEF CallApi, PageInv
    <2>3. [call[t] EXCEPT !.stale = @ + 1] = c
        BY <2>1, <2>2
    <2>4. call' = [call EXCEPT ![t] = c]
        BY <2>2, <2>3
    <2>5. c \in [stale : 0..MaxCalls, waiting : 0..MaxCalls] /\ c.stale + c.waiting <= MaxCalls
        BY <2>1, <2>2
    <2>6. QED
        BY <1>1, <2>2, <2>4, <2>5, CallsChange
<1>4. QED
    BY <1>2, <1>3

-----------------------------------------------------------------------------
(* The induction and the theorems *)

LEMMA SessionsInit == Init => PageInv /\ WireInv
<1> SUFFICES ASSUME Init PROVE PageInv /\ WireInv
    OBVIOUS
<1>1. PageInv
    <2>1. Closed \in TabState /\ Closed.page = "closed"
        BY DEF Closed, TabState, Page
    <2>2. NoCalls \in [stale : 0..MaxCalls, waiting : 0..MaxCalls] /\ NoCalls.stale + NoCalls.waiting <= MaxCalls
        BY DEF NoCalls
    <2>3. 0 \in 0..MaxOpens
        OBVIOUS
    <2>4. tab \in [Tab -> TabState] /\ \A t \in Tab : tab[t].page = "closed"
        BY <2>1 DEF Init
    <2>5. /\ call \in [Tab -> [stale : 0..MaxCalls, waiting : 0..MaxCalls]]
          /\ \A t \in Tab : call[t].stale + call[t].waiting <= MaxCalls
        BY <2>2 DEF Init
    <2>6. opens \in 0..MaxOpens
        BY <2>3 DEF Init
    <2>7. QED
        BY <2>4, <2>5, <2>6 DEF PageInv
<1>2. WireTyped
    <2>1. jar \in Token /\ issued \in Token /\ signIns \in [Link -> Token]
        BY DEF Init
    <2>2. row \in [1..MaxTokens -> SessionRow]
        BY DEF Init, SessionRow, NoRow, Token
    <2>3. link \in [Link -> LinkState]
        BY DEF Init, LinkState
    <2>4. request \in [Slot -> Request] /\ raced \in BOOLEAN /\ out \in BOOLEAN
        BY FreeRequest DEF Init
    <2>5. QED
        BY <2>1, <2>2, <2>3, <2>4 DEF WireTyped
<1>3. LinksCarried /\ RowsRead /\ Alone /\ StaysOut
    BY FreeRequest DEF Init, LinksCarried, RowsRead, Alone, Active, StaysOut
<1>4. WithinIssued
    BY DEF Init, WithinIssued, NoRow, Token
<1>5. LinksSpent
    BY FreeRequest DEF Init, LinksSpent, Token
<1>6. CookiesAgree
    <2>1. jar = 0 \/ (jar = 1 /\ 1 \in 1..MaxTokens /\ row[1].token = 1)
        BY DEF Init, Token
    <2>2. Stands(jar)
        BY <2>1 DEF Stands, RowsOf
    <2>3. QED
        BY <2>2, FreeRequest DEF Init, CookiesAgree
<1>7. QED
    BY <1>1, <1>2, <1>3, <1>4, <1>5, <1>6 DEF WireInv

LEMMA SessionsStep == PageInv /\ WireInv /\ [Next]_vars => (PageInv /\ WireInv)'
<1> SUFFICES ASSUME PageInv, WireInv, [Next]_vars PROVE PageInv' /\ WireInv'
    OBVIOUS
<1>1. ASSUME NEW q \in Slot, Server(q) \/ Lose(q) PROVE PageInv' /\ WireInv'
    <2>1. UNCHANGED client
        BY <1>1 DEF Server, ReadVerify, CommitVerify, ReadRefresh, CommitRefresh, ReadLogout,
                    CommitLogout, CommitFails, Lose
    <2>2. PageInv'
        BY <2>1 DEF client, PageInv
    <2>3. QED
        BY <1>1, <2>2, ServerKeeps
<1>2. CASE Elapse \/ \E l \in Link : RequestLink(l)
    <2>1. PageInv'
        BY <1>2 DEF Elapse, RequestLink, client, PageInv
    <2>2. QED
        BY <1>2, <2>1, OutsideKeeps
<1>3. CASE UNCHANGED vars
    BY <1>3
    DEF vars, PageInv, WireInv, WireTyped, LinksCarried, WithinIssued, RowsRead, Alone, Active,
        LinksSpent, CookiesAgree, Stands, RowsOf, StaysOut
<1>4. QED
    BY <1>1, <1>2, <1>3, DeliverKeeps, OpenKeeps, AsksKeep, CallsKeep DEF Next

LEMMA SessionsInvariant == Spec => [](PageInv /\ WireInv)
    BY SessionsInit, SessionsStep, PTL DEF Spec

\* The state of the sign-in keeps its type, whoever signs in from however many tabs
\* (auth/service.py, api/client.js).
THEOREM SessionsTyped == Spec => []TypeOK
<1>1. PageInv /\ WireInv => TypeOK
    BY DEF PageInv, WireInv, WireTyped, TypeOK
<1>2. QED
    BY <1>1, SessionsInvariant, PTL

\* A sign-in link creates one session, unless two requests met or an answer was lost
\* (verify_magic_link).  For any number of links, tabs and requests.
THEOREM LinkSignsInOneSession == Spec => []LinkSignsInOnce
<1>1. PageInv /\ WireInv => LinkSignsInOnce
    BY DEF WireInv, LinksSpent, LinkSignsInOnce
<1>2. QED
    BY <1>1, SessionsInvariant, PTL

\* The cookie of an idle browser names a session, unless two requests met or an answer was
\* lost (rotate_refresh_token, invalidate_session).
THEOREM CookieIsCurrent == Spec => []CookieNamesSession
<1>1. PageInv /\ WireInv => CookieNamesSession
    BY DEF WireInv, CookiesAgree, Stands, CookieNamesSession
<1>2. QED
    BY <1>1, SessionsInvariant, PTL

\* No step brings back a session that is gone: what is created is new, and what is rotated
\* is a row that stands.
LEMMA GoneStaysGone ==
    ASSUME WireInv, [Next]_vars, NEW i \in 1..issued, row[i].token = 0
    PROVE  row'[i].token = 0
<1>0. i \in 1..MaxTokens /\ issued + 1 # i
    BY DEF WireInv, WireTyped, Token
<1>1. CASE UNCHANGED row
    BY <1>1
<1>2. ASSUME NEW q \in Slot, CommitVerify(q) PROVE row'[i].token = 0
    BY <1>0, <1>2 DEF CommitVerify, WireInv, WireTyped
<1>3. ASSUME NEW q \in Slot, CommitRefresh(q) PROVE row'[i].token = 0
    <2>1. CASE RowStands(q)
        <3>1. row' = [row EXCEPT ![request[q].row] = [token |-> issued + 1, lapsed |-> FALSE]]
              /\ request[q].row # i
            BY <1>3, <2>1 DEF CommitRefresh, RowStands
        <3>2. QED
            BY <1>0, <3>1 DEF WireInv, WireTyped
    <2>2. CASE ~RowStands(q)
        BY <1>1, <1>3, <2>2 DEF CommitRefresh
    <2>3. QED
        BY <2>1, <2>2
<1>4. ASSUME NEW q \in Slot, CommitLogout(q) PROVE row'[i].token = 0
    BY <1>0, <1>4 DEF CommitLogout, NoRow, WireInv, WireTyped
<1>5. CASE Elapse
    BY <1>0, <1>5 DEF Elapse, WireInv, WireTyped, SessionRow
<1>6. ASSUME NEW q \in Slot, Server(q) PROVE row'[i].token = 0
    <2>1. ASSUME ReadVerify(q) \/ ReadRefresh(q) \/ ReadLogout(q) \/ CommitFails(q) PROVE UNCHANGED row
        BY <2>1 DEF ReadVerify, ReadRefresh, ReadLogout, CommitFails, server
    <2>2. QED
        BY <1>1, <1>2, <1>3, <1>4, <1>6, <2>1 DEF Server
<1>7. ASSUME NEW q \in Slot, Delivery(q) \/ Lose(q) PROVE UNCHANGED row
    <2>1. ASSUME DeliverNobody(q) \/ Lose(q) PROVE UNCHANGED row
        BY <2>1 DEF DeliverNobody, Lose, server
    <2>2. ASSUME NEW t \in Tab, \/ DeliverMount(t, q) \/ DeliverVerify(t, q)
                                \/ DeliverLogout(t, q) \/ DeliverShared(t, q)
          PROVE  UNCHANGED row
        BY <2>2 DEF DeliverMount, DeliverVerify, DeliverLogout, DeliverShared, server
    <2>3. QED
        BY <1>7, <2>1, <2>2 DEF Delivery
<1>8. ASSUME NEW l \in Link, RequestLink(l) PROVE UNCHANGED row
    BY <1>8 DEF RequestLink
<1>9. ASSUME NEW t \in Tab, \/ SendVerify(t) \/ SignOut(t) \/ ExpireAccess(t) \/ CallApi(t)
                            \/ Unauthorised(t) \/ \E l \in Link \cup {None} : Open(t, l)
      PROVE  UNCHANGED row
    BY <1>9 DEF SendVerify, SignOut, ExpireAccess, CallApi, Unauthorised, Open, server
<1>10. CASE UNCHANGED vars
    BY <1>1, <1>10 DEF vars
<1>11. QED
    BY <1>1, <1>5, <1>6, <1>7, <1>8, <1>9, <1>10 DEF Next

\* A session ends for good: a refresh that read it before the sign-out does not bring it
\* back, and the browser that signed out keeps no cookie, unless two requests met or an
\* answer was lost (rotate_refresh_token, handleLogout).
THEOREM SignOutIsFinal == Spec => SignedOutForGood
<1>1. PageInv /\ WireInv => (out => raced \/ jar = 0)
    BY DEF WireInv, StaysOut
<1>2. PageInv /\ WireInv /\ [Next]_vars => [\A i \in 1..issued : row[i].token = 0 => row'[i].token = 0]_vars
    BY GoneStaysGone
<1>3. QED
    BY <1>1, <1>2, SessionsInvariant, PTL DEF Spec, SignedOutForGood
=============================================================================
