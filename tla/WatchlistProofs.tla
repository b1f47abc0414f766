--------------------------- MODULE WatchlistProofs ---------------------------
(* Theorems of the specification Watchlist for every number of pages,       *)
(* symbols and requests, whatever goes wrong however often.                 *)
EXTENDS Watchlist, TLAPS

-----------------------------------------------------------------------------
(* Types *)

Whose == Pages \cup {None}

(* A request to read the list, and one to replace it. *)
Gets ==
    [at : {"get", "list", "refused"}, page : Whose,
     token : Tokens, list : Lists \cup {NoList}, written : {FALSE}]

Posts ==
    [at : Posting, page : Whose, token : Tokens, list : Lists, written : BOOLEAN]

LEMMA RequestKinds == Request = {NoRequest} \cup Gets \cup Posts
BY DEF Request, Gets, Posts, Whose

LEMMA KindOf ==
    ASSUME NEW r \in Request
    PROVE  /\ r.at \in {"get", "list", "refused"} => r \in Gets
           /\ r.at \in Posting => r \in Posts
           /\ r.at \notin Posting \cup {"get", "list", "refused"}
                 => r = NoRequest
<1>1. CASE r = NoRequest
  BY <1>1 DEF NoRequest, Posting
<1>2. CASE r \in Gets
  BY <1>2 DEF Gets, Posting
<1>3. CASE r \in Posts
  BY <1>3 DEF Posts, Posting
<1>. QED BY <1>1, <1>2, <1>3, RequestKinds

LEMMA NoRequestType == NoRequest \in Request
BY DEF NoRequest, Request

LEMMA ForgetType ==
    ASSUME request \in [Requests -> Request], NEW p \in Pages
    PROVE  /\ Forget(p) \in [Requests -> Request]
           /\ \A i \in Requests :
                 /\ Forget(p)[i].page = IF request[i].page = p THEN None
                                        ELSE request[i].page
                 /\ Forget(p)[i].at = request[i].at
                 /\ Forget(p)[i].token = request[i].token
                 /\ Forget(p)[i].list = request[i].list
                 /\ Forget(p)[i].written = request[i].written
<1>1. ASSUME NEW i \in Requests, request[i].page = p
      PROVE  [request[i] EXCEPT !.page = None] \in Request
  <2>1. CASE request[i] = NoRequest
    BY <1>1, <2>1, WatchlistAssumption DEF NoRequest
  <2>2. CASE request[i] \in Gets
    BY <2>2, RequestKinds DEF Gets, Whose
  <2>3. CASE request[i] \in Posts
    BY <2>3, RequestKinds DEF Posts, Whose
  <2>. QED BY <2>1, <2>2, <2>3, RequestKinds
<1>2. ASSUME NEW i \in Requests, request[i].page = p
      PROVE  /\ [request[i] EXCEPT !.page = None].page = None
             /\ [request[i] EXCEPT !.page = None].at = request[i].at
             /\ [request[i] EXCEPT !.page = None].token = request[i].token
             /\ [request[i] EXCEPT !.page = None].list = request[i].list
             /\ [request[i] EXCEPT !.page = None].written = request[i].written
  BY DEF Request, NoRequest
<1>. QED BY <1>1, <1>2 DEF Forget

LEMMA LostType ==
    ASSUME request \in [Requests -> Request], NEW i \in Requests,
           ConnectionLost(i)
    PROVE  /\ request' \in [Requests -> Request]
           /\ request[i].page \in Pages /\ request'[i].page = None
           /\ request[i].at # "free"
           /\ request'[i].at = request[i].at
           /\ request'[i].token = request[i].token
           /\ request'[i].list = request[i].list
           /\ request'[i].written = request[i].written
           /\ \A j \in Requests \ {i} : request'[j] = request[j]
<1>1. request[i].page # None /\ request[i] \in Request
  BY DEF ConnectionLost
<1>2. request[i] \in Gets \/ request[i] \in Posts
  BY <1>1, RequestKinds DEF NoRequest
<1>3. request[i].page \in Pages /\ request[i].at # "free"
  BY <1>1, <1>2 DEF Gets, Posts, Whose, Posting
<1>4. [request[i] EXCEPT !.page = None] \in Request
  <2>1. CASE request[i] \in Gets
    BY <2>1, RequestKinds DEF Gets, Whose
  <2>2. CASE request[i] \in Posts
    BY <2>2, RequestKinds DEF Posts, Whose
  <2>. QED BY <1>2, <2>1, <2>2
<1>5. /\ [request[i] EXCEPT !.page = None].page = None
      /\ [request[i] EXCEPT !.page = None].at = request[i].at
      /\ [request[i] EXCEPT !.page = None].token = request[i].token
      /\ [request[i] EXCEPT !.page = None].list = request[i].list
      /\ [request[i] EXCEPT !.page = None].written = request[i].written
  BY <1>1, <1>2 DEF Gets, Posts
<1>6. request' = [request EXCEPT ![i] = [request[i] EXCEPT !.page = None]]
  BY DEF ConnectionLost
<1>. QED BY <1>3, <1>4, <1>5, <1>6

LEMMA MoveType ==
    ASSUME request \in [Requests -> Request], NEW i \in Requests,
           NEW from, NEW to, At(i, from, to),
           \/ from \in {"get"} /\ to \in {"list", "refused"}
           \/ from \in Posting /\ to \in Posting
    PROVE  /\ request' \in [Requests -> Request]
           /\ request[i].at = from /\ request'[i].at = to
           /\ request'[i].page = request[i].page
           /\ request'[i].token = request[i].token
           /\ request'[i].list = request[i].list
           /\ request'[i].written = request[i].written
           /\ \A j \in Requests \ {i} : request'[j] = request[j]
<1>1. request[i] \in Request /\ request[i].at = from
  BY DEF At
<1>2. [request[i] EXCEPT !.at = to] \in Request
  <2>1. CASE request[i] = NoRequest
    BY <1>1, <2>1 DEF NoRequest, Posting
  <2>2. CASE request[i] \in Gets
    BY <1>1, <2>2, RequestKinds DEF Gets, Posting
  <2>3. CASE request[i] \in Posts
    BY <1>1, <2>3, RequestKinds DEF Posts, Posting
  <2>. QED BY <1>1, <2>1, <2>2, <2>3, RequestKinds
<1>3. request[i] # NoRequest
  BY <1>1 DEF NoRequest, Posting
<1>4. request' = [request EXCEPT ![i] = [request[i] EXCEPT !.at = to]]
  BY DEF At
<1>5. /\ [request[i] EXCEPT !.at = to].at = to
      /\ [request[i] EXCEPT !.at = to].page = request[i].page
      /\ [request[i] EXCEPT !.at = to].token = request[i].token
      /\ [request[i] EXCEPT !.at = to].list = request[i].list
      /\ [request[i] EXCEPT !.at = to].written = request[i].written
  BY <1>1, <1>3 DEF Request
<1>. QED BY <1>1, <1>2, <1>4, <1>5

LEMMA AnsweredType ==
    ASSUME request \in [Requests -> Request], NEW i \in Requests, Answered(i)
    PROVE  /\ request' \in [Requests -> Request]
           /\ request'[i] = NoRequest
           /\ \A j \in Requests \ {i} : request'[j] = request[j]
BY NoRequestType DEF Answered

LEMMA NewType ==
    ASSUME request \in [Requests -> Request], NEW i \in Requests, NEW r \in Request,
           request' = [request EXCEPT ![i] = r]
    PROVE  /\ request' \in [Requests -> Request]
           /\ request'[i] = r
           /\ \A j \in Requests \ {i} : request'[j] = request[j]
OBVIOUS

LEMMA ShowDashboardType ==
    ASSUME TypeOK, NEW p \in Pages, NEW i \in Requests, NEW tok \in Tokens,
           ShowDashboard(p, i, tok)
    PROVE  /\ request' \in [Requests -> Request]
           /\ request'[i] = [at |-> "get", page |-> p, token |-> tok,
                             list |-> NoList, written |-> FALSE]
           /\ \A j \in Requests \ {i} : request'[j] = Forget(p)[j]
<1>1. Forget(p) \in [Requests -> Request]
  BY ForgetType DEF TypeOK
<1>2. [at |-> "get", page |-> p, token |-> tok, list |-> NoList,
       written |-> FALSE] \in Request
  BY DEF Request
<1>. QED BY <1>1, <1>2 DEF ShowDashboard

LEMMA AskType ==
    ASSUME TypeOK, NEW p \in Pages, NEW i \in Requests, NEW list \in Lists,
           Ask(i, "select", p, list)
    PROVE  /\ request' \in [Requests -> Request]
           /\ request'[i] = [at |-> "select", page |-> p, token |-> token[p],
                             list |-> list, written |-> FALSE]
           /\ \A j \in Requests \ {i} : request'[j] = request[j]
<1>1. token[p] \in Tokens
  BY WatchlistAssumption DEF TypeOK, Tokens
<1>2. [at |-> "select", page |-> p, token |-> token[p], list |-> list,
       written |-> FALSE] \in Request
  BY <1>1 DEF Request, Posting
<1>. QED BY <1>2 DEF Ask, TypeOK

LEMMA GetType ==
    ASSUME TypeOK, NEW i \in Requests, GetByChatID(i)
    PROVE  /\ request' \in [Requests -> Request]
           /\ request'[i].at = "list" /\ request'[i].list = Stored
           /\ request'[i].page = request[i].page
           /\ request'[i].token = request[i].token
           /\ request'[i].written = request[i].written
           /\ \A j \in Requests \ {i} : request'[j] = request[j]
<1>1. request[i] \in Gets
  BY KindOf DEF TypeOK, GetByChatID
<1>2. Stored \in Lists
  BY DEF TypeOK, Stored, Lists
<1>3. [request[i] EXCEPT !.at = "list", !.list = Stored] \in Gets
  BY <1>1, <1>2 DEF Gets
<1>4. request' = [request EXCEPT ![i] =
                     [request[i] EXCEPT !.at = "list", !.list = Stored]]
  BY DEF GetByChatID
<1>. QED BY <1>1, <1>3, <1>4, RequestKinds DEF TypeOK, Gets

LEMMA WriteType ==
    ASSUME TypeOK, NEW i \in Requests, request[i].at \in Posting, NEW list,
           Write(i, list)
    PROVE  /\ request' \in [Requests -> Request]
           /\ request'[i].at = "ok" /\ request'[i].written = TRUE
           /\ request'[i].page = request[i].page
           /\ request'[i].token = request[i].token
           /\ request'[i].list = request[i].list
           /\ request[i].list \in Lists
           /\ \A j \in Requests \ {i} : request'[j] = request[j]
<1>1. request[i] \in Posts
  BY KindOf DEF TypeOK
<1>2. [request[i] EXCEPT !.at = "ok", !.written = TRUE] \in Posts
  BY <1>1 DEF Posts, Posting
<1>3. request' = [request EXCEPT ![i] =
                     [request[i] EXCEPT !.at = "ok", !.written = TRUE]]
  BY DEF Write
<1>. QED BY <1>1, <1>2, <1>3, RequestKinds DEF TypeOK, Posts

LEMMA SymbolsOfType ==
    ASSUME TypeOK, NEW i \in Requests, request[i].at = "list"
    PROVE  SymbolsOf(request[i].list) \in Lists
<1>1. request[i] \in Gets
  BY KindOf DEF TypeOK
<1>2. request[i].list \in Lists \cup {NoList}
  BY <1>1 DEF Gets
<1>. QED BY <1>2 DEF SymbolsOf, Lists

(* A request that a page still waits for was sent with the token of the page, *)
(* which shows the dashboard; a refused one had an expired token.             *)
RequestInv ==
    \A i \in Requests :
        /\ request[i].page # None =>
              /\ view[request[i].page] = "dashboard"
              /\ request[i].token = token[request[i].page]
        /\ request[i].at = "refused" => request[i].token <= expired

(* A page that waits for its login has a token. With one page in use, the     *)
(* dashboard has the token that is saved.                                     *)
SessionInv ==
    /\ \A p \in Pages : view[p] = "entering" => token[p] # 0
    /\ ~shared =>
          /\ \A p, q \in Pages :
                view[p] # "closed" /\ view[q] # "closed" => p = q
          /\ \A p \in open : token[p] = saved

(* Without a DELETE the row that was found stays.                             *)
StoredInv ==
    deletes = 0 =>
        \A i \in Requests :
            /\ request[i].at = "update" => row # NoList
            /\ request[i].at = "ok" => request[i].written

LEMMA TypeStep ==
    ASSUME TypeOK, RequestInv, [Next]_vars
    PROVE  TypeOK'
<1>1. ASSUME NEW p \in Pages, ShowLogin(p)
      PROVE  TypeOK'
  <2>1. request' \in [Requests -> Request]
    BY <1>1, ForgetType DEF ShowLogin, Leave, TypeOK
  <2>. QED BY <1>1, <2>1, WatchlistAssumption
           DEF ShowLogin, Leave, TypeOK, login, page, history, Tokens, open
<1>2. ASSUME NEW p \in Pages, TelegramAuth(p)
      PROVE  TypeOK'
  BY <1>2, WatchlistAssumption
     DEF TelegramAuth, TypeOK, login, page, history, Tokens, open
<1>3. ASSUME NEW p \in Pages, LoginLost(p)
      PROVE  TypeOK'
  <2>1. request' \in [Requests -> Request]
    BY <1>3, ForgetType DEF LoginLost, Leave, TypeOK
  <2>. QED BY <1>3, <2>1, WatchlistAssumption
           DEF LoginLost, Leave, Fault, TypeOK, login, page, history, Tokens,
               open
<1>4. ASSUME NEW p \in Pages, Close(p)
      PROVE  TypeOK'
  <2>1. request' \in [Requests -> Request]
    BY <1>4, ForgetType DEF Close, Leave, TypeOK
  <2>. QED BY <1>4, <2>1, WatchlistAssumption
           DEF Close, Leave, TypeOK, login, page, history, Tokens, open
<1>5. ASSUME NEW p \in Pages, NEW i \in Requests, Open(p, i)
      PROVE  TypeOK'
  <2>1. saved \in Tokens
    BY WatchlistAssumption DEF TypeOK, Tokens
  <2>2. request' \in [Requests -> Request]
    BY <1>5, <2>1, ShowDashboardType DEF Open
  <2>. QED BY <1>5, <2>2, WatchlistAssumption
           DEF Open, ShowDashboard, TypeOK, login, page, history, Tokens, open,
               Lists
<1>6. ASSUME NEW p \in Pages, NEW i \in Requests, LoggedIn(p, i)
      PROVE  TypeOK'
  <2>1. token[p] \in Tokens /\ token[p] \in 0..issued
    BY WatchlistAssumption DEF TypeOK, Tokens
  <2>2. request' \in [Requests -> Request]
    BY <1>6, <2>1, ShowDashboardType DEF LoggedIn
  <2>. QED BY <1>6, <2>1, <2>2, WatchlistAssumption
           DEF LoggedIn, ShowDashboard, TypeOK, login, page, history, Tokens,
               open, Lists
<1>7. ASSUME NEW p \in Pages, NEW i \in Requests, NEW s \in Symbols, Add(p, i, s)
      PROVE  TypeOK'
  <2>1. symbols[p] \cup {s} \in Lists /\ symbols'[p] = symbols[p] \cup {s}
    BY <1>7 DEF Add, TypeOK, Lists
  <2>2. request' \in [Requests -> Request]
    BY <1>7, <2>1, AskType DEF Add, Posted
  <2>3. symbols' \in [Pages -> Lists]
    BY <1>7, <2>1 DEF Add, TypeOK
  <2>4. raced' \in BOOLEAN /\ removed' \in Lists
    BY <1>7 DEF Add, TypeOK, Orderly, Lists
  <2>. QED BY <1>7, <2>2, <2>3, <2>4
           DEF Add, TypeOK, login, page, history, Tokens, open
<1>8. ASSUME NEW p \in Pages, NEW i \in Requests, NEW s \in Symbols, Remove(p, i, s)
      PROVE  TypeOK'
  <2>1. symbols[p] \ {s} \in Lists /\ symbols'[p] = symbols[p] \ {s}
    BY <1>8 DEF Remove, TypeOK, Lists
  <2>2. request' \in [Requests -> Request]
    BY <1>8, <2>1, AskType DEF Remove, Posted
  <2>3. symbols' \in [Pages -> Lists]
    BY <1>8, <2>1 DEF Remove, TypeOK
  <2>4. raced' \in BOOLEAN /\ removed' \in Lists
    BY <1>8 DEF Remove, TypeOK, Orderly, Lists
  <2>. QED BY <1>8, <2>2, <2>3, <2>4
           DEF Remove, TypeOK, login, page, history, Tokens, open
<1>9. ASSUME NEW i \in Requests, Fetched(i)
      PROVE  TypeOK'
  <2>1. SymbolsOf(request[i].list) \in Lists /\ request' \in [Requests -> Request]
    BY <1>9, SymbolsOfType, AnsweredType DEF Fetched, TypeOK
  <2>2. request[i].page \in Pages \cup {None}
    BY <1>9, KindOf DEF Fetched, TypeOK, Gets, Whose
  <2>3. CASE request[i].page = None
    BY <1>9, <2>1, <2>3 DEF Fetched, TypeOK, login, page, history, Tokens, open
  <2>4. CASE request[i].page # None
    <3>1. loaded' \subseteq open'
      BY <1>9, <2>4, <2>2
         DEF Fetched, TypeOK, login, page, history, Tokens, open, RequestInv
    <3>. QED BY <1>9, <2>1, <2>2, <2>4, <3>1
             DEF Fetched, TypeOK, login, page, history, Tokens, open
  <2>. QED BY <2>3, <2>4
<1>10. ASSUME NEW i \in Requests, ConnectionLost(i)
      PROVE  TypeOK'
  <2>1. request' \in [Requests -> Request] /\ request[i].page \in Pages
    BY <1>10, LostType DEF TypeOK
  <2>2. synced' \in [Pages -> {"nothing", "success", "error"}]
    BY <1>10, <2>1 DEF ConnectionLost, TypeOK
  <2>3. faults' \in 0..MaxFaults
    BY <1>10, WatchlistAssumption DEF ConnectionLost, Fault, TypeOK
  <2>. QED BY <1>10, <2>1, <2>2, <2>3
           DEF ConnectionLost, TypeOK, login, history, open
<1>11. ASSUME NEW i \in Requests, Logout(i)
      PROVE  TypeOK'
  <2>1. request[i].page \in Pages \cup {None}
    <3>1. request[i].at = "refused" /\ request[i] \in Request
      BY <1>11 DEF Logout, TypeOK
    <3>. QED BY <3>1, KindOf DEF Gets, Whose
  <2>2. CASE request[i].page = None
    <3>1. request' \in [Requests -> Request]
      BY <1>11, <2>2, AnsweredType DEF Logout, TypeOK
    <3>. QED BY <1>11, <2>2, <3>1
             DEF Logout, TypeOK, login, page, history, Tokens, open
  <2>3. CASE request[i].page # None
    <3>1. request' \in [Requests -> Request]
      BY SMTT(20), <1>11, <2>1, <2>3, ForgetType, NoRequestType
         DEF Logout, TypeOK
    <3>. QED BY <1>11, <2>1, <2>3, <3>1
             DEF Logout, TypeOK, login, page, history, Tokens, open
  <2>. QED BY <2>2, <2>3
<1>12. ASSUME NEW i \in Requests, SyncedOk(i)
      PROVE  TypeOK'
  <2>1. request' \in [Requests -> Request]
    BY <1>12, AnsweredType DEF SyncedOk, TypeOK
  <2>2. request[i].page \in Pages \cup {None}
    BY <1>12, KindOf DEF SyncedOk, TypeOK, Posts, Whose, Posting
  <2>. QED BY <1>12, <2>1, <2>2
           DEF SyncedOk, TypeOK, login, page, history, Tokens, open
<1>13. ASSUME NEW i \in Requests, SyncFailed(i)
      PROVE  TypeOK'
  <2>1. request' \in [Requests -> Request]
    BY <1>13, AnsweredType DEF SyncFailed, TypeOK
  <2>2. request[i].page \in Pages \cup {None}
    BY <1>13, KindOf DEF SyncFailed, TypeOK, Posts, Whose, Posting
  <2>. QED BY <1>13, <2>1, <2>2
           DEF SyncFailed, TypeOK, login, page, history, Tokens, open
<1>14. ASSUME NEW i \in Requests, GetByChatID(i)
      PROVE  TypeOK'
  <2>1. request' \in [Requests -> Request]
    BY <1>14, GetType
  <2>. QED BY <1>14, <2>1, WatchlistAssumption
           DEF GetByChatID, TypeOK, login, page, history, Tokens, open
<1>15. ASSUME NEW i \in Requests, GetFails(i)
      PROVE  TypeOK'
  <2>1. request' \in [Requests -> Request]
    BY <1>15, MoveType DEF GetFails, TypeOK
  <2>. QED BY <1>15, <2>1, WatchlistAssumption
           DEF GetFails, Fault, TypeOK, login, page, history, Tokens, open
<1>16. ASSUME NEW i \in Requests, Unauthorized(i)
      PROVE  TypeOK'
  <2>1. request' \in [Requests -> Request]
    BY <1>16, MoveType DEF Unauthorized, TypeOK, Posting
  <2>. QED BY <1>16, <2>1, WatchlistAssumption
           DEF Unauthorized, TypeOK, login, page, history, Tokens, open
<1>17. ASSUME NEW i \in Requests, SelectRow(i)
      PROVE  TypeOK'
  <2>1. request' \in [Requests -> Request]
    BY <1>17, MoveType DEF SelectRow, TypeOK, Posting
  <2>. QED BY <1>17, <2>1, WatchlistAssumption
           DEF SelectRow, TypeOK, login, page, history, Tokens, open
<1>18. ASSUME NEW i \in Requests, Create(i)
      PROVE  TypeOK'
  <2>1. CASE row = NoList
    <3>1. request' \in [Requests -> Request] /\ request[i].list \in Lists
      BY <1>18, <2>1, WriteType DEF Create, Posting
    <3>. QED BY <1>18, <2>1, <3>1
             DEF Create, Write, TypeOK, login, page, history, Tokens, open
  <2>2. CASE row # NoList
    <3>1. request' \in [Requests -> Request]
      BY <1>18, <2>2, MoveType DEF Create, CreateConflict, TypeOK, Posting
    <3>. QED BY <1>18, <2>2, <3>1
             DEF Create, TypeOK, login, page, history, Tokens, open
  <2>. QED BY <2>1, <2>2
<1>19. ASSUME NEW i \in Requests, Update(i)
      PROVE  TypeOK'
  <2>1. request' \in [Requests -> Request] /\ request[i].list \in Lists
    BY <1>19, WriteType DEF Update, Posting
  <2>. QED BY <1>19, <2>1
           DEF Update, Write, TypeOK, login, page, history, Tokens, open
<1>20. ASSUME NEW i \in Requests, UpdateNothing(i)
      PROVE  TypeOK'
  <2>1. request' \in [Requests -> Request]
    BY <1>20, MoveType DEF UpdateNothing, TypeOK, Posting
  <2>. QED BY <1>20, <2>1, WatchlistAssumption
           DEF UpdateNothing, TypeOK, login, page, history, Tokens, open
<1>21. ASSUME NEW i \in Requests, PostFails(i)
      PROVE  TypeOK'
  <2>1. request' \in [Requests -> Request]
    BY <1>21, MoveType DEF PostFails, TypeOK, Posting
  <2>. QED BY <1>21, <2>1, WatchlistAssumption
           DEF PostFails, Fault, TypeOK, login, page, history, Tokens, open
<1>22. ASSUME Delete
      PROVE  TypeOK'
  BY <1>22, WatchlistAssumption
     DEF Delete, TypeOK, login, page, history, Tokens, open
<1>23. ASSUME Expire
      PROVE  TypeOK'
  BY <1>23, WatchlistAssumption
     DEF Expire, TypeOK, login, page, history, Tokens, open
<1>24. CASE UNCHANGED vars
  BY <1>24
     DEF vars, TypeOK, login, page, history, Tokens, open, RequestInv,
         SessionInv, StoredInv
<1>. QED BY <1>1, <1>2, <1>3, <1>4, <1>5, <1>6, <1>7, <1>8, <1>9, <1>10,
         <1>11, <1>12, <1>13, <1>14, <1>15, <1>16, <1>17, <1>18, <1>19,
         <1>20, <1>21, <1>22, <1>23, <1>24 DEF Next, PageStep,
         HandlerStep

LEMMA PageType ==
    ASSUME TypeOK, NEW i \in Requests
    PROVE  request[i].page \in Whose /\ request[i].token \in Tokens
<1>1. request[i] \in Request
  BY DEF TypeOK
<1>2. NoRequest.page \in Whose /\ NoRequest.token \in Tokens
  BY WatchlistAssumption DEF NoRequest, Whose, Tokens
<1>3. ASSUME request[i] \in Gets \/ request[i] \in Posts
      PROVE  request[i].page \in Whose /\ request[i].token \in Tokens
  BY <1>3 DEF Gets, Posts
<1>. QED BY <1>1, <1>2, <1>3, RequestKinds

LEMMA AnswerStep ==
    ASSUME RequestInv, NEW i \in Requests, request'[i] = NoRequest,
           \A j \in Requests \ {i} : request'[j] = request[j],
           UNCHANGED <<view, token, expired>>
    PROVE  RequestInv'
BY DEF RequestInv, NoRequest

LEMMA ForgetStep ==
    ASSUME TypeOK, RequestInv, NEW p \in Pages, 
           \A i \in Requests : request'[i] = NoRequest \/ request'[i] = Forget(p)[i],
           \A q \in Pages \ {p} : view'[q] = view[q] /\ token'[q] = token[q],
           expired' = expired
    PROVE  RequestInv'
<1>1. SUFFICES ASSUME NEW i \in Requests
               PROVE  RequestInv!(i)'
  BY DEF RequestInv
<1>2. CASE request'[i] = NoRequest
  BY <1>2 DEF NoRequest
<1>3. CASE request'[i] = Forget(p)[i]
  <2>1. /\ request'[i].page = IF request[i].page = p THEN None ELSE request[i].page
        /\ request'[i].at = request[i].at
        /\ request'[i].token = request[i].token
    BY <1>3, ForgetType DEF TypeOK
  <2>. QED BY <2>1, PageType DEF RequestInv, Whose
<1>. QED BY <1>2, <1>3

LEMMA RequestStep ==
    ASSUME TypeOK, RequestInv, [Next]_vars
    PROVE  RequestInv'
<1>1. ASSUME NEW p \in Pages, ShowLogin(p)
      PROVE  RequestInv'
  BY <1>1, ForgetStep DEF ShowLogin, Leave, login, TypeOK
<1>2. ASSUME NEW p \in Pages, TelegramAuth(p)
      PROVE  RequestInv'
  BY <1>2 DEF TelegramAuth, RequestInv, TypeOK
<1>3. ASSUME NEW p \in Pages, LoginLost(p)
      PROVE  RequestInv'
  BY <1>3, ForgetStep DEF LoginLost, Leave, login, TypeOK
<1>4. ASSUME NEW p \in Pages, Close(p)
      PROVE  RequestInv'
  BY <1>4, ForgetStep DEF Close, Leave, login, TypeOK
<1>5. ASSUME NEW p \in Pages, NEW i \in Requests, Open(p, i)
      PROVE  RequestInv'
  <2>1. saved \in Tokens
    BY WatchlistAssumption DEF TypeOK, Tokens
  <2>2. ShowDashboard(p, i, saved)
    BY <1>5 DEF Open
  <2>3. /\ request'[i] = [at |-> "get", page |-> p, token |-> saved,
                          list |-> NoList, written |-> FALSE]
        /\ \A j \in Requests \ {i} : request'[j] = Forget(p)[j]
    BY <2>1, <2>2, ShowDashboardType
  <2>4. expired' = expired
    BY <1>5 DEF Open, login
  <2>5. ASSUME NEW j \in Requests, j # i
        PROVE  /\ request'[j].page # None => request'[j].page # p
               /\ request'[j].page # None => request'[j].page = request[j].page
               /\ request'[j].token = request[j].token
               /\ request'[j].at = request[j].at
    BY <2>3, <2>5, ForgetType DEF TypeOK
  <2>6. /\ request'[i].at = "get" /\ request'[i].page = p
        /\ request'[i].token = saved
    BY <2>3
  <2>7. /\ view' = [view EXCEPT ![p] = "dashboard"]
        /\ token' = [token EXCEPT ![p] = saved]
        /\ view'[p] = "dashboard" /\ token'[p] = saved
    BY <2>2 DEF ShowDashboard, TypeOK
  <2>8. ASSUME NEW j \in Requests
        PROVE  RequestInv!(j)'
    <3>1. CASE j = i
      BY <2>6, <2>7, <3>1
    <3>2. CASE j # i
      BY <2>4, <2>5, <2>7, <3>2, PageType DEF RequestInv, Whose, TypeOK
    <3>. QED BY <3>1, <3>2
  <2>. QED BY <2>8 DEF RequestInv
<1>6. ASSUME NEW p \in Pages, NEW i \in Requests, LoggedIn(p, i)
      PROVE  RequestInv'
  <2>1. token[p] \in Tokens
    BY WatchlistAssumption DEF TypeOK, Tokens
  <2>2. ShowDashboard(p, i, token[p])
    BY <1>6 DEF LoggedIn
  <2>3. /\ request'[i] = [at |-> "get", page |-> p, token |-> token[p],
                          list |-> NoList, written |-> FALSE]
        /\ \A j \in Requests \ {i} : request'[j] = Forget(p)[j]
    BY <2>1, <2>2, ShowDashboardType
  <2>4. expired' = expired
    BY <1>6 DEF LoggedIn, login
  <2>5. ASSUME NEW j \in Requests, j # i
        PROVE  /\ request'[j].page # None => request'[j].page # p
               /\ request'[j].page # None => request'[j].page = request[j].page
               /\ request'[j].token = request[j].token
               /\ request'[j].at = request[j].at
    BY <2>3, <2>5, ForgetType DEF TypeOK
  <2>6. /\ request'[i].at = "get" /\ request'[i].page = p
        /\ request'[i].token = token[p]
    BY <2>3
  <2>7. /\ view' = [view EXCEPT ![p] = "dashboard"]
        /\ token' = [token EXCEPT ![p] = token[p]]
        /\ view'[p] = "dashboard" /\ token'[p] = token[p]
    BY <2>2 DEF ShowDashboard, TypeOK
  <2>8. ASSUME NEW j \in Requests
        PROVE  RequestInv!(j)'
    <3>1. CASE j = i
      BY <2>6, <2>7, <3>1
    <3>2. CASE j # i
      BY <2>4, <2>5, <2>7, <3>2, PageType DEF RequestInv, Whose, TypeOK
    <3>. QED BY <3>1, <3>2
  <2>. QED BY <2>8 DEF RequestInv
<1>7. ASSUME NEW p \in Pages, NEW i \in Requests, NEW s \in Symbols, Add(p, i, s)
      PROVE  RequestInv'
  <2>1. Ask(i, "select", p, symbols[p] \cup {s}) /\ symbols[p] \cup {s} \in Lists
    BY <1>7 DEF Add, Posted, TypeOK, Lists
  <2>2. /\ request'[i] = [at |-> "select", page |-> p, token |-> token[p],
                          list |-> symbols[p] \cup {s}, written |-> FALSE]
        /\ \A j \in Requests \ {i} : request'[j] = request[j]
    BY <2>1, AskType
  <2>3. view[p] = "dashboard" /\ UNCHANGED <<view, token, expired>>
    BY <1>7 DEF Add, open, login
  <2>. QED BY <2>2, <2>3 DEF RequestInv
<1>8. ASSUME NEW p \in Pages, NEW i \in Requests, NEW s \in Symbols, Remove(p, i, s)
      PROVE  RequestInv'
  <2>1. Ask(i, "select", p, symbols[p] \ {s}) /\ symbols[p] \ {s} \in Lists
    BY <1>8 DEF Remove, Posted, TypeOK, Lists
  <2>2. /\ request'[i] = [at |-> "select", page |-> p, token |-> token[p],
                          list |-> symbols[p] \ {s}, written |-> FALSE]
        /\ \A j \in Requests \ {i} : request'[j] = request[j]
    BY <2>1, AskType
  <2>3. view[p] = "dashboard" /\ UNCHANGED <<view, token, expired>>
    BY <1>8 DEF Remove, open, login, TypeOK
  <2>. QED BY <2>2, <2>3 DEF RequestInv
<1>9. ASSUME NEW i \in Requests, Fetched(i)
      PROVE  RequestInv'
  BY <1>9, AnsweredType, AnswerStep DEF Fetched, TypeOK, login, page
<1>10. ASSUME NEW i \in Requests, ConnectionLost(i)
      PROVE  RequestInv'
  <2>1. /\ request'[i].page = None
        /\ request'[i].at = request[i].at
        /\ request'[i].token = request[i].token
        /\ \A j \in Requests \ {i} : request'[j] = request[j]
    BY <1>10, LostType DEF TypeOK
  <2>2. UNCHANGED <<view, token, expired>>
    BY <1>10 DEF ConnectionLost, login
  <2>. QED BY <2>1, <2>2 DEF RequestInv
<1>11. ASSUME NEW i \in Requests, Logout(i)
      PROVE  RequestInv'
  <2>1. CASE request[i].page = None
    BY <1>11, <2>1, AnsweredType, AnswerStep DEF Logout, TypeOK
  <2>2. CASE request[i].page # None
    <3>1. request[i].page \in Pages
      <4>1. request[i].at = "refused" /\ request[i] \in Request
        BY <1>11 DEF Logout, TypeOK
      <4>. QED BY <4>1, <2>2, KindOf DEF Gets, Whose
    <3>2. /\ request'[i] = NoRequest
          /\ \A j \in Requests \ {i} : request'[j] = Forget(request[i].page)[j]
      BY <1>11, <2>2, <3>1, ForgetType DEF Logout, TypeOK
    <3>3. /\ \A q \in Pages \ {request[i].page} :
                view'[q] = view[q] /\ token'[q] = token[q]
          /\ expired' = expired
      BY <1>11, <2>2, <3>1 DEF Logout, TypeOK
    <3>. QED BY <3>1, <3>2, <3>3, ForgetStep
  <2>. QED BY <2>1, <2>2
<1>12. ASSUME NEW i \in Requests, SyncedOk(i)
      PROVE  RequestInv'
  BY <1>12, AnsweredType, AnswerStep DEF SyncedOk, TypeOK, login, page
<1>13. ASSUME NEW i \in Requests, SyncFailed(i)
      PROVE  RequestInv'
  BY <1>13, AnsweredType, AnswerStep DEF SyncFailed, TypeOK, login, page
<1>14. ASSUME NEW i \in Requests, GetByChatID(i)
      PROVE  RequestInv'
  <2>1. /\ request'[i].page = request[i].page
        /\ request'[i].token = request[i].token
        /\ request'[i].at # "refused"
        /\ \A j \in Requests \ {i} : request'[j] = request[j]
    BY <1>14, GetType DEF GetByChatID, TypeOK, Posting
  <2>2. UNCHANGED <<view, token, expired>>
    BY <1>14 DEF GetByChatID, page, login
  <2>. QED BY <2>1, <2>2 DEF RequestInv
<1>15. ASSUME NEW i \in Requests, GetFails(i)
      PROVE  RequestInv'
  <2>1. /\ request'[i].page = request[i].page
        /\ request'[i].token = request[i].token
        /\ request'[i].at = "refused" => request[i].token <= expired
        /\ \A j \in Requests \ {i} : request'[j] = request[j]
    BY <1>15, MoveType DEF GetFails, TypeOK, Posting
  <2>2. UNCHANGED <<view, token, expired>>
    BY <1>15 DEF GetFails, page, login
  <2>. QED BY <2>1, <2>2 DEF RequestInv
<1>16. ASSUME NEW i \in Requests, Unauthorized(i)
      PROVE  RequestInv'
  <2>1. /\ request'[i].page = request[i].page
        /\ request'[i].token = request[i].token
        /\ request'[i].at = "refused" => request[i].token <= expired
        /\ \A j \in Requests \ {i} : request'[j] = request[j]
    BY <1>16, MoveType DEF Unauthorized, TypeOK, Posting, Refused
  <2>2. UNCHANGED <<view, token, expired>>
    BY <1>16 DEF Unauthorized, page, login
  <2>. QED BY <2>1, <2>2 DEF RequestInv
<1>17. ASSUME NEW i \in Requests, SelectRow(i)
      PROVE  RequestInv'
  <2>1. /\ request'[i].page = request[i].page
        /\ request'[i].token = request[i].token
        /\ request'[i].at # "refused"
        /\ \A j \in Requests \ {i} : request'[j] = request[j]
    BY <1>17, MoveType DEF SelectRow, TypeOK, Posting
  <2>2. UNCHANGED <<view, token, expired>>
    BY <1>17 DEF SelectRow, page, login
  <2>. QED BY <2>1, <2>2 DEF RequestInv
<1>18. ASSUME NEW i \in Requests, Create(i)
      PROVE  RequestInv'
  <2>1. /\ request'[i].page = request[i].page
        /\ request'[i].token = request[i].token
        /\ request'[i].at # "refused"
        /\ \A j \in Requests \ {i} : request'[j] = request[j]
    <3>1. CASE row = NoList
      BY <1>18, <3>1, WriteType DEF Create, Posting
    <3>2. CASE row # NoList
      BY <1>18, <3>2, MoveType DEF Create, CreateConflict, TypeOK, Posting
    <3>. QED BY <3>1, <3>2
  <2>2. UNCHANGED <<view, token, expired>>
    BY <1>18 DEF Create, page, login
  <2>. QED BY <2>1, <2>2 DEF RequestInv
<1>19. ASSUME NEW i \in Requests, Update(i)
      PROVE  RequestInv'
  <2>1. /\ request'[i].page = request[i].page
        /\ request'[i].token = request[i].token
        /\ request'[i].at # "refused"
        /\ \A j \in Requests \ {i} : request'[j] = request[j]
    BY <1>19, WriteType DEF Update, Posting
  <2>2. UNCHANGED <<view, token, expired>>
    BY <1>19 DEF Update, page, login
  <2>. QED BY <2>1, <2>2 DEF RequestInv
<1>20. ASSUME NEW i \in Requests, UpdateNothing(i)
      PROVE  RequestInv'
  <2>1. /\ request'[i].page = request[i].page
        /\ request'[i].token = request[i].token
        /\ request'[i].at # "refused"
        /\ \A j \in Requests \ {i} : request'[j] = request[j]
    BY <1>20, MoveType DEF UpdateNothing, TypeOK, Posting
  <2>2. UNCHANGED <<view, token, expired>>
    BY <1>20 DEF UpdateNothing, page, login
  <2>. QED BY <2>1, <2>2 DEF RequestInv
<1>21. ASSUME NEW i \in Requests, PostFails(i)
      PROVE  RequestInv'
  <2>1. /\ request'[i].page = request[i].page
        /\ request'[i].token = request[i].token
        /\ request'[i].at # "refused"
        /\ \A j \in Requests \ {i} : request'[j] = request[j]
    BY <1>21, MoveType DEF PostFails, TypeOK, Posting
  <2>2. UNCHANGED <<view, token, expired>>
    BY <1>21 DEF PostFails, page, login
  <2>. QED BY <2>1, <2>2 DEF RequestInv
<1>22. ASSUME Delete
      PROVE  RequestInv'
  BY <1>22 DEF Delete, login, page, RequestInv
<1>23. ASSUME Expire
      PROVE  RequestInv'
  <2>1. \A i \in Requests : request[i].token \in Nat
    BY PageType, WatchlistAssumption DEF Tokens
  <2>. QED BY <1>23, <2>1 DEF Expire, page, RequestInv, TypeOK
<1>24. CASE UNCHANGED vars
  BY <1>24 DEF vars, page, login, history, RequestInv
<1>. QED BY <1>1, <1>2, <1>3, <1>4, <1>5, <1>6, <1>7, <1>8, <1>9, <1>10,
         <1>11, <1>12, <1>13, <1>14, <1>15, <1>16, <1>17, <1>18, <1>19,
         <1>20, <1>21, <1>22, <1>23, <1>24 DEF Next, PageStep,
         HandlerStep

LEMMA SessionStep ==
    ASSUME TypeOK, RequestInv, SessionInv, [Next]_vars
    PROVE  SessionInv'
<1>1. ASSUME NEW p \in Pages, ShowLogin(p)
      PROVE  SessionInv'
  <2>1. ~shared' => ~shared /\ \A q \in Pages \ {p} : view[q] = "closed"
    BY <1>1 DEF ShowLogin, Others
  <2>2. /\ saved' = saved
        /\ view' = [view EXCEPT ![p] = "login"]
        /\ token' = [token EXCEPT ![p] = 0]
    BY <1>1 DEF ShowLogin, Leave, login
  <2>. QED BY <2>1, <2>2 DEF SessionInv, open, TypeOK
<1>2. ASSUME NEW p \in Pages, TelegramAuth(p)
      PROVE  SessionInv'
  <2>1. /\ issued + 1 # 0
        /\ view' = [view EXCEPT ![p] = "entering"] /\ view[p] = "login"
        /\ token' = [token EXCEPT ![p] = issued + 1]
        /\ UNCHANGED <<saved, shared>>
    BY <1>2, WatchlistAssumption DEF TelegramAuth, history, TypeOK, Tokens
  <2>. QED BY <2>1 DEF SessionInv, open, TypeOK
<1>3. ASSUME NEW p \in Pages, LoginLost(p)
      PROVE  SessionInv'
  BY <1>3 DEF LoginLost, SessionInv, open, Leave, login, TypeOK
<1>4. ASSUME NEW p \in Pages, Close(p)
      PROVE  SessionInv'
  BY <1>4 DEF Close, SessionInv, open, Leave, login, TypeOK
<1>5. ASSUME NEW p \in Pages, NEW i \in Requests, Open(p, i)
      PROVE  SessionInv'
  BY <1>5, ZenonT(40)
     DEF Open, ShowDashboard, Others, SessionInv, open, login, TypeOK
<1>6. ASSUME NEW p \in Pages, NEW i \in Requests, LoggedIn(p, i)
      PROVE  SessionInv'
  BY <1>6 DEF LoggedIn, ShowDashboard, SessionInv, open, TypeOK
<1>7. ASSUME NEW p \in Pages, NEW i \in Requests, NEW s \in Symbols, Add(p, i, s)
      PROVE  SessionInv'
  BY <1>7 DEF Add, SessionInv, open, login, page, history
<1>8. ASSUME NEW p \in Pages, NEW i \in Requests, NEW s \in Symbols, Remove(p, i, s)
      PROVE  SessionInv'
  BY <1>8 DEF Remove, SessionInv, open, login, page, history
<1>9. ASSUME NEW i \in Requests, Fetched(i)
      PROVE  SessionInv'
  BY <1>9 DEF Fetched, SessionInv, open, login, page, history
<1>10. ASSUME NEW i \in Requests, ConnectionLost(i)
      PROVE  SessionInv'
  BY <1>10 DEF ConnectionLost, SessionInv, open, login, history
<1>11. ASSUME NEW i \in Requests, Logout(i)
      PROVE  SessionInv'
  <2>1. request[i].page \in Whose
    BY PageType
  <2>2. CASE request[i].page = None
    BY <1>11, <2>2 DEF Logout, SessionInv, open
  <2>3. CASE request[i].page # None
    BY <1>11, <2>1, <2>3 DEF Logout, SessionInv, RequestInv, open, Whose, TypeOK
  <2>. QED BY <2>2, <2>3
<1>12. ASSUME NEW i \in Requests, SyncedOk(i)
      PROVE  SessionInv'
  BY <1>12 DEF SyncedOk, SessionInv, open, login, page, history
<1>13. ASSUME NEW i \in Requests, SyncFailed(i)
      PROVE  SessionInv'
  BY <1>13 DEF SyncFailed, SessionInv, open, login, page, history
<1>14. ASSUME NEW i \in Requests, GetByChatID(i)
      PROVE  SessionInv'
  BY <1>14 DEF GetByChatID, SessionInv, open, login, page, history
<1>15. ASSUME NEW i \in Requests, GetFails(i)
      PROVE  SessionInv'
  BY <1>15 DEF GetFails, SessionInv, open, login, page, history
<1>16. ASSUME NEW i \in Requests, Unauthorized(i)
      PROVE  SessionInv'
  BY <1>16 DEF Unauthorized, SessionInv, open, login, page, history
<1>17. ASSUME NEW i \in Requests, SelectRow(i)
      PROVE  SessionInv'
  BY <1>17 DEF SelectRow, SessionInv, open, login, page, history
<1>18. ASSUME NEW i \in Requests, Create(i)
      PROVE  SessionInv'
  BY <1>18 DEF Create, SessionInv, open, login, page, history
<1>19. ASSUME NEW i \in Requests, Update(i)
      PROVE  SessionInv'
  BY <1>19 DEF Update, SessionInv, open, login, page, history
<1>20. ASSUME NEW i \in Requests, UpdateNothing(i)
      PROVE  SessionInv'
  BY <1>20 DEF UpdateNothing, SessionInv, open, login, page, history
<1>21. ASSUME NEW i \in Requests, PostFails(i)
      PROVE  SessionInv'
  BY <1>21 DEF PostFails, SessionInv, open, login, page, history
<1>22. ASSUME Delete
      PROVE  SessionInv'
  BY <1>22 DEF Delete, SessionInv, open, login, page, history
<1>23. ASSUME Expire
      PROVE  SessionInv'
  BY <1>23 DEF Expire, SessionInv, open, login, page, history
<1>24. CASE UNCHANGED vars
  BY <1>24 DEF vars, page, login, history, SessionInv, open
<1>. QED BY <1>1, <1>2, <1>3, <1>4, <1>5, <1>6, <1>7, <1>8, <1>9, <1>10,
         <1>11, <1>12, <1>13, <1>14, <1>15, <1>16, <1>17, <1>18, <1>19,
         <1>20, <1>21, <1>22, <1>23, <1>24 DEF Next, PageStep,
         HandlerStep

LEMMA ListsAreNoNoList == NoList \notin Lists
BY WatchlistAssumption DEF NoList, Lists

LEMMA StoredKept ==
    ASSUME StoredInv, UNCHANGED <<row, deletes>>,
           \A j \in Requests :
              request'[j].at \in {"update", "ok"} =>
                 /\ request'[j].at = request[j].at
                 /\ request'[j].written = request[j].written
    PROVE  StoredInv'
BY DEF StoredInv

LEMMA StoredStep ==
    ASSUME TypeOK, StoredInv, [Next]_vars
    PROVE  StoredInv'
<1>1. ASSUME NEW p \in Pages, ShowLogin(p)
      PROVE  StoredInv'
  <2>1. request' = Forget(p) /\ UNCHANGED <<row, deletes>>
    BY <1>1 DEF ShowLogin, Leave
  <2>. QED BY <2>1, ForgetType, StoredKept DEF TypeOK
<1>2. ASSUME NEW p \in Pages, TelegramAuth(p)
      PROVE  StoredInv'
  BY <1>2 DEF TelegramAuth, StoredInv
<1>3. ASSUME NEW p \in Pages, LoginLost(p)
      PROVE  StoredInv'
  <2>1. request' = Forget(p) /\ UNCHANGED <<row, deletes>>
    BY <1>3 DEF LoginLost, Leave
  <2>. QED BY <2>1, ForgetType, StoredKept DEF TypeOK
<1>4. ASSUME NEW p \in Pages, Close(p)
      PROVE  StoredInv'
  <2>1. request' = Forget(p) /\ UNCHANGED <<row, deletes>>
    BY <1>4 DEF Close, Leave
  <2>. QED BY <2>1, ForgetType, StoredKept DEF TypeOK
<1>5. ASSUME NEW p \in Pages, NEW i \in Requests, Open(p, i)
      PROVE  StoredInv'
  <2>1. saved \in Tokens
    BY WatchlistAssumption DEF TypeOK, Tokens
  <2>2. /\ request'[i].at = "get"
        /\ \A j \in Requests \ {i} : request'[j] = Forget(p)[j]
    <3>1. ShowDashboard(p, i, saved)
      BY <1>5 DEF Open
    <3>2. request'[i] = [at |-> "get", page |-> p, token |-> saved,
                         list |-> NoList, written |-> FALSE]
      BY <2>1, <3>1, ShowDashboardType
    <3>3. \A j \in Requests \ {i} : request'[j] = Forget(p)[j]
      BY <2>1, <3>1, ShowDashboardType
    <3>. QED BY <3>2, <3>3
  <2>3. UNCHANGED <<row, deletes>>
    BY <1>5 DEF Open
  <2>4. \A j \in Requests \ {i} : /\ request'[j].at = request[j].at
                                   /\ request'[j].written = request[j].written
    BY <2>2, ForgetType DEF TypeOK
  <2>. QED BY <2>2, <2>3, <2>4, StoredKept
<1>6. ASSUME NEW p \in Pages, NEW i \in Requests, LoggedIn(p, i)
      PROVE  StoredInv'
  <2>1. token[p] \in Tokens
    BY WatchlistAssumption DEF TypeOK, Tokens
  <2>2. /\ request'[i].at = "get"
        /\ \A j \in Requests \ {i} : request'[j] = Forget(p)[j]
    <3>1. ShowDashboard(p, i, token[p])
      BY <1>6 DEF LoggedIn
    <3>2. request'[i] = [at |-> "get", page |-> p, token |-> token[p],
                         list |-> NoList, written |-> FALSE]
      BY <2>1, <3>1, ShowDashboardType
    <3>3. \A j \in Requests \ {i} : request'[j] = Forget(p)[j]
      BY <2>1, <3>1, ShowDashboardType
    <3>. QED BY <3>2, <3>3
  <2>3. UNCHANGED <<row, deletes>>
    BY <1>6 DEF LoggedIn
  <2>4. \A j \in Requests \ {i} : /\ request'[j].at = request[j].at
                                   /\ request'[j].written = request[j].written
    BY <2>2, ForgetType DEF TypeOK
  <2>. QED BY <2>2, <2>3, <2>4, StoredKept
<1>7. ASSUME NEW p \in Pages, NEW i \in Requests, NEW s \in Symbols, Add(p, i, s)
      PROVE  StoredInv'
  <2>1. Ask(i, "select", p, symbols[p] \cup {s}) /\ symbols[p] \cup {s} \in Lists
    BY <1>7 DEF Add, Posted, TypeOK, Lists
  <2>2. /\ request'[i].at = "select"
        /\ \A j \in Requests \ {i} : request'[j] = request[j]
    <3>1. request'[i] = [at |-> "select", page |-> p, token |-> token[p],
                         list |-> symbols[p] \cup {s}, written |-> FALSE]
      BY <2>1, AskType
    <3>2. \A j \in Requests \ {i} : request'[j] = request[j]
      BY <2>1, AskType
    <3>. QED BY <3>1, <3>2
  <2>3. UNCHANGED <<row, deletes>>
    BY <1>7 DEF Add
  <2>. QED BY <2>2, <2>3 DEF StoredInv
<1>8. ASSUME NEW p \in Pages, NEW i \in Requests, NEW s \in Symbols, Remove(p, i, s)
      PROVE  StoredInv'
  <2>1. Ask(i, "select", p, symbols[p] \ {s}) /\ symbols[p] \ {s} \in Lists
    BY <1>8 DEF Remove, Posted, TypeOK, Lists
  <2>2. /\ request'[i].at = "select"
        /\ \A j \in Requests \ {i} : request'[j] = request[j]
    <3>1. request'[i] = [at |-> "select", page |-> p, token |-> token[p],
                         list |-> symbols[p] \ {s}, written |-> FALSE]
      BY <2>1, AskType
    <3>2. \A j \in Requests \ {i} : request'[j] = request[j]
      BY <2>1, AskType
    <3>. QED BY <3>1, <3>2
  <2>3. UNCHANGED <<row, deletes>>
    BY <1>8 DEF Remove
  <2>. QED BY <2>2, <2>3 DEF StoredInv
<1>9. ASSUME NEW i \in Requests, Fetched(i)
      PROVE  StoredInv'
  BY <1>9, AnsweredType DEF Fetched, StoredInv, NoRequest, TypeOK
<1>10. ASSUME NEW i \in Requests, ConnectionLost(i)
      PROVE  StoredInv'
  <2>1. \A j \in Requests : /\ request'[j].at = request[j].at
                             /\ request'[j].written = request[j].written
    BY <1>10, LostType DEF TypeOK
  <2>2. UNCHANGED <<row, deletes>>
    BY <1>10 DEF ConnectionLost
  <2>. QED BY <2>1, <2>2, StoredKept
<1>11. ASSUME NEW i \in Requests, Logout(i)
      PROVE  StoredInv'
  <2>1. CASE request[i].page = None
    BY <1>11, <2>1, AnsweredType DEF Logout, StoredInv, NoRequest, TypeOK
  <2>2. CASE request[i].page # None
    <3>1. request[i].page \in Pages
      BY <2>2, PageType DEF Whose
    <3>2. /\ request'[i] = NoRequest
          /\ \A j \in Requests \ {i} : request'[j] = Forget(request[i].page)[j]
      BY <1>11, <2>2, <3>1, ForgetType DEF Logout, TypeOK
    <3>3. UNCHANGED <<row, deletes>>
      BY <1>11 DEF Logout
    <3>. QED BY SMTT(20), <3>1, <3>2, <3>3, ForgetType, StoredKept
             DEF NoRequest, TypeOK
  <2>. QED BY <2>1, <2>2
<1>12. ASSUME NEW i \in Requests, SyncedOk(i)
      PROVE  StoredInv'
  BY <1>12, AnsweredType DEF SyncedOk, StoredInv, NoRequest, TypeOK
<1>13. ASSUME NEW i \in Requests, SyncFailed(i)
      PROVE  StoredInv'
  BY <1>13, AnsweredType DEF SyncFailed, StoredInv, NoRequest, TypeOK
<1>14. ASSUME NEW i \in Requests, GetByChatID(i)
      PROVE  StoredInv'
  BY <1>14, GetType DEF GetByChatID, StoredInv
<1>15. ASSUME NEW i \in Requests, GetFails(i)
      PROVE  StoredInv'
  BY <1>15, MoveType DEF GetFails, StoredInv, TypeOK, Posting
<1>16. ASSUME NEW i \in Requests, Unauthorized(i)
      PROVE  StoredInv'
  BY <1>16, MoveType DEF Unauthorized, StoredInv, TypeOK, Posting
<1>17. ASSUME NEW i \in Requests, SelectRow(i)
      PROVE  StoredInv'
  BY <1>17, MoveType DEF SelectRow, StoredInv, TypeOK, Posting
<1>18. ASSUME NEW i \in Requests, Create(i)
      PROVE  StoredInv'
  <2>1. CASE row = NoList
    <3>1. /\ row' = request[i].list /\ row' \in Lists
          /\ request'[i].at = "ok" /\ request'[i].written
          /\ \A j \in Requests \ {i} : request'[j] = request[j]
      BY <1>18, <2>1, WriteType DEF Create, Write, Posting
    <3>. QED BY <1>18, <3>1, ListsAreNoNoList DEF Create, StoredInv
  <2>2. CASE row # NoList
    BY <1>18, <2>2, MoveType
       DEF Create, CreateConflict, StoredInv, TypeOK, Posting
  <2>. QED BY <2>1, <2>2
<1>19. ASSUME NEW i \in Requests, Update(i)
      PROVE  StoredInv'
  <2>1. /\ row' = request[i].list /\ row' \in Lists
        /\ request'[i].at = "ok" /\ request'[i].written
        /\ \A j \in Requests \ {i} : request'[j] = request[j]
    BY <1>19, WriteType DEF Update, Write, Posting
  <2>. QED BY <1>19, <2>1, ListsAreNoNoList DEF Update, StoredInv
<1>20. ASSUME NEW i \in Requests, UpdateNothing(i)
      PROVE  StoredInv'
  BY <1>20, MoveType DEF UpdateNothing, StoredInv, TypeOK, Posting
<1>21. ASSUME NEW i \in Requests, PostFails(i)
      PROVE  StoredInv'
  BY <1>21, MoveType DEF PostFails, StoredInv, TypeOK, Posting
<1>22. ASSUME Delete
      PROVE  StoredInv'
  BY <1>22 DEF Delete, StoredInv, TypeOK
<1>23. ASSUME Expire
      PROVE  StoredInv'
  BY <1>23 DEF Expire, StoredInv
<1>24. CASE UNCHANGED vars
  BY <1>24 DEF vars, StoredInv
<1>. QED BY <1>1, <1>2, <1>3, <1>4, <1>5, <1>6, <1>7, <1>8, <1>9, <1>10,
         <1>11, <1>12, <1>13, <1>14, <1>15, <1>16, <1>17, <1>18, <1>19,
         <1>20, <1>21, <1>22, <1>23, <1>24 DEF Next, PageStep,
         HandlerStep

(* One page in use, one request under way at a time, which is of that page   *)
(* or of none any more.                                                       *)
Alone ==
    /\ \A i, j \in UnderWay : i = j
    /\ \A p, q \in open : p = q
    /\ \A i \in UnderWay, p \in open : request[i].page \in {p, None}

(* The list that is read is the row. A post has the list of the page, waited  *)
(* for or not, which leaves out of the row what was removed, and is the row   *)
(* once it is done. A page that waits no more shows an error.                 *)
InRequest(i) ==
    /\ request[i].at \in {"get", "list", "refused"} => loaded = {}
    /\ request[i].at = "get" => request[i].list = NoList
    /\ request[i].at = "list" /\ request[i].list # NoList
          => request[i].list = Stored
    /\ request[i].at = "update" => row # NoList
    /\ request[i].at \in Posting
          => /\ Stored \ request[i].list \subseteq removed
             /\ \A p \in loaded :
                   /\ symbols[p] = request[i].list
                   /\ request[i].page = None => synced[p] = "error"
    /\ request[i].at = "ok" => row = request[i].list

(* Between requests a page leaves out what was removed, and is right unless   *)
(* it shows an error.                                                         *)
OnPage(p) ==
    /\ Stored \ symbols[p] \subseteq removed
    /\ synced[p] # "error" => shown[p] = Stored /\ symbols[p] = Stored

OrderlyInv ==
    ~raced => /\ Alone
              /\ \A i \in Requests : InRequest(i)
              /\ UnderWay = {} => \A p \in loaded : OnPage(p)

LEMMA ViewOrder ==
    ASSUME OrderlyInv, open' = open,
           UNCHANGED <<row, loaded, symbols, shown, synced, request, removed, raced>>
    PROVE  OrderlyInv'
BY DEF OrderlyInv, Alone, InRequest, OnPage, Stored, UnderWay

LEMMA LeaveOrder ==
    ASSUME TypeOK, OrderlyInv, NEW p \in Pages, NEW to, to # "dashboard",
           view' = [view EXCEPT ![p] = to], loaded' = loaded \ {p},
           request' = Forget(p),
           UNCHANGED <<row, symbols, shown, synced, removed, raced>>
    PROVE  OrderlyInv'
<1>1. SUFFICES ASSUME ~raced
               PROVE  /\ Alone'
                      /\ \A i \in Requests : InRequest(i)'
                      /\ (UnderWay = {} => \A q \in loaded : OnPage(q))'
  BY DEF OrderlyInv
<1>2. \A i \in Requests :
         /\ request'[i].page = IF request[i].page = p THEN None ELSE request[i].page
         /\ request'[i].at = request[i].at /\ request'[i].list = request[i].list
  BY ForgetType DEF TypeOK
<1>3. UnderWay' = UnderWay /\ open' = open \ {p} /\ Stored' = Stored
  BY <1>2 DEF UnderWay, open, TypeOK, Stored
<1>4. Alone'
  BY <1>1, <1>2, <1>3 DEF OrderlyInv, Alone, UnderWay
<1>5. ASSUME NEW i \in Requests PROVE InRequest(i)'
  <2>1. InRequest(i) /\ Alone
    BY <1>1 DEF OrderlyInv
  <2>2. loaded' \subseteq loaded /\ loaded' \subseteq open \ {p}
    BY DEF TypeOK
  <2>3. request[i].page = p /\ request[i].at # "free" => loaded' = {}
    BY <2>1, <2>2, WatchlistAssumption DEF Alone, UnderWay, open
  <2>. QED BY <1>2, <1>3, <2>1, <2>2, <2>3 DEF InRequest, Posting
<1>6. (UnderWay = {} => \A q \in loaded : OnPage(q))'
  BY <1>1, <1>3 DEF OrderlyInv, OnPage
<1>. QED BY <1>4, <1>5, <1>6

LEMMA ShowOrder ==
    ASSUME TypeOK, OrderlyInv, NEW p \in Pages, NEW i \in Requests,
           NEW tok \in Tokens, ShowDashboard(p, i, tok), UNCHANGED row
    PROVE  OrderlyInv'
<1>1. SUFFICES ASSUME UnderWay = {}, open \ {p} = {}
               PROVE  /\ Alone'
                      /\ \A j \in Requests : InRequest(j)'
                      /\ UnderWay' # {}
  BY DEF OrderlyInv, ShowDashboard
<1>2. /\ request'[i] = [at |-> "get", page |-> p, token |-> tok,
                        list |-> NoList, written |-> FALSE]
      /\ \A j \in Requests \ {i} : request'[j] = Forget(p)[j]
  BY ShowDashboardType
<1>3. /\ request'[i].at = "get" /\ request'[i].page = p
      /\ request'[i].list = NoList
  BY <1>2
<1>4. \A j \in Requests \ {i} : request'[j].at = "free"
  <2>1. request \in [Requests -> Request]
    BY DEF TypeOK
  <2>2. \A j \in Requests : Forget(p)[j].at = request[j].at
    BY <2>1, ForgetType
  <2>3. \A j \in Requests : request[j].at = "free"
    BY <1>1 DEF UnderWay
  <2>. QED BY <1>2, <2>2, <2>3
<1>5. UnderWay' = {i} /\ open' = {p} /\ loaded' = {}
  BY <1>1, <1>3, <1>4 DEF UnderWay, open, ShowDashboard, TypeOK
<1>6. Alone'
  BY <1>1, <1>3, <1>5 DEF Alone, OrderlyInv
<1>7. \A j \in Requests : InRequest(j)'
  BY <1>3, <1>4, <1>5 DEF InRequest, Posting
<1>. QED BY <1>5, <1>6, <1>7

LEMMA AskOrder ==
    ASSUME TypeOK, OrderlyInv, NEW p \in Pages, NEW i \in Requests,
           NEW list \in Lists, Ask(i, "select", p, list),
           symbols' = [symbols EXCEPT ![p] = list],
           symbols[p] \ list \subseteq removed',
           removed \ list \subseteq removed',
           raced' = (raced \/ ~Orderly(p)),
           UNCHANGED <<row, view, loaded>>
    PROVE  OrderlyInv'
<1>1. SUFFICES ASSUME ~raced, Orderly(p)
               PROVE  /\ Alone'
                      /\ \A j \in Requests : InRequest(j)'
                      /\ UnderWay' # {}
  BY DEF OrderlyInv
<1>2. /\ request'[i] = [at |-> "select", page |-> p, token |-> token[p],
                        list |-> list, written |-> FALSE]
      /\ \A j \in Requests \ {i} : request'[j] = request[j]
  BY AskType
<1>3. /\ request'[i].at = "select" /\ request'[i].page = p
      /\ request'[i].list = list
  BY <1>2
<1>4. \A j \in Requests \ {i} : request'[j].at = "free"
  BY <1>1, <1>2 DEF Orderly, UnderWay
<1>5. /\ UnderWay' = {i} /\ open' = {p} /\ Stored' = Stored
      /\ loaded' \subseteq {p}
  BY <1>1, <1>3, <1>4 DEF UnderWay, open, Stored, Orderly, TypeOK
<1>6. Alone'
  BY <1>1, <1>3, <1>5 DEF Alone, OrderlyInv
<1>7. Stored \ symbols[p] \subseteq removed
  BY <1>1 DEF OrderlyInv, Orderly, OnPage
<1>8. Stored \ list \subseteq removed'
  BY <1>7
<1>9. symbols'[p] = list
  BY DEF TypeOK
<1>10. \A j \in Requests : InRequest(j)'
  BY <1>3, <1>4, <1>5, <1>8, <1>9, WatchlistAssumption DEF InRequest, Posting
<1>. QED BY <1>5, <1>6, <1>10

LEMMA AnswerOrder ==
    ASSUME TypeOK, OrderlyInv, NEW i \in Requests, request[i].at # "free",
           Answered(i),
           \A p \in loaded' : ~raced => OnPage(p)',
           UNCHANGED <<row, view, removed, raced>>
    PROVE  OrderlyInv'
<1>1. SUFFICES ASSUME ~raced
               PROVE  /\ Alone'
                      /\ \A j \in Requests : InRequest(j)'
  BY DEF OrderlyInv
<1>2. /\ request'[i] = NoRequest
      /\ \A j \in Requests \ {i} : request'[j] = request[j]
  BY AnsweredType DEF TypeOK
<1>3. \A j \in Requests \ {i} : request[j].at = "free"
  BY <1>1 DEF OrderlyInv, Alone, UnderWay
<1>4. \A j \in Requests : request'[j].at = "free"
  BY <1>2, <1>3 DEF NoRequest
<1>5. UnderWay' = {} /\ open' = open
  BY <1>4 DEF UnderWay, open
<1>6. Alone'
  BY <1>1, <1>5 DEF Alone, OrderlyInv
<1>7. \A j \in Requests : InRequest(j)'
  BY <1>4 DEF InRequest, Posting
<1>. QED BY <1>6, <1>7

(* A post that is under way is of the page that has its list, unless that    *)
(* page waits no more.                                                       *)
LEMMA WhosePost ==
    ASSUME TypeOK, OrderlyInv, ~raced, NEW i \in Requests,
           request[i].at # "free", NEW p \in loaded
    PROVE  p \in Pages /\ p # None /\ request[i].page \in {p, None}
BY WatchlistAssumption DEF TypeOK, OrderlyInv, Alone, UnderWay, open

LEMMA LostOrder ==
    ASSUME TypeOK, OrderlyInv, NEW i \in Requests, ConnectionLost(i)
    PROVE  OrderlyInv'
<1>0. /\ UNCHANGED <<row, view, loaded, symbols, shown, removed, raced>>
      /\ synced' = IF request[i].at \in Posting
                   THEN [synced EXCEPT ![request[i].page] = "error"] ELSE synced
  BY DEF ConnectionLost, history
<1>1. SUFFICES ASSUME ~raced
               PROVE  /\ Alone'
                      /\ \A j \in Requests : InRequest(j)'
                      /\ UnderWay' # {}
  BY <1>0 DEF OrderlyInv
<1>2. /\ request[i].page \in Pages /\ request'[i].page = None
      /\ request[i].at # "free" /\ request'[i].at = request[i].at
      /\ request'[i].list = request[i].list
      /\ \A j \in Requests \ {i} : request'[j] = request[j]
  BY LostType DEF TypeOK
<1>3. UnderWay' = UnderWay /\ i \in UnderWay /\ open' = open /\ Stored' = Stored
  BY <1>0, <1>2 DEF UnderWay, open, Stored
<1>4. Alone'
  BY <1>1, <1>2, <1>3 DEF OrderlyInv, Alone
<1>5. InRequest(i)'
  <2>1. InRequest(i)
    BY <1>1 DEF OrderlyInv
  <2>2. \A p \in loaded : p \in Pages /\ request[i].page = p
    BY <1>1, <1>2, WhosePost, WatchlistAssumption
  <2>3. request[i].at \in Posting => \A p \in loaded : synced'[p] = "error"
    BY <1>0, <2>2 DEF TypeOK
  <2>. QED BY <1>0, <1>2, <1>3, <2>1, <2>3 DEF InRequest
<1>6. ASSUME NEW j \in Requests, j # i PROVE InRequest(j)'
  <2>1. request'[j].at = "free"
    BY <1>1, <1>2, <1>3, <1>6 DEF OrderlyInv, Alone, UnderWay
  <2>. QED BY <2>1 DEF InRequest, Posting
<1>. QED BY <1>3, <1>4, <1>5, <1>6

LEMMA LogoutOrder ==
    ASSUME TypeOK, OrderlyInv, NEW i \in Requests, request[i].at = "refused",
           request[i].page \in Pages,
           request'[i] = NoRequest,
           \A j \in Requests \ {i} : request'[j] = Forget(request[i].page)[j],
           view' = [view EXCEPT ![request[i].page] = "closed"],
           loaded' = loaded \ {request[i].page},
           UNCHANGED <<row, symbols, shown, synced, removed, raced>>
    PROVE  OrderlyInv'
<1>1. SUFFICES ASSUME ~raced
               PROVE  /\ Alone'
                      /\ \A j \in Requests : InRequest(j)'
                      /\ loaded' = {}
  BY DEF OrderlyInv
<1>2. \A j \in Requests \ {i} : request[j].at = "free"
  BY <1>1 DEF OrderlyInv, Alone, UnderWay
<1>3. \A j \in Requests \ {i} : request'[j].at = "free"
  BY <1>2, ForgetType DEF TypeOK
<1>4. request'[i].at = "free"
  BY DEF NoRequest
<1>5. UnderWay' = {} /\ open' = open \ {request[i].page}
  BY <1>3, <1>4 DEF UnderWay, open, TypeOK
<1>6. open \subseteq {request[i].page}
  BY <1>1, WatchlistAssumption DEF OrderlyInv, Alone, UnderWay
<1>7. Alone'
  BY <1>1, <1>5 DEF Alone, OrderlyInv
<1>8. \A j \in Requests : InRequest(j)'
  BY <1>3, <1>4 DEF InRequest, Posting
<1>. QED BY <1>6, <1>7, <1>8 DEF TypeOK

LEMMA MoveOrder ==
    ASSUME TypeOK, OrderlyInv, NEW i \in Requests,
           request[i].at # "free", request'[i].at # "free",
           request'[i].page = request[i].page,
           \A j \in Requests \ {i} : request'[j] = request[j],
           ~raced => InRequest(i)',
           UNCHANGED <<row, view, loaded, symbols, shown, synced,
                       removed, raced>>
    PROVE  OrderlyInv'
<1>1. SUFFICES ASSUME ~raced
               PROVE  /\ Alone'
                      /\ \A j \in Requests : InRequest(j)'
                      /\ UnderWay' # {}
  BY DEF OrderlyInv
<1>2. UnderWay' = UnderWay /\ i \in UnderWay /\ open' = open /\ Stored' = Stored
  BY DEF UnderWay, open, Stored
<1>3. Alone'
  BY <1>1, <1>2 DEF OrderlyInv, Alone, UnderWay
<1>4. ASSUME NEW j \in Requests PROVE InRequest(j)'
  <2>1. CASE j = i
    BY <1>1, <2>1
  <2>2. CASE j # i
    <3>1. InRequest(j)
      BY <1>1 DEF OrderlyInv
    <3>. QED BY <1>2, <2>2, <3>1 DEF InRequest
  <2>. QED BY <2>1, <2>2
<1>. QED BY <1>2, <1>3, <1>4

LEMMA WriteOrder ==
    ASSUME TypeOK, OrderlyInv, NEW i \in Requests, request[i].at \in Posting,
           Write(i, request[i].list),
           UNCHANGED <<view, loaded, symbols, shown, synced, removed,
                       raced>>
    PROVE  OrderlyInv'
<1>1. SUFFICES ASSUME ~raced
               PROVE  /\ Alone'
                      /\ \A j \in Requests : InRequest(j)'
                      /\ UnderWay' # {}
  BY DEF OrderlyInv
<1>2. /\ request'[i].at = "ok" /\ request'[i].page = request[i].page
      /\ request'[i].list = request[i].list /\ request[i].list \in Lists
      /\ \A j \in Requests \ {i} : request'[j] = request[j]
      /\ row' = request[i].list
  BY WriteType DEF Write
<1>3. request[i].at # "free"
  BY DEF Posting
<1>4. UnderWay' = UnderWay /\ i \in UnderWay /\ open' = open
  BY <1>2, <1>3 DEF UnderWay, open
<1>5. Alone'
  BY <1>1, <1>2, <1>4 DEF OrderlyInv, Alone, UnderWay
<1>6. Stored' = request[i].list
  BY <1>2, ListsAreNoNoList DEF Stored
<1>7. InRequest(i)'
  BY <1>1, <1>2, <1>6 DEF OrderlyInv, InRequest, Posting
<1>8. ASSUME NEW j \in Requests, j # i PROVE InRequest(j)'
  <2>1. request'[j].at = "free"
    BY <1>1, <1>2, <1>4, <1>8 DEF OrderlyInv, Alone, UnderWay
  <2>. QED BY <2>1 DEF InRequest, Posting
<1>. QED BY <1>4, <1>5, <1>7, <1>8

LEMMA OrderlyStep ==
    ASSUME TypeOK, OrderlyInv, [Next]_vars
    PROVE  OrderlyInv'
<1>1. ASSUME NEW p \in Pages, ShowLogin(p)
      PROVE  OrderlyInv'
  BY <1>1, LeaveOrder DEF ShowLogin, Leave
<1>2. ASSUME NEW p \in Pages, TelegramAuth(p)
      PROVE  OrderlyInv'
  BY <1>2, ViewOrder DEF TelegramAuth, history, open, TypeOK
<1>3. ASSUME NEW p \in Pages, LoginLost(p)
      PROVE  OrderlyInv'
  BY <1>3, LeaveOrder DEF LoginLost, Leave
<1>4. ASSUME NEW p \in Pages, Close(p)
      PROVE  OrderlyInv'
  BY <1>4, LeaveOrder DEF Close, Leave
<1>5. ASSUME NEW p \in Pages, NEW i \in Requests, Open(p, i)
      PROVE  OrderlyInv'
  <2>1. saved \in Tokens /\ ShowDashboard(p, i, saved) /\ UNCHANGED row
    BY <1>5, WatchlistAssumption DEF Open, TypeOK, Tokens
  <2>. QED BY <2>1, ShowOrder
<1>6. ASSUME NEW p \in Pages, NEW i \in Requests, LoggedIn(p, i)
      PROVE  OrderlyInv'
  <2>1. token[p] \in Tokens /\ ShowDashboard(p, i, token[p]) /\ UNCHANGED row
    BY <1>6, WatchlistAssumption DEF LoggedIn, TypeOK, Tokens
  <2>. QED BY <2>1, ShowOrder
<1>7. ASSUME NEW p \in Pages, NEW i \in Requests, NEW s \in Symbols, Add(p, i, s)
      PROVE  OrderlyInv'
  <2>1. symbols[p] \cup {s} \in Lists
    BY <1>7 DEF Add, TypeOK, Lists
  <2>2. Ask(i, "select", p, symbols[p] \cup {s})
    BY <1>7 DEF Add, Posted, TypeOK
  <2>. QED BY <1>7, <2>1, <2>2, AskOrder DEF Add
<1>8. ASSUME NEW p \in Pages, NEW i \in Requests, NEW s \in Symbols, Remove(p, i, s)
      PROVE  OrderlyInv'
  <2>1. symbols[p] \ {s} \in Lists
    BY <1>8 DEF Remove, TypeOK, Lists
  <2>2. Ask(i, "select", p, symbols[p] \ {s})
    BY <1>8 DEF Remove, Posted, TypeOK
  <2>. QED BY <1>8, <2>1, <2>2, AskOrder DEF Remove
<1>9. ASSUME NEW i \in Requests, Fetched(i)
      PROVE  OrderlyInv'
  <2>0. /\ request[i].at = "list" /\ Answered(i)
        /\ UNCHANGED <<row, view, synced, removed, raced>>
    BY <1>9 DEF Fetched
  <2>1. SUFFICES ASSUME ~raced, NEW p \in loaded'
                 PROVE  OnPage(p)'
    BY <2>0, AnswerOrder
  <2>2. InRequest(i)
    BY <2>1 DEF OrderlyInv
  <2>3. loaded = {}
    BY <2>0, <2>2 DEF InRequest
  <2>4. /\ request[i].page # None /\ p = request[i].page
        /\ request[i].list # NoList
    BY <1>9, <2>1, <2>3 DEF Fetched
  <2>5. p \in Pages /\ request[i].list = Stored
    BY <2>0, <2>2, <2>4, PageType DEF InRequest, Whose
  <2>6. symbols'[p] = Stored /\ shown'[p] = Stored
    BY <1>9, <2>4, <2>5 DEF Fetched, SymbolsOf, TypeOK
  <2>. QED BY <2>0, <2>6 DEF OnPage, Stored
<1>10. ASSUME NEW i \in Requests, ConnectionLost(i)
      PROVE  OrderlyInv'
  BY <1>10, LostOrder
<1>11. ASSUME NEW i \in Requests, Logout(i)
      PROVE  OrderlyInv'
  <2>1. CASE request[i].page = None
    <3>0. /\ request[i].at = "refused" /\ Answered(i)
          /\ UNCHANGED <<row, view, loaded, removed, raced>>
      BY <1>11, <2>1 DEF Logout
    <3>1. ~raced => loaded' = {}
      BY <3>0 DEF OrderlyInv, InRequest
    <3>. QED BY <3>0, <3>1, AnswerOrder
  <2>2. CASE request[i].page # None
    <3>1. request[i].page \in Pages
      BY <2>2, PageType DEF Whose
    <3>2. /\ request'[i] = NoRequest
          /\ \A j \in Requests \ {i} : request'[j] = Forget(request[i].page)[j]
      BY <1>11, <2>2, <3>1, ForgetType DEF Logout, TypeOK
    <3>3. /\ view' = [view EXCEPT ![request[i].page] = "closed"]
          /\ loaded' = loaded \ {request[i].page}
          /\ UNCHANGED <<row, symbols, shown, synced, removed, raced>>
          /\ request[i].at = "refused"
      BY <1>11, <2>2 DEF Logout
    <3>. QED BY <3>1, <3>2, <3>3, LogoutOrder
  <2>. QED BY <2>1, <2>2
<1>12. ASSUME NEW i \in Requests, SyncedOk(i)
      PROVE  OrderlyInv'
  <2>0. /\ request[i].at = "ok" /\ Answered(i)
        /\ UNCHANGED <<row, view, loaded, symbols, removed, raced>>
    BY <1>12 DEF SyncedOk, history
  <2>1. SUFFICES ASSUME ~raced, NEW p \in loaded
                 PROVE  OnPage(p)'
    BY <2>0, AnswerOrder
  <2>2. p \in Pages /\ p # None /\ request[i].page \in {p, None}
    BY <2>0, <2>1, WhosePost
  <2>3. /\ row = request[i].list /\ symbols[p] = request[i].list
        /\ request[i].list \in Lists
        /\ request[i].page = None => synced[p] = "error"
    <3>1. InRequest(i)
      BY <2>1 DEF OrderlyInv
    <3>2. request[i] \in Posts
      BY <2>0, KindOf DEF TypeOK, Posting
    <3>. QED BY <2>0, <2>1, <3>1, <3>2 DEF InRequest, Posting, Posts
  <2>4. Stored = symbols[p]
    BY <2>3, ListsAreNoNoList DEF Stored
  <2>5. CASE request[i].page = None
    BY <1>12, <2>0, <2>3, <2>4, <2>5 DEF SyncedOk, OnPage, Stored
  <2>6. CASE request[i].page = p
    <3>1. shown'[p] = symbols[p]
      BY <1>12, <2>2, <2>6 DEF SyncedOk, TypeOK
    <3>. QED BY <2>0, <2>4, <3>1 DEF OnPage, Stored
  <2>. QED BY <2>2, <2>5, <2>6
<1>13. ASSUME NEW i \in Requests, SyncFailed(i)
      PROVE  OrderlyInv'
  <2>0. /\ request[i].at = "failed" /\ Answered(i)
        /\ UNCHANGED <<row, view, loaded, symbols, shown, removed, raced>>
    BY <1>13 DEF SyncFailed, history
  <2>1. SUFFICES ASSUME ~raced, NEW p \in loaded
                 PROVE  OnPage(p)'
    BY <2>0, AnswerOrder
  <2>2. p \in Pages /\ p # None /\ request[i].page \in {p, None}
    BY <2>0, <2>1, WhosePost
  <2>3. /\ Stored \ symbols[p] \subseteq removed
        /\ request[i].page = None => synced[p] = "error"
    <3>1. InRequest(i)
      BY <2>1 DEF OrderlyInv
    <3>. QED BY <2>0, <2>1, <3>1 DEF InRequest, Posting
  <2>4. synced'[p] = "error"
    BY <1>13, <2>2, <2>3 DEF SyncFailed, TypeOK
  <2>. QED BY <2>0, <2>3, <2>4 DEF OnPage, Stored
<1>14. ASSUME NEW i \in Requests, GetByChatID(i)
      PROVE  OrderlyInv'
  <2>1. UNCHANGED <<row, view, loaded, symbols, shown, synced,
                        removed, raced>>
    BY <1>14 DEF GetByChatID, page, history
  <2>2. /\ request'[i].at # "free" /\ request[i].at # "free"
        /\ request'[i].page = request[i].page
        /\ \A j \in Requests \ {i} : request'[j] = request[j]
        /\ request[i].at = "get" /\ request'[i].at = "list"
        /\ request'[i].list = Stored
    BY <1>14, GetType DEF GetByChatID
  <2>3. ~raced => InRequest(i)'
    BY <2>1, <2>2 DEF OrderlyInv, InRequest, Posting, Stored
  <2>. QED BY <2>1, <2>2, <2>3, MoveOrder
<1>15. ASSUME NEW i \in Requests, GetFails(i)
      PROVE  OrderlyInv'
  <2>1. UNCHANGED <<row, view, loaded, symbols, shown, synced,
                        removed, raced>>
    BY <1>15 DEF GetFails, page, history
  <2>2. /\ request'[i].at # "free" /\ request[i].at # "free"
        /\ request'[i].page = request[i].page
        /\ \A j \in Requests \ {i} : request'[j] = request[j]
        /\ request'[i].list = request[i].list
        /\ request[i].at = "get" /\ request'[i].at = "list"
    BY <1>15, MoveType DEF GetFails, TypeOK, Posting
  <2>3. ~raced => InRequest(i)'
    BY <2>1, <2>2 DEF OrderlyInv, InRequest, Posting, Stored
  <2>. QED BY <2>1, <2>2, <2>3, MoveOrder
<1>16. ASSUME NEW i \in Requests, Unauthorized(i)
      PROVE  OrderlyInv'
  <2>1. UNCHANGED <<row, view, loaded, symbols, shown, synced,
                        removed, raced>>
    BY <1>16 DEF Unauthorized, page, history
  <2>2. /\ request'[i].at # "free" /\ request[i].at # "free"
        /\ request'[i].page = request[i].page
        /\ \A j \in Requests \ {i} : request'[j] = request[j]
        /\ request'[i].list = request[i].list
        /\ \/ request[i].at = "get" /\ request'[i].at = "refused"
           \/ request[i].at = "select" /\ request'[i].at = "failed"
    BY <1>16, MoveType DEF Unauthorized, TypeOK, Posting
  <2>3. ~raced => InRequest(i)'
    BY <2>1, <2>2 DEF OrderlyInv, InRequest, Posting, Stored
  <2>. QED BY <2>1, <2>2, <2>3, MoveOrder
<1>17. ASSUME NEW i \in Requests, SelectRow(i)
      PROVE  OrderlyInv'
  <2>1. UNCHANGED <<row, view, loaded, symbols, shown, synced,
                        removed, raced>>
    BY <1>17 DEF SelectRow, page, history
  <2>2. /\ request'[i].at # "free" /\ request[i].at # "free"
        /\ request'[i].page = request[i].page
        /\ \A j \in Requests \ {i} : request'[j] = request[j]
        /\ request'[i].list = request[i].list
        /\ request[i].at = "select" /\ request'[i].at \in {"create", "update"}
        /\ request'[i].at = "update" => row # NoList
    BY <1>17, MoveType DEF SelectRow, TypeOK, Posting
  <2>3. ~raced => InRequest(i)'
    BY <2>1, <2>2 DEF OrderlyInv, InRequest, Posting, Stored
  <2>. QED BY <2>1, <2>2, <2>3, MoveOrder
<1>18. ASSUME NEW i \in Requests, Create(i)
      PROVE  OrderlyInv'
  <2>1. CASE row = NoList
    BY <1>18, <2>1, WriteOrder DEF Create, Posting, page, history
  <2>2. CASE row # NoList
    <3>1. UNCHANGED <<row, view, loaded, symbols, shown, synced,
                          removed, raced>>
      BY <1>18, <2>2 DEF Create, page, history
    <3>2. /\ request'[i].at # "free" /\ request[i].at # "free"
          /\ request'[i].page = request[i].page
          /\ \A j \in Requests \ {i} : request'[j] = request[j]
          /\ request'[i].list = request[i].list
          /\ request[i].at = "create" /\ request'[i].at = "failed"
      BY <1>18, <2>2, MoveType DEF Create, CreateConflict, TypeOK, Posting
    <3>3. ~raced => InRequest(i)'
      BY <3>1, <3>2 DEF OrderlyInv, InRequest, Posting, Stored
    <3>. QED BY <3>1, <3>2, <3>3, MoveOrder
  <2>. QED BY <2>1, <2>2
<1>19. ASSUME NEW i \in Requests, Update(i)
      PROVE  OrderlyInv'
  BY <1>19, WriteOrder DEF Update, Posting, page, history
<1>20. ASSUME NEW i \in Requests, UpdateNothing(i)
      PROVE  OrderlyInv'
  <2>1. UNCHANGED <<row, view, loaded, symbols, shown, synced,
                        removed, raced>>
    BY <1>20 DEF UpdateNothing, page, history
  <2>2. /\ request'[i].at # "free" /\ request[i].at # "free"
        /\ request'[i].page = request[i].page
        /\ \A j \in Requests \ {i} : request'[j] = request[j]
        /\ request'[i].list = request[i].list
        /\ request[i].at = "update" /\ request'[i].at = "ok" /\ row = NoList
    BY <1>20, MoveType DEF UpdateNothing, TypeOK, Posting
  <2>3. ~raced => InRequest(i)'
    BY <2>1, <2>2 DEF OrderlyInv, InRequest, Posting, Stored
  <2>. QED BY <2>1, <2>2, <2>3, MoveOrder
<1>21. ASSUME NEW i \in Requests, PostFails(i)
      PROVE  OrderlyInv'
  <2>1. UNCHANGED <<row, view, loaded, symbols, shown, synced,
                        removed, raced>>
    BY <1>21 DEF PostFails, page, history
  <2>2. /\ request'[i].at # "free" /\ request[i].at # "free"
        /\ request'[i].page = request[i].page
        /\ \A j \in Requests \ {i} : request'[j] = request[j]
        /\ request'[i].list = request[i].list
        /\ request[i].at \in Posting /\ request'[i].at = "failed"
    BY <1>21, MoveType DEF PostFails, TypeOK, Posting
  <2>3. ~raced => InRequest(i)'
    BY <2>1, <2>2 DEF OrderlyInv, InRequest, Posting, Stored
  <2>. QED BY <2>1, <2>2, <2>3, MoveOrder
<1>22. ASSUME Delete
      PROVE  OrderlyInv'
  BY <1>22 DEF Delete, OrderlyInv
<1>23. ASSUME Expire
      PROVE  OrderlyInv'
  <2>1. UNCHANGED <<row, view, loaded, symbols, shown, synced,
                        removed, raced>>
    BY <1>23 DEF Expire, page, history
  <2>. QED BY <1>23, <2>1, ViewOrder DEF Expire, open
<1>24. CASE UNCHANGED vars
  <2>1. UNCHANGED <<row, view, loaded, symbols, shown, synced, request, removed, raced>>
    BY <1>24 DEF vars, page, history
  <2>. QED BY <2>1
           DEF OrderlyInv, Alone, InRequest, OnPage, Stored, UnderWay, open
<1>. QED BY <1>1, <1>2, <1>3, <1>4, <1>5, <1>6, <1>7, <1>8, <1>9, <1>10,
         <1>11, <1>12, <1>13, <1>14, <1>15, <1>16, <1>17, <1>18, <1>19,
         <1>20, <1>21, <1>22, <1>23, <1>24 DEF Next, PageStep,
         HandlerStep

-----------------------------------------------------------------------------
(* Theorems *)

IInv == TypeOK /\ RequestInv /\ SessionInv /\ StoredInv /\ OrderlyInv

LEMMA IInvInit == ASSUME Init PROVE IInv
<1>1. TypeOK
  <2>1. request \in [Requests -> Request]
    BY NoRequestType DEF Init
  <2>2. /\ saved \in 0..issued /\ expired \in 0..issued /\ issued \in Tokens
        /\ faults \in 0..MaxFaults /\ deletes \in 0..MaxDeletes
        /\ token \in [Pages -> 0..issued]
    BY WatchlistAssumption DEF Init, Tokens
  <2>. QED BY <2>1, <2>2 DEF Init, TypeOK, Lists
<1>2. RequestInv /\ SessionInv /\ StoredInv
  BY DEF Init, RequestInv, SessionInv, StoredInv, NoRequest, open
<1>3. OrderlyInv
  BY DEF Init, OrderlyInv, Alone, InRequest, UnderWay, open, NoRequest, Posting
<1>. QED BY <1>1, <1>2, <1>3 DEF IInv

LEMMA IInvStep == ASSUME IInv, [Next]_vars PROVE IInv'
BY TypeStep, RequestStep, SessionStep, StoredStep, OrderlyStep DEF IInv

LEMMA IInvAlways == Spec => []IInv
BY IInvInit, IInvStep, PTL DEF Spec

(* Pages and requests have their lists at any time, and no page a token that *)
(* was not issued (index.html:352, 402-405).                                 *)
THEOREM WatchlistTypes == Spec => []TypeOK
BY IInvAlways, PTL DEF IInv

(* A post that is answered with success was in the row, whichever other posts *)
(* overtake it (repository.go:25-38).                                         *)
THEOREM SuccessStored == Spec => []SuccessWasStored
<1>1. IInv => SuccessWasStored
  BY DEF IInv, StoredInv, SuccessWasStored
<1>. QED BY <1>1, IInvAlways, PTL

(* A page whose posts are sent while no request is under way, those it has    *)
(* given up included, shows what is stored, through failed and unanswered     *)
(* posts, reloads and logins (index.html:346-413). A post sent while one that *)
(* the page was told has failed is still at work is not covered.              *)
THEOREM PageShowsRow == Spec => []PageIsRight
<1>1. IInv => PageIsRight
  BY DEF IInv, OrderlyInv, OnPage, PageIsRight
<1>. QED BY <1>1, IInvAlways, PTL

(* With such posts no write drops a symbol that its user did not take off,    *)
(* also one that lands after the page was told of a lost connection           *)
(* (index.html:377-413, repository.go:27-34).                                 *)
THEOREM KeepsSymbols == Spec => OnlyRemovedAreDropped
<1>1. ASSUME IInv, [Next]_vars, ~raced', row # NoList,
             NEW s \in row, row' = NoList \/ s \notin row'
      PROVE  s \in removed
  <2>1. Stored = row
    BY <1>1 DEF Stored
  <2>2. ASSUME NEW i \in Requests, Create(i) \/ Update(i)
        PROVE  s \in removed
    <3>1. ~raced /\ row' = request[i].list /\ request[i].at \in Posting
      BY <1>1, <2>2 DEF Create, Update, Write, history, Posting
    <3>2. InRequest(i) /\ request[i] \in Posts
      BY <1>1, <3>1, KindOf DEF IInv, OrderlyInv, TypeOK
    <3>3. row' # NoList
      BY <3>1, <3>2, ListsAreNoNoList DEF Posts
    <3>. QED BY <1>1, <2>1, <3>1, <3>2, <3>3 DEF InRequest
  <2>3. ~Delete
    BY <1>1 DEF Delete
  <2>4. row' # row
    BY <1>1
  <2>5. \E i \in Requests : Create(i) \/ Update(i)
    BY <1>1, <2>3, <2>4 DEF Next, PageStep, HandlerStep, vars, ShowLogin,
       TelegramAuth, LoginLost, Close, Open, LoggedIn, Add, Remove, Fetched,
       ConnectionLost, Logout, SyncedOk, SyncFailed, GetByChatID, GetFails,
       Unauthorized, SelectRow, UpdateNothing, PostFails, Expire
  <2>. QED BY <2>2, <2>5
<1>2. IInv /\ [Next]_vars =>
         [~raced' /\ row # NoList =>
             \A s \in row : row' = NoList \/ s \notin row' => s \in removed]_vars
  BY <1>1
<1>. QED BY <1>2, IInvAlways, PTL DEF Spec, OnlyRemovedAreDropped

(* While one page is in use, no late answer undoes a login that is not yet   *)
(* expired (index.html:275-332, 415-418).                                    *)
THEOREM LoginIsKept == Spec => LoginHolds
<1>1. ASSUME IInv, [Next]_vars, ~shared, saved > expired
      PROVE  saved' # 0
  <2>1. expired \in Nat /\ saved # 0
    BY <1>1, WatchlistAssumption DEF IInv, TypeOK, Tokens
  <2>2. ASSUME NEW p \in Pages, NEW i \in Requests, LoggedIn(p, i)
        PROVE  saved' # 0
    BY <1>1, <2>2 DEF LoggedIn, IInv, SessionInv
  <2>3. ASSUME NEW i \in Requests, Logout(i)
        PROVE  saved' # 0
    <3>1. request[i].page \in Whose
      BY <1>1, PageType DEF IInv
    <3>2. CASE request[i].page = None
      BY <2>1, <2>3, <3>2 DEF Logout
    <3>3. CASE request[i].page # None
      <4>1. /\ token[request[i].page] = saved
            /\ token[request[i].page] <= expired
        BY <1>1, <2>3, <3>1, <3>3
           DEF Logout, IInv, RequestInv, SessionInv, open, Whose
      <4>. QED BY <1>1, <2>1, <4>1, WatchlistAssumption DEF IInv, TypeOK, Tokens
    <3>. QED BY <3>2, <3>3
  <2>4. ASSUME saved' # saved
        PROVE  \/ \E p \in Pages, i \in Requests : LoggedIn(p, i)
               \/ \E i \in Requests : Logout(i)
    BY <1>1, <2>4 DEF Next, PageStep, HandlerStep, vars, login, ShowLogin,
       TelegramAuth, LoginLost, Close, Open, Add, Remove, Fetched,
       ConnectionLost, SyncedOk, SyncFailed, GetByChatID, GetFails, Unauthorized, SelectRow,
       Create, Update, UpdateNothing, PostFails, Delete, Expire
  <2>. QED BY <2>1, <2>2, <2>3, <2>4
<1>2. IInv /\ [Next]_vars => [~shared /\ saved > expired => saved' # 0]_vars
  BY <1>1
<1>. QED BY <1>2, IInvAlways, PTL DEF Spec, LoginHolds
=============================================================================
