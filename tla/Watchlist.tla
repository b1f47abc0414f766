----------------------------- MODULE Watchlist -----------------------------
(***************************************************************************)
(* The watchlist of one chat: the pages that show it (web/index.html), the *)
(* login and the handlers of /config (cmd/api/main.go) and its row in      *)
(* stock_config (modules/watchlist/repository.go).                         *)
(*                                                                         *)
(* Tokens are numbered as they are issued, which is as they expire: those  *)
(* up to `expired' are refused. 0 is no token.                             *)
(*                                                                         *)
(* A page posts its whole list after each change and nothing keeps its     *)
(* user from the next change while a request is under way. A step of a     *)
(* handler is one statement; requests overtake each other.                 *)
(***************************************************************************)
EXTENDS Naturals, FiniteSets

CONSTANTS
    Pages,         \* browser tabs of the user
    Symbols,       \* the symbols he may add
    Requests,      \* a bound on the requests under way at a time
    FailingCalls,  \* what may go wrong
    MaxFaults,     \* bound on the number of times it does
    MaxDeletes,    \* bound on the calls of DELETE /config
    MaxLogins,     \* bound on the tokens issued
    None           \* no page, no symbol

RequestErrors == {"get", "post", "lostReply"}

ASSUME WatchlistAssumption ==
    /\ Requests # {}
    /\ FailingCalls \subseteq RequestErrors
    /\ MaxFaults \in Nat
    /\ MaxDeletes \in Nat
    /\ MaxLogins \in Nat
    /\ None \notin Pages \cup Symbols

VARIABLES
    row,      \* symbols of the row in stock_config, or NoList
    saved,    \* verix_auth_token in the localStorage that the pages share
    issued,   \* the newest token of issueToken
    expired,  \* the newest token that is past its expiry
    view,     \* view[p]: what the page shows
    token,    \* token[p]: STATE.token
    symbols,  \* symbols[p]: STATE.symbols
    shown,    \* shown[p]: the chips, drawn by renderWatchlist
    synced,   \* synced[p]: what the page last said of its last change
    request,  \* request[i]: the requests under way, their page waiting or not
    faults,   \* faults injected so far
    deletes,  \* DELETEs so far
    loaded,   \* pages whose first GET was answered with a list (auxiliary)
    removed,  \* symbols taken off since a page was opened (auxiliary)
    raced,    \* since the list was asked for, something was sent beside a request
              \* under way, or from another page, or before the list (auxiliary)
    shared    \* two pages were in use at a time (auxiliary)

login == <<saved, issued, expired>>
page == <<view, token, symbols, shown, synced>>
history == <<loaded, removed, raced, shared>>
vars == <<row, login, page, request, faults, deletes, history>>

-----------------------------------------------------------------------------
(* Types *)

Lists == SUBSET Symbols

(* No row, no symbols in the body of an answer. *)
NoList == {None}

Tokens == 0..MaxLogins

Posting == {"select", "create", "update", "ok", "failed"}

NoRequest == [at |-> "free", page |-> None, token |-> 0,
              list |-> NoList, written |-> FALSE]

Request ==
    {NoRequest}
    \cup
    [at : {"get", "list", "refused"}, page : Pages \cup {None},
     token : Tokens, list : Lists \cup {NoList}, written : {FALSE}]
    \cup
    [at : Posting, page : Pages \cup {None},
     token : Tokens, list : Lists, written : BOOLEAN]

(* The pages that show the dashboard. *)
open == {p \in Pages : view[p] = "dashboard"}

(***************************************************************************)
(* A page has a list to show at any time, and so has each POST             *)
(* (index.html:352, 402-405).                                              *)
(***************************************************************************)
TypeOK ==
    /\ row \in Lists \cup {NoList}
    /\ issued \in Tokens
    /\ saved \in 0..issued
    /\ expired \in 0..issued
    /\ view \in [Pages -> {"closed", "login", "entering", "dashboard"}]
    /\ token \in [Pages -> 0..issued]
    /\ symbols \in [Pages -> Lists]
    /\ shown \in [Pages -> Lists]
    /\ synced \in [Pages -> {"nothing", "success", "error"}]
    /\ request \in [Requests -> Request]
    /\ faults \in 0..MaxFaults
    /\ deletes \in 0..MaxDeletes
    /\ loaded \subseteq open
    /\ removed \in Lists
    /\ raced \in BOOLEAN
    /\ shared \in BOOLEAN

-----------------------------------------------------------------------------
(* Operators *)

Fault(site) ==
    /\ site \in FailingCalls
    /\ faults < MaxFaults
    /\ faults' = faults + 1

UnderWay == {i \in Requests : request[i].at # "free"}

Stored == IF row = NoList THEN {} ELSE row

(* Seeded fault: data.symbols without || []. *)
SymbolsOfNull(list) == list

(* data.symbols || []: the body of an error has no symbols. *)
SymbolsOf(list) == IF list = NoList THEN {} ELSE list

(* The page asks and goes on. *)
Ask(i, at, p, list) ==
    /\ request[i].at = "free"
    /\ request' = [request EXCEPT ![i] =
          [at |-> at, page |-> p, token |-> token[p],
           list |-> list, written |-> FALSE]]

At(i, from, to) ==
    /\ request[i].at = from
    /\ request' = [request EXCEPT ![i].at = to]

Answered(i) == request' = [request EXCEPT ![i] = NoRequest]

(* Seeded fault: requests are known by their page and outlive its reload. *)
ForgetNothing(p) == request

(* The answers to a page that is left or loaded anew go nowhere. *)
Forget(p) ==
    [i \in Requests |-> IF request[i].page = p
                        THEN [request[i] EXCEPT !.page = None] ELSE request[i]]

(* verifyToken: the expiry is read when the request is handled. *)
Refused(i) == request[i].token <= expired

(* Seeded fault: the change alone is posted. *)
PostedChange(list, s) == list \cap {s}

(* syncWatchlist posts STATE.symbols. *)
Posted(list, s) == list

(* The user is at his only page, which has its list, and no request is under  *)
(* way: the server is done with those that the page has given up, too.        *)
Orderly(p) == open = {p} /\ p \in loaded /\ UnderWay = {}

-----------------------------------------------------------------------------
(* The page *)

(* showDashboard: the chips and the list are empty until fetchWatchlist has  *)
(* its answer.                                                               *)
ShowDashboard(p, i, tok) ==
    /\ request[i].at = "free"
    /\ view' = [view EXCEPT ![p] = "dashboard"]
    /\ token' = [token EXCEPT ![p] = tok]
    /\ symbols' = [symbols EXCEPT ![p] = {}]
    /\ shown' = [shown EXCEPT ![p] = {}]
    /\ synced' = [synced EXCEPT ![p] = "nothing"]
    /\ request' = [Forget(p) EXCEPT ![i] =
          [at |-> "get", page |-> p, token |-> tok,
           list |-> NoList, written |-> FALSE]]
    /\ loaded' = loaded \ {p}
    /\ removed' = {}
    /\ raced' = (UnderWay # {} \/ open \ {p} # {})

Others(p) == {q \in Pages \ {p} : view[q] # "closed"}

(* init of a page that is loaded, for the first time or anew. *)
Open(p, i) ==
    /\ saved # 0
    /\ ShowDashboard(p, i, saved)
    /\ shared' = (shared \/ Others(p) # {})
    /\ UNCHANGED <<row, login, faults, deletes>>

Leave(p, to) ==
    /\ view' = [view EXCEPT ![p] = to]
    /\ loaded' = loaded \ {p}
    /\ request' = Forget(p)

ShowLogin(p) ==
    /\ saved = 0
    /\ view[p] # "login"
    /\ Leave(p, "login")
    /\ token' = [token EXCEPT ![p] = 0]
    /\ shared' = (shared \/ Others(p) # {})
    /\ UNCHANGED <<row, login, symbols, shown, synced, faults, deletes, removed,
                   raced>>

(* telegramAuthHandler has verified the data of the widget. *)
TelegramAuth(p) ==
    /\ view[p] = "login"
    /\ issued < MaxLogins
    /\ issued' = issued + 1
    /\ token' = [token EXCEPT ![p] = issued']
    /\ view' = [view EXCEPT ![p] = "entering"]
    /\ UNCHANGED <<row, saved, expired, symbols, shown, synced, request, faults,
                   deletes, history>>

(* onTelegramAuth has the token. *)
LoggedIn(p, i) ==
    /\ view[p] = "entering"
    /\ saved' = token[p]
    /\ ShowDashboard(p, i, token[p])
    /\ UNCHANGED <<row, issued, expired, faults, deletes, shared>>

(* Its answer does not arrive: the page asks for a login again. *)
LoginLost(p) ==
    /\ Fault("lostReply")
    /\ view[p] = "entering"
    /\ Leave(p, "login")
    /\ UNCHANGED <<row, login, token, symbols, shown, synced, deletes, removed,
                   raced, shared>>

Close(p) ==
    /\ view[p] # "closed"
    /\ Leave(p, "closed")
    /\ UNCHANGED <<row, login, token, symbols, shown, synced, faults, deletes,
                   removed, raced, shared>>

(* A login lasts tokenTTL. *)
Expire ==
    /\ expired < issued
    /\ expired' = expired + 1
    /\ UNCHANGED <<row, saved, issued, page, request, faults, deletes, history>>

(* logout, of a GET with status 401: the page clears localStorage and loads  *)
(* itself anew.                                                              *)
Logout(i) ==
    LET p == request[i].page IN
    /\ request[i].at = "refused"
    /\ IF p = None
       THEN Answered(i) /\ UNCHANGED <<saved, view, loaded>>
       ELSE /\ saved' = 0
            /\ view' = [view EXCEPT ![p] = "closed"]
            /\ loaded' = loaded \ {p}
            /\ request' = [Forget(p) EXCEPT ![i] = NoRequest]
    /\ UNCHANGED <<row, issued, expired, token, symbols, shown, synced, faults,
                   deletes, removed, raced, shared>>

(* fetchWatchlist has its list, or the body of an error. *)
Fetched(i) ==
    LET p == request[i].page IN
    /\ request[i].at = "list"
    /\ IF p = None
       THEN UNCHANGED <<symbols, shown, loaded>>
       ELSE /\ symbols' = [symbols EXCEPT ![p] = SymbolsOf(request[i].list)]
            /\ shown' = [shown EXCEPT ![p] = SymbolsOf(request[i].list)]
            /\ loaded' = IF request[i].list = NoList THEN loaded
                                                   ELSE loaded \cup {p}
    /\ Answered(i)
    /\ UNCHANGED <<row, login, view, token, synced, faults, deletes, removed,
                   raced, shared>>

(* The fetch of the page rejects. Of a post it shows an error, a list stays  *)
(* empty. The handler is not told, and GORM gets no context: it goes on, and *)
(* its write lands whenever it does.                                         *)
ConnectionLost(i) ==
    LET p == request[i].page IN
    /\ Fault("lostReply")
    /\ p # None
    /\ request' = [request EXCEPT ![i].page = None]
    /\ synced' = IF request[i].at \in Posting
                 THEN [synced EXCEPT ![p] = "error"] ELSE synced
    /\ UNCHANGED <<row, login, view, token, symbols, shown, deletes, history>>

Add(p, i, s) ==
    /\ p \in open
    /\ s \notin symbols[p]
    /\ symbols' = [symbols EXCEPT ![p] = @ \cup {s}]
    /\ Ask(i, "select", p, Posted(symbols'[p], s))
    /\ removed' = removed \ {s}
    /\ raced' = (raced \/ ~Orderly(p))
    /\ UNCHANGED <<row, login, view, token, shown, synced, faults, deletes,
                   loaded, shared>>

(* The button of a chip. *)
Remove(p, i, s) ==
    /\ p \in open
    /\ s \in shown[p]
    /\ symbols' = [symbols EXCEPT ![p] = @ \ {s}]
    /\ Ask(i, "select", p, Posted(symbols'[p], s))
    /\ removed' = removed \cup {s}
    /\ raced' = (raced \/ ~Orderly(p))
    /\ UNCHANGED <<row, login, view, token, shown, synced, faults, deletes,
                   loaded, shared>>

(* syncWatchlist draws the list as it is by now. *)
SyncedOk(i) ==
    LET p == request[i].page IN
    /\ request[i].at = "ok"
    /\ IF p = None
       THEN UNCHANGED <<shown, synced>>
       ELSE /\ shown' = [shown EXCEPT ![p] = symbols[p]]
            /\ synced' = [synced EXCEPT ![p] = "success"]
    /\ Answered(i)
    /\ UNCHANGED <<row, login, view, token, symbols, faults, deletes, history>>

(* An error is shown, the change stays in STATE.symbols. *)
SyncFailed(i) ==
    LET p == request[i].page IN
    /\ request[i].at = "failed"
    /\ IF p = None
       THEN UNCHANGED synced
       ELSE synced' = [synced EXCEPT ![p] = "error"]
    /\ Answered(i)
    /\ UNCHANGED <<row, login, view, token, symbols, shown, faults, deletes,
                   history>>

-----------------------------------------------------------------------------
(* The handlers *)

(* getWatchlist; a chat without a row gets an empty list. *)
GetByChatID(i) ==
    /\ request[i].at = "get"
    /\ ~Refused(i)
    /\ request' = [request EXCEPT ![i].at = "list", ![i].list = Stored]
    /\ UNCHANGED <<row, login, page, faults, deletes, history>>

(* Status 500 *)
GetFails(i) ==
    /\ Fault("get")
    /\ At(i, "get", "list")
    /\ UNCHANGED <<row, login, page, deletes, history>>

(* authMiddleware: status 401. *)
Unauthorized(i) ==
    /\ Refused(i)
    /\ At(i, "get", "refused") \/ At(i, "select", "failed")
    /\ UNCHANGED <<row, login, page, faults, deletes, history>>

(* Upsert looks for the row. *)
SelectRow(i) ==
    /\ ~Refused(i)
    /\ At(i, "select", IF row = NoList THEN "create" ELSE "update")
    /\ UNCHANGED <<row, login, page, faults, deletes, history>>

Write(i, list) ==
    /\ row' = list
    /\ request' = [request EXCEPT ![i].at = "ok", ![i].written = TRUE]

(* Seeded fault: the error of Create is dropped. *)
CreateConflictIgnored(i) == At(i, "create", "ok")

(* Another request has inserted the row meanwhile: its key is taken. *)
CreateConflict(i) == At(i, "create", "failed")

Create(i) ==
    /\ request[i].at = "create"
    /\ \/ row = NoList /\ Write(i, request[i].list)
       \/ row # NoList /\ CreateConflict(i) /\ UNCHANGED row
    /\ UNCHANGED <<login, page, faults, deletes, history>>

(* Seeded fault: Updates skips an empty list like a zero value. *)
UpdateUnlessEmpty(i) ==
    /\ request[i].at = "update"
    /\ row # NoList
    /\ Write(i, IF request[i].list = {} THEN row ELSE request[i].list)
    /\ UNCHANGED <<login, page, faults, deletes, history>>

(* Updates of the row that was read; [] is no zero value to GORM. *)
Update(i) ==
    /\ request[i].at = "update"
    /\ row # NoList
    /\ Write(i, request[i].list)
    /\ UNCHANGED <<login, page, faults, deletes, history>>

(* The row was deleted meanwhile: no row is affected, and it is no error. *)
UpdateNothing(i) ==
    /\ row = NoList
    /\ At(i, "update", "ok")
    /\ UNCHANGED <<row, login, page, faults, deletes, history>>

(* A statement fails: status 500. A post that does not reach the server ends   *)
(* for the page as one that fails at its SELECT.                               *)
PostFails(i) ==
    /\ Fault("post")
    /\ \E step \in {"select", "create", "update"} : At(i, step, "failed")
    /\ UNCHANGED <<row, login, page, deletes, history>>

(* DELETE /config/:chat_id, which no page calls. *)
Delete ==
    /\ row # NoList
    /\ deletes < MaxDeletes
    /\ deletes' = deletes + 1
    /\ row' = NoList
    /\ raced' = TRUE
    /\ UNCHANGED <<login, page, request, faults, loaded, removed, shared>>

-----------------------------------------------------------------------------
(* The specification *)

Init ==
    /\ row \in Lists \cup {NoList}
    /\ saved = 0
    /\ issued = 0
    /\ expired = 0
    /\ view = [p \in Pages |-> "closed"]
    /\ token = [p \in Pages |-> 0]
    /\ symbols = [p \in Pages |-> {}]
    /\ shown = [p \in Pages |-> {}]
    /\ synced = [p \in Pages |-> "nothing"]
    /\ request = [i \in Requests |-> NoRequest]
    /\ faults = 0
    /\ deletes = 0
    /\ loaded = {}
    /\ removed = {}
    /\ raced = FALSE
    /\ shared = FALSE

PageStep(i) ==
    \/ Fetched(i) \/ Logout(i) \/ SyncedOk(i) \/ SyncFailed(i)
    \/ ConnectionLost(i)

HandlerStep(i) ==
    \/ GetByChatID(i) \/ GetFails(i) \/ Unauthorized(i)
    \/ SelectRow(i) \/ Create(i) \/ Update(i) \/ UpdateNothing(i)
    \/ PostFails(i)

Next ==
    \/ \E p \in Pages :
          ShowLogin(p) \/ TelegramAuth(p) \/ LoginLost(p) \/ Close(p)
    \/ \E p \in Pages, i \in Requests : Open(p, i) \/ LoggedIn(p, i)
    \/ \E p \in Pages, i \in Requests, s \in Symbols :
          Add(p, i, s) \/ Remove(p, i, s)
    \/ \E i \in Requests : PageStep(i) \/ HandlerStep(i)
    \/ Delete
    \/ Expire

Spec == Init /\ [][Next]_vars

-----------------------------------------------------------------------------
(* Properties *)

(***************************************************************************)
(* A user at his only page sees what is stored, once the page has its list *)
(* and says nothing or "synchronized", if no post of his was sent beside   *)
(* another one: through failed posts, whose change the next post carries   *)
(* along, answers that are lost before or after the write, reloads, and    *)
(* the removal of the last symbol (index.html:346-413, repository.go:25-38).*)
(* That he waits for the page is not enough: a post it was told has failed *)
(* may still be at work, and its UPDATE lands after that of the next one.  *)
(* Whatever has happened, a DELETE too, a reload in peace mends it.        *)
(***************************************************************************)
PageIsRight ==
    ~raced /\ UnderWay = {} =>
        \A p \in loaded :
            synced[p] # "error" => shown[p] = Stored /\ symbols[p] = Stored

(***************************************************************************)
(* The same user never loses a symbol he did not take off, though each     *)
(* post replaces the whole list, and may do so after its page was told     *)
(* that it failed (index.html:377-413, repository.go:27-34).               *)
(***************************************************************************)
OnlyRemovedAreDropped ==
    [][~raced' /\ row # NoList =>
          \A s \in row : row' = NoList \/ s \notin row' => s \in removed]_vars

(***************************************************************************)
(* One page at a time logs out with the token it was refused, never with a *)
(* newer one: the answer to an expired token that is late, after the page  *)
(* was loaded anew and its user has logged in again, does not undo that    *)
(* login (index.html:276-351, 424-427). A second page may: it clears the   *)
(* localStorage they share.                                                *)
(***************************************************************************)
LoginHolds == [][~shared /\ saved > expired => saved' # 0]_vars

(***************************************************************************)
(* However posts overlap and overtake each other, one that is answered     *)
(* with success was in the row, unless the row was deleted under it: of    *)
(* two first posts that find no row, the one whose INSERT hits the key of  *)
(* the other is told so (repository.go:25-38, main.go:346-352).            *)
(***************************************************************************)
SuccessWasStored ==
    deletes = 0 => \A i \in Requests : request[i].at = "ok" => request[i].written
=============================================================================
