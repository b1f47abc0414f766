--------------------------- MODULE Notifications ---------------------------
(***************************************************************************)
(* From the PUBLISH of a digest to the Telegram messages: the subscription *)
(* to article.published in every worker process (cmd/worker/main.go,       *)
(* core/events/pubsub.go) and the notifier (modules/article/notifier.go).  *)
(*                                                                         *)
(* Redis hands an event to the processes that are subscribed at that       *)
(* moment and keeps nothing; a process works off its channel one event     *)
(* after the other.                                                        *)
(***************************************************************************)
EXTENDS Naturals, Sequences, FiniteSets

CONSTANTS
    Processes,     \* worker processes
    Digests,       \* published digests
    TickerOf,      \* the ticker of a digest
    Chats,         \* Telegram chats
    ChannelSize,   \* buffer of the Go channel of go-redis, 100
    FailingCalls,  \* what may go wrong
    MaxFaults,     \* bound on the number of times it does
    MaxStops,      \* bound on the number of shutdowns by signal
    None           \* no chat, no digest

Tickers == {TickerOf[d] : d \in Digests}

NotifyErrors == {"watchlist", "send", "lostSend", "hang", "full",
                 "disconnect", "crash"}

ASSUME NotificationsAssumption ==
    /\ DOMAIN TickerOf = Digests
    /\ None \notin Chats \cup Digests
    /\ ChannelSize \in Nat
    /\ FailingCalls \subseteq NotifyErrors
    /\ MaxFaults \in Nat
    /\ MaxStops \in Nat

VARIABLES
    up,          \* the processes that run
    subscribed,  \* those of them with a live subscription
    channel,     \* channel[p]: events p has received and not yet taken
    notifying,   \* notifying[p]: the digest in Notify and the recipients left
    hung,        \* processes whose POST to Telegram never returns
    backup,      \* TELEGRAM_CHAT_ID, None if not set
    watchers,    \* watchers[t]: chats with t among their symbols
    published,   \* digests whose event was published
    due,         \* due[p][d]: chats that p has to tell of d, while they keep
                 \* watching and their own message does not fail (auxiliary)
    told,        \* told[p][d][c]: messages of p to c about d, two for more
    faults,      \* faults injected so far
    stops        \* shutdowns so far

process == <<up, subscribed>>
subscriber == <<channel, notifying, hung>>
settings == <<backup, watchers>>
vars == <<process, subscriber, settings, published, due, told, faults, stops>>

-----------------------------------------------------------------------------
(* Types *)

Idle == [digest |-> None, todo |-> {}]

Notifying == [digest : Digests \cup {None}, todo : SUBSET Chats]

(***************************************************************************)
(* Only a running process is subscribed, has events or sends messages, and *)
(* an event waits in a channel once at most (main.go:75-92).               *)
(***************************************************************************)
TypeOK ==
    /\ up \subseteq Processes
    /\ subscribed \subseteq up
    /\ channel \in [Processes -> Seq(Digests)]
    /\ \A p \in Processes :
          /\ p \notin up => channel[p] = <<>>
          /\ \A i, j \in 1..Len(channel[p]) :
                channel[p][i] = channel[p][j] => i = j
    /\ notifying \in [Processes -> Notifying]
    /\ \A p \in Processes :
          /\ notifying[p].todo # {} <=> notifying[p].digest # None
          /\ p \notin up => notifying[p] = Idle
    /\ hung \subseteq up
    /\ backup \in Chats \cup {None}
    /\ watchers \in [Tickers -> SUBSET Chats]
    /\ published \subseteq Digests
    /\ due \in [Processes -> [Digests -> SUBSET Chats]]
    /\ told \in [Processes -> [Digests -> [Chats -> 0..2]]]
    /\ faults \in 0..MaxFaults
    /\ stops \in 0..MaxStops

-----------------------------------------------------------------------------
(* Operators *)

Fault(site) ==
    /\ site \in FailingCalls
    /\ faults < MaxFaults
    /\ faults' = faults + 1

Busy(p) == notifying[p].digest # None

(* Seeded fault: an unset TELEGRAM_CHAT_ID is a recipient like the others. *)
BackupChatsAlways == {backup}

BackupChats == {backup} \ {None}

(* Seeded fault: the backup chat only stands in for an empty watchlist. *)
RecipientsOrBackup(t) == IF watchers[t] = {} THEN BackupChats ELSE watchers[t]

(* recipients is a map: a chat that is also the backup is in it once. *)
Recipients(t) == BackupChats \cup watchers[t]

(* Notify begins; without recipients it returns an error at once. *)
Begin(p, recipients) ==
    notifying' = [notifying EXCEPT ![p] =
        IF recipients = {} THEN Idle
                           ELSE [digest |-> Head(channel[p]), todo |-> recipients]]

(* The loop goes on to the other recipients. *)
Without(p, c) ==
    LET rest == notifying[p].todo \ {c}
    IN  notifying' = [notifying EXCEPT ![p] =
                         IF rest = {} THEN Idle ELSE [@ EXCEPT !.todo = rest]]

(* Seeded fault: "return err" for "lastErr = err; continue". *)
SkipFailedReturns(p, c) == notifying' = [notifying EXCEPT ![p] = Idle]

SkipFailed(p, c) == Without(p, c)

(* Seeded fault: a recipient without an answer is tried again. *)
SkipUnansweredRetries(p, c) == UNCHANGED notifying

SkipUnanswered(p, c) == Without(p, c)

Deliver(p, c) ==
    told' = [told EXCEPT ![p][notifying[p].digest][c] =
                IF @ < 2 THEN @ + 1 ELSE @]

(* The end of the process *)
Down(p) ==
    /\ up' = up \ {p}
    /\ subscribed' = subscribed \ {p}
    /\ channel' = [channel EXCEPT ![p] = <<>>]
    /\ notifying' = [notifying EXCEPT ![p] = Idle]
    /\ hung' = hung \ {p}
    /\ due' = [due EXCEPT ![p] = [d \in Digests |-> {}]]

-----------------------------------------------------------------------------
(* The subscriber *)

Boot(p) ==
    /\ p \notin up
    /\ up' = up \cup {p}
    /\ UNCHANGED <<subscribed, subscriber, settings, published, due, told,
                   faults, stops>>

(* Subscribe, in a goroutine started after the queue worker, and go-redis   *)
(* when it connects again.                                                  *)
Subscribe(p) ==
    /\ p \in up \ subscribed
    /\ subscribed' = subscribed \cup {p}
    /\ UNCHANGED <<up, subscriber, settings, published, due, told, faults,
                   stops>>

(* The next event of "range ch": Notify asks for the watchers. *)
Receive(p) ==
    /\ ~Busy(p)
    /\ channel[p] # <<>>
    /\ Begin(p, Recipients(TickerOf[Head(channel[p])]))
    /\ channel' = [channel EXCEPT ![p] = Tail(@)]
    /\ UNCHANGED <<process, hung, settings, published, due, told, faults, stops>>

(* An error of GetChatIDsBySymbol leaves the backup chat. *)
ReceiveWithoutWatchers(p) ==
    /\ ~Busy(p)
    /\ channel[p] # <<>>
    /\ Fault("watchlist")
    /\ Begin(p, BackupChats)
    /\ channel' = [channel EXCEPT ![p] = Tail(@)]
    /\ due' = [due EXCEPT ![p][Head(channel[p])] = @ \cap BackupChats]
    /\ UNCHANGED <<process, hung, settings, published, told, stops>>

(* POST sendMessage, to the recipients in the order of a Go map. *)
Send(p, c) ==
    /\ p \notin hung
    /\ c \in notifying[p].todo
    /\ Deliver(p, c)
    /\ Without(p, c)
    /\ UNCHANGED <<process, channel, hung, settings, published, due, faults,
                   stops>>

(* An error or another status than 200; the message may have arrived all    *)
(* the same; or no answer ever, since http.DefaultClient has no timeout.    *)
SendFails(p, c) ==
    /\ p \notin hung
    /\ c \in notifying[p].todo
    /\ \/ /\ Fault("send")
          /\ SkipFailed(p, c)
          /\ due' = [due EXCEPT ![p][notifying[p].digest] = @ \ {c}]
          /\ UNCHANGED <<told, hung>>
       \/ /\ Fault("lostSend")
          /\ Deliver(p, c)
          /\ SkipUnanswered(p, c)
          /\ UNCHANGED <<due, hung>>
       \/ /\ Fault("hang")
          /\ hung' = hung \cup {p}
          /\ UNCHANGED <<due, told, notifying>>
    /\ UNCHANGED <<process, channel, settings, published, stops>>

(* SIGTERM: main stops the scheduler and returns. *)
Stop(p) ==
    /\ p \in up
    /\ stops < MaxStops
    /\ stops' = stops + 1
    /\ Down(p)
    /\ UNCHANGED <<settings, published, told, faults>>

-----------------------------------------------------------------------------
(* The environment *)

(* The PUBLISH of the queue worker of some process. go-redis drops an event *)
(* that finds the channel full for a minute.                                *)
Publish(d) ==
    /\ up # {}
    /\ d \notin published
    /\ published' = published \cup {d}
    /\ \E receivers \in SUBSET subscribed :
          /\ \/ receivers = subscribed /\ UNCHANGED faults
             \/ /\ receivers # subscribed
                /\ Fault("full")
                /\ \A p \in subscribed \ receivers : Len(channel[p]) >= ChannelSize
          /\ channel' = [p \in Processes |->
                            IF p \in receivers THEN Append(channel[p], d)
                                               ELSE channel[p]]
          /\ due' = [p \in Processes |->
                        IF p \in receivers
                        THEN [due[p] EXCEPT ![d] =
                                 BackupChats \cup watchers[TickerOf[d]]]
                        ELSE due[p]]
    /\ UNCHANGED <<process, notifying, hung, settings, told, stops>>

(* A chat puts the ticker on its list or takes it off. *)
Watch(c, t) ==
    /\ c \notin watchers[t]
    /\ watchers' = [watchers EXCEPT ![t] = @ \cup {c}]
    /\ UNCHANGED <<process, subscriber, backup, published, due, told, faults,
                   stops>>

Unwatch(c, t) ==
    /\ c \in watchers[t]
    /\ watchers' = [watchers EXCEPT ![t] = @ \ {c}]
    /\ due' = [p \in Processes |-> [d \in Digests |->
                  IF TickerOf[d] = t THEN due[p][d] \ ({c} \ BackupChats)
                                     ELSE due[p][d]]]
    /\ UNCHANGED <<process, subscriber, backup, published, told, faults, stops>>

(* The connection to Redis breaks. *)
Disconnect(p) ==
    /\ p \in subscribed
    /\ Fault("disconnect")
    /\ subscribed' = subscribed \ {p}
    /\ UNCHANGED <<up, subscriber, settings, published, due, told, stops>>

Crash(p) ==
    /\ p \in up
    /\ Fault("crash")
    /\ Down(p)
    /\ UNCHANGED <<settings, published, told, stops>>

-----------------------------------------------------------------------------
(* The specification *)

Init ==
    /\ up = Processes
    /\ subscribed = {}
    /\ channel = [p \in Processes |-> <<>>]
    /\ notifying = [p \in Processes |-> Idle]
    /\ hung = {}
    /\ backup \in Chats \cup {None}
    /\ watchers \in [Tickers -> SUBSET Chats]
    /\ published = {}
    /\ due = [p \in Processes |-> [d \in Digests |-> {}]]
    /\ told = [p \in Processes |-> [d \in Digests |-> [c \in Chats |-> 0]]]
    /\ faults = 0
    /\ stops = 0

SubscriberStep(p) ==
    \/ Subscribe(p) \/ Receive(p) \/ ReceiveWithoutWatchers(p)
    \/ \E c \in Chats : Send(p, c) \/ SendFails(p, c)

Next ==
    \/ \E p \in Processes :
          Boot(p) \/ SubscriberStep(p) \/ Stop(p) \/ Disconnect(p) \/ Crash(p)
    \/ \E d \in Digests : Publish(d)
    \/ \E c \in Chats, t \in Tickers : Watch(c, t) \/ Unwatch(c, t)

Spec == Init /\ [][Next]_vars

(* The goroutine goes on while its POST returns; "hang" is when it does not. *)
FairSpec == Spec /\ \A p \in Processes : WF_vars(SubscriberStep(p))

-----------------------------------------------------------------------------
(* Properties *)

(* The alert of p for c about d is still on its way. *)
Pending(p, c, d) ==
    \/ \E i \in 1..Len(channel[p]) : channel[p][i] = d
    \/ notifying[p].digest = d /\ c \in notifying[p].todo

(***************************************************************************)
(* A chat misses an alert that a process received only by its own failed   *)
(* POST, a failed query, its own leaving of the list, or the end of the    *)
(* process: an error does not end the loop for the others, nor does a chat *)
(* that comes or goes between the query and the messages, nor the next     *)
(* event (notifier.go:36-110).                                             *)
(***************************************************************************)
OnlyFailedAreMissed ==
    \A p \in Processes, d \in Digests : \A c \in due[p][d] :
        told[p][d][c] > 0 \/ Pending(p, c, d)

(***************************************************************************)
(* A process sends a chat one message about a digest at most: also when    *)
(* the chat is both the backup and a watcher, when Telegram delivers and   *)
(* answers with an error, and when the process is restarted or its         *)
(* connection breaks between event and message (notifier.go:36-49,         *)
(* main.go:77-92).                                                         *)
(***************************************************************************)
OncePerProcess ==
    \A p \in Processes, d \in Digests, c \in Chats : told[p][d][c] <= 1

(***************************************************************************)
(* A chat that keeps watching is told of each digest a process receives,   *)
(* behind the events and recipients before it whose answers fail or are    *)
(* lost; only a POST that never returns holds it up for good, with all the *)
(* events behind it (main.go:79-91, notifier.go:98).                       *)
(***************************************************************************)
AlertArrives ==
    \A p \in Processes, d \in Digests, c \in Chats :
        c \in due[p][d] ~>
            (told[p][d][c] > 0 \/ c \notin due[p][d] \/ p \in hung)
=============================================================================
