------------------------- MODULE NotificationsProofs -------------------------
(* Theorems of the specification Notifications for every number of          *)
(* processes, digests and chats, whatever goes wrong however often.         *)
EXTENDS Notifications, TLAPS

-----------------------------------------------------------------------------
(* Channels *)

InChannel(p, d) == \E i \in 1..Len(channel[p]) : channel[p][i] = d

ChannelTypeOK == channel \in [Processes -> Seq(Digests)]

(* An event waits once at most.                                              *)
Distinct(p) ==
    \A i, j \in 1..Len(channel[p]) : channel[p][i] = channel[p][j] => i = j

LEMMA TakeEvent ==
    ASSUME ChannelTypeOK, NEW p \in Processes, channel[p] # <<>>, Distinct(p),
           channel' = [channel EXCEPT ![p] = Tail(@)]
    PROVE  /\ ChannelTypeOK' /\ Distinct(p)'
           /\ Head(channel[p]) \in Digests /\ InChannel(p, Head(channel[p]))
           /\ \A d \in Digests :
                 InChannel(p, d)' <=> InChannel(p, d) /\ d # Head(channel[p])
           /\ \A r \in Processes \ {p} : channel'[r] = channel[r]
<1>1. /\ channel[p] \in Seq(Digests) /\ channel'[p] = Tail(channel[p])
      /\ \A r \in Processes \ {p} : channel'[r] = channel[r]
  BY DEF ChannelTypeOK
<1>2. /\ Len(channel[p]) \in Nat \ {0} /\ Head(channel[p]) = channel[p][1]
      /\ Tail(channel[p]) \in Seq(Digests)
      /\ Len(Tail(channel[p])) = Len(channel[p]) - 1
      /\ \A i \in 1..(Len(channel[p]) - 1) : Tail(channel[p])[i] = channel[p][i + 1]
  BY <1>1
<1>3. ChannelTypeOK' /\ Distinct(p)'
  BY <1>1, <1>2 DEF ChannelTypeOK, Distinct
<1>4. Head(channel[p]) \in Digests /\ InChannel(p, Head(channel[p]))
  BY <1>1, <1>2 DEF InChannel
<1>5. ASSUME NEW d \in Digests, InChannel(p, d)'
      PROVE  InChannel(p, d) /\ d # Head(channel[p])
  <2>1. PICK i \in 1..(Len(channel[p]) - 1) : channel[p][i + 1] = d
    <3>1. PICK i \in 1..Len(channel'[p]) : channel'[p][i] = d
      BY <1>5 DEF InChannel
    <3>. QED BY <1>1, <1>2, <3>1
  <2>2. i + 1 \in 1..Len(channel[p]) /\ 1 \in 1..Len(channel[p]) /\ i + 1 # 1
    BY <1>2
  <2>. QED BY <1>2, <2>1, <2>2 DEF InChannel, Distinct
<1>6. ASSUME NEW d \in Digests, InChannel(p, d), d # Head(channel[p])
      PROVE  InChannel(p, d)'
  <2>1. PICK i \in 1..Len(channel[p]) : channel[p][i] = d
    BY <1>6 DEF InChannel
  <2>2. i # 1 /\ i - 1 \in 1..(Len(channel[p]) - 1) /\ (i - 1) + 1 = i
    BY <1>2, <1>6, <2>1
  <2>3. Tail(channel[p])[i - 1] = d
    BY <1>2, <2>1, <2>2
  <2>. QED BY <1>1, <1>2, <2>2, <2>3 DEF InChannel
<1>. QED BY <1>1, <1>3, <1>4, <1>5, <1>6

LEMMA AddEvent ==
    ASSUME ChannelTypeOK, NEW p \in Processes, NEW d \in Digests,
           Distinct(p), ~InChannel(p, d), channel'[p] = Append(channel[p], d)
    PROVE  /\ channel'[p] \in Seq(Digests) /\ Distinct(p)'
           /\ \A e \in Digests : InChannel(p, e)' <=> InChannel(p, e) \/ e = d
<1>1. /\ channel[p] \in Seq(Digests) /\ Len(channel[p]) \in Nat
      /\ Len(channel'[p]) = Len(channel[p]) + 1
      /\ channel'[p] \in Seq(Digests)
      /\ \A i \in 1..Len(channel[p]) : channel'[p][i] = channel[p][i]
      /\ channel'[p][Len(channel[p]) + 1] = d
  BY DEF ChannelTypeOK
<1>2. Distinct(p)'
  BY <1>1 DEF Distinct, InChannel
<1>3. ASSUME NEW e \in Digests
      PROVE  InChannel(p, e)' <=> InChannel(p, e) \/ e = d
  <2>1. CASE InChannel(p, e)
    BY <1>1, <2>1 DEF InChannel
  <2>2. CASE e = d
    <3>1. Len(channel[p]) + 1 \in 1..(Len(channel[p]) + 1)
      BY <1>1
    <3>. QED BY <1>1, <2>2, <3>1 DEF InChannel
  <2>3. CASE InChannel(p, e)'
    <3>1. PICK i \in 1..(Len(channel[p]) + 1) : channel'[p][i] = e
      BY <1>1, <2>3 DEF InChannel
    <3>2. i \in 1..Len(channel[p]) \/ i = Len(channel[p]) + 1
      BY <1>1
    <3>. QED BY <1>1, <3>1, <3>2 DEF InChannel
  <2>. QED BY <2>1, <2>2, <2>3
<1>. QED BY <1>1, <1>2, <1>3

LEMMA NoEvents ==
    ASSUME NEW p \in Processes, channel'[p] = <<>>
    PROVE  /\ channel'[p] \in Seq(Digests) /\ Distinct(p)'
           /\ \A d \in Digests : ~InChannel(p, d)'
BY DEF Distinct, InChannel

-----------------------------------------------------------------------------
(* The inductive invariant *)

(* An event that waits or is worked off was published, and one that is worked *)
(* off waits no more.                                                         *)
EventInv ==
    \A p \in Processes, d \in Digests :
        /\ InChannel(p, d) => d \in published
        /\ notifying[p].digest = d => d \in published /\ ~InChannel(p, d)

(* Nobody was told of an event before its turn.                               *)
FreshInv ==
    \A p \in Processes, d \in Digests, c \in Chats :
        /\ told[p][d][c] <= 1
        /\ d \notin published \/ InChannel(p, d) => told[p][d][c] = 0
        /\ notifying[p].digest = d /\ c \in notifying[p].todo => told[p][d][c] = 0

(* Who is to be told was told, or waits with the event, or is among the       *)
(* recipients left; while the event waits he is a recipient.                  *)
DueInv ==
    \A p \in Processes, d \in Digests : \A c \in due[p][d] :
        /\ \/ told[p][d][c] > 0
           \/ InChannel(p, d)
           \/ notifying[p].digest = d /\ c \in notifying[p].todo
        /\ InChannel(p, d) => c \in Recipients(TickerOf[d])

IInv == TypeOK /\ EventInv /\ FreshInv /\ DueInv

LEMMA IdleType == Idle \in Notifying /\ Idle.digest = None /\ Idle.todo = {}
BY DEF Idle, Notifying

LEMMA BusyType ==
    ASSUME TypeOK, NEW p \in Processes, NEW c \in notifying[p].todo
    PROVE  /\ notifying[p].digest \in Digests /\ c \in Chats /\ p \in up
           /\ notifying[p] \in Notifying
<1>1. notifying[p] \in Notifying
  BY DEF TypeOK
<1>2. notifying[p].digest # None
  BY DEF TypeOK
<1>3. p \in up
  BY IdleType DEF TypeOK
<1>. QED BY <1>1, <1>2, <1>3 DEF Notifying

LEMMA WithoutType ==
    ASSUME TypeOK, NEW p \in Processes, NEW c \in notifying[p].todo, Without(p, c)
    PROVE  /\ notifying' \in [Processes -> Notifying]
           /\ notifying'[p].todo = notifying[p].todo \ {c}
           /\ notifying'[p].digest = IF notifying[p].todo \ {c} = {} THEN None
                                     ELSE notifying[p].digest
           /\ \A r \in Processes \ {p} : notifying'[r] = notifying[r]
<1>1. notifying[p] \in Notifying /\ notifying \in [Processes -> Notifying]
  BY DEF TypeOK
<1>2. CASE notifying[p].todo \ {c} = {}
  BY <1>1, <1>2, IdleType DEF Without
<1>3. CASE notifying[p].todo \ {c} # {}
  <2>1. notifying' = [notifying EXCEPT ![p] =
                         [notifying[p] EXCEPT !.todo = notifying[p].todo \ {c}]]
    BY <1>1, <1>3 DEF Without
  <2>2. /\ [notifying[p] EXCEPT !.todo = notifying[p].todo \ {c}] \in Notifying
        /\ [notifying[p] EXCEPT !.todo = notifying[p].todo \ {c}].todo
              = notifying[p].todo \ {c}
        /\ [notifying[p] EXCEPT !.todo = notifying[p].todo \ {c}].digest
              = notifying[p].digest
    BY <1>1 DEF Notifying
  <2>. QED BY <1>1, <1>3, <2>1, <2>2
<1>. QED BY <1>2, <1>3

LEMMA BeginType ==
    ASSUME TypeOK, NEW p \in Processes, NEW recipients \in SUBSET Chats,
           Head(channel[p]) \in Digests, Begin(p, recipients)
    PROVE  /\ notifying' \in [Processes -> Notifying]
           /\ notifying'[p].todo = recipients
           /\ notifying'[p].digest = IF recipients = {} THEN None
                                     ELSE Head(channel[p])
           /\ \A r \in Processes \ {p} : notifying'[r] = notifying[r]
<1>1. notifying \in [Processes -> Notifying]
  BY DEF TypeOK
<1>2. CASE recipients = {}
  BY <1>1, <1>2, IdleType DEF Begin
<1>3. CASE recipients # {}
  <2>1. [digest |-> Head(channel[p]), todo |-> recipients] \in Notifying
    BY DEF Notifying
  <2>2. notifying' = [notifying EXCEPT ![p] =
                         [digest |-> Head(channel[p]), todo |-> recipients]]
    BY <1>3 DEF Begin
  <2>. QED BY <1>1, <1>3, <2>1, <2>2
<1>. QED BY <1>2, <1>3

LEMMA DeliverType ==
    ASSUME TypeOK, NEW p \in Processes, NEW c \in notifying[p].todo, Deliver(p, c)
    PROVE  /\ told' \in [Processes -> [Digests -> [Chats -> 0..2]]]
           /\ told'[p][notifying[p].digest][c] =
                 IF told[p][notifying[p].digest][c] < 2
                 THEN told[p][notifying[p].digest][c] + 1 ELSE 2
           /\ \A r \in Processes, d \in Digests, b \in Chats :
                 r # p \/ d # notifying[p].digest \/ b # c =>
                    told'[r][d][b] = told[r][d][b]
<1>1. /\ notifying[p].digest \in Digests /\ c \in Chats
      /\ told \in [Processes -> [Digests -> [Chats -> 0..2]]]
  BY BusyType DEF TypeOK
<1>2. told[p][notifying[p].digest][c] \in 0..2
  BY <1>1
<1>3. \A n \in 0..2 :
         told' = [told EXCEPT ![p][notifying[p].digest][c] = n] =>
           /\ told' \in [Processes -> [Digests -> [Chats -> 0..2]]]
           /\ told'[p][notifying[p].digest][c] = n
           /\ \A r \in Processes, d \in Digests, b \in Chats :
                 r # p \/ d # notifying[p].digest \/ b # c =>
                    told'[r][d][b] = told[r][d][b]
  BY <1>1
<1>4. CASE told[p][notifying[p].digest][c] < 2
  <2>1. told' = [told EXCEPT ![p][notifying[p].digest][c] =
                    told[p][notifying[p].digest][c] + 1]
    BY <1>1, <1>4 DEF Deliver
  <2>2. told[p][notifying[p].digest][c] + 1 \in 0..2
    BY <1>2, <1>4
  <2>. QED BY <1>3, <1>4, <2>1, <2>2
<1>5. CASE ~(told[p][notifying[p].digest][c] < 2)
  <2>1. told[p][notifying[p].digest][c] = 2 /\ 2 \in 0..2
    BY <1>2, <1>5
  <2>2. told' = [told EXCEPT ![p][notifying[p].digest][c] = 2]
    BY <1>1, <1>5, <2>1 DEF Deliver
  <2>. QED BY <1>3, <1>5, <2>1, <2>2
<1>. QED BY <1>4, <1>5

-----------------------------------------------------------------------------
(* Steps *)

DueTypeOK == due \in [Processes -> [Digests -> SUBSET Chats]]

LEMMA RecipientsType ==
    ASSUME TypeOK, NEW d \in Digests
    PROVE  /\ TickerOf[d] \in Tickers
           /\ Recipients(TickerOf[d]) \in SUBSET Chats
           /\ BackupChats \in SUBSET Chats
BY DEF TypeOK, Tickers, Recipients, BackupChats

(* The next event is taken and its recipients are found.                      *)
LEMMA TakeStep ==
    ASSUME IInv, NEW p \in Processes, channel[p] # <<>>, ~Busy(p),
           NEW recipients \in SUBSET Chats, Begin(p, recipients),
           channel' = [channel EXCEPT ![p] = Tail(@)],
           DueTypeOK',
           \A r \in Processes, d \in Digests : due'[r][d] \subseteq due[r][d],
           due'[p][Head(channel[p])] \subseteq recipients,
           faults' \in 0..MaxFaults,
           UNCHANGED <<up, subscribed, hung, backup, watchers, published, told, stops>>
    PROVE  IInv'
<1>1. /\ ChannelTypeOK' /\ Distinct(p)'
      /\ Head(channel[p]) \in Digests /\ InChannel(p, Head(channel[p]))
      /\ \A d \in Digests : InChannel(p, d)' <=> InChannel(p, d) /\ d # Head(channel[p])
      /\ \A r \in Processes \ {p} : channel'[r] = channel[r]
  BY TakeEvent DEF IInv, TypeOK, ChannelTypeOK, Distinct
<1>2. /\ notifying' \in [Processes -> Notifying]
      /\ notifying'[p].todo = recipients
      /\ notifying'[p].digest = IF recipients = {} THEN None ELSE Head(channel[p])
      /\ \A r \in Processes \ {p} : notifying'[r] = notifying[r]
  BY <1>1, BeginType DEF IInv
<1>3. p \in up /\ notifying[p].digest = None
  BY DEF IInv, TypeOK, Busy
<1>4. \A r \in Processes \ {p}, d \in Digests : InChannel(r, d)' <=> InChannel(r, d)
  BY <1>1 DEF InChannel
<1>5. None \notin Digests
  BY NotificationsAssumption
<1>6. TypeOK'
  <2>1. \A r \in Processes : Distinct(r)'
    BY <1>1 DEF IInv, TypeOK, Distinct
  <2>2. \A r \in Processes : r \notin up => channel'[r] = <<>>
    BY <1>1, <1>3 DEF IInv, TypeOK
  <2>3. \A r \in Processes :
           /\ notifying'[r].todo # {} <=> notifying'[r].digest # None
           /\ r \notin up => notifying'[r] = Idle
    BY <1>1, <1>2, <1>3, <1>5 DEF IInv, TypeOK
  <2>. QED BY <1>1, <1>2, <2>1, <2>2, <2>3
           DEF IInv, TypeOK, ChannelTypeOK, Distinct, DueTypeOK
<1>7. EventInv'
  BY <1>1, <1>2, <1>4, <1>5 DEF IInv, EventInv
<1>8. FreshInv'
  BY <1>1, <1>2, <1>4, <1>5 DEF IInv, FreshInv
<1>9. DueInv'
  <2>1. SUFFICES ASSUME NEW r \in Processes, NEW d \in Digests, NEW c \in due'[r][d]
                 PROVE  /\ \/ told[r][d][c] > 0
                           \/ InChannel(r, d)'
                           \/ notifying'[r].digest = d /\ c \in notifying'[r].todo
                        /\ InChannel(r, d)' => c \in Recipients(TickerOf[d])
    BY DEF DueInv, Recipients, BackupChats
  <2>2. c \in due[r][d]
    BY <2>1
  <2>3. CASE r # p
    BY <1>2, <1>4, <2>2, <2>3 DEF IInv, DueInv
  <2>4. CASE r = p /\ d # Head(channel[p])
    BY <1>1, <1>3, <1>5, <2>2, <2>4 DEF IInv, DueInv
  <2>5. CASE r = p /\ d = Head(channel[p])
    BY <1>1, <1>2, <2>1, <2>5
  <2>. QED BY <2>3, <2>4, <2>5
<1>. QED BY <1>6, <1>7, <1>8, <1>9 DEF IInv

(* The loop is done with one recipient, whether he was told or not.           *)
LEMMA SkipStep ==
    ASSUME IInv, NEW p \in Processes, NEW c \in notifying[p].todo, Without(p, c),
           Deliver(p, c) \/ told' = told,
           DueTypeOK',
           \A r \in Processes, d \in Digests : due'[r][d] \subseteq due[r][d],
           Deliver(p, c) \/ c \notin due'[p][notifying[p].digest],
           faults' \in 0..MaxFaults,
           UNCHANGED <<up, subscribed, channel, hung, backup, watchers, published,
                       stops>>
    PROVE  IInv'
<1>1. /\ notifying[p].digest \in Digests /\ c \in Chats /\ p \in up
      /\ None \notin Digests
  BY BusyType, NotificationsAssumption DEF IInv
<1>2. /\ notifying' \in [Processes -> Notifying]
      /\ notifying'[p].todo = notifying[p].todo \ {c}
      /\ notifying'[p].digest = IF notifying[p].todo \ {c} = {} THEN None
                                ELSE notifying[p].digest
      /\ \A r \in Processes \ {p} : notifying'[r] = notifying[r]
  BY WithoutType DEF IInv
<1>3. /\ told \in [Processes -> [Digests -> [Chats -> 0..2]]]
      /\ told[p][notifying[p].digest][c] = 0
  BY <1>1 DEF IInv, TypeOK, FreshInv
<1>4. /\ told' \in [Processes -> [Digests -> [Chats -> 0..2]]]
      /\ told'[p][notifying[p].digest][c] \in {0, 1}
      /\ Deliver(p, c) => told'[p][notifying[p].digest][c] = 1
      /\ \A r \in Processes, d \in Digests, b \in Chats :
            r # p \/ d # notifying[p].digest \/ b # c =>
               told'[r][d][b] = told[r][d][b]
  <2>1. CASE Deliver(p, c)
    BY <1>3, <2>1, DeliverType DEF IInv
  <2>2. CASE told' = told /\ ~Deliver(p, c)
    BY <1>3, <2>2
  <2>. QED BY <2>1, <2>2
<1>5. \A r \in Processes, d \in Digests : InChannel(r, d)' <=> InChannel(r, d)
  BY DEF InChannel
<1>6. TypeOK'
  <2>1. \A r \in Processes :
           /\ notifying'[r].todo # {} <=> notifying'[r].digest # None
           /\ r \notin up => notifying'[r] = Idle
    BY <1>1, <1>2 DEF IInv, TypeOK
  <2>. QED BY <1>2, <1>4, <2>1 DEF IInv, TypeOK, DueTypeOK
<1>7. EventInv'
  BY <1>1, <1>2, <1>5 DEF IInv, EventInv
<1>8. FreshInv'
  <2>1. SUFFICES ASSUME NEW r \in Processes, NEW d \in Digests, NEW b \in Chats
                 PROVE  /\ told'[r][d][b] <= 1
                        /\ d \notin published \/ InChannel(r, d) => told'[r][d][b] = 0
                        /\ notifying'[r].digest = d /\ b \in notifying'[r].todo
                              => told'[r][d][b] = 0
    BY <1>5 DEF FreshInv
  <2>2. CASE r = p /\ d = notifying[p].digest /\ b = c
    BY <1>1, <1>2, <1>4, <2>2 DEF IInv, EventInv
  <2>3. CASE r # p \/ d # notifying[p].digest \/ b # c
    <3>1. told'[r][d][b] = told[r][d][b]
      BY <1>4, <2>3
    <3>2. notifying'[r].digest = d /\ b \in notifying'[r].todo =>
             notifying[r].digest = d /\ b \in notifying[r].todo
      BY <1>1, <1>2
    <3>. QED BY <3>1, <3>2 DEF IInv, FreshInv
  <2>. QED BY <2>2, <2>3
<1>9. DueInv'
  <2>1. SUFFICES ASSUME NEW r \in Processes, NEW d \in Digests, NEW b \in due'[r][d]
                 PROVE  /\ \/ told'[r][d][b] > 0
                           \/ InChannel(r, d)
                           \/ notifying'[r].digest = d /\ b \in notifying'[r].todo
                        /\ InChannel(r, d) => b \in Recipients(TickerOf[d])
    BY <1>5 DEF DueInv, Recipients, BackupChats
  <2>2. b \in due[r][d] /\ b \in Chats
    BY <2>1 DEF IInv, TypeOK
  <2>3. CASE r = p /\ d = notifying[p].digest /\ b = c
    BY <1>4, <2>1, <2>2, <2>3 DEF IInv, DueInv
  <2>4. CASE r # p \/ d # notifying[p].digest \/ b # c
    <3>1. told'[r][d][b] = told[r][d][b]
      BY <1>4, <2>2, <2>4
    <3>2. notifying[r].digest = d /\ b \in notifying[r].todo =>
             notifying'[r].digest = d /\ b \in notifying'[r].todo
      BY <1>1, <1>2, <2>4
    <3>. QED BY <2>2, <3>1, <3>2 DEF IInv, DueInv
  <2>. QED BY <2>3, <2>4
<1>. QED BY <1>6, <1>7, <1>8, <1>9 DEF IInv

LEMMA DownStep ==
    ASSUME IInv, NEW p \in Processes, Down(p), faults' \in 0..MaxFaults,
           stops' \in 0..MaxStops, UNCHANGED <<backup, watchers, published, told>>
    PROVE  IInv'
<1>1. /\ channel' = [channel EXCEPT ![p] = <<>>] /\ channel'[p] = <<>>
      /\ \A r \in Processes \ {p} : channel'[r] = channel[r]
      /\ channel' \in [Processes -> Seq(Digests)]
  BY DEF Down, IInv, TypeOK
<1>2. /\ notifying' \in [Processes -> Notifying] /\ notifying'[p] = Idle
      /\ \A r \in Processes \ {p} : notifying'[r] = notifying[r]
  BY IdleType DEF Down, IInv, TypeOK
<1>3. /\ DueTypeOK' /\ \A d \in Digests : due'[p][d] = {}
      /\ \A r \in Processes \ {p} : due'[r] = due[r]
  BY DEF Down, IInv, TypeOK, DueTypeOK
<1>4. /\ \A d \in Digests : ~InChannel(p, d)'
      /\ \A r \in Processes \ {p}, d \in Digests : InChannel(r, d)' <=> InChannel(r, d)
  BY <1>1, NoEvents DEF InChannel
<1>5. \A r \in Processes : Distinct(r)'
  BY <1>1, NoEvents DEF Distinct, IInv, TypeOK
<1>6. TypeOK'
  <2>1. up' = up \ {p} /\ subscribed' = subscribed \ {p} /\ hung' = hung \ {p}
    BY DEF Down
  <2>2. \A r \in Processes :
           /\ r \notin up' => channel'[r] = <<>>
           /\ notifying'[r].todo # {} <=> notifying'[r].digest # None
           /\ r \notin up' => notifying'[r] = Idle
    BY <1>1, <1>2, <2>1, IdleType DEF IInv, TypeOK
  <2>. QED BY <1>1, <1>2, <1>3, <1>5, <2>1, <2>2
           DEF IInv, TypeOK, DueTypeOK, Distinct
<1>7. EventInv'
  BY <1>2, <1>4, IdleType, NotificationsAssumption DEF IInv, EventInv
<1>8. FreshInv'
  BY <1>2, <1>4, IdleType DEF IInv, FreshInv
<1>9. DueInv'
  BY <1>2, <1>3, <1>4 DEF IInv, DueInv, Recipients, BackupChats
<1>. QED BY <1>6, <1>7, <1>8, <1>9 DEF IInv

LEMMA IInvStep ==
    ASSUME IInv, [Next]_vars
    PROVE  IInv'
<1>1. ASSUME NEW p \in Processes, Boot(p)
      PROVE  IInv'
  <2>1. UNCHANGED <<channel, notifying, backup, watchers, published, due, told>>
    BY <1>1 DEF Boot, subscriber, settings, process
  <2>2. EventInv' /\ FreshInv' /\ DueInv'
    BY <2>1
       DEF IInv, EventInv, FreshInv, DueInv, InChannel, Recipients, BackupChats
  <2>3. TypeOK'
    BY <1>1, <2>1 DEF Boot, subscriber, settings, process, IInv, TypeOK
  <2>. QED BY <2>2, <2>3 DEF IInv
<1>2. ASSUME NEW p \in Processes, Subscribe(p)
      PROVE  IInv'
  <2>1. UNCHANGED <<channel, notifying, backup, watchers, published, due, told>>
    BY <1>2 DEF Subscribe, subscriber, settings, process
  <2>2. EventInv' /\ FreshInv' /\ DueInv'
    BY <2>1
       DEF IInv, EventInv, FreshInv, DueInv, InChannel, Recipients, BackupChats
  <2>3. TypeOK'
    BY <1>2, <2>1 DEF Subscribe, subscriber, settings, process, IInv, TypeOK
  <2>. QED BY <2>2, <2>3 DEF IInv
<1>3. ASSUME NEW p \in Processes, Receive(p)
      PROVE  IInv'
  <2>1. /\ Head(channel[p]) \in Digests
        /\ InChannel(p, Head(channel[p]))
    BY <1>3, TakeEvent DEF Receive, IInv, TypeOK, ChannelTypeOK, Distinct
  <2>2. /\ Recipients(TickerOf[Head(channel[p])]) \in SUBSET Chats
        /\ due[p][Head(channel[p])] \subseteq Recipients(TickerOf[Head(channel[p])])
    BY <2>1, RecipientsType DEF IInv, DueInv
  <2>3. /\ DueTypeOK' /\ due' = due /\ faults' \in 0..MaxFaults
        /\ UNCHANGED <<up, subscribed, hung, backup, watchers, published, told, stops>>
    BY <1>3 DEF Receive, process, settings, IInv, TypeOK, DueTypeOK
  <2>. QED BY <1>3, <2>2, <2>3, TakeStep DEF Receive
<1>4. ASSUME NEW p \in Processes, ReceiveWithoutWatchers(p)
      PROVE  IInv'
  <2>1. Head(channel[p]) \in Digests
    BY <1>4, TakeEvent
       DEF ReceiveWithoutWatchers, IInv, TypeOK, ChannelTypeOK, Distinct
  <2>2. BackupChats \in SUBSET Chats
    BY <2>1, RecipientsType DEF IInv
  <2>3. /\ DueTypeOK'
        /\ \A r \in Processes, d \in Digests : due'[r][d] \subseteq due[r][d]
        /\ due'[p][Head(channel[p])] \subseteq BackupChats
    BY <1>4, <2>1 DEF ReceiveWithoutWatchers, IInv, TypeOK, DueTypeOK
  <2>4. /\ faults' \in 0..MaxFaults
        /\ UNCHANGED <<up, subscribed, hung, backup, watchers, published, told, stops>>
    BY <1>4, NotificationsAssumption
       DEF ReceiveWithoutWatchers, Fault, process, settings, IInv, TypeOK
  <2>. QED BY <1>4, <2>2, <2>3, <2>4, TakeStep DEF ReceiveWithoutWatchers
<1>5. ASSUME NEW p \in Processes, NEW c \in Chats, Send(p, c)
      PROVE  IInv'
  <2>1. /\ c \in notifying[p].todo /\ Without(p, c) /\ Deliver(p, c)
        /\ UNCHANGED <<up, subscribed, channel, hung, backup, watchers, published,
                       due, faults, stops>>
    BY <1>5 DEF Send, process, settings
  <2>2. DueTypeOK' /\ faults' \in 0..MaxFaults
    BY <2>1 DEF IInv, TypeOK, DueTypeOK
  <2>. QED BY <2>1, <2>2, SkipStep
<1>6. ASSUME NEW p \in Processes, NEW c \in Chats, SendFails(p, c)
      PROVE  IInv'
  <2>1. /\ c \in notifying[p].todo /\ faults' \in 0..MaxFaults
        /\ UNCHANGED <<up, subscribed, channel, backup, watchers, published, stops>>
    BY <1>6, NotificationsAssumption
       DEF SendFails, Fault, process, settings, IInv, TypeOK
  <2>2. notifying[p].digest \in Digests /\ p \in up
    BY <2>1, BusyType DEF IInv
  <2>3. CASE /\ SkipFailed(p, c)
             /\ due' = [due EXCEPT ![p][notifying[p].digest] = @ \ {c}]
             /\ UNCHANGED <<told, hung>>
    <3>1. /\ DueTypeOK'
          /\ \A r \in Processes, d \in Digests : due'[r][d] \subseteq due[r][d]
          /\ c \notin due'[p][notifying[p].digest]
      BY <2>2, <2>3 DEF IInv, TypeOK, DueTypeOK
    <3>. QED BY <2>1, <2>3, <3>1, SkipStep DEF SkipFailed
  <2>4. CASE /\ Deliver(p, c) /\ SkipUnanswered(p, c)
             /\ UNCHANGED <<due, hung>>
    <3>1. DueTypeOK'
      BY <2>4 DEF IInv, TypeOK, DueTypeOK
    <3>. QED BY <2>1, <2>4, <3>1, SkipStep DEF SkipUnanswered
  <2>5. CASE /\ hung' = hung \cup {p}
             /\ UNCHANGED <<due, told, notifying>>
    <3>1. EventInv' /\ FreshInv' /\ DueInv'
      BY <2>1, <2>5
         DEF IInv, EventInv, FreshInv, DueInv, InChannel, Recipients,
             BackupChats
    <3>2. TypeOK'
      BY <2>1, <2>2, <2>5 DEF IInv, TypeOK
    <3>. QED BY <3>1, <3>2 DEF IInv
  <2>. QED BY <1>6, <2>3, <2>4, <2>5 DEF SendFails
<1>7. ASSUME NEW p \in Processes, Stop(p)
      PROVE  IInv'
  BY <1>7, DownStep, NotificationsAssumption DEF Stop, settings, IInv, TypeOK
<1>8. ASSUME NEW p \in Processes, Disconnect(p)
      PROVE  IInv'
  <2>0. faults' \in 0..MaxFaults
    BY <1>8, NotificationsAssumption DEF Disconnect, Fault, IInv, TypeOK
  <2>1. UNCHANGED <<channel, notifying, backup, watchers, published, due, told>>
    BY <1>8 DEF Disconnect, subscriber, settings, process
  <2>2. EventInv' /\ FreshInv' /\ DueInv'
    BY <2>1
       DEF IInv, EventInv, FreshInv, DueInv, InChannel, Recipients, BackupChats
  <2>3. TypeOK'
    BY <1>8, <2>0, <2>1
       DEF Disconnect, subscriber, settings, process, IInv, TypeOK
  <2>. QED BY <2>2, <2>3 DEF IInv
<1>9. ASSUME NEW p \in Processes, Crash(p)
      PROVE  IInv'
  BY <1>9, DownStep, NotificationsAssumption
     DEF Crash, Fault, settings, IInv, TypeOK
<1>10. ASSUME NEW d \in Digests, Publish(d)
      PROVE  IInv'
  <2>1. PICK receivers \in SUBSET subscribed :
           /\ UNCHANGED faults \/ Fault("full")
           /\ channel' = [p \in Processes |->
                             IF p \in receivers THEN Append(channel[p], d)
                                                ELSE channel[p]]
           /\ due' = [p \in Processes |->
                         IF p \in receivers
                         THEN [due[p] EXCEPT ![d] =
                                  BackupChats \cup watchers[TickerOf[d]]]
                         ELSE due[p]]
    BY <1>10 DEF Publish
  <2>2. /\ d \notin published /\ published' = published \cup {d}
        /\ UNCHANGED <<up, subscribed, notifying, hung, backup, watchers, told, stops>>
        /\ faults' \in 0..MaxFaults
    BY <1>10, <2>1, NotificationsAssumption
       DEF Publish, Fault, process, settings, IInv, TypeOK
  <2>3. \A p \in Processes : ~InChannel(p, d)
    BY <2>2 DEF IInv, EventInv
  <2>4. ASSUME NEW p \in Processes
        PROVE  /\ channel'[p] \in Seq(Digests) /\ Distinct(p)'
               /\ \A e \in Digests : InChannel(p, e)' <=>
                     InChannel(p, e) \/ (e = d /\ p \in receivers)
    <3>1. ChannelTypeOK /\ Distinct(p)
      BY DEF IInv, TypeOK, ChannelTypeOK, Distinct
    <3>2. CASE p \in receivers
      <4>1. channel'[p] = Append(channel[p], d)
        BY <2>1, <3>2
      <4>. QED BY <2>3, <3>1, <3>2, <4>1, AddEvent
    <3>3. CASE p \notin receivers
      <4>1. channel'[p] = channel[p]
        BY <2>1, <3>3
      <4>. QED BY <3>1, <3>3, <4>1 DEF ChannelTypeOK, Distinct, InChannel
    <3>. QED BY <3>2, <3>3
  <2>5. TickerOf[d] \in Tickers /\ BackupChats \cup watchers[TickerOf[d]] \in SUBSET Chats
    BY RecipientsType DEF IInv, Recipients
  <2>6. /\ DueTypeOK'
        /\ \A p \in Processes, e \in Digests :
              due'[p][e] = IF p \in receivers /\ e = d THEN Recipients(TickerOf[d])
                                                      ELSE due[p][e]
    BY <2>1, <2>5 DEF IInv, TypeOK, DueTypeOK, Recipients
  <2>7. TypeOK'
    <3>1. receivers \subseteq up
      BY DEF IInv, TypeOK
    <3>2. \A p \in Processes : p \notin up => channel'[p] = <<>>
      BY <2>1, <3>1 DEF IInv, TypeOK
    <3>3. channel' \in [Processes -> Seq(Digests)]
      BY <2>1, <2>4
    <3>4. UNCHANGED <<up, subscribed, notifying, hung, backup, watchers, told, stops>>
      BY <2>2
    <3>. QED BY <2>2, <2>4, <2>6, <3>2, <3>3, <3>4
             DEF IInv, TypeOK, DueTypeOK, Distinct
  <2>8. EventInv'
    BY <2>2, <2>4 DEF IInv, EventInv
  <2>9. FreshInv'
    BY <2>2, <2>4 DEF IInv, FreshInv
  <2>10. DueInv'
    <3>1. SUFFICES ASSUME NEW p \in Processes, NEW e \in Digests, NEW c \in due'[p][e]
                   PROVE  /\ \/ told[p][e][c] > 0
                             \/ InChannel(p, e)'
                             \/ notifying[p].digest = e /\ c \in notifying[p].todo
                          /\ InChannel(p, e)' => c \in Recipients(TickerOf[e])
      BY <2>2 DEF DueInv, Recipients, BackupChats
    <3>2. CASE p \in receivers /\ e = d
      BY <2>4, <2>6, <3>1, <3>2
    <3>3. CASE ~(p \in receivers /\ e = d)
      BY <2>4, <2>6, <3>1, <3>3 DEF IInv, DueInv
    <3>. QED BY <3>2, <3>3
  <2>. QED BY <2>7, <2>8, <2>9, <2>10 DEF IInv
<1>11. ASSUME NEW c \in Chats, NEW t \in Tickers, Watch(c, t)
      PROVE  IInv'
  <2>1. /\ UNCHANGED <<up, subscribed, channel, notifying, hung, backup, published,
                       due, told, faults, stops>>
        /\ watchers' \in [Tickers -> SUBSET Chats]
        /\ \A u \in Tickers : watchers[u] \subseteq watchers'[u]
    BY <1>11 DEF Watch, process, subscriber, IInv, TypeOK
  <2>2. EventInv' /\ FreshInv'
    BY <2>1 DEF IInv, EventInv, FreshInv, InChannel
  <2>3. DueInv'
    <3>1. \A d \in Digests : Recipients(TickerOf[d]) \subseteq Recipients(TickerOf[d])'
      BY <2>1, RecipientsType DEF IInv, Recipients, BackupChats
    <3>2. \A p \in Processes, d \in Digests : InChannel(p, d)' <=> InChannel(p, d)
      BY <2>1 DEF InChannel
    <3>. QED BY <2>1, <3>1, <3>2 DEF IInv, DueInv
  <2>4. TypeOK'
    BY <2>1 DEF IInv, TypeOK
  <2>. QED BY <2>2, <2>3, <2>4 DEF IInv
<1>12. ASSUME NEW c \in Chats, NEW t \in Tickers, Unwatch(c, t)
      PROVE  IInv'
  <2>1. /\ UNCHANGED <<up, subscribed, channel, notifying, hung, backup, published,
                       told, faults, stops>>
        /\ watchers' \in [Tickers -> SUBSET Chats]
        /\ \A u \in Tickers : watchers'[u] = IF u = t THEN watchers[u] \ {c}
                                                      ELSE watchers[u]
    BY <1>12 DEF Unwatch, process, subscriber, IInv, TypeOK
  <2>2. /\ DueTypeOK'
        /\ \A p \in Processes, d \in Digests :
              due'[p][d] = IF TickerOf[d] = t THEN due[p][d] \ ({c} \ BackupChats)
                                              ELSE due[p][d]
    BY <1>12 DEF Unwatch, IInv, TypeOK, DueTypeOK
  <2>3. EventInv' /\ FreshInv'
    BY <2>1 DEF IInv, EventInv, FreshInv, InChannel
  <2>4. DueInv'
    <3>1. \A d \in Digests : Recipients(TickerOf[d])' =
             BackupChats \cup IF TickerOf[d] = t THEN watchers[TickerOf[d]] \ {c}
                              ELSE watchers[TickerOf[d]]
      BY <2>1, RecipientsType DEF IInv, Recipients, BackupChats
    <3>2. \A p \in Processes, d \in Digests : InChannel(p, d)' <=> InChannel(p, d)
      BY <2>1 DEF InChannel
    <3>3. SUFFICES ASSUME NEW p \in Processes, NEW d \in Digests, NEW b \in due'[p][d]
                   PROVE  /\ \/ told[p][d][b] > 0
                             \/ InChannel(p, d)
                             \/ notifying[p].digest = d /\ b \in notifying[p].todo
                          /\ InChannel(p, d) => b \in Recipients(TickerOf[d])'
      BY <2>1, <3>2 DEF DueInv
    <3>4. b \in due[p][d] /\ (TickerOf[d] = t => b # c \/ b \in BackupChats)
      BY <2>2, <3>3
    <3>5. InChannel(p, d) => b \in BackupChats \cup watchers[TickerOf[d]]
      BY <3>4 DEF IInv, DueInv, Recipients
    <3>. QED BY <3>1, <3>4, <3>5 DEF IInv, DueInv
  <2>5. TypeOK'
    BY <2>1, <2>2 DEF IInv, TypeOK, DueTypeOK
  <2>. QED BY <2>3, <2>4, <2>5 DEF IInv
<1>13. CASE UNCHANGED vars
  <2>1. UNCHANGED <<up, subscribed, channel, notifying, hung, backup, watchers,
                    published, due, told, faults, stops>>
    BY <1>13 DEF vars, process, subscriber, settings
  <2>2. TypeOK'
    BY <2>1 DEF IInv, TypeOK, DueTypeOK
  <2>3. EventInv' /\ FreshInv'
    BY <2>1 DEF IInv, EventInv, FreshInv, InChannel
  <2>4. DueInv'
    BY <2>1 DEF IInv, DueInv, InChannel, Recipients, BackupChats
  <2>. QED BY <2>2, <2>3, <2>4 DEF IInv
<1>. QED BY <1>1, <1>2, <1>3, <1>4, <1>5, <1>6, <1>7, <1>8, <1>9, <1>10,
         <1>11, <1>12, <1>13 DEF Next, SubscriberStep

LEMMA IInvInit == ASSUME Init PROVE IInv
<1>1. \A p \in Processes : channel[p] = <<>> /\ notifying[p] = Idle
  BY DEF Init
<1>2. \A p \in Processes : Len(channel[p]) = 0
  BY <1>1
<1>3. TypeOK
  BY <1>1, <1>2, IdleType, NotificationsAssumption DEF Init, TypeOK
<1>4. EventInv /\ FreshInv /\ DueInv
  BY <1>1, <1>2, IdleType, NotificationsAssumption
     DEF Init, EventInv, FreshInv, DueInv, InChannel
<1>. QED BY <1>3, <1>4 DEF IInv

LEMMA IInvAlways == Spec => []IInv
BY IInvInit, IInvStep, PTL DEF Spec

-----------------------------------------------------------------------------
(* Theorems *)

(* Only a running process has events or sends messages, and an event waits   *)
(* once at most (main.go:75-92).                                              *)
THEOREM NotificationTypes == Spec => []TypeOK
BY IInvAlways, PTL DEF IInv

(* A process sends a chat one message about a digest at most, through lost    *)
(* answers, restarts and broken connections (notifier.go:36-49).              *)
THEOREM OneMessage == Spec => []OncePerProcess
<1>1. IInv => OncePerProcess
  BY DEF IInv, FreshInv, OncePerProcess
<1>. QED BY <1>1, IInvAlways, PTL

(* Who misses an alert that a process received missed it by his own failed    *)
(* POST, a failed query, his own leaving, or the end of the process           *)
(* (notifier.go:36-110).                                                      *)
THEOREM NobodySkipped == Spec => []OnlyFailedAreMissed
<1>1. IInv => OnlyFailedAreMissed
  BY DEF IInv, DueInv, OnlyFailedAreMissed, Pending, InChannel
<1>. QED BY <1>1, IInvAlways, PTL
=============================================================================
