------------------------------ MODULE PanelProofs ------------------------------
(***************************************************************************)
(* The panel kept up to date, and its pages under a user's clicks.         *)
(*                                                                         *)
(* OneAttempt and OwnChangeKept of PanelSync hold for every number of      *)
(* retries and losses, queues of any size and any changes. Only what the   *)
(* socket does decides the first, so it is enough to look at the socket's  *)
(* events and at where the page and the hub reach into them. The second    *)
(* rests on SyncInv: where there are too many clients for a push no        *)
(* channel carries a list, and an answer under way was read after what the *)
(* tab has been told.                                                      *)
(*                                                                         *)
(* OnceEach, ListCurrent and ViewKept of PanelPages hold for every page of *)
(* the catalogue, any rows and any number of clicks. They are proved in    *)
(* two parts: of the catalogue, that every handler written in it is sound  *)
(* (it closes what it counts, invalidates what it changed, guards what it  *)
(* shows); and of the steps, that sound handlers keep the slots'           *)
(* bookkeeping, SlotInv.                                                   *)
(***************************************************************************)
EXTENDS PanelSync, PanelPages, SequenceTheorems, FiniteSetTheorems, TLAPS

(* The socket's own events, whichever comes first.                         *)
LEMMA SocketKeeps ==
    ASSUME OneAttempt, SocketNext \/ UNCHANGED socket
    PROVE  OneAttempt'
  <1>1. CASE Connect \/ UNCHANGED socket
    BY <1>1 DEF OneAttempt, Connect, socket
  <1>2. CASE Opened \/ LinkLost
    BY <1>2 DEF OneAttempt, Opened, LinkLost
  <1>3. CASE Closed
    BY <1>3 DEF OneAttempt, Closed, HandleClose
  <1>4. CASE OrphanClosed \/ Retry
    BY <1>4 DEF OneAttempt, OrphanClosed, HandleOrphan, Retry
  <1>5. QED
    BY <1>1, <1>2, <1>3, <1>4 DEF SocketNext

(* Besides its own events, the hub drops a socket that is full; nothing    *)
(* else outside touches it.                                                *)
LEMMA OnlySocketSteps == [Next]_vars => SocketNext \/ UNCHANGED socket
  <1> SUFFICES ASSUME [Next]_vars
               PROVE  SocketNext \/ UNCHANGED socket
    OBVIOUS
  <1>1. CASE SocketStep \/ (\E p \in {"inbounds", "clients"} : Visit(p)) \/ Fanout
    BY <1>1 DEF SocketStep, Visit, Fanout, SocketNext
  <1>2. CASE \/ Register \/ CoolDown \/ Deliver \/ TimerFires \/ Forget \/ SendFails \/ OwnDone
             \/ UNCHANGED vars
    BY <1>2 DEF Register, CoolDown, Deliver, TimerFires, Forget, SendFails, OwnDone, vars
  <1>3. CASE \E k \in Key : FetchRead(k) \/ FetchDone(k) \/ FetchFail(k)
    BY <1>3 DEF FetchRead, FetchDone, FetchFail
  <1>4. CASE \E kind : OthersChange(kind) \/ Send(kind)
    BY <1>4 DEF OthersChange, Send
  <1>5. CASE \E h \in DOMAIN handlers : Announce(h)
    BY <1>5 DEF Announce
  <1>6. QED
    BY <1>1, <1>2, <1>3, <1>4, <1>5 DEF Next

(* Two sockets never run side by side: a retry is pending only while none  *)
(* is held, whichever of connect(), the timer, a late close event and a    *)
(* full buffer comes first (websocket.ts:45-54, 149-167, 241-276).         *)
THEOREM OneAttemptAtATime == Spec => []OneAttempt
  <1>1. Init => OneAttempt
    BY DEF Init, SocketInit, OneAttempt
  <1>2. OneAttempt /\ [Next]_vars => OneAttempt'
    BY SocketKeeps, OnlySocketSteps
  <1>3. QED
    BY <1>1, <1>2, PTL DEF Spec

-----------------------------------------------------------------------------
(* What an announcement, and a message, may be: where there are too many   *)
(* clients for a push nothing carries the list itself.                     *)
News == {"inbounds", "clients"} \cup (IF large THEN {} ELSE {"push"})
Messages == [type : {"invalidate"}, payload : Data]
            \cup (IF large THEN {} ELSE [type : {"inbounds"}, payload : [Data -> Nat]])

ChannelInv ==
    /\ large \in BOOLEAN
    /\ handlers \in Seq(Seq(News) \ {<<>>})
    /\ queue \in Seq(Messages) /\ wire \in Seq(Messages)

(* What the tab was told is made, and its own change, are in the database. *)
MadeInv ==
    /\ db \in [Data -> Nat]
    /\ page \in {"inbounds", "clients"}
    /\ own \in [step : {"idle", "sent", "done"}, page : {"inbounds", "clients"},
                made : [Data -> Nat]]
    /\ acked \in [Key -> [Data -> Nat]]
    /\ \A d \in Data : own.made[d] <= db[d] /\ \A k \in Key : acked[k][d] <= db[d]

(* An answer under way was read after what the tab was told.               *)
Answers(k) == [Reads(k) -> Nat] \cup {Empty}
Query(k) == [data : Answers(k), stale : BOOLEAN, got : Answers(k),
             fetch : {"idle", "asking", "answered"}]
Kept(k) ==
    /\ cache[k].fetch = "answered" => cache[k].got \in [Reads(k) -> Nat]
    /\ large \/ k # "slim" =>
        /\ cache[k].data # Empty => Shows(k, acked[k]) \/ cache[k].stale
        /\ cache[k].fetch = "answered" => \A d \in Reads(k) : cache[k].got[d] >= acked[k][d]
CacheInv == /\ cache = [k \in Key |-> cache[k]] /\ \A k \in Key : cache[k] \in Query(k)
            /\ \A k \in Key : Kept(k)

SyncInv == ChannelInv /\ MadeInv /\ CacheInv

-----------------------------------------------------------------------------
LEMMA ReadsFacts ==
    ASSUME NEW k \in Key
    PROVE  Reads(k) \subseteq Data /\ (k = "slim" => Reads(k) = Data)
  BY PanelSyncAssumption DEF Reads, Data

LEMMA InitSync == Init => SyncInv
  <1> SUFFICES ASSUME Init
               PROVE  SyncInv
    OBVIOUS
  <1>1. ChannelInv
    BY EmptySeq DEF Init, ChannelInv
  <1>2. MadeInv
    BY DEF Init, MadeInv
  <1>3. CacheInv
    BY DEF Init, CacheInv, Kept, Query, Answers
  <1>4. QED
    BY <1>1, <1>2, <1>3 DEF SyncInv

-----------------------------------------------------------------------------
(* The channels.                                                           *)
LEMMA CommitNews ==
    ASSUME ChannelInv, NEW kind, Commit(kind), kind \in Kinds, UNCHANGED <<large, queue, wire>>
    PROVE  ChannelInv'
  <1>1. Announces(kind) \in Seq(News) \ {<<>>}
    <2>1. "clients" \in News /\ "inbounds" \in News /\ (~large => "push" \in News)
      BY DEF News
    <2> HIDE DEF News
    <2>2. /\ <<"clients">> \in Seq(News) /\ <<"inbounds">> \in Seq(News)
          /\ <<"inbounds", "clients">> \in Seq(News)
          /\ ~large => <<"push">> \in Seq(News)
      BY <2>1
    <2>3. /\ InboundsNews \o <<"clients">> \in Seq(News)
          /\ InboundsNews \o <<"clients">> # <<>>
      <3>1. PICK s \in Seq(News), t \in Seq(News) :
               s = InboundsNews /\ t = <<"clients">> /\ Len(t) = 1
        BY <2>2 DEF InboundsNews
      <3>2. s \o t \in Seq(News) /\ Len(s \o t) = Len(s) + Len(t) /\ Len(s) \in Nat
        BY ConcatProperties, LenProperties
      <3>3. Len(s \o t) # 0
        BY <3>1, <3>2
      <3>4. s \o t # <<>>
        BY <3>3
      <3>5. InboundsNews \o <<"clients">> = s \o t
        BY <3>1
      <3>6. QED
        BY <3>2, <3>4, <3>5
    <2>4. CASE kind = "inbound"
      BY <2>3, <2>4 DEF Announces
    <2>5. CASE kind # "inbound"
      BY <2>2, <2>5 DEF Announces, Kinds
    <2>6. QED
      BY <2>4, <2>5
  <1>2. handlers' = Append(handlers, Announces(kind)) /\ News' = News /\ Messages' = Messages
    BY DEF Commit, News, Messages
  <1>3. handlers' \in Seq(Seq(News) \ {<<>>})
    BY <1>1, <1>2, AppendProperties DEF ChannelInv
  <1>4. QED
    BY <1>2, <1>3 DEF ChannelInv

LEMMA AnnounceNews ==
    ASSUME ChannelInv, MadeInv, NEW h \in DOMAIN handlers, Announce(h)
    PROVE  ChannelInv'
  <1> USE DEF ChannelInv
  <1>1. UNCHANGED <<large, db, wire>> /\ News' = News /\ Messages' = Messages
    BY DEF Announce, News, Messages
  <1>2. handlers[h] \in Seq(News) /\ handlers[h] # <<>>
    BY ElementOfSeq
  <1>3. Head(handlers[h]) \in News
    BY <1>2, HeadTailProperties
  <1>4. Message(Head(handlers[h])) \in Messages
    BY <1>3 DEF Message, Messages, News, Data, MadeInv
  <1>5. queue' \in Seq(Messages)
    BY <1>4, AppendProperties DEF Announce
  <1>6. handlers' \in Seq(Seq(News) \ {<<>>})
    <2>1. CASE Len(handlers[h]) > 1
      <3>1. Tail(handlers[h]) \in Seq(News) /\ Len(Tail(handlers[h])) > 0
        BY <1>2, <2>1, HeadTailProperties
      <3>2. Tail(handlers[h]) # <<>>
        <4>1. \A t \in Seq(News) : Len(t) > 0 => t # <<>>
          BY EmptySeq
        <4>2. QED
          BY <3>1, <4>1
      <3>3. handlers' = [handlers EXCEPT ![h] = Tail(handlers[h])]
        BY <2>1 DEF Announce
      <3>4. QED
        BY <3>1, <3>2, <3>3, ExceptSeq
    <2>2. CASE ~(Len(handlers[h]) > 1)
      <3>1. handlers' = Lists!RemoveAt(handlers, h)
        BY <2>2 DEF Announce
      <3>2. h \in 1..Len(handlers) /\ Len(handlers) \in Nat
        BY LenProperties
      <3>3. /\ SubSeq(handlers, 1, h - 1) \in Seq(Seq(News) \ {<<>>})
            /\ SubSeq(handlers, h + 1, Len(handlers)) \in Seq(Seq(News) \ {<<>>})
        <4>1. /\ \A i \in 1..(h - 1) : handlers[i] \in Seq(News) \ {<<>>}
              /\ \A i \in (h + 1)..Len(handlers) : handlers[i] \in Seq(News) \ {<<>>}
          BY <3>2, ElementOfSeq
        <4> HIDE DEF ChannelInv
        <4>2. QED
          BY <3>2, <4>1, SubSeqProperties
      <3>4. QED
        BY <3>1, <3>3, ConcatProperties DEF Lists!RemoveAt
    <2>3. QED
      BY <2>1, <2>2
  <1>7. QED
    BY <1>1, <1>5, <1>6

LEMMA ChannelKeeps ==
    ASSUME ChannelInv, MadeInv, [Next]_vars
    PROVE  ChannelInv'
  <1> USE DEF ChannelInv
  <1>1. large' = large /\ News' = News /\ Messages' = Messages
    <2>1. large' = large
      BY DEF Next, vars, server, SocketStep, Register, Fanout, CoolDown, Deliver, TimerFires,
             Forget, SendFails, OwnDone, FetchRead, FetchDone, FetchFail, Visit, OthersChange,
             Send, Announce
    <2>2. QED
      BY <2>1 DEF News, Messages
  <1>2. ASSUME Fanout
        PROVE  ChannelInv'
    <2>1. Tail(queue) \in Seq(Messages) /\ Head(queue) \in Messages
      BY <1>2, HeadTailProperties DEF Fanout
    <2>2. wire' = wire \/ wire' = Append(wire, Head(queue))
      BY <1>2 DEF Fanout
    <2>3. wire' \in Seq(Messages)
      BY <2>1, <2>2, AppendProperties
    <2>4. QED
      BY <1>1, <1>2, <2>1, <2>3 DEF Fanout, server
  <1>3. ASSUME Deliver
        PROVE  ChannelInv'
    <2>1. Tail(wire) \in Seq(Messages)
      BY <1>3, HeadTailProperties DEF Deliver
    <2>2. QED
      BY <1>1, <1>3, <2>1 DEF Deliver, server, hub
  <1>4. ASSUME SocketStep
        PROVE  ChannelInv'
    BY <1>1, <1>4, EmptySeq DEF SocketStep, server
  <1>5. ASSUME UNCHANGED <<handlers, queue, wire>>
        PROVE  ChannelInv'
    BY <1>1, <1>5
  <1>6. ASSUME \/ Register \/ CoolDown \/ TimerFires \/ Forget \/ SendFails \/ OwnDone
               \/ UNCHANGED vars
        PROVE  ChannelInv'
    BY <1>5, <1>6 DEF Register, CoolDown, TimerFires, Forget, SendFails, OwnDone, vars, server, hub
  <1>7. ASSUME \/ \E k \in Key : FetchRead(k) \/ FetchDone(k) \/ FetchFail(k)
               \/ \E p \in {"inbounds", "clients"} : Visit(p)
        PROVE  ChannelInv'
    BY <1>5, <1>7 DEF FetchRead, FetchDone, FetchFail, Visit, server, hub
  <1>8. ASSUME NEW kind, OthersChange(kind) \/ Send(kind), kind \in Kinds
        PROVE  ChannelInv'
    BY <1>8, CommitNews DEF OthersChange, Send, hub
  <1>9. QED
    BY <1>2, <1>3, <1>4, <1>6, <1>7, <1>8, AnnounceNews, PanelSyncAssumption DEF Next, Kinds

-----------------------------------------------------------------------------
(* The versions.                                                           *)
LEMMA CommitGrows ==
    ASSUME MadeInv, NEW kind, Commit(kind)
    PROVE  db' \in [Data -> Nat] /\ \A d \in Data : db'[d] >= db[d]
  BY DEF MadeInv, Commit

LEMMA MadeKeeps ==
    ASSUME MadeInv, [Next]_vars
    PROVE  MadeInv'
  <1>1. ASSUME NEW kind, OthersChange(kind)
        PROVE  MadeInv'
    <2>1. UNCHANGED <<own, acked, page>>
      BY <1>1 DEF OthersChange, tab
    <2>2. QED
      BY <1>1, <2>1, CommitGrows DEF OthersChange, MadeInv
  <1>2. ASSUME NEW kind, Send(kind)
        PROVE  MadeInv'
    <2>1. own' = [step |-> "sent", page |-> page, made |-> db'] /\ UNCHANGED <<acked, page>>
      BY <1>2 DEF Send
    <2>2. db' \in [Data -> Nat] /\ \A d \in Data : db'[d] >= db[d]
      BY <1>2, CommitGrows DEF Send
    <2>3. QED
      BY <2>1, <2>2 DEF MadeInv
  <1>3. ASSUME OwnDone
        PROVE  MadeInv'
    <2>1. UNCHANGED <<db, page>> /\ own' = [own EXCEPT !.step = "done"]
      BY <1>3 DEF OwnDone, server
    <2>2. acked' \in [Key -> [Data -> Nat]] /\ \A k \in Key : acked'[k] \in {own.made, acked[k]}
      BY <1>3 DEF OwnDone, MadeInv
    <2>3. QED
      BY <2>1, <2>2 DEF MadeInv
  <1>4. ASSUME SendFails
        PROVE  MadeInv'
    BY <1>4 DEF SendFails, server, MadeInv
  <1>5. ASSUME UNCHANGED <<db, own, acked>>, page' \in {"inbounds", "clients"}
        PROVE  MadeInv'
    BY <1>5 DEF MadeInv
  <1>6. ASSUME \/ SocketStep \/ Register \/ Fanout \/ CoolDown \/ Deliver \/ TimerFires \/ Forget
               \/ UNCHANGED vars
               \/ \E k \in Key : FetchRead(k) \/ FetchDone(k) \/ FetchFail(k)
               \/ \E h \in DOMAIN handlers : Announce(h)
        PROVE  MadeInv'
    <2>1. UNCHANGED <<db, own, acked, page>>
      BY <1>6 DEF SocketStep, Register, Fanout, CoolDown, Deliver, TimerFires, Forget, vars,
                  FetchRead, FetchDone, FetchFail, Announce, server, tab
    <2>2. QED
      BY <1>5, <2>1 DEF MadeInv
  <1>7. ASSUME NEW p \in {"inbounds", "clients"}, Visit(p)
        PROVE  MadeInv'
    BY <1>5, <1>7 DEF Visit, server
  <1>8. QED
    BY <1>1, <1>2, <1>3, <1>4, <1>6, <1>7 DEF Next

-----------------------------------------------------------------------------
(* The cache.  A query that is marked stale, and asks if it asks at all,   *)
(* owes nothing.                                                           *)
Dropped(q, p) == /\ p.data = q.data /\ p.stale = TRUE
                 /\ \/ p.fetch = q.fetch /\ p.got = q.got
                    \/ p.fetch = "asking" /\ p.got = Empty

LEMMA InvalidatedDrops ==
    ASSUME NEW k \in Key, cache[k] \in Query(k)
    PROVE  /\ Invalidated(k) \in Query(k)
           /\ Dropped(cache[k], Invalidated(k))
           /\ Mounted(k) /\ ~FirstFetch(k) => Invalidated(k).fetch = "asking"
           /\ FirstFetch(k) => Invalidated(k) = [cache[k] EXCEPT !.stale = TRUE]
           /\ Asked(cache[k]) \in Query(k) /\ Dropped(cache[k], Asked(cache[k]))
  <1>1. Asked(cache[k]) \in Query(k) /\ Dropped(cache[k], Asked(cache[k]))
        /\ Asked(cache[k]).fetch = "asking"
    BY DEF Asked, Dropped, Query, Answers
  <1> DEFINE left == [cache[k] EXCEPT !.stale = TRUE]
  <1>2. left \in Query(k) /\ Dropped(cache[k], left)
    BY DEF Dropped, Query, Answers
  <1>3. Invalidated(k) = IF Mounted(k) /\ ~FirstFetch(k) THEN Asked(cache[k]) ELSE left
    BY DEF Invalidated
  <1>4. QED
    BY <1>1, <1>2, <1>3

(* A query that is left alone or dropped keeps what the tab was told.      *)
LEMMA DroppedKeeps ==
    ASSUME UNCHANGED <<acked, large>>, NEW k \in Key, Kept(k),
           cache'[k] = cache[k] \/ Dropped(cache[k], cache'[k])
    PROVE  Kept(k)'
  BY DEF Kept, Shows, Dropped

(* invalidateQueries, of any kinds.                                        *)
LEMMA InvalidateKeeps ==
    ASSUME CacheInv, UNCHANGED <<acked, large>>, NEW kinds, Invalidate(kinds)
    PROVE  CacheInv'
  <1>1. /\ cache' = [k \in Key |-> cache'[k]]
        /\ \A k \in Key : cache'[k] \in {cache[k], Invalidated(k)}
    BY DEF Invalidate
  <1>2. \A k \in Key : cache'[k] \in Query(k) /\ Kept(k)'
    BY <1>1, InvalidatedDrops, DroppedKeeps DEF CacheInv
  <1>3. QED
    BY <1>1, <1>2 DEF CacheInv, Query, Answers

(* The tab is told that its change is made: what was on screen then is     *)
(* dropped, and so is any answer under way, or it shows the change.        *)
LEMMA OwnDoneKeeps ==
    ASSUME CacheInv, MadeInv, OwnDone
    PROVE  CacheInv'
  <1>1. /\ large' = large /\ Invalidate(OwnBuckets(own.page))
        /\ \A k \in Key : acked'[k] = acked[k]
                          \/ /\ Mounted(k) /\ Bucket(k) \in OwnBuckets(own.page)
                             /\ ~Overtaken(k) /\ acked'[k] = own.made
    <2>1. large' = large /\ Invalidate(OwnBuckets(own.page))
      BY DEF OwnDone, server
    <2>2. \A k \in Key : own.page = "clients" \/ k # "list" => Bucket(k) \in OwnBuckets(own.page)
      BY PanelSyncAssumption DEF OwnBuckets, Bucket, Data
    <2>3. \A k \in Key :
            acked'[k] = IF Mounted(k) /\ (own.page = "clients" \/ k # "list") /\ ~Overtaken(k)
                        THEN own.made ELSE acked[k]
      BY DEF OwnDone
    <2>4. ASSUME NEW k \in Key
          PROVE  \/ acked'[k] = acked[k]
                 \/ /\ Mounted(k) /\ Bucket(k) \in OwnBuckets(own.page)
                    /\ ~Overtaken(k) /\ acked'[k] = own.made
      BY <2>2, <2>3
    <2>5. QED
      BY <2>1, <2>4
  <1>2. cache' = [k \in Key |-> cache'[k]]
    BY <1>1 DEF Invalidate
  <1>3. ASSUME NEW k \in Key
        PROVE  cache'[k] \in Query(k) /\ Kept(k)'
    <2>1. cache'[k] = IF Bucket(k) \in OwnBuckets(own.page) THEN Invalidated(k) ELSE cache[k]
      BY <1>1 DEF Invalidate
    <2>2. cache'[k] \in Query(k)
      BY <2>1, InvalidatedDrops DEF CacheInv
    <2>3. CASE acked'[k] = acked[k]
      <3>1. cache'[k] = cache[k] \/ Dropped(cache[k], cache'[k])
        BY <2>1, InvalidatedDrops DEF CacheInv
      <3>2. Kept(k)
        BY DEF CacheInv
      <3>3. QED
        BY <1>1, <2>2, <2>3, <3>1, <3>2 DEF Kept, Shows, Dropped
    <2>4. CASE acked'[k] # acked[k]
      <3>0. /\ cache[k] \in Query(k) /\ cache'[k] = Invalidated(k) /\ Mounted(k)
            /\ ~Overtaken(k) /\ acked'[k] = own.made
        BY <1>1, <2>1, <2>4 DEF CacheInv
      <3>1. CASE FirstFetch(k)
        <4>1. cache'[k] = [cache[k] EXCEPT !.stale = TRUE]
          BY <3>0, <3>1, InvalidatedDrops
        <4>2. cache'[k].stale = TRUE /\ cache'[k].fetch = cache[k].fetch
              /\ cache'[k].got = cache[k].got
          BY <3>0, <4>1 DEF Query
        <4>3. ASSUME cache[k].fetch = "answered"
              PROVE  \A d \in Reads(k) : cache[k].got[d] >= acked'[k][d]
          <5>1. /\ cache[k].got \in [Reads(k) -> Nat]
                /\ own.made \in [Data -> Nat] /\ Reads(k) \subseteq Data
            BY <4>3, ReadsFacts DEF MadeInv, CacheInv, Kept
          <5>2. \A d \in Reads(k) : ~(cache[k].got[d] < own.made[d])
            BY <3>0, <3>1, <4>3 DEF Overtaken
          <5>3. \A d \in Reads(k) : cache[k].got[d] \in Nat /\ own.made[d] \in Nat
            BY <5>1
          <5>4. QED
            BY <3>0, <5>2, <5>3
        <4>4. Kept(k)
          BY DEF CacheInv
        <4>5. QED
          BY <2>2, <4>2, <4>3, <4>4 DEF Kept
      <3>2. CASE ~FirstFetch(k)
        <4>1. cache'[k].stale = TRUE /\ cache'[k].fetch = "asking"
          BY <3>0, <3>2, InvalidatedDrops DEF Dropped
        <4>2. QED
          BY <2>2, <4>1 DEF Kept
      <3>3. QED
        BY <3>1, <3>2
    <2>5. QED
      BY <2>3, <2>4
  <1>4. QED
    BY <1>2, <1>3 DEF CacheInv, Query, Answers

LEMMA VisitKeeps ==
    ASSUME CacheInv, NEW p, Visit(p)
    PROVE  CacheInv'
  <1>1. /\ UNCHANGED <<acked, large>>
        /\ cache' = [k \in Key |-> cache'[k]]
        /\ \A k \in Key : cache'[k] \in {cache[k], Asked(cache[k])}
    BY DEF Visit, server
  <1>2. \A k \in Key : cache'[k] \in Query(k) /\ Kept(k)'
    BY <1>1, InvalidatedDrops, DroppedKeeps DEF CacheInv
  <1>3. QED
    BY <1>1, <1>2 DEF CacheInv, Query, Answers

(* A fetch reads what is in the database, which the tab's change is by then*)
LEMMA FetchKeeps ==
    ASSUME CacheInv, MadeInv, NEW k \in Key, FetchRead(k) \/ FetchDone(k) \/ FetchFail(k)
    PROVE  CacheInv'
  <1>0. UNCHANGED <<acked, large>> /\ cache[k] \in Query(k) /\ Kept(k)
    BY DEF FetchRead, FetchDone, FetchFail, server, tab, CacheInv
  <1>1. /\ cache' = [j \in Key |-> cache'[j]]
        /\ \A j \in Key : j # k => cache'[j] = cache[j]
    BY DEF FetchRead, FetchDone, FetchFail, CacheInv
  <1>2. ASSUME FetchRead(k)
        PROVE  cache'[k] \in Query(k) /\ Kept(k)'
    <2>1. cache'[k] = [cache[k] EXCEPT !.fetch = "answered", !.got = Snapshot(k)]
      BY <1>2 DEF FetchRead, CacheInv
    <2>2. /\ Snapshot(k) \in [Reads(k) -> Nat]
          /\ \A d \in Reads(k) : Snapshot(k)[d] >= acked[k][d]
      BY ReadsFacts DEF Snapshot, MadeInv
    <2>3. QED
      BY <1>0, <2>1, <2>2 DEF Query, Answers, Kept, Shows
  <1>3. ASSUME FetchDone(k)
        PROVE  cache'[k] \in Query(k) /\ Kept(k)'
    <2>1. /\ cache'[k] = [data |-> cache[k].got, stale |-> FALSE, got |-> Empty, fetch |-> "idle"]
          /\ cache[k].fetch = "answered"
      BY <1>3 DEF FetchDone, CacheInv
    <2>2. QED
      BY <1>0, <2>1 DEF Query, Answers, Kept, Shows
  <1>4. ASSUME FetchFail(k)
        PROVE  cache'[k] \in Query(k) /\ Kept(k)'
    <2>1. PICK then \in {"asking", "idle"} :
             cache'[k] = [cache[k] EXCEPT !.fetch = then, !.got = Empty]
      BY <1>4 DEF FetchFail, CacheInv
    <2>2. QED
      BY <1>0, <2>1 DEF Query, Answers, Kept, Shows
  <1>5. \A j \in Key : cache'[j] \in Query(j) /\ Kept(j)'
    BY <1>0, <1>1, <1>2, <1>3, <1>4, DroppedKeeps DEF CacheInv
  <1>6. QED
    BY <1>1, <1>5 DEF CacheInv, Query, Answers

(* Only a push replaces a list, and there is none where there are too many *)
(* clients for it.                                                         *)
LEMMA DeliverKeeps ==
    ASSUME CacheInv, ChannelInv, Deliver
    PROVE  CacheInv'
  <1> DEFINE msg == Head(wire)
  <1>0. UNCHANGED <<acked, large>> /\ msg \in Messages
    BY HeadTailProperties DEF Deliver, server, tab, ChannelInv
  <1>1. CASE cache' = cache
    <2>1. \A k \in Key : Kept(k)'
      BY <1>0, <1>1, DroppedKeeps DEF CacheInv
    <2>2. QED
      BY <1>1, <2>1 DEF CacheInv, Query, Answers
  <1>2. CASE cache' # cache
    <2>1. /\ msg.type = "inbounds"
          /\ cache' = [cache EXCEPT !["slim"].data = msg.payload, !["slim"].stale = FALSE]
      BY <1>2 DEF Deliver
    <2>2. ~large /\ msg.payload \in [Data -> Nat]
      BY <1>0, <2>1 DEF Messages
    <2>3. /\ cache' = [k \in Key |-> cache'[k]]
          /\ \A k \in Key : k # "slim" => cache'[k] = cache[k]
          /\ "slim" \in Key => cache'["slim"] = [cache["slim"] EXCEPT !.data = msg.payload,
                                                                     !.stale = FALSE]
      BY <2>1 DEF CacheInv
    <2>4. \A k \in Key : cache'[k] \in Query(k)
      <3>1. \A k \in Key : cache[k] \in Query(k)
        BY DEF CacheInv
      <3>2. "slim" \in Key => msg.payload \in Answers("slim")
        BY <2>2, ReadsFacts DEF Answers
      <3>3. "slim" \in Key => cache'["slim"] \in Query("slim")
        BY <2>3, <3>1, <3>2 DEF Query
      <3>4. QED
        BY <2>3, <3>1, <3>3
    <2>5. \A k \in Key : Kept(k)'
      <3>1. "slim" \in Key => Kept("slim")'
        <4> HAVE "slim" \in Key
        <4>1. cache'["slim"].fetch = cache["slim"].fetch /\ cache'["slim"].got = cache["slim"].got
          BY <2>3 DEF CacheInv, Query
        <4>2. Kept("slim")
          BY DEF CacheInv
        <4>3. QED
          BY <1>0, <2>2, <4>1, <4>2 DEF Kept, Reads
      <3>2. QED
        BY <1>0, <2>3, <3>1, DroppedKeeps DEF CacheInv
    <2>6. QED
      BY <2>3, <2>4, <2>5 DEF CacheInv, Query, Answers
  <1>3. QED
    BY <1>1, <1>2

-----------------------------------------------------------------------------
(* "Invalidate both buckets so the Inbounds page and any open edit modal   *)
(* pick up the new shape" (useClients.ts:365-370): once the tab is told    *)
(* that its own change was made, what was on screen shows it or is marked  *)
(* to be fetched again, whatever answers, messages, timers and changes of  *)
(* others were under way, and however often it moves between the pages.    *)
(* Let off: a first fetch that was answered before the change, and the slim*)
(* list where it is pushed.                                                *)
THEOREM OwnChangeStays == Spec => []OwnChangeKept
  <1>1. SyncInv /\ [Next]_vars => SyncInv'
    <2> SUFFICES ASSUME SyncInv, [Next]_vars
                 PROVE  SyncInv'
      OBVIOUS
    <2> USE DEF SyncInv
    <2>1. ASSUME UNCHANGED <<cache, acked, large>>
          PROVE  CacheInv'
      <3>1. \A k \in Key : Kept(k)'
        BY <2>1, DroppedKeeps DEF CacheInv
      <3>2. QED
        BY <2>1, <3>1 DEF CacheInv, Query, Answers
    <2>2. ASSUME \/ SocketStep \/ Register \/ Fanout \/ CoolDown \/ Forget \/ SendFails
                 \/ UNCHANGED vars
                 \/ \E h \in DOMAIN handlers : Announce(h)
                 \/ \E kind : OthersChange(kind) \/ Send(kind)
          PROVE  CacheInv'
      <3>1. UNCHANGED <<cache, acked, large>>
        BY <2>2 DEF SocketStep, Register, Fanout, CoolDown, Forget, SendFails, vars, Announce,
                    OthersChange, Send, server, tab
      <3>2. QED
        BY <2>1, <3>1
    <2>3. ASSUME TimerFires
          PROVE  CacheInv'
      <3>1. UNCHANGED <<acked, large>> /\ (cache' = cache \/ Invalidate({pending}))
        BY <2>3 DEF TimerFires, server, tab
      <3>2. QED
        BY <2>1, <3>1, InvalidateKeeps
    <2>4. CacheInv'
      BY <2>2, <2>3, OwnDoneKeeps, VisitKeeps, FetchKeeps, DeliverKeeps DEF Next
    <2>5. QED
      BY <2>4, ChannelKeeps, MadeKeeps
  <1>2. SyncInv => OwnChangeKept
    BY DEF SyncInv, CacheInv, Kept, OwnChangeKept
  <1>3. QED
    BY <1>1, <1>2, InitSync, PTL DEF Spec

-----------------------------------------------------------------------------
(* What a handler must be for the rules of PanelPages to hold of it.  Its  *)
(* words go together:                                                      *)
Counted == {"bump", "add", "order"}

Behaves(o) ==
    /\ o.opens \in {"-", "form", "ask", "view"}
    /\ o.turns => o.opens = "view" /\ o.from = "fetch"
    /\ o.from = "late" => o.opens = "ask"
    /\ o.opens = "-" => o.from \notin {"first", "fetch"}
    /\ o.opens \in {"-", "ask"} => o.does # "nothing"
    /\ o.shows # "-" => o.shows # o.slot

(* a form whose effect counts has a flag that bars its button and Enter,   *)
(* and a success closes it;                                                *)
Lacks(f, k) == k \notin DOMAIN f
Guarding(dialogs, slot) ==
    slot \in DOMAIN dialogs /\ dialogs[slot].flag # "-" /\ dialogs[slot].enter = FALSE
Flagged(o, dialogs) ==
    o.opens = "form" /\ o.does \in Counted => o.closes /\ Guarding(dialogs, o.slot)

(* on a page whose list is a query it invalidates the list, unless it      *)
(* changes nothing listed;                                                 *)
Invalidates(o) ==
    /\ o.refresh # "patch"
    /\ o.refresh \in {"success", "always", "push"} \/ o.does \in {"order", "other", "nothing"}

(* and on a page that promises it, an answer to a former question is told  *)
(* from one to the last.                                                   *)
Guards(o) == o.from = "fetch" => o.guard \in {"keyed", "latest"}

OpSound(o, dialogs, listed, guarded) ==
    /\ Behaves(o)
    /\ Flagged(o, dialogs)
    /\ listed => Invalidates(o)
    /\ guarded => Guards(o)

OpsSound(ops, dialogs, listed, guarded) ==
    \A k \in DOMAIN ops : OpSound(ops[k], dialogs, listed, guarded)

PageSound(p, c) == OpsSound(c.ops, c.dialogs, c.loads = "query", p \notin Unkept)
CatalogueSound(cat) == \A p \in DOMAIN cat : PageSound(p, cat[p])

(* What a description put together from two has.                           *)
LEMMA OverParts ==
  ASSUME NEW f, NEW g
  PROVE  /\ DOMAIN Over(f, g) = DOMAIN f \cup DOMAIN g
         /\ \A k \in DOMAIN f : Over(f, g)[k] = f[k]
         /\ \A k \in DOMAIN g \ DOMAIN f : Over(f, g)[k] = g[k]
BY DEF Over

(* The same of its infix form.                                             *)
LEMMA JoinParts ==
  ASSUME NEW f, NEW g
  PROVE  /\ DOMAIN (f @@ g) = DOMAIN f \cup DOMAIN g
         /\ \A k \in DOMAIN f : (f @@ g)[k] = f[k]
         /\ \A k \in DOMAIN g \ DOMAIN f : (f @@ g)[k] = g[k]
BY OverParts DEF @@

(* A description of one word.                                              *)
LEMMA PairParts ==
  ASSUME NEW k, NEW v
  PROVE  DOMAIN (k :> v) = {k} /\ (k :> v)[k] = v
BY DEF :>

(* Handlers put together are sound if each part is.                        *)
LEMMA JoinSound ==
  ASSUME NEW f, NEW g, NEW dialogs, NEW listed, NEW guarded,
         OpsSound(f, dialogs, listed, guarded), OpsSound(g, dialogs, listed, guarded)
  PROVE  OpsSound(f @@ g, dialogs, listed, guarded)
<1>1. /\ DOMAIN (f @@ g) = DOMAIN f \cup DOMAIN g
      /\ \A k \in DOMAIN f : (f @@ g)[k] = f[k]
      /\ \A k \in DOMAIN g \ DOMAIN f : (f @@ g)[k] = g[k]
  BY JoinParts
<1> QED  BY <1>1 DEF OpsSound

(* One handler.                                                            *)
LEMMA OneSound ==
  ASSUME NEW k, NEW o, NEW dialogs, NEW listed, NEW guarded, OpSound(o, dialogs, listed, guarded)
  PROVE  OpsSound(k :> o, dialogs, listed, guarded)
<1>1. DOMAIN (k :> o) = {k} /\ (k :> o)[k] = o
  BY PairParts
<1> QED  BY <1>1 DEF OpsSound

ListRec(l) == DOMAIN l = {"loads", "fails", "waits", "copies"}

(* What is said of a list, in every way the catalogues say it.             *)
LEMMA ListRecs ==
  /\ \A loads, fails : ListRec(Listed(loads, fails)) /\ Listed(loads, fails).loads = loads
  /\ \A w, l : ListRec(l) => ListRec(Behind(w, l)) /\ Behind(w, l).loads = l.loads
  /\ \A l : LET c == [l EXCEPT !.copies = TRUE] IN ListRec(l) => ListRec(c) /\ c.loads = l.loads
BY DEF ListRec, Listed, Behind

(* What a page is put together from.                                       *)
LEMMA PageParts ==
  ASSUME NEW l, ListRec(l), NEW ops, NEW offers, NEW dialogs
  PROVE  LET c == Page(l, ops, offers, dialogs)
         IN  /\ c.loads = l.loads
             /\ c.ops = ops
             /\ c.dialogs = dialogs @@ ("confirm" :> Plain)
<1> DEFINE d == dialogs @@ ("confirm" :> Plain)
           r == [ops |-> ops, offers |-> offers, dialogs |-> d]
<1>1. DOMAIN l = {"loads", "fails", "waits", "copies"}
  BY DEF ListRec
<1>2. DOMAIN r = {"ops", "offers", "dialogs"} /\ r.ops = ops /\ r.dialogs = d
  OBVIOUS
<1> HIDE DEF d, r
<1>3. Page(l, ops, offers, dialogs) = l @@ r
  BY DEF Page, r, d
<1>4. /\ (l @@ r).loads = l.loads
      /\ (l @@ r).ops = ops
      /\ (l @@ r).dialogs = d
  <2>1. \A k \in DOMAIN l : (l @@ r)[k] = l[k]
    BY JoinParts
  <2>2. \A k \in DOMAIN r \ DOMAIN l : (l @@ r)[k] = r[k]
    BY JoinParts
  <2> QED  BY <2>1, <2>2, <1>1, <1>2
<1> QED  BY <1>3, <1>4 DEF d

(* A dialog added under the others takes no flag from them.                *)
LEMMA MoreDialogs ==
  ASSUME NEW ops, NEW d, NEW e, NEW listed, NEW guarded, OpsSound(ops, d, listed, guarded)
  PROVE  OpsSound(ops, d @@ e, listed, guarded)
<1>1. /\ DOMAIN (d @@ e) = DOMAIN d \cup DOMAIN e
      /\ \A k \in DOMAIN d : (d @@ e)[k] = d[k]
  BY JoinParts
<1>2. \A s : Guarding(d, s) => Guarding(d @@ e, s)
  BY <1>1 DEF Guarding
<1>3. \A o : Flagged(o, d) => Flagged(o, d @@ e)
  BY <1>2 DEF Flagged
<1> QED  BY <1>3 DEF OpsSound, OpSound

(* A family of ops that differ in nothing the model tells apart.      *)
LEMMA SameSound ==
  ASSUME NEW S, NEW o, NEW dialogs, NEW listed, NEW guarded, OpSound(o, dialogs, listed, guarded)
  PROVE  OpsSound([a \in S |-> o], dialogs, listed, guarded)
BY DEF OpsSound

(* A form whose flag bars its button, alone among the dialogs.             *)
LEMMA OneGuarding ==
  ASSUME NEW s, NEW c, c.flag # "-", c.enter = FALSE
  PROVE  Guarding(s :> c, s)
<1>1. DOMAIN (s :> c) = {s} /\ (s :> c)[s] = c
  BY PairParts
<1> QED  BY <1>1 DEF Guarding

(* It still does when the page has other dialogs.                          *)
LEMMA JoinGuarding ==
  ASSUME NEW f, NEW g, NEW s
  PROVE  /\ Guarding(f, s) => Guarding(f @@ g, s)
         /\ Guarding(g, s) /\ Lacks(f, s) => Guarding(f @@ g, s)
<1>1. /\ DOMAIN (f @@ g) = DOMAIN f \cup DOMAIN g
      /\ \A k \in DOMAIN f : (f @@ g)[k] = f[k]
      /\ \A k \in DOMAIN g \ DOMAIN f : (f @@ g)[k] = g[k]
  BY JoinParts
<1> QED  BY <1>1 DEF Guarding, Lacks

(* A slot that no part of the dialogs has.                                 *)
LEMMA LacksParts ==
  /\ \A k, v, s : s # k => Lacks(k :> v, s)
  /\ \A f, g, s : Lacks(f, s) /\ Lacks(g, s) => Lacks(f @@ g, s)
<1>1. ASSUME NEW k, NEW v, NEW s, s # k
      PROVE  Lacks(k :> v, s)
  <2>1. DOMAIN (k :> v) = {k}
    BY PairParts
  <2> QED  BY <1>1, <2>1 DEF Lacks
<1>2. ASSUME NEW f, NEW g, NEW s, Lacks(f, s), Lacks(g, s)
      PROVE  Lacks(f @@ g, s)
  <2>1. DOMAIN (f @@ g) = DOMAIN f \cup DOMAIN g
    BY JoinParts
  <2> QED  BY <1>2, <2>1 DEF Lacks
<1> QED  BY <1>1, <1>2

(* A page is sound if its ops are, with the confirmation every page   *)
(* shares.                                                                 *)
LEMMA PageIsSoundOver ==
  ASSUME NEW p, NEW l, ListRec(l), NEW ops, NEW offers, NEW dialogs,
         NEW listed \in BOOLEAN, NEW guarded \in BOOLEAN,
         OpsSound(ops, dialogs, listed, guarded),
         l.loads = "query" => listed, p \notin Unkept => guarded
  PROVE  PageSound(p, Page(l, ops, offers, dialogs))
<1> DEFINE c == Page(l, ops, offers, dialogs)
           e == dialogs @@ ("confirm" :> Plain)
<1>1. c.loads = l.loads /\ c.ops = ops /\ c.dialogs = e
  BY PageParts
<1>2. OpsSound(ops, e, listed, guarded)
  BY MoreDialogs
<1> HIDE DEF c, e
<1>3. \A k \in DOMAIN ops : OpSound(ops[k], e, l.loads = "query", p \notin Unkept)
  BY <1>2 DEF OpsSound, OpSound
<1>4. OpsSound(ops, e, l.loads = "query", p \notin Unkept)
  BY <1>3 DEF OpsSound
<1>5. PageSound(p, c)
  BY <1>1, <1>4 DEF PageSound
<1> QED  BY <1>5 DEF c

(* A page whose list says no more than how it is read.                     *)
LEMMA PageIsSound ==
  ASSUME NEW p, NEW loads, NEW fails, NEW ops, NEW offers, NEW dialogs,
         NEW listed \in BOOLEAN, NEW guarded \in BOOLEAN,
         OpsSound(ops, dialogs, listed, guarded),
         loads = "query" => listed, p \notin Unkept => guarded
  PROVE  PageSound(p, Page(Listed(loads, fails), ops, offers, dialogs))
<1>1. ListRec(Listed(loads, fails)) /\ Listed(loads, fails).loads = loads
  BY ListRecs
<1> QED  BY <1>1, PageIsSoundOver

(* A catalogue is sound if its pages are.                                  *)
LEMMA CataloguesSound ==
  /\ \A f, g : CatalogueSound(f) /\ CatalogueSound(g) => CatalogueSound(f @@ g)
  /\ \A p, c : PageSound(p, c) => CatalogueSound(p :> c)
<1>1. ASSUME NEW f, NEW g, CatalogueSound(f), CatalogueSound(g)
      PROVE  CatalogueSound(f @@ g)
  <2>1. /\ DOMAIN (f @@ g) = DOMAIN f \cup DOMAIN g
        /\ \A k \in DOMAIN f : (f @@ g)[k] = f[k]
        /\ \A k \in DOMAIN g \ DOMAIN f : (f @@ g)[k] = g[k]
    BY JoinParts
  <2> QED  BY <1>1, <2>1 DEF CatalogueSound
<1>2. ASSUME NEW p, NEW c, PageSound(p, c)
      PROVE  CatalogueSound(p :> c)
  <2>1. DOMAIN (p :> c) = {p} /\ (p :> c)[p] = c
    BY PairParts
  <2> QED  BY <1>2, <2>1 DEF CatalogueSound
<1> QED  BY <1>1, <1>2

(* The accounts of the panel.                                              *)
LEMMA UsersSound == PageSound("users",
             Page(UsersList, UsersHandlers, UsersOffers, UsersDialogs))
<1>1. Guarding(UsersDialogs, "balance")
  <2>1. Dialog("balance").flag # "-" /\ Dialog("balance").enter = FALSE
    BY DEF Dialog
  <2>2. Guarding("balance" :> Dialog("balance"), "balance")
    BY <2>1, OneGuarding
  <2>3. Lacks("user" :> Dialog("save"), "balance")
    BY LacksParts
  <2>4. Guarding("user" :> Dialog("save") @@ "balance" :> Dialog("balance"), "balance")
    BY <2>2, <2>3, JoinGuarding
  <2> QED  BY <2>4, JoinGuarding DEF UsersDialogs
<1>2. /\ OpSound([NewForm("user") EXCEPT !.does = "named"], UsersDialogs, TRUE, TRUE)
      /\ OpSound(RowForm("user"), UsersDialogs, TRUE, TRUE)
      /\ OpSound(Delete, UsersDialogs, TRUE, TRUE)
      /\ OpSound(Bump("balance"), UsersDialogs, TRUE, TRUE)
      /\ OpSound(View("history"), UsersDialogs, TRUE, TRUE)
  BY <1>1 DEF OpSound, Behaves, Flagged, Invalidates, Guards, Counted, Op, RowForm, NewForm,
              Ask, Delete, Bump, View
<1>3. OpsSound(UsersHandlers, UsersDialogs, TRUE, TRUE)
  BY <1>2, JoinSound, OneSound DEF UsersHandlers, UsersEdits, UsersBalance, UsersHistory
<1> QED  BY <1>3, PageIsSound DEF UsersList

(* A workspace's own users.                                                *)
LEMMA TenantUsersSound == PageSound("tenantUsers",
             Page(TenantUsersList, TenantUsersHandlers, TenantUsersOffers, TenantUsersDialogs))
<1>1. Guarding(TenantUsersDialogs, "balance")
  <2>1. Dialog("balance").flag # "-" /\ Dialog("balance").enter = FALSE
    BY DEF Dialog
  <2>2. Guarding("balance" :> Dialog("balance"), "balance")
    BY <2>1, OneGuarding
  <2>3. Lacks("user" :> Dialog("save"), "balance")
    BY LacksParts
  <2>4. Guarding("user" :> Dialog("save") @@ "balance" :> Dialog("balance"), "balance")
    BY <2>2, <2>3, JoinGuarding
  <2> QED  BY <2>4, JoinGuarding DEF TenantUsersDialogs
<1>2. /\ OpSound([NewForm("user") EXCEPT !.does = "named"], TenantUsersDialogs, TRUE, TRUE)
      /\ OpSound(RowForm("user"), TenantUsersDialogs, TRUE, TRUE)
      /\ OpSound(Delete, TenantUsersDialogs, TRUE, TRUE)
      /\ OpSound(Bump("balance"), TenantUsersDialogs, TRUE, TRUE)
  BY <1>1 DEF OpSound, Behaves, Flagged, Invalidates, Guards, Counted, Op, RowForm, NewForm,
              Ask, Delete, Bump
<1>3. OpsSound(TenantUsersHandlers, TenantUsersDialogs, TRUE, TRUE)
  BY <1>2, JoinSound, OneSound DEF TenantUsersHandlers
<1> QED  BY <1>3, PageIsSound DEF TenantUsersList

(* The workspaces.                                                         *)
LEMMA ManagersSound == PageSound("managers",
             Page(ManagersList, ManagersHandlers, ManagersOffers, ManagersDialogs))
<1>1. Guarding(ManagersDialogs, "charge")
  <2>1. Dialog("charge").flag # "-" /\ Dialog("charge").enter = FALSE
    BY DEF Dialog
  <2>2. Guarding("charge" :> Dialog("charge"), "charge")
    BY <2>1, OneGuarding
  <2>3. Lacks(("create" :> Dialog("create") @@ "bandwidth" :> Dialog("bandwidth")
            @@ "inbounds" :> Dialog("inbounds") @@ "domain" :> Dialog("domain")), "charge")
    BY LacksParts
  <2>4. Guarding(("create" :> Dialog("create") @@ "bandwidth" :> Dialog("bandwidth")
            @@ "inbounds" :> Dialog("inbounds") @@ "domain" :> Dialog("domain"))
                   @@ "charge" :> Dialog("charge"), "charge")
    BY <2>2, <2>3, JoinGuarding
  <2> QED  BY <2>4, JoinGuarding DEF ManagersDialogs
<1>2. /\ OpSound([NewForm("create") EXCEPT !.does = "named", !.shows = "key"],
                ManagersDialogs, TRUE, TRUE)
      /\ OpSound(RowForm("bandwidth"), ManagersDialogs, TRUE, TRUE)
      /\ OpSound([RowForm("inbounds") EXCEPT !.from = "first", !.empty = "opens",
                          !.does = "other", !.refresh = "never"], ManagersDialogs, TRUE, TRUE)
      /\ OpSound(RowForm("domain"), ManagersDialogs, TRUE, TRUE)
      /\ OpSound(Bump("charge"), ManagersDialogs, TRUE, TRUE)
      /\ OpSound(View("details"), ManagersDialogs, TRUE, TRUE)
      /\ OpSound(AtOnce("-"), ManagersDialogs, TRUE, TRUE)
      /\ OpSound([Ask EXCEPT !.does = "other", !.refresh = "never", !.shows = "key"],
                ManagersDialogs, TRUE, TRUE)
      /\ OpSound(Delete, ManagersDialogs, TRUE, TRUE)
  BY <1>1 DEF OpSound, Behaves, Flagged, Invalidates, Guards, Counted, Op, RowForm, NewForm,
              Bump, View, AtOnce, Ask, Delete
<1>3. OpsSound(ManagersHandlers, ManagersDialogs, TRUE, TRUE)
  BY <1>2, JoinSound, OneSound DEF ManagersHandlers
<1> QED  BY <1>3, PageIsSound DEF ManagersList

(* The clients' groups.                                                    *)
LEMMA GroupsSound == PageSound("groups",
             Page(GroupsList, GroupsHandlers, GroupsOffers, GroupsDialogs))
<1>1. Guarding(GroupsDialogs, "adjust")
  <2>1. HandFlag("adjust").flag # "-" /\ HandFlag("adjust").enter = FALSE
    BY DEF Dialog, HandFlag
  <2>2. Guarding("adjust" :> HandFlag("adjust"), "adjust")
    BY <2>1, OneGuarding
  <2>3. Lacks(("create" :> [Dialog("create") EXCEPT !.enter = TRUE]
            @@ "rename" :> [Dialog("rename") EXCEPT !.enter = TRUE] @@ "subLinks" :> Plain),
                   "adjust")
    BY LacksParts
  <2>4. Guarding(("create" :> [Dialog("create") EXCEPT !.enter = TRUE]
            @@ "rename" :> [Dialog("rename") EXCEPT !.enter = TRUE] @@ "subLinks" :> Plain)
                   @@ "adjust" :> HandFlag("adjust"), "adjust")
    BY <2>2, <2>3, JoinGuarding
  <2> QED  BY <2>4, JoinGuarding DEF GroupsDialogs
<1>2. /\ OpSound([NewForm("create") EXCEPT !.does = "named"], GroupsDialogs, TRUE, TRUE)
      /\ OpSound(RowForm("rename"), GroupsDialogs, TRUE, TRUE)
      /\ OpSound(Delete, GroupsDialogs, TRUE, TRUE)
      /\ OpSound(Shared([First(RowForm("subLinks")) EXCEPT !.does = "nothing"]),
                 GroupsDialogs, TRUE, TRUE)
      /\ OpSound(Shared([First(RowForm("adjust")) EXCEPT !.does = "bump"]),
                 GroupsDialogs, TRUE, TRUE)
      /\ OpSound(Shared([RowForm("addClients") EXCEPT !.from = "blank"]), GroupsDialogs, TRUE, TRUE)
      /\ OpSound(Shared([RowForm("removeClients") EXCEPT !.from = "blank"]), GroupsDialogs, TRUE, TRUE)
      /\ OpSound([Ask EXCEPT !.from = "late"], GroupsDialogs, TRUE, TRUE)
  BY <1>1 DEF OpSound, Behaves, Flagged, Invalidates, Guards, Counted, Op, RowForm, NewForm,
              Ask, Delete, First, Shared
<1>3. OpsSound(GroupsHandlers, GroupsDialogs, TRUE, TRUE)
  BY <1>2, JoinSound, OneSound, SameSound DEF GroupsHandlers, GroupsNames, GroupsOnClients,
                                              GroupsAsked
<1> QED  BY <1>3, PageIsSound DEF GroupsList

(* The tickets.                                                            *)
LEMMA TicketsSound == PageSound("tickets",
             Page(TicketsList, TicketsHandlers, ForAll({}), TicketsDialogs))
<1>1. Guarding(TicketsDialogs, "create")
  <2>1. Dialog("create").flag # "-" /\ Dialog("create").enter = FALSE
    BY DEF Dialog
  <2>2. Guarding("create" :> Dialog("create"), "create")
    BY <2>1, OneGuarding
  <2> QED  BY <2>2, JoinGuarding DEF TicketsDialogs
<1>2. /\ OpSound(NewForm("create"), TicketsDialogs, TRUE, TRUE)
  BY <1>1 DEF OpSound, Behaves, Flagged, Invalidates, Guards, Counted, Op, RowForm, NewForm
<1>3. OpsSound(TicketsHandlers, TicketsDialogs, TRUE, TRUE)
  BY <1>2, OneSound DEF TicketsHandlers
<1> QED  BY <1>3, PageIsSound DEF TicketsList

(* One ticket with its messages.                                           *)
LEMMA TicketSound == PageSound("ticket",
             Page(TicketList, (TicketReply @@ TicketActions), ForAll({}), TicketDialogs))
<1>1. Guarding(TicketDialogs, "reply")
  <2>1. Inline(Dialog("reply")).flag # "-" /\ Inline(Dialog("reply")).enter = FALSE
    BY DEF Dialog, Inline
  <2>2. Guarding("reply" :> Inline(Dialog("reply")), "reply")
    BY <2>1, OneGuarding
  <2> QED  BY <2>2, JoinGuarding DEF TicketDialogs
<1>2. /\ OpSound(NewForm("reply"), TicketDialogs, TRUE, TRUE)
      /\ OpSound(OnPage(AtOnce("-")), TicketDialogs, TRUE, TRUE)
  BY <1>1 DEF OpSound, Behaves, Flagged, Invalidates, Guards, Counted, Op, RowForm, NewForm,
              OnPage, AtOnce
<1>3. OpsSound((TicketReply @@ TicketActions), TicketDialogs, TRUE, TRUE)
  BY <1>2, JoinSound, OneSound, SameSound DEF TicketReply, TicketActions
<1>4. ListRec(TicketList)
  BY ListRecs DEF TicketList
<1> QED  BY <1>3, <1>4, PageIsSoundOver

(* The ticket categories.                                                  *)
LEMMA CategoriesSound == PageSound("categories",
             Page(CategoriesList, CategoriesHandlers, ForAll({"edit", "toggle", "move",
                    "delete"}), CategoriesDialogs))
<1>1. Guarding(CategoriesDialogs, "category")
  <2>1. Dialog("save").flag # "-" /\ Dialog("save").enter = FALSE
    BY DEF Dialog
  <2>2. Guarding("category" :> Dialog("save"), "category")
    BY <2>1, OneGuarding
  <2> QED  BY <2>2, JoinGuarding DEF CategoriesDialogs
<1>2. /\ OpSound(NewForm("category"), CategoriesDialogs, TRUE, TRUE)
      /\ OpSound(RowForm("category"), CategoriesDialogs, TRUE, TRUE)
      /\ OpSound(AtOnce("-"), CategoriesDialogs, TRUE, TRUE)
      /\ OpSound(Delete, CategoriesDialogs, TRUE, TRUE)
  BY <1>1 DEF OpSound, Behaves, Flagged, Invalidates, Guards, Counted, Op, RowForm, NewForm,
              AtOnce, Ask, Delete
<1>3. OpsSound(CategoriesHandlers, CategoriesDialogs, TRUE, TRUE)
  BY <1>2, JoinSound, OneSound DEF CategoriesHandlers
<1> QED  BY <1>3, PageIsSound DEF CategoriesList

(* The products.                                                           *)
LEMMA ProductsSound == PageSound("products",
             Page(ProductsList, (ProductsRows @@ ProductsForm), ProductsOffers, ProductsDialogs))
<1>1. Guarding(ProductsDialogs, "product")
  <2>1. Dialog("save").flag # "-" /\ Dialog("save").enter = FALSE
    BY DEF Dialog
  <2>2. Guarding("product" :> Dialog("save"), "product")
    BY <2>1, OneGuarding
  <2> QED  BY <2>2, JoinGuarding DEF ProductsDialogs
<1>2. /\ OpSound(AtOnce("-"), ProductsDialogs, TRUE, TRUE)
      /\ OpSound(Delete, ProductsDialogs, TRUE, TRUE)
      /\ OpSound(NewForm("product"), ProductsDialogs, TRUE, TRUE)
      /\ OpSound(RowForm("product"), ProductsDialogs, TRUE, TRUE)
  BY <1>1 DEF OpSound, Behaves, Flagged, Invalidates, Guards, Counted, Op, AtOnce, Ask,
              Delete, RowForm, NewForm
<1>3. OpsSound((ProductsRows @@ ProductsForm), ProductsDialogs, TRUE, TRUE)
  BY <1>2, JoinSound, OneSound DEF ProductsRows, ProductsForm
<1> QED  BY <1>3, PageIsSound DEF ProductsList

(* A customer's services.                                                  *)
LEMMA ServicesSound == PageSound("services",
             Page(ServicesList, (ServicesEdit @@ ServicesRenew @@ ServicesConfig),
                    ServicesOffers, ServicesDialogs))
<1>1. Guarding(ServicesDialogs, "renewing")
  <2>1. HandFlag("busy").flag # "-" /\ HandFlag("busy").enter = FALSE
    BY DEF Dialog, HandFlag
  <2>2. Guarding("renewing" :> HandFlag("busy"), "renewing")
    BY <2>1, OneGuarding
  <2>3. Lacks("editing" :> [HandFlag("busy") EXCEPT !.enter = TRUE], "renewing")
    BY LacksParts
  <2>4. Guarding("editing" :> [HandFlag("busy") EXCEPT !.enter = TRUE]
               @@ "renewing" :> HandFlag("busy"), "renewing")
    BY <2>2, <2>3, JoinGuarding
  <2> QED  BY <2>4, JoinGuarding DEF ServicesDialogs
<1>2. /\ OpSound(RowForm("editing"), ServicesDialogs, TRUE, TRUE)
      /\ OpSound([Bump("renewing") EXCEPT !.shows = "qr"], ServicesDialogs, TRUE, TRUE)
      /\ OpSound([View("qr") EXCEPT !.from = "row"], ServicesDialogs, TRUE, TRUE)
  BY <1>1 DEF OpSound, Behaves, Flagged, Invalidates, Guards, Counted, Op, RowForm, Bump, View
<1>3. OpsSound((ServicesEdit @@ ServicesRenew @@ ServicesConfig), ServicesDialogs, TRUE, TRUE)
  BY <1>2, JoinSound, OneSound DEF ServicesEdit, ServicesRenew, ServicesConfig
<1> QED  BY <1>3, PageIsSound DEF ServicesList

(* The store.                                                              *)
LEMMA StoreSound == PageSound("store",
             Page(StoreList, StoreHandlers, StoreOffers, StoreDialogs))
<1>1. Guarding(StoreDialogs, "buying")
  <2>1. HandFlag("busy").flag # "-" /\ HandFlag("busy").enter = FALSE
    BY DEF Dialog, HandFlag
  <2>2. Guarding("buying" :> HandFlag("busy"), "buying")
    BY <2>1, OneGuarding
  <2> QED  BY <2>2, JoinGuarding DEF StoreDialogs
<1>2. /\ OpSound([Order(Bump("buying")) EXCEPT !.shows = "success"], StoreDialogs, TRUE, TRUE)
  BY <1>1 DEF OpSound, Behaves, Flagged, Invalidates, Guards, Counted, Op, Order, RowForm, Bump
<1>3. OpsSound(StoreHandlers, StoreDialogs, TRUE, TRUE)
  BY <1>2, OneSound DEF StoreHandlers
<1> QED  BY <1>3, PageIsSound DEF StoreList

(* The payments.                                                           *)
LEMMA BillingSound == PageSound("billing",
             Page(BillingList, BillingHandlers, ForAll({}), BillingForms))
<1>1. OpsSound(BillingHandlers, BillingForms, TRUE, TRUE)
  BY DEF OpsSound, OpSound, Behaves, Flagged, Invalidates, Guards, Counted, Op, OnPage, Order,
         AtOnce, BillingHandlers
<1> QED  BY <1>1, PageIsSound DEF BillingList

(* A customer's deposit form.                                              *)
LEMMA DepositSound == PageSound("deposit",
             Page(DepositList, DepositHandlers, ForAll({}), DepositForm))
<1>1. Guarding(DepositForm, "deposit")
  <2>1. Inline(Dialog("submit")).flag # "-" /\ Inline(Dialog("submit")).enter = FALSE
    BY DEF Dialog, Inline
  <2>2. Guarding("deposit" :> Inline(Dialog("submit")), "deposit")
    BY <2>1, OneGuarding
  <2> QED  BY <2>2, JoinGuarding DEF DepositForm
<1>2. /\ OpSound(NewForm("deposit"), DepositForm, TRUE, TRUE)
  BY <1>1 DEF OpSound, Behaves, Flagged, Invalidates, Guards, Counted, Op, RowForm, NewForm
<1>3. OpsSound(DepositHandlers, DepositForm, TRUE, TRUE)
  BY <1>2, OneSound DEF DepositHandlers
<1> QED  BY <1>3, PageIsSound DEF DepositList

(* The administrator's list of deposits.                                   *)
LEMMA DepositsSound == PageSound("deposits",
             Page(DepositsList, DepositsHandlers, DepositsOffers, DepositsDialogs))
<1>1. /\ OpSound(Ask, DepositsDialogs, TRUE, TRUE)
      /\ OpSound(RowForm("reject"), DepositsDialogs, TRUE, TRUE)
      /\ OpSound([View("detail") EXCEPT !.from = "row"], DepositsDialogs, TRUE, TRUE)
  BY DEF OpSound, Behaves, Flagged, Invalidates, Guards, Counted, Op, Ask, RowForm, View
<1>2. OpsSound(DepositsHandlers, DepositsDialogs, TRUE, TRUE)
  BY <1>1, JoinSound, OneSound DEF DepositsHandlers
<1> QED  BY <1>2, PageIsSound DEF DepositsList

(* The orders, which are only listed.                                      *)
LEMMA OrdersSound == PageSound("orders", Page(OrdersList, <<>>, ForAll({}), ("none" :> Plain)))
<1>1. OpsSound(<<>>, ("none" :> Plain), TRUE, TRUE)
  BY DEF OpsSound
<1> QED  BY <1>1, PageIsSound DEF OrdersList

(* The nodes.                                                              *)
LEMMA NodesSound == PageSound("nodes",
             Page(NodesList, (NodesForm @@ NodesRows), NodesOffers, NodesDialogs))
<1>1. Guarding(NodesDialogs, "node")
  <2>1. [HandFlag("submitting") EXCEPT !.locked = TRUE].flag # "-"
               /\ [HandFlag("submitting") EXCEPT !.locked = TRUE].enter = FALSE
    BY DEF Dialog, HandFlag
  <2>2. Guarding("node" :> [HandFlag("submitting") EXCEPT !.locked = TRUE], "node")
    BY <2>1, OneGuarding
  <2> QED  BY <2>2, JoinGuarding DEF NodesDialogs
<1>2. /\ OpSound(NewForm("node"), NodesDialogs, TRUE, TRUE)
      /\ OpSound(RowForm("node"), NodesDialogs, TRUE, TRUE)
      /\ OpSound(Delete, NodesDialogs, TRUE, TRUE)
      /\ OpSound(AtOnce("-"), NodesDialogs, TRUE, TRUE)
      /\ OpSound([Ask EXCEPT !.clears = TRUE], NodesDialogs, TRUE, TRUE)
      /\ OpSound([Ask EXCEPT !.on = "rows", !.clears = TRUE], NodesDialogs, TRUE, TRUE)
  BY <1>1 DEF OpSound, Behaves, Flagged, Invalidates, Guards, Counted, Op, RowForm, NewForm,
              Ask, Delete, AtOnce
<1>3. OpsSound((NodesForm @@ NodesRows), NodesDialogs, TRUE, TRUE)
  BY <1>2, JoinSound, OneSound DEF NodesForm, NodesRows
<1> QED  BY <1>3, PageIsSound DEF NodesList

(* The custom geo files.                                                   *)
LEMMA GeoSound == PageSound("geo", Page(GeoList, GeoHandlers, GeoOffers, GeoDialogs))
<1>1. Guarding(GeoDialogs, "form")
  <2>1. HandFlag("saving").flag # "-" /\ HandFlag("saving").enter = FALSE
    BY DEF Dialog, HandFlag
  <2>2. Guarding("form" :> HandFlag("saving"), "form")
    BY <2>1, OneGuarding
  <2> QED  BY <2>2, JoinGuarding DEF GeoDialogs, GeoForm
<1>2. /\ OpSound(NewForm("form"), GeoDialogs, TRUE, TRUE)
      /\ OpSound(RowForm("form"), GeoDialogs, TRUE, TRUE)
      /\ OpSound(Delete, GeoDialogs, TRUE, TRUE)
      /\ OpSound(AtOnce("-"), GeoDialogs, TRUE, TRUE)
      /\ OpSound(OnPage(AtOnce("updateAll")), GeoDialogs, TRUE, TRUE)
  BY <1>1 DEF OpSound, Behaves, Flagged, Invalidates, Guards, Counted, Op, RowForm, NewForm,
              Ask, Delete, AtOnce, OnPage
<1>3. OpsSound(GeoHandlers, GeoDialogs, TRUE, TRUE)
  BY <1>2, JoinSound, OneSound DEF GeoHandlers
<1> QED  BY <1>3, PageIsSound DEF GeoList

(* The inbounds.                                                           *)
LEMMA InboundsSound == PageSound("inbounds",
             Page(InboundsList, (InboundsForms @@ InboundsText @@ InboundsAsked @@ InboundsSwitch
                              @@ InboundsAttach @@ InboundsAttachExisting), InboundsOffers,
                                     InboundsDialogs))
<1>1. Guarding(InboundsDialogs, "form")
  <2>1. HandFlag("saving").flag # "-" /\ HandFlag("saving").enter = FALSE
    BY DEF Dialog, HandFlag
  <2>2. Guarding("form" :> HandFlag("saving"), "form")
    BY <2>1, OneGuarding
  <2> QED  BY <2>2, JoinGuarding DEF InboundsDialogs
<1>2. Guarding(InboundsDialogs, "prompt")
  <2>1. HandFlag("promptLoading").flag # "-" /\ HandFlag("promptLoading").enter = FALSE
    BY DEF Dialog, HandFlag
  <2>2. Guarding("prompt" :> HandFlag("promptLoading"), "prompt")
    BY <2>1, OneGuarding
  <2>3. Lacks("form" :> HandFlag("saving"), "prompt")
    BY LacksParts
  <2>4. Guarding("form" :> HandFlag("saving") @@ "prompt" :> HandFlag("promptLoading"), "prompt")
    BY <2>2, <2>3, JoinGuarding
  <2> QED  BY <2>4, JoinGuarding DEF InboundsDialogs
<1>3. /\ OpSound(NewForm("form"), InboundsDialogs, TRUE, TRUE)
      /\ OpSound(Hydrated(RowForm("form")), InboundsDialogs, TRUE, TRUE)
      /\ OpSound(NewForm("prompt"), InboundsDialogs, TRUE, TRUE)
      /\ OpSound([Hydrated(View("text")) EXCEPT !.on = "page"], InboundsDialogs, TRUE, TRUE)
      /\ OpSound(Hydrated(View("text")), InboundsDialogs, TRUE, TRUE)
      /\ OpSound(Hydrated(View("info")), InboundsDialogs, TRUE, TRUE)
      /\ OpSound(Hydrated(View("qr")), InboundsDialogs, TRUE, TRUE)
      /\ OpSound(Ask, InboundsDialogs, TRUE, TRUE)
      /\ OpSound(Delete, InboundsDialogs, TRUE, TRUE)
      /\ OpSound([Hydrated(Ask) EXCEPT !.does = "add"], InboundsDialogs, TRUE, TRUE)
      /\ OpSound(OnPage(Ask), InboundsDialogs, TRUE, TRUE)
      /\ OpSound([Delete EXCEPT !.on = "rows", !.refresh = "always", !.clears = TRUE],
                InboundsDialogs, TRUE, TRUE)
      /\ OpSound([AtOnce("-") EXCEPT !.refresh = "push"], InboundsDialogs, TRUE, TRUE)
      /\ OpSound(Hydrated(RowForm("attach")), InboundsDialogs, TRUE, TRUE)
      /\ OpSound(RowForm("detach"), InboundsDialogs, TRUE, TRUE)
      /\ OpSound(Hydrated(RowForm("group")), InboundsDialogs, TRUE, TRUE)
      /\ OpSound([RowForm("existing") EXCEPT !.from = "fetch", !.guard = "latest"],
                InboundsDialogs, TRUE, TRUE)
  BY <1>1, <1>2 DEF OpSound, Behaves, Flagged, Invalidates, Guards, Counted, Op, RowForm,
                    NewForm, First, Hydrated, View, Ask, Delete, OnPage, AtOnce
<1>4. OpsSound((InboundsForms @@ InboundsText @@ InboundsAsked @@ InboundsSwitch
                              @@ InboundsAttach @@ InboundsAttachExisting), InboundsDialogs,
                                     TRUE, TRUE)
  <2>1. OpsSound(InboundsForms, InboundsDialogs, TRUE, TRUE)
    BY <1>3, JoinSound, OneSound DEF InboundsForms
  <2>2. OpsSound(InboundsText, InboundsDialogs, TRUE, TRUE)
    BY <1>3, JoinSound, OneSound, SameSound DEF InboundsText
  <2>3. OpsSound(InboundsAsked, InboundsDialogs, TRUE, TRUE)
    BY <1>3, JoinSound, OneSound, SameSound DEF InboundsAsked
  <2>4. OpsSound(InboundsSwitch, InboundsDialogs, TRUE, TRUE)
    BY <1>3, JoinSound, OneSound DEF InboundsSwitch
  <2>5. OpsSound(InboundsAttach, InboundsDialogs, TRUE, TRUE)
    BY <1>3, JoinSound, OneSound DEF InboundsAttach
  <2>6. OpsSound(InboundsAttachExisting, InboundsDialogs, TRUE, TRUE)
    BY <1>3, JoinSound, OneSound DEF InboundsAttachExisting
  <2> QED  BY <2>1, <2>2, <2>3, <2>4, <2>5, <2>6, JoinSound
<1>5. ListRec(InboundsList)
  BY ListRecs DEF InboundsList
<1> QED  BY <1>4, <1>5, PageIsSoundOver

(* The server's own page, whose logs and graphs nothing guards.            *)
LEMMA HomeSound == PageSound("home",
             Page(HomeList, (HomeCore @@ HomeConfig @@ HomeLogs @@ HomeXrayLogs @@ HomeHistory
                          @@ HomeMetrics), ForAll({}), HomeDialogs))
<1>1. /\ OpSound([OnPage(AtOnce("-")) EXCEPT !.refresh = "always"], HomeDialogs, TRUE, FALSE)
      /\ OpSound([First(View("config")) EXCEPT !.on = "page"], HomeDialogs, TRUE, FALSE)
      /\ OpSound(Turning("logs"), HomeDialogs, TRUE, FALSE)
      /\ OpSound(Turning("xrayLogs"), HomeDialogs, TRUE, FALSE)
      /\ OpSound(Turning("history"), HomeDialogs, TRUE, FALSE)
      /\ OpSound(Turning("metrics"), HomeDialogs, TRUE, FALSE)
  BY DEF OpSound, Behaves, Flagged, Invalidates, Guards, Counted, Op, OnPage, AtOnce, First,
         View, Turning
<1>2. OpsSound((HomeCore @@ HomeConfig @@ HomeLogs @@ HomeXrayLogs @@ HomeHistory
                          @@ HomeMetrics), HomeDialogs, TRUE, FALSE)
  BY <1>1, JoinSound, OneSound, SameSound DEF HomeCore, HomeConfig, HomeLogs, HomeXrayLogs,
                                              HomeHistory, HomeMetrics
<1>3. ListRec(HomeList)
  BY ListRecs DEF HomeList
<1> QED  BY <1>2, <1>3, PageIsSoundOver DEF Unkept

(* The panel's settings.                                                   *)
LEMMA SettingsSound == PageSound("settings",
             Page(SettingsList, (SettingsSave @@ SettingsRestart), ForAll({}), SettingsDialogs))
<1>1. /\ OpSound(Draft("draft"), SettingsDialogs, TRUE, TRUE)
      /\ OpSound([OnPage(Ask) EXCEPT !.does = "other", !.refresh = "never"], SettingsDialogs,
                TRUE, TRUE)
  BY DEF OpSound, Behaves, Flagged, Invalidates, Guards, Counted, Op, OnPage, RowForm, Draft,
         Ask
<1>2. OpsSound((SettingsSave @@ SettingsRestart), SettingsDialogs, TRUE, TRUE)
  BY <1>1, JoinSound, OneSound DEF SettingsSave, SettingsRestart
<1>3. ListRec(SettingsList)
  BY ListRecs DEF SettingsList
<1> QED  BY <1>2, <1>3, PageIsSoundOver

(* The tokens, whose rows are patched; their list is no query.             *)
LEMMA SecuritySound == PageSound("security",
             Page(TokensList, (TokensHandlers @@ TokensUser), ForAll({"delete", "toggle"}),
                    TokensDialogs))
<1>1. Guarding(TokensDialogs, "create")
  <2>1. HandFlag("creating").flag # "-" /\ HandFlag("creating").enter = FALSE
    BY DEF Dialog, HandFlag
  <2>2. Guarding("create" :> HandFlag("creating"), "create")
    BY <2>1, OneGuarding
  <2> QED  BY <2>2, JoinGuarding DEF TokensDialogs
<1>2. /\ OpSound([NewForm("create") EXCEPT !.shows = "created"], TokensDialogs, FALSE, TRUE)
      /\ OpSound(Delete, TokensDialogs, FALSE, TRUE)
      /\ OpSound([AtOnce("-") EXCEPT !.refresh = "patch"], TokensDialogs, FALSE, TRUE)
      /\ OpSound([OnPage(AtOnce("updating")) EXCEPT !.does = "other", !.refresh = "never"],
                TokensDialogs, FALSE, TRUE)
  BY <1>1 DEF OpSound, Behaves, Flagged, Invalidates, Guards, Counted, Op, RowForm, NewForm,
              Ask, Delete, AtOnce, OnPage
<1>3. OpsSound((TokensHandlers @@ TokensUser), TokensDialogs, FALSE, TRUE)
  BY <1>2, JoinSound, OneSound DEF TokensHandlers, TokensUser
<1> QED  BY <1>3, PageIsSound DEF TokensList

(* The payment cards.                                                      *)
LEMMA CardsSound == PageSound("cards",
             Page(CardsList, CardsHandlers, CardsOffers, CardsDialogs))
<1>1. Guarding(CardsDialogs, "card")
  <2>1. Dialog("save").flag # "-" /\ Dialog("save").enter = FALSE
    BY DEF Dialog
  <2>2. Guarding("card" :> Dialog("save"), "card")
    BY <2>1, OneGuarding
  <2> QED  BY <2>2, JoinGuarding DEF CardsDialogs
<1>2. /\ OpSound(NewForm("card"), CardsDialogs, TRUE, TRUE)
      /\ OpSound(RowForm("card"), CardsDialogs, TRUE, TRUE)
      /\ OpSound(AtOnce("-"), CardsDialogs, TRUE, TRUE)
      /\ OpSound(Delete, CardsDialogs, TRUE, TRUE)
  BY <1>1 DEF OpSound, Behaves, Flagged, Invalidates, Guards, Counted, Op, RowForm, NewForm,
              AtOnce, Ask, Delete
<1>3. OpsSound(CardsHandlers, CardsDialogs, TRUE, TRUE)
  BY <1>2, JoinSound, OneSound DEF CardsHandlers
<1> QED  BY <1>3, PageIsSound DEF CardsList

(* The resellers' codes.                                                   *)
LEMMA ReferralsSound == PageSound("referrals",
             Page(ReferralsList, ReferralsHandlers, ForAll({"code", "toggle"}), ReferralsDialogs))
<1>1. /\ OpSound(RowForm("editing"), ReferralsDialogs, TRUE, TRUE)
      /\ OpSound(AtOnce("-"), ReferralsDialogs, TRUE, TRUE)
  BY DEF OpSound, Behaves, Flagged, Invalidates, Guards, Counted, Op, RowForm, AtOnce
<1>2. OpsSound(ReferralsHandlers, ReferralsDialogs, TRUE, TRUE)
  BY <1>1, JoinSound, OneSound DEF ReferralsHandlers
<1> QED  BY <1>2, PageIsSound DEF ReferralsList

(* A workspace's settings.                                                 *)
LEMMA WorkspaceSound == PageSound("workspace",
             Page(WorkspaceList, WorkspaceSave, ForAll({}), WorkspaceDialogs))
<1>1. /\ OpSound(Draft("draft"), WorkspaceDialogs, TRUE, TRUE)
      /\ OpSound(Draft("pricing"), WorkspaceDialogs, TRUE, TRUE)
  BY DEF OpSound, Behaves, Flagged, Invalidates, Guards, Counted, Op, OnPage, RowForm, Draft
<1>2. OpsSound(WorkspaceSave, WorkspaceDialogs, TRUE, TRUE)
  BY <1>1, JoinSound, OneSound DEF WorkspaceSave
<1>3. ListRec(WorkspaceList)
  BY ListRecs DEF WorkspaceList
<1> QED  BY <1>2, <1>3, PageIsSoundOver

(* A workspace's gateways.                                                 *)
LEMMA GatewaysSound == PageSound("gateways",
             Page(GatewaysList, GatewaysSave, ForAll({}), GatewaysDialogs))
<1>1. /\ OpSound(Draft("draft"), GatewaysDialogs, TRUE, TRUE)
  BY DEF OpSound, Behaves, Flagged, Invalidates, Guards, Counted, Op, OnPage, RowForm, Draft
<1>2. OpsSound(GatewaysSave, GatewaysDialogs, TRUE, TRUE)
  BY <1>1, OneSound DEF GatewaysSave
<1>3. ListRec(GatewaysList)
  BY ListRecs DEF GatewaysList
<1> QED  BY <1>2, <1>3, PageIsSoundOver

(* A user's password.                                                      *)
LEMMA ProfileSound == PageSound("profile",
             Page(Listed("query", "kept"), ProfileSave, ForAll({}), ProfileDialogs))
<1>1. /\ OpSound(Draft("draft"), ProfileDialogs, TRUE, TRUE)
  BY DEF OpSound, Behaves, Flagged, Invalidates, Guards, Counted, Op, OnPage, RowForm, Draft
<1>2. OpsSound(ProfileSave, ProfileDialogs, TRUE, TRUE)
  BY <1>1, OneSound DEF ProfileSave
<1> QED  BY <1>2, PageIsSound

(* The notifications.                                                      *)
LEMMA BellSound == PageSound("bell",
             Page(BellList, BellHandlers, ForAll({"read"}), ("bell" :> Plain)))
<1>1. /\ OpSound([AtOnce("-") EXCEPT !.refresh = "always"], ("bell" :> Plain), TRUE, TRUE)
      /\ OpSound([OnPage(AtOnce("-")) EXCEPT !.refresh = "always"], ("bell" :> Plain), TRUE, TRUE)
  BY DEF OpSound, Behaves, Flagged, Invalidates, Guards, Counted, Op, AtOnce, OnPage
<1>2. OpsSound(BellHandlers, ("bell" :> Plain), TRUE, TRUE)
  BY <1>1, JoinSound, OneSound DEF BellHandlers
<1> QED  BY <1>2, PageIsSound DEF BellList

(* The outbounds.                                                          *)
LEMMA OutboundsSound == PageSound("outbounds",
             Page(OutboundsList, (OutboundsReset @@ OutboundsTest @@ OutboundsTestSub
                            @@ OutboundsTestAll), OutboundsOffers, OutboundsDialogs))
<1>1. /\ OpSound(AtOnce("-"), OutboundsDialogs, TRUE, TRUE)
      /\ OpSound(OnPage(Ask), OutboundsDialogs, TRUE, TRUE)
      /\ OpSound(Unlisted(AtOnce("-")), OutboundsDialogs, TRUE, TRUE)
      /\ OpSound(Unlisted(OnPage(AtOnce("testAll"))), OutboundsDialogs, TRUE, TRUE)
  BY DEF OpSound, Behaves, Flagged, Invalidates, Guards, Counted, Op, AtOnce, OnPage, Ask,
         Unlisted
<1>2. OpsSound((OutboundsReset @@ OutboundsTest @@ OutboundsTestSub
                            @@ OutboundsTestAll), OutboundsDialogs, TRUE, TRUE)
  BY <1>1, JoinSound, OneSound DEF OutboundsReset, OutboundsTest, OutboundsTestSub,
                                   OutboundsTestAll
<1> QED  BY <1>2, PageIsSound DEF OutboundsList

(* The subscriptions that bring outbounds.                                 *)
LEMMA SubsSound == PageSound("outboundSubs",
             Page(SubsList, (SubsForm @@ SubsPreview @@ SubsRows @@ SubsRefresh
                    @@ SubsDelete), SubsOffers, SubsDialogs))
<1>1. Guarding(SubsDialogs, "sub")
  BY DEF Guarding, SubsDialogs, Inline, HandFlag, Dialog
<1>2. /\ OpSound(NewForm("sub"), SubsDialogs, TRUE, TRUE)
      /\ OpSound(RowForm("sub"), SubsDialogs, TRUE, TRUE)
      /\ OpSound(Unlisted(OnPage(AtOnce("preview"))), SubsDialogs, TRUE, TRUE)
      /\ OpSound(AtOnce("-"), SubsDialogs, TRUE, TRUE)
      /\ OpSound([AtOnce("-") EXCEPT !.does = "order"], SubsDialogs, TRUE, TRUE)
      /\ OpSound([OnPage(AtOnce("refreshAll")) EXCEPT !.refresh = "always"], SubsDialogs, TRUE, TRUE)
      /\ OpSound(Delete, SubsDialogs, TRUE, TRUE)
  BY <1>1 DEF OpSound, Behaves, Flagged, Invalidates, Guards, Counted, Op, RowForm, NewForm,
              Unlisted, OnPage, AtOnce, Ask, Delete
<1>3. OpsSound((SubsForm @@ SubsPreview @@ SubsRows @@ SubsRefresh @@ SubsDelete),
             SubsDialogs, TRUE, TRUE)
  BY <1>2, JoinSound, OneSound DEF SubsForm, SubsPreview, SubsRows, SubsRefresh, SubsDelete
<1> QED  BY <1>3, PageIsSound DEF SubsList

(* The WARP account.                                                       *)
LEMMA WarpSound == PageSound("warp",
             Page(Listed("none", "kept"), (WarpData @@ WarpHandlers @@ WarpDelete),
                    ForAll({}), WarpDialogs))
<1>1. /\ OpSound(Shown("data"), WarpDialogs, FALSE, FALSE)
      /\ OpSound(Account("add"), WarpDialogs, FALSE, FALSE)
      /\ OpSound(Account("set"), WarpDialogs, FALSE, FALSE)
      /\ OpSound(Account("other"), WarpDialogs, FALSE, FALSE)
  BY DEF OpSound, Behaves, Flagged, Invalidates, Guards, Counted, Op, Unguarded, View, Shown,
         OnPage, AtOnce, Account
<1>2. OpsSound((WarpData @@ WarpHandlers @@ WarpDelete), WarpDialogs, FALSE, FALSE)
  BY <1>1, JoinSound, OneSound, SameSound DEF WarpData, WarpHandlers, WarpDelete
<1> QED  BY <1>2, PageIsSound DEF Unkept

(* The NordVPN account.                                                    *)
LEMMA NordSound == PageSound("nord",
             Page(Listed("none", "kept"), (NordData @@ NordHandlers @@ NordLogout
                    @@ NordServers), ForAll({}), NordDialogs))
<1>1. /\ OpSound(Shown("data"), NordDialogs, FALSE, FALSE)
      /\ OpSound(Account("add"), NordDialogs, FALSE, FALSE)
      /\ OpSound(Account("other"), NordDialogs, FALSE, FALSE)
      /\ OpSound([Shown("servers") EXCEPT !.turns = TRUE], NordDialogs, FALSE, FALSE)
  BY DEF OpSound, Behaves, Flagged, Invalidates, Guards, Counted, Op, Unguarded, View, Shown,
         OnPage, AtOnce, Account
<1>2. OpsSound((NordData @@ NordHandlers @@ NordLogout @@ NordServers), NordDialogs, FALSE, FALSE)
  BY <1>1, JoinSound, OneSound, SameSound DEF NordData, NordHandlers, NordLogout, NordServers
<1> QED  BY <1>2, PageIsSound DEF Unkept

(* The finance tabs.                                                       *)
LEMMA FinanceSound == PageSound("finance",
             Page(Nothing, (FinanceOverview @@ FinanceDeposits @@ FinanceAnalytics @@ FinanceCashflow
                          @@ FinanceWorkspaces @@ FinanceProfile), ForAll({"profile"}),
                                 FinanceDialogs))
<1>1. /\ OpSound(Keyed("tab"), FinanceDialogs, TRUE, TRUE)
      /\ OpSound([Keyed("tab") EXCEPT !.turns = FALSE], FinanceDialogs, TRUE, TRUE)
      /\ OpSound(View("profile"), FinanceDialogs, TRUE, TRUE)
  BY DEF OpSound, Behaves, Flagged, Invalidates, Guards, Counted, Op, View, Keyed
<1>2. OpsSound((FinanceOverview @@ FinanceDeposits @@ FinanceAnalytics @@ FinanceCashflow
                          @@ FinanceWorkspaces @@ FinanceProfile), FinanceDialogs, TRUE, TRUE)
  BY <1>1, JoinSound, OneSound DEF FinanceOverview, FinanceDeposits, FinanceAnalytics,
                                   FinanceCashflow, FinanceWorkspaces, FinanceProfile
<1> QED  BY <1>2, PageIsSound DEF Nothing

(* A reseller's customers.                                                 *)
LEMMA CustomersSound == PageSound("customers", Page(CustomersList, <<>>, ForAll({}), <<>>))
<1>1. OpsSound(<<>>, <<>>, TRUE, TRUE)
  BY DEF OpsSound
<1> QED  BY <1>1, PageIsSound DEF CustomersList

(* A reseller's code.                                                      *)
LEMMA ReferralSound == PageSound("referral", Page(ReferralList, <<>>, ForAll({}), <<>>))
<1>1. OpsSound(<<>>, <<>>, TRUE, TRUE)
  BY DEF OpsSound
<1> QED  BY <1>1, PageIsSound DEF ReferralList

(* A client's links.                                                       *)
LEMMA ClientInfoSound == PageSound("clientInfo",
             Page(Nothing, (ClientLinks @@ ClientQr @@ ClientSubLinks), ForAll({"info", "qr",
                    "pick"}), ClientInfoDialogs))
<1>1. /\ OpSound([View("info") EXCEPT !.guard = "latest"], ClientInfoDialogs, TRUE, TRUE)
      /\ OpSound([View("qr") EXCEPT !.guard = "latest"], ClientInfoDialogs, TRUE, TRUE)
      /\ OpSound([View("subLinks") EXCEPT !.on = "rows", !.from = "row"], ClientInfoDialogs,
                TRUE, TRUE)
  BY DEF OpSound, Behaves, Flagged, Invalidates, Guards, Counted, Op, View
<1>2. OpsSound((ClientLinks @@ ClientQr @@ ClientSubLinks), ClientInfoDialogs, TRUE, TRUE)
  BY <1>1, JoinSound, OneSound DEF ClientLinks, ClientQr, ClientSubLinks
<1> QED  BY <1>2, PageIsSound DEF Nothing

(* A client's addresses.                                                   *)
LEMMA ClientIpsSound == PageSound("clientIps",
             Page(Nothing, (ClientIps @@ InboundIps @@ InboundIpsActs), ForAll({"ips",
                    "inboundIps", "reload", "clearInboundIps"}), IpsDialogs))
<1>1. /\ OpSound(Unguarded(View("ips")), IpsDialogs, TRUE, FALSE)
      /\ OpSound(Unlisted(OnPage(AtOnce("clear"))), IpsDialogs, TRUE, FALSE)
      /\ OpSound(Unguarded(View("inboundIps")), IpsDialogs, TRUE, FALSE)
      /\ OpSound(Unlisted(AtOnce("-")), IpsDialogs, TRUE, FALSE)
  BY DEF OpSound, Behaves, Flagged, Invalidates, Guards, Counted, Op, Unguarded, View,
         Unlisted, OnPage, AtOnce
<1>2. OpsSound((ClientIps @@ InboundIps @@ InboundIpsActs), IpsDialogs, TRUE, FALSE)
  BY <1>1, JoinSound, OneSound DEF ClientIps, InboundIps, InboundIpsActs
<1> QED  BY <1>2, PageIsSound DEF Unkept, Nothing

(* What a purchase brought.                                                *)
LEMMA PurchaseSound == PageSound("purchase",
             Page(Nothing, PurchaseDetails, ForAll({"details"}), PurchaseDialogs))
<1>1. /\ OpSound(Unguarded(View("details")), PurchaseDialogs, TRUE, FALSE)
  BY DEF OpSound, Behaves, Flagged, Invalidates, Guards, Counted, Op, Unguarded, View
<1>2. OpsSound(PurchaseDetails, PurchaseDialogs, TRUE, FALSE)
  BY <1>1, OneSound DEF PurchaseDetails
<1> QED  BY <1>2, PageIsSound DEF Unkept, Nothing

(* The form that tries a node.                                             *)
LEMMA NodeFormSound == PageSound("nodeForm",
             Page(Nothing, (NodeTest @@ NodePin), ForAll({"test", "pin"}), NodeFormDialogs))
<1>1. /\ OpSound(Unguarded(View("test")), NodeFormDialogs, TRUE, FALSE)
      /\ OpSound(Unguarded(View("pin")), NodeFormDialogs, TRUE, FALSE)
  BY DEF OpSound, Behaves, Flagged, Invalidates, Guards, Counted, Op, Unguarded, View
<1>2. OpsSound((NodeTest @@ NodePin), NodeFormDialogs, TRUE, FALSE)
  BY <1>1, JoinSound, OneSound DEF NodeTest, NodePin
<1> QED  BY <1>2, PageIsSound DEF Unkept, Nothing

(* The versions installed.                                                 *)
LEMMA VersionsSound == PageSound("versions",
             Page(Nothing, (VersionsList @@ VersionsInstall @@ PanelUpdate @@ DatabaseImport),
                    ForAll({"install", "geofile"}), VersionsDialogs))
<1>1. /\ OpSound([Unguarded(View("versions")) EXCEPT !.on = "page"], VersionsDialogs, TRUE, FALSE)
      /\ OpSound(Unlisted(Ask), VersionsDialogs, TRUE, FALSE)
      /\ OpSound(Unlisted(OnPage(Ask)), VersionsDialogs, TRUE, FALSE)
      /\ OpSound(Unlisted(OnPage(AtOnce("-"))), VersionsDialogs, TRUE, FALSE)
  BY DEF OpSound, Behaves, Flagged, Invalidates, Guards, Counted, Op, Unguarded, View,
         Unlisted, Ask, OnPage, AtOnce
<1>2. OpsSound((VersionsList @@ VersionsInstall @@ PanelUpdate @@ DatabaseImport),
             VersionsDialogs, TRUE, FALSE)
  BY <1>1, JoinSound, OneSound DEF VersionsList, VersionsInstall, PanelUpdate, DatabaseImport
<1> QED  BY <1>2, PageIsSound DEF Unkept, Nothing

(* The login form.                                                         *)
LEMMA LoginSound == PageSound("login", Page(Nothing, LoginSubmit, ForAll({}), LoginDialogs))
<1>1. /\ OpSound(Unlisted(Entry("login")), LoginDialogs, TRUE, TRUE)
  BY DEF OpSound, Behaves, Flagged, Invalidates, Guards, Counted, Op, Unlisted, OnPage,
         RowForm, Entry
<1>2. OpsSound(LoginSubmit, LoginDialogs, TRUE, TRUE)
  BY <1>1, OneSound DEF LoginSubmit
<1> QED  BY <1>2, PageIsSound DEF Nothing

(* The registration form.                                                  *)
LEMMA RegisterSound == PageSound("register",
             Page(Nothing, RegisterSubmit, ForAll({}), RegisterDialogs))
<1>1. /\ OpSound([Entry("register") EXCEPT !.does = "named", !.refresh = "never"],
                RegisterDialogs, FALSE, TRUE)
  BY DEF OpSound, Behaves, Flagged, Invalidates, Guards, Counted, Op, OnPage, RowForm, Entry
<1>2. OpsSound(RegisterSubmit, RegisterDialogs, FALSE, TRUE)
  BY <1>1, OneSound DEF RegisterSubmit
<1> QED  BY <1>2, PageIsSound DEF Nothing

(* The pages about people.                                                 *)
LEMMA AccountCatalogueSound == CatalogueSound(AccountCatalogue)
BY UsersSound, TenantUsersSound, ManagersSound, GroupsSound, TicketsSound, TicketSound,
       CategoriesSound, CataloguesSound
   DEF AccountCatalogue

(* The pages about money.                                                  *)
LEMMA ShopCatalogueSound == CatalogueSound(ShopCatalogue)
BY ProductsSound, ServicesSound, StoreSound, BillingSound, DepositSound, DepositsSound,
       OrdersSound, CataloguesSound
   DEF ShopCatalogue

(* The pages about machines.                                               *)
LEMMA ServerCatalogueSound == CatalogueSound(ServerCatalogue)
BY NodesSound, GeoSound, InboundsSound, HomeSound, CataloguesSound
   DEF ServerCatalogue

(* The pages about the panel itself.                                       *)
LEMMA SettingsCatalogueSound == CatalogueSound(SettingsCatalogue)
BY SettingsSound, SecuritySound, CardsSound, ReferralsSound, WorkspaceSound, GatewaysSound,
       ProfileSound, BellSound, CataloguesSound
   DEF SettingsCatalogue

(* What the Xray section keeps on the server.                              *)
LEMMA XrayCatalogueSound == CatalogueSound(XrayCatalogue)
BY OutboundsSound, SubsSound, WarpSound, NordSound, CataloguesSound
   DEF XrayCatalogue

(* The pages that mostly show.                                             *)
LEMMA ReportCatalogueSound == CatalogueSound(ReportCatalogue)
BY FinanceSound, CustomersSound, ReferralSound, ClientInfoSound, ClientIpsSound,
       PurchaseSound, NodeFormSound, VersionsSound, LoginSound, RegisterSound, CataloguesSound
   DEF ReportCatalogue

(* Every handler of every page is sound: which the steps below rest on,    *)
(* whatever pages a user visits.                                           *)
LEMMA AllSound == CatalogueSound(Catalogue)
BY AccountCatalogueSound, ShopCatalogueSound, ServerCatalogueSound, SettingsCatalogueSound,
   XrayCatalogueSound, ReportCatalogueSound, CataloguesSound
   DEF Catalogue

-----------------------------------------------------------------------------
(* The dialogs, the fetches and the requests are items, each with the      *)
(* number of the click it goes back to.  A dialog in its operation's own   *)
(* slot may still send; so may a fetch that is waited for.                 *)
Item == open \cup asked \cup sent
Own(d) == d.slot = O(d.op).slot
Pending(f) == O(f.op).from \in {"first", "late"}
Live == {d \in open : Own(d) /\ O(d.op).opens \in {"form", "ask"}}
        \cup {f \in asked : Pending(f)} \cup sent

(* A flag that no dialog evades by Enter, and the requests that raise one. *)
Solely(f) == f # "-" /\ \A s \in DOMAIN P.dialogs : P.dialogs[s].flag = f => ~P.dialogs[s].enter
Raises(q) == O(q.op).opens \in {"-", "form"}
Once(op) == O(op).does \in Counted /\ Sole(op)

Shaped(d) ==
    /\ d = [slot |-> d.slot, op |-> d.op, target |-> d.target, data |-> d.data, no |-> d.no]
    /\ Own(d) \/ d.slot = O(d.op).shows
Formed(f) == f = [op |-> f.op, target |-> f.target, no |-> f.no]

Typed ==
    /\ route \in Pages
    /\ clicks \in 0..MaxClicks
    /\ \A x \in Item : x.op \in DOMAIN P.ops /\ x.no \in 1..clicks
    /\ \A q \in sent : q.nth \in 1..clicks
    /\ busy \in [Flags -> 0..clicks]
    /\ landed \in [1..MaxClicks -> Nat]
    /\ \A n \in 1..MaxClicks : n > clicks => landed[n] = 0
    /\ \A d \in open : Shaped(d)
    /\ \A f \in asked : Formed(f)

(* A number is of one operation and one target; a slot holds one dialog;   *)
(* a fetch that is waited for comes before its dialog and its request, and *)
(* a confirmation is gone when its request is sent.                        *)
Same == \A x, y \in Item : x.no = y.no => x.op = y.op /\ x.target = y.target
OneEach == \A d, e \in open : d.slot = e.slot => d = e
AskedFirst == \A f \in asked :
                 Pending(f) => /\ \A q \in sent : q.no # f.no
                               /\ \A d \in open : Own(d) => d.no # f.no
AskOnce == \A q \in sent, d \in open : O(q.op).opens = "ask" /\ Own(d) => q.no # d.no
SentSound == \A q \in sent : O(q.op).opens \in {"-", "form", "ask"} /\ O(q.op).does # "nothing"

(* What counts has one request under way per number, and while it may      *)
(* still be sent or answered nothing of that number has landed.            *)
One == \A q, p \in sent : Once(q.op) /\ p.no = q.no => p = q
Spent == \A x \in Live : O(x.op).opens # "view" /\ Once(x.op) => landed[x.no] = 0

(* A flag that bars its button stands for the one request that raised it.  *)
FlagInv ==
    \A q \in sent : Raises(q) /\ Solely(FlagOf(q.op)) =>
       /\ busy[FlagOf(q.op)] = q.nth
       /\ \A p \in sent : Raises(p) /\ FlagOf(p.op) = FlagOf(q.op) => p = q

Rules == Same /\ OneEach /\ AskedFirst /\ AskOnce /\ SentSound /\ One /\ Spent
SlotInv == Typed /\ Rules /\ FlagInv

(* A list that is not marked was filled from the rows, or reads them,      *)
(* unless a change was missed; every row shown is as it was filled, but    *)
(* for one swapped since.  A change gives a row a number it never had, so  *)
(* that the row filled before it is told from the one after.               *)
Aged(f) == \A r \in DOMAIN f : f[r] \in Nat /\ f[r] <= changes
Listing ==
    P.loads = "query" =>
       /\ changes \in Nat /\ Aged(rows) /\ Aged(seed) /\ \A answer \in reads : Aged(answer)
       /\ stale => reads = {}
       /\ missed \/ reads \subseteq {rows}
       /\ loaded /\ ~broken /\ ~stale /\ reads = {} /\ ~missed => seed = rows
       /\ DOMAIN shown = DOMAIN seed
       /\ \A r \in (DOMAIN seed \cap DOMAIN rows) \ late : rows[r] = seed[r] => shown[r] = rows[r]

(* The action ViewKept is about.                                           *)
Held == \A d \in open, e \in open' :
          route \notin Unkept /\ d.slot = e.slot /\ ~ByAnswer(d.slot)
          => /\ e.no >= d.no
             /\ e.no = d.no /\ d.data = d.target => e.data = e.target

(* So are those of the page that is open.                                  *)
LEMMA HereSound ==
  ASSUME route \in Pages, NEW op \in DOMAIN P.ops
  PROVE  OpSound(O(op), P.dialogs, P.loads = "query", route \notin Unkept)
<1>1. PageSound(route, Catalogue[route])
  BY AllSound, PanelPagesAssumption DEF CatalogueSound
<1> QED  BY <1>1 DEF PageSound, OpsSound, O, P

(* The page keeps its ops and its dialogs while it is open.           *)
LEMMA StaysHere ==
  ASSUME route' = route
  PROVE  /\ P' = P /\ Flags' = Flags
         /\ \A op : O(op)' = O(op) /\ FlagOf(op)' = FlagOf(op) /\ Once(op)' = Once(op)
         /\ \A f : Solely(f)' = Solely(f)
<1>1. P' = P
  BY DEF P
<1> QED  BY <1>1 DEF Flags, O, D, FlagOf, Once, Sole, Solely

(* A page just opened has nothing under way.                               *)
LEMMA InitInv == PageInit => SlotInv
<1> SUFFICES ASSUME PageInit PROVE SlotInv
  OBVIOUS
<1>1. open = {} /\ asked = {} /\ sent = {}
  BY DEF PageInit
<1>2. Typed
  BY <1>1, PanelPagesAssumption DEF PageInit, Typed, Item
<1>3. Rules /\ FlagInv
  BY <1>1 DEF Rules, Same, OneEach, AskedFirst, AskOnce, SentSound, One, Spent, FlagInv, Item,
              Live
<1> QED  BY <1>2, <1>3 DEF SlotInv

(* Dialogs closed, answers taken and requests dropped break no rule.       *)
LEMMA Fewer ==
  ASSUME Rules, route' = route, open' \subseteq open, asked' \subseteq asked,
         sent' \subseteq sent, landed' = landed
  PROVE  Rules'
<1>1. \A op : O(op)' = O(op) /\ Once(op)' = Once(op)
  BY StaysHere
<1>2. Same' /\ OneEach'
  BY DEF Rules, Same, OneEach, Item
<1>3. AskedFirst' /\ AskOnce' /\ SentSound'
  BY <1>1 DEF Rules, AskedFirst, AskOnce, SentSound, Pending, Own
<1>4. One' /\ Spent'
  BY <1>1 DEF Rules, One, Spent, Live, Own, Pending
<1> QED  BY <1>2, <1>3, <1>4 DEF Rules

(* What a click brings carries a number no dialog has had before.          *)
LEMMA FreshRules ==
  ASSUME Typed, Rules, route' = route, landed' = landed, clicks < MaxClicks,
         NEW op \in DOMAIN P.ops, NEW t, NEW no, no = clicks + 1,
         \A d \in open' : d \in open \/ (d.op = op /\ d.target = t /\ d.no = no),
         \A f \in asked' : f \in asked \/ (f.op = op /\ f.target = t /\ f.no = no),
         \A q \in sent' : q \in sent \/ (q.op = op /\ q.target = t /\ q.no = no),
         OneEach',
         \A f \in asked' \ asked : Pending(f) => sent' = sent /\ open' \subseteq open,
         \A q \in sent' \ sent : O(op).opens = "-" /\ O(op).does # "nothing",
         \A p, q \in sent' \ sent : p = q
  PROVE  Rules'
<1>1. \A o : O(o)' = O(o) /\ Once(o)' = Once(o)
  BY StaysHere
<1>2. /\ clicks \in Nat /\ no \in Nat
      /\ \A x \in open \cup asked \cup sent : x.no \in Nat /\ x.no < no
  BY PanelPagesAssumption DEF Typed, Item
<1>3. landed[no] = 0
  BY PanelPagesAssumption, <1>2 DEF Typed
<1>4. Same'
  BY <1>2 DEF Rules, Same, Item
<1>5. AskedFirst'
  <2> SUFFICES ASSUME NEW f \in asked', Pending(f)'
               PROVE  /\ \A q \in sent' : q.no # f.no
                      /\ \A d \in open' : Own(d)' => d.no # f.no
    BY DEF AskedFirst
  <2>1. CASE f \in asked
    BY <2>1, <1>1, <1>2 DEF Rules, AskedFirst, Pending, Own
  <2>2. CASE f \notin asked
    BY <2>2, <1>1, <1>2 DEF Pending, Own
  <2> QED  BY <2>1, <2>2
<1>6. AskOnce' /\ SentSound'
  BY <1>1, <1>2 DEF Rules, AskOnce, SentSound, Own
<1>7. One'
  BY <1>1, <1>2 DEF Rules, One
<1>8. Spent'
  BY <1>1, <1>2, <1>3 DEF Rules, Spent, Live, Own, Pending
<1> QED  BY <1>4, <1>5, <1>6, <1>7, <1>8 DEF Rules

(* A flag that bars its button is one the page keeps.                      *)
LEMMA FlagListed ==
  ASSUME NEW op, Solely(FlagOf(op))
  PROVE  FlagOf(op) \in Flags /\ O(op).slot \in DOMAIN P.dialogs /\ FlagOf(op) = D(O(op).slot).flag
BY DEF Solely, FlagOf, Flags, D

(* A request sent while its flag is down is the only one to have raised    *)
(* it.                                                                     *)
LEMMA OneRaised ==
  ASSUME Typed, FlagInv, route' = route, NEW q, NEW op, q.op = op, q.nth = clicks',
         sent' = sent \cup {q},
         Solely(FlagOf(op)) => ~Raised(FlagOf(op)),
         busy' = [g \in DOMAIN busy |-> IF g = FlagOf(op) THEN clicks' ELSE busy[g]]
  PROVE  FlagInv'
<1>1. /\ \A o : O(o)' = O(o) /\ FlagOf(o)' = FlagOf(o)
      /\ \A f : Solely(f)' = Solely(f)
  BY StaysHere
<1>2. ASSUME NEW p \in sent, Raises(p), Solely(FlagOf(p.op))
      PROVE  FlagOf(p.op) # FlagOf(op)
  <2>1. busy[FlagOf(p.op)] = p.nth /\ p.nth # 0
    BY <1>2, PanelPagesAssumption DEF FlagInv, Typed
  <2>2. FlagOf(p.op) # "-"
    BY <1>2 DEF Solely
  <2> QED  BY <1>2, <2>1, <2>2 DEF Raised
<1>3. DOMAIN busy = Flags
  BY DEF Typed
<1>4. ASSUME NEW p \in sent', Raises(p), Solely(FlagOf(p.op))
      PROVE  /\ busy'[FlagOf(p.op)] = p.nth
             /\ \A r \in sent' : Raises(r) /\ FlagOf(r.op) = FlagOf(p.op) => r = p
  <2>1. FlagOf(p.op) \in Flags
    BY <1>4, FlagListed
  <2>2. CASE p \in sent
    <3>1. FlagOf(p.op) # FlagOf(op)
      BY <1>2, <1>4, <2>2
    <3>2. /\ busy[FlagOf(p.op)] = p.nth
          /\ \A r \in sent : Raises(r) /\ FlagOf(r.op) = FlagOf(p.op) => r = p
      BY <1>4, <2>2 DEF FlagInv
    <3> QED  BY <1>3, <2>1, <3>1, <3>2
  <2>3. CASE p = q
    <3>1. \A r \in sent : Raises(r) /\ FlagOf(r.op) = FlagOf(p.op) => FALSE
      BY <1>2, <1>4, <2>3
    <3> QED  BY <1>3, <2>1, <2>3, <3>1
  <2> QED  BY <2>2, <2>3
<1> QED  BY <1>1, <1>4 DEF FlagInv, Raises

(* Every number given so far is one of the clicks.                         *)
LEMMA Numbers ==
  ASSUME Typed
  PROVE  /\ clicks \in Nat /\ MaxClicks \in Nat
         /\ \A x \in open \cup asked \cup sent : x.no \in Nat /\ x.no >= 1 /\ x.no <= clicks
         /\ \A q \in sent : q.nth \in Nat /\ q.nth >= 1 /\ q.nth <= clicks
BY PanelPagesAssumption DEF Typed, Item

(* The types, from those of the parts a step changes.                      *)
LEMMA TypedStays ==
  ASSUME Typed, route' = route, clicks' \in {clicks, clicks + 1}, clicks' <= MaxClicks,
         \A x \in open' \cup asked' \cup sent' : x.op \in DOMAIN P.ops /\ x.no \in 1..clicks',
         \A q \in sent' : q.nth \in 1..clicks',
         busy' \in [Flags -> 0..clicks'],
         landed' \in [1..MaxClicks -> Nat],
         \A n \in 1..MaxClicks : n > clicks' => landed'[n] = 0,
         \A d \in open' : Shaped(d),
         \A f \in asked' : Formed(f)
  PROVE  Typed'
<1>1. \A d : Shaped(d)' <=> Shaped(d)
  BY StaysHere DEF Shaped, Own
<1> QED  BY <1>1, StaysHere, Numbers DEF Typed, Item, Formed

(* A request that raises no flag leaves the flags to those that did.       *)
LEMMA FlagsStay ==
  ASSUME FlagInv, route' = route, busy' = busy,
         \A q \in sent' : q \in sent \/ O(q.op).opens = "ask"
  PROVE  FlagInv'
BY StaysHere DEF FlagInv, Raises

(* Steps that show no dialog and send nothing.                             *)
LEMMA QuietStep ==
  ASSUME SlotInv, route' = route, open' \subseteq open, asked' \subseteq asked, sent' = sent,
         busy' = busy, landed' = landed, clicks' \in {clicks, clicks + 1}, clicks' <= MaxClicks
  PROVE  SlotInv'
<1>1. /\ Typed /\ Rules /\ FlagInv
      /\ clicks \in Nat /\ MaxClicks \in Nat
  BY Numbers DEF SlotInv
<1>2. Rules' /\ FlagInv'
  BY <1>1, Fewer, FlagsStay
<1>3. Typed'
  <2>1. /\ \A x \in open' \cup asked' \cup sent' : x.op \in DOMAIN P.ops /\ x.no \in 1..clicks'
        /\ \A q \in sent' : q.nth \in 1..clicks'
    BY <1>1 DEF Typed, Item
  <2>2. busy' \in [Flags -> 0..clicks']
    <3>1. 0..clicks \subseteq 0..clicks'
      BY <1>1
    <3> QED  BY <1>1, <3>1 DEF Typed
  <2>3. /\ landed' \in [1..MaxClicks -> Nat]
        /\ \A n \in 1..MaxClicks : n > clicks' => landed'[n] = 0
    BY <1>1 DEF Typed
  <2>4. /\ \A d \in open' : Shaped(d)
        /\ \A f \in asked' : Formed(f)
    BY <1>1 DEF Typed
  <2> QED  BY <1>1, <2>1, <2>2, <2>3, <2>4, TypedStays
<1> QED  BY <1>2, <1>3 DEF SlotInv

(* A dialog shown takes the place of the one in its slot.                  *)
LEMMA ShowOne ==
  ASSUME NEW d, OneEach, open' = Show(d)
  PROVE  OneEach' /\ \A e \in open' : e \in open \/ e = d
BY DEF OneEach, Show

(* A click on an operation.                                                *)
LEMMA StartStep ==
  ASSUME SlotInv, NEW op \in DOMAIN P.ops, Start(op)
  PROVE  SlotInv'
<1>1. Typed /\ Rules /\ FlagInv /\ clicks \in Nat /\ MaxClicks \in Nat
  BY Numbers DEF SlotInv
<1>2. route' = route /\ landed' = landed /\ clicks' = clicks + 1 /\ clicks < MaxClicks
  BY DEF Start, Click
<1>3. Behaves(O(op))
  BY <1>1, HereSound DEF Typed, OpSound
<1>4. PICK t \in Targets(op) :
         LET d == [slot |-> O(op).slot, op |-> op, target |-> t,
                   data |-> IF O(op).shared THEN t ELSE {}, no |-> clicks']
         IN  /\ asked' = IF O(op).from \in {"first", "fetch"}
                         THEN asked \cup {[op |-> op, target |-> t, no |-> clicks']} ELSE asked
             /\ open' = IF O(op).opens = "-" \/ O(op).from = "first" THEN open ELSE Show(d)
             /\ IF O(op).opens = "-" THEN Post(op, t, t, clicks') ELSE UNCHANGED sent
  BY DEF Start
<1> DEFINE d == [slot |-> O(op).slot, op |-> op, target |-> t,
                 data |-> IF O(op).shared THEN t ELSE {}, no |-> clicks']
           f == [op |-> op, target |-> t, no |-> clicks']
           q == [op |-> op, target |-> t, acts |-> t, no |-> clicks', nth |-> clicks']
<1>5. /\ d.op = op /\ d.target = t /\ d.no = clicks + 1
      /\ f.op = op /\ f.target = t /\ f.no = clicks + 1
      /\ q.op = op /\ q.target = t /\ q.no = clicks + 1 /\ q.nth = clicks + 1
      /\ Shaped(d)
      /\ Formed(f)
  BY <1>2 DEF Shaped, Formed, Own
<1>6. /\ asked' = IF O(op).from \in {"first", "fetch"} THEN asked \cup {f} ELSE asked
      /\ open' = IF O(op).opens = "-" \/ O(op).from = "first" THEN open ELSE Show(d)
      /\ sent' = IF O(op).opens = "-" THEN sent \cup {q} ELSE sent
  BY <1>4 DEF Post
<1> HIDE DEF d, f, q
<1>7. OneEach' /\ \A e \in open' : e \in open \/ e = d
  <2>1. CASE O(op).opens = "-" \/ O(op).from = "first"
    BY <2>1, <1>1, <1>6 DEF Rules, OneEach
  <2>2. CASE ~(O(op).opens = "-" \/ O(op).from = "first")
    BY <2>2, <1>1, <1>6, ShowOne DEF Rules
  <2> QED  BY <2>1, <2>2
<1>8. Rules'
  <2>1. /\ \A e \in open' : e \in open \/ (e.op = op /\ e.target = t /\ e.no = clicks + 1)
        /\ \A g \in asked' : g \in asked \/ (g.op = op /\ g.target = t /\ g.no = clicks + 1)
        /\ \A p \in sent' : p \in sent \/ (p.op = op /\ p.target = t /\ p.no = clicks + 1)
    BY <1>5, <1>6, <1>7
  <2>2. \A g \in asked' \ asked : Pending(g) => sent' = sent /\ open' \subseteq open
    BY <1>3, <1>5, <1>6 DEF Behaves, Pending
  <2>3. /\ \A p \in sent' \ sent : O(op).opens = "-" /\ O(op).does # "nothing"
        /\ \A p, r \in sent' \ sent : p = r
    BY <1>3, <1>6 DEF Behaves
  <2> QED  BY <1>1, <1>2, <1>7, <2>1, <2>2, <2>3, FreshRules
<1>9. Typed'
  <2>1. /\ \A x \in open' \cup asked' \cup sent' : x.op \in DOMAIN P.ops /\ x.no \in 1..clicks'
        /\ \A p \in sent' : p.nth \in 1..clicks'
    BY <1>1, <1>2, <1>5, <1>6, <1>7 DEF Typed, Item
  <2>2. busy' \in [Flags -> 0..clicks']
    BY <1>1, <1>2 DEF Typed, Start, Raise
  <2>3. /\ landed' \in [1..MaxClicks -> Nat]
        /\ \A n \in 1..MaxClicks : n > clicks' => landed'[n] = 0
    BY <1>1, <1>2 DEF Typed
  <2>4. /\ \A e \in open' : Shaped(e)
        /\ \A g \in asked' : Formed(g)
    BY <1>1, <1>5, <1>6, <1>7 DEF Typed
  <2>5. Typed /\ clicks' \in {clicks, clicks + 1} /\ clicks' <= MaxClicks
    BY <1>1, <1>2
  <2> QED  BY <1>2, <2>1, <2>2, <2>3, <2>4, <2>5, TypedStays
<1>10. FlagInv'
  <2>1. CASE O(op).opens # "-"
    BY <2>1, <1>1, <1>2, <1>6, FlagsStay DEF Start
  <2>2. CASE O(op).opens = "-"
    <3>1. ~Raised(FlagOf(op)) /\ busy' = [g \in DOMAIN busy |-> IF g = FlagOf(op) THEN clicks' ELSE busy[g]]
      BY <2>2 DEF Start, Raise
    <3> QED  BY <3>1, <2>2, <1>1, <1>2, <1>5, <1>6, OneRaised
  <2> QED  BY <2>1, <2>2
<1> QED  BY <1>8, <1>9, <1>10 DEF SlotInv

(* Data written into a dialog leave what it is and whose.                  *)
LEMMA FilledParts ==
  ASSUME NEW d, NEW data, Shaped(d)
  PROVE  LET e == [d EXCEPT !.data = data]
         IN  /\ Shaped(e)
             /\ e.slot = d.slot /\ e.op = d.op
             /\ e.target = d.target /\ e.data = data /\ e.no = d.no
<1> DEFINE e == [d EXCEPT !.data = data]
<1>1. DOMAIN d = {"slot", "op", "target", "data", "no"}
  BY DEF Shaped
<1>2. DOMAIN e = DOMAIN d /\ e = [x \in DOMAIN d |-> e[x]]
  OBVIOUS
<1>3. e.slot = d.slot /\ e.op = d.op /\ e.target = d.target /\ e.data = data /\ e.no = d.no
  BY <1>1
<1> HIDE DEF e
<1>4. Shaped(e)
  BY <1>1, <1>2, <1>3 DEF Shaped, Own
<1> QED  BY <1>3, <1>4 DEF e

(* Another target chosen in a view.                                        *)
LEMMA TurnStep ==
  ASSUME SlotInv, NEW d \in open, Turn(d)
  PROVE  SlotInv'
<1>1. Typed /\ Rules /\ FlagInv /\ clicks \in Nat /\ MaxClicks \in Nat
  BY Numbers DEF SlotInv
<1>2. /\ route' = route /\ landed' = landed /\ clicks' = clicks + 1 /\ clicks < MaxClicks
      /\ sent' = sent /\ busy' = busy
  BY DEF Turn, Click
<1> DEFINE op == d.op
<1>3. op \in DOMAIN P.ops
  BY <1>1 DEF Typed, Item
<1>4. O(op).from = "fetch"
  BY <1>1, <1>3, HereSound DEF Typed, OpSound, Behaves, Turn
<1>5. PICK r \in DOMAIN shown \ d.target :
         LET kept == IF O(d.op).guard = "keyed" THEN {} ELSE d.data
         IN  /\ open' = Show([d EXCEPT !.target = {r}, !.data = kept, !.no = clicks'])
             /\ asked' = asked \cup {[op |-> d.op, target |-> {r}, no |-> clicks']}
  BY DEF Turn
<1> DEFINE kept == IF O(d.op).guard = "keyed" THEN {} ELSE d.data
           e == [d EXCEPT !.target = {r}, !.data = kept, !.no = clicks']
           f == [op |-> d.op, target |-> {r}, no |-> clicks']
<1>6. Shaped(d)
  BY <1>1 DEF Typed
<1>7. /\ e.op = op /\ e.target = {r} /\ e.no = clicks + 1
      /\ Shaped(e)
  <2> HIDE DEF kept
  <2>1. DOMAIN d = {"slot", "op", "target", "data", "no"}
    BY <1>6 DEF Shaped
  <2>2. DOMAIN e = DOMAIN d /\ e = [x \in DOMAIN d |-> e[x]]
    OBVIOUS
  <2>3. e.slot = d.slot /\ e.op = d.op /\ e.target = {r} /\ e.data = kept /\ e.no = clicks'
    BY <2>1
  <2> HIDE DEF e
  <2>4. Shaped(e)
    BY <1>6, <2>1, <2>2, <2>3 DEF Shaped, Own
  <2> QED  BY <1>2, <2>3, <2>4
<1>8. /\ f.op = op /\ f.target = {r} /\ f.no = clicks + 1
      /\ Formed(f)
  BY <1>2 DEF Formed
<1>9. open' = Show(e) /\ asked' = asked \cup {f}
  BY <1>5
<1> HIDE DEF e, f, op
<1>10. OneEach' /\ \A x \in open' : x \in open \/ x = e
  BY <1>1, <1>9, ShowOne DEF Rules
<1>11. Rules'
  <2> DEFINE t == {r}
             no == clicks + 1
  <2>1. no = clicks + 1
    OBVIOUS
  <2>2. /\ \A x \in open' : x \in open \/ (x.op = op /\ x.target = t /\ x.no = no)
        /\ \A g \in asked' : g \in asked \/ (g.op = op /\ g.target = t /\ g.no = no)
        /\ \A p \in sent' : p \in sent \/ (p.op = op /\ p.target = t /\ p.no = no)
    BY <1>2, <1>7, <1>8, <1>9, <1>10
  <2>3. \A g \in asked' \ asked : Pending(g) => sent' = sent /\ open' \subseteq open
    BY <1>4, <1>8, <1>9 DEF Pending
  <2>4. /\ \A p \in sent' \ sent : O(op).opens = "-" /\ O(op).does # "nothing"
        /\ \A p, s \in sent' \ sent : p = s
    BY <1>2
  <2>5. /\ Typed /\ Rules /\ OneEach'
        /\ route' = route /\ landed' = landed /\ clicks < MaxClicks
    BY <1>1, <1>2, <1>10
  <2> HIDE DEF t, no
  <2> QED  BY <1>3, <2>1, <2>2, <2>3, <2>4, <2>5, FreshRules
<1>12. Typed'
  <2>1. /\ \A x \in open' \cup asked' \cup sent' : x.op \in DOMAIN P.ops /\ x.no \in 1..clicks'
        /\ \A p \in sent' : p.nth \in 1..clicks'
    BY <1>1, <1>2, <1>3, <1>7, <1>8, <1>9, <1>10 DEF Typed, Item
  <2>2. busy' \in [Flags -> 0..clicks']
    <3>1. 0..clicks \subseteq 0..clicks'
      BY <1>1, <1>2
    <3> QED  BY <1>1, <1>2, <3>1 DEF Typed
  <2>3. /\ landed' \in [1..MaxClicks -> Nat]
        /\ \A n \in 1..MaxClicks : n > clicks' => landed'[n] = 0
    BY <1>1, <1>2 DEF Typed
  <2>4. /\ \A x \in open' : Shaped(x)
        /\ \A g \in asked' : Formed(g)
    BY <1>1, <1>7, <1>8, <1>9, <1>10 DEF Typed
  <2>5. Typed /\ clicks' \in {clicks, clicks + 1} /\ clicks' <= MaxClicks
    BY <1>1, <1>2
  <2> QED  BY <1>2, <2>1, <2>2, <2>3, <2>4, <2>5, TypedStays
<1>13. FlagInv'
  BY <1>1, <1>2, FlagsStay
<1> QED  BY <1>11, <1>12, <1>13 DEF SlotInv

(* The types after a step that counts nothing as done.                     *)
LEMMA TypedKept ==
  ASSUME Typed, route' = route, clicks' \in {clicks, clicks + 1}, clicks' <= MaxClicks,
         \A d \in open' : /\ d.op \in DOMAIN P.ops /\ d.no \in 1..clicks
                          /\ Shaped(d),
         \A f \in asked' : /\ f.op \in DOMAIN P.ops /\ f.no \in 1..clicks
                           /\ Formed(f),
         \A q \in sent' : q.op \in DOMAIN P.ops /\ q.no \in 1..clicks /\ q.nth \in 1..clicks',
         busy' \in [Flags -> 0..clicks'],
         landed' = landed
  PROVE  Typed'
<1>1. clicks \in Nat /\ 1..clicks \subseteq 1..clicks'
  BY Numbers
<1>2. /\ \A x \in open' \cup asked' \cup sent' : x.op \in DOMAIN P.ops /\ x.no \in 1..clicks'
      /\ \A q \in sent' : q.nth \in 1..clicks'
  BY <1>1
<1>3. /\ landed' \in [1..MaxClicks -> Nat]
      /\ \A n \in 1..MaxClicks : n > clicks' => landed'[n] = 0
  BY <1>1 DEF Typed
<1> QED  BY <1>2, <1>3, TypedStays

(* The flags after a click, raised by it or not.                           *)
LEMMA MoreBusy ==
  ASSUME Typed, clicks' \in {clicks, clicks + 1}
  PROVE  /\ busy \in [Flags -> 0..clicks']
         /\ \A op : [g \in DOMAIN busy |-> IF g = FlagOf(op) THEN clicks' ELSE busy[g]]
                       \in [Flags -> 0..clicks']
<1>1. clicks \in Nat /\ 0..clicks \subseteq 0..clicks' /\ clicks' \in 0..clicks'
  BY Numbers
<1> QED  BY <1>1 DEF Typed

(* A form is submitted: where the effect counts, only with its flag down,  *)
(* so no request of the dialog is under way.                               *)
LEMMA FormStep ==
  ASSUME SlotInv, NEW d \in open, Own(d), O(d.op).opens = "form", O(d.op).does # "nothing",
         MaySubmit(d), Click, NEW acts, Post(d.op, d.target, acts, d.no), Raise(d.op),
         UNCHANGED <<route, open, asked, landed>>
  PROVE  SlotInv'
<1>1. Typed /\ Rules /\ FlagInv /\ clicks \in Nat /\ MaxClicks \in Nat
  BY Numbers DEF SlotInv
<1>2. clicks' = clicks + 1 /\ clicks < MaxClicks
  BY DEF Click
<1> DEFINE q == [op |-> d.op, target |-> d.target, acts |-> acts, no |-> d.no, nth |-> clicks']
<1>3. /\ q.op = d.op /\ q.target = d.target /\ q.no = d.no /\ q.nth = clicks'
      /\ sent' = sent \cup {q}
  BY DEF Post
<1> HIDE DEF q
<1>4. \A o : O(o)' = O(o) /\ Once(o)' = Once(o)
  BY StaysHere
<1>5. d.op \in DOMAIN P.ops /\ d.no \in 1..clicks
  BY <1>1 DEF Typed, Item
<1>6. Solely(FlagOf(d.op)) => ~Raised(FlagOf(d.op))
  <2> SUFFICES ASSUME Solely(FlagOf(d.op)) PROVE ~Raised(FlagOf(d.op))
    OBVIOUS
  <2>1. d.slot \in DOMAIN P.dialogs /\ FlagOf(d.op) = D(d.slot).flag
    BY FlagListed DEF Own
  <2>2. ~D(d.slot).enter
    BY <2>1 DEF Solely, D
  <2> QED  BY <2>1, <2>2 DEF MaySubmit
<1>7. FlagInv'
  BY <1>1, <1>3, <1>6, OneRaised DEF Raise
<1>8. ASSUME Once(d.op), NEW p \in sent, p.no = d.no
      PROVE  FALSE
  <2>1. p.op = d.op
    BY <1>1, <1>8 DEF Rules, Same, Item
  <2>2. Guarding(P.dialogs, O(d.op).slot)
    BY <1>1, <1>5, <1>8, HereSound DEF Typed, OpSound, Flagged, Once
  <2>3. Solely(FlagOf(d.op))
    BY <2>2, <1>8 DEF Guarding, Solely, FlagOf, D, Once, Sole
  <2>4. busy[FlagOf(d.op)] = p.nth /\ p.nth # 0
    BY <1>1, <2>1, <2>3 DEF FlagInv, Raises, Typed
  <2> QED  BY <1>6, <2>3, <2>4 DEF Raised, Solely
<1>9. Rules'
  <2>1. Same' /\ OneEach'
    BY <1>1, <1>3 DEF Rules, Same, OneEach, Item
  <2>2. AskedFirst'
    BY <1>1, <1>3, <1>4 DEF Rules, AskedFirst, Pending, Own
  <2>3. AskOnce' /\ SentSound'
    BY <1>1, <1>3, <1>4 DEF Rules, AskOnce, SentSound, Own
  <2>4. One'
    <3> SUFFICES ASSUME NEW p \in sent', NEW r \in sent', Once(p.op), r.no = p.no
                 PROVE  r = p
      BY <1>4 DEF One
    <3>1. p \in sent /\ r \in sent => r = p
      BY <1>1 DEF Rules, One
    <3>2. p = q /\ r \in sent => FALSE
      BY <1>3, <1>8
    <3>3. r = q /\ p \in sent => FALSE
      <4>1. r = q /\ p \in sent => p.op = d.op
        BY <1>1, <1>3 DEF Rules, Same, Item
      <4> QED  BY <4>1, <1>3, <1>8
    <3> QED  BY <3>1, <3>2, <3>3, <1>3
  <2>5. Spent'
    <3> SUFFICES ASSUME NEW x \in Live', O(x.op).opens # "view", Once(x.op)
                 PROVE  landed[x.no] = 0
      BY <1>4 DEF Spent
    <3>1. x \in Live \/ x = q
      BY <1>3, <1>4 DEF Live, Own, Pending
    <3>2. d \in Live
      BY DEF Live
    <3> QED  BY <1>1, <1>3, <3>1, <3>2 DEF Rules, Spent
  <2> QED  BY <2>1, <2>2, <2>3, <2>4, <2>5 DEF Rules
<1>10. Typed'
  <2>1. busy' \in [Flags -> 0..clicks']
    BY <1>1, <1>2, MoreBusy DEF Raise
  <2>2. /\ \A e \in open' : /\ e.op \in DOMAIN P.ops /\ e.no \in 1..clicks
                            /\ Shaped(e)
        /\ \A f \in asked' : /\ f.op \in DOMAIN P.ops /\ f.no \in 1..clicks
                             /\ Formed(f)
    BY <1>1 DEF Typed, Item
  <2>3. \A p \in sent' : p.op \in DOMAIN P.ops /\ p.no \in 1..clicks /\ p.nth \in 1..clicks'
    BY <1>1, <1>2, <1>3, <1>5 DEF Typed, Item
  <2> QED  BY <1>1, <1>2, <2>1, <2>2, <2>3, TypedKept
<1> QED  BY <1>7, <1>9, <1>10 DEF SlotInv

(* A confirmation closes as it is answered, so it is answered once.        *)
LEMMA AskStep ==
  ASSUME SlotInv, NEW d \in open, Own(d), O(d.op).opens = "ask", Click, open' = open \ {d},
         IF O(d.op).from = "late"
         THEN asked' = asked \cup {[op |-> d.op, target |-> d.target, no |-> d.no]} /\ UNCHANGED sent
         ELSE Post(d.op, d.target, d.target, d.no) /\ UNCHANGED asked,
         UNCHANGED <<route, busy, landed>>
  PROVE  SlotInv'
<1>1. Typed /\ Rules /\ FlagInv /\ clicks \in Nat /\ MaxClicks \in Nat
  BY Numbers DEF SlotInv
<1>2. clicks' = clicks + 1 /\ clicks < MaxClicks
  BY DEF Click
<1> DEFINE f == [op |-> d.op, target |-> d.target, no |-> d.no]
           q == [op |-> d.op, target |-> d.target, acts |-> d.target, no |-> d.no, nth |-> clicks']
           delayed == O(d.op).from = "late"
<1>3. /\ f.op = d.op /\ f.target = d.target /\ f.no = d.no
      /\ Formed(f)
      /\ q.op = d.op /\ q.target = d.target /\ q.no = d.no /\ q.nth = clicks'
  BY DEF Formed
<1>4. /\ asked' = IF delayed THEN asked \cup {f} ELSE asked
      /\ sent' = IF delayed THEN sent ELSE sent \cup {q}
  BY DEF Post
<1> HIDE DEF f, q
<1>5. \A o : O(o)' = O(o) /\ Once(o)' = Once(o)
  BY StaysHere
<1>6. d.op \in DOMAIN P.ops /\ d.no \in 1..clicks
  BY <1>1 DEF Typed, Item
<1>7. O(d.op).does # "nothing"
  BY <1>1, <1>6, HereSound DEF Typed, OpSound, Behaves
<1>8. \A p \in sent : p.no # d.no
  <2> SUFFICES ASSUME NEW p \in sent, p.no = d.no PROVE FALSE
    OBVIOUS
  <2>1. p.op = d.op
    BY <1>1 DEF Rules, Same, Item
  <2> QED  BY <1>1, <2>1 DEF Rules, AskOnce
<1>9. \A e \in open' : Own(e) => e.no # d.no
  <2> SUFFICES ASSUME NEW e \in open, Own(e), e.no = d.no PROVE e = d
    OBVIOUS
  <2>1. e.op = d.op
    BY <1>1 DEF Rules, Same, Item
  <2> QED  BY <1>1, <2>1 DEF Rules, OneEach, Own
<1>10. \A g \in asked : Pending(g) => g.no # d.no
  BY <1>1 DEF Rules, AskedFirst
<1>11. Rules'
  <2>1. Same'
    BY <1>1, <1>3, <1>4 DEF Rules, Same, Item
  <2>2. OneEach'
    BY <1>1 DEF Rules, OneEach
  <2>3. AskedFirst'
    <3> SUFFICES ASSUME NEW g \in asked', Pending(g)
                 PROVE  /\ \A p \in sent' : p.no # g.no
                        /\ \A e \in open' : Own(e) => e.no # g.no
      BY <1>5 DEF AskedFirst, Pending, Own
    <3>1. CASE g \in asked
      BY <3>1, <1>1, <1>3, <1>4, <1>10 DEF Rules, AskedFirst
    <3>2. CASE g \notin asked
      BY <3>2, <1>3, <1>4, <1>8, <1>9
    <3> QED  BY <3>1, <3>2
  <2>4. AskOnce'
    <3> SUFFICES ASSUME NEW p \in sent', NEW e \in open', O(p.op).opens = "ask", Own(e)
                 PROVE  p.no # e.no
      BY <1>5 DEF AskOnce, Own
    <3>1. CASE p \in sent
      BY <3>1, <1>1 DEF Rules, AskOnce
    <3>2. CASE p \notin sent
      BY <3>2, <1>3, <1>4, <1>9
    <3> QED  BY <3>1, <3>2
  <2>5. SentSound'
    BY <1>1, <1>3, <1>4, <1>5, <1>7 DEF Rules, SentSound
  <2>6. One'
    BY <1>1, <1>3, <1>4, <1>5, <1>8 DEF Rules, One
  <2>7. Spent'
    <3> SUFFICES ASSUME NEW x \in Live', O(x.op).opens # "view", Once(x.op)
                 PROVE  landed[x.no] = 0
      BY <1>5 DEF Spent
    <3>1. x \in Live \/ x = q \/ x = f
      BY <1>3, <1>4, <1>5 DEF Live, Own, Pending
    <3>2. d \in Live
      BY DEF Live
    <3> QED  BY <1>1, <1>3, <3>1, <3>2 DEF Rules, Spent
  <2> QED  BY <2>1, <2>2, <2>3, <2>4, <2>5, <2>6, <2>7 DEF Rules
<1>12. Typed'
  <2>1. busy' \in [Flags -> 0..clicks']
    BY <1>1, <1>2, MoreBusy
  <2>2. /\ \A e \in open' : /\ e.op \in DOMAIN P.ops /\ e.no \in 1..clicks
                            /\ Shaped(e)
        /\ \A g \in asked' : /\ g.op \in DOMAIN P.ops /\ g.no \in 1..clicks
                             /\ Formed(g)
    BY <1>1, <1>3, <1>4, <1>6 DEF Typed, Item
  <2>3. \A p \in sent' : p.op \in DOMAIN P.ops /\ p.no \in 1..clicks /\ p.nth \in 1..clicks'
    BY <1>1, <1>2, <1>3, <1>4, <1>6 DEF Typed, Item
  <2> QED  BY <1>1, <1>2, <2>1, <2>2, <2>3, TypedKept
<1>13. FlagInv'
  BY <1>1, <1>3, <1>4, FlagsStay
<1> QED  BY <1>11, <1>12, <1>13 DEF SlotInv

(* Either.                                                                 *)
LEMMA SubmitStep ==
  ASSUME SlotInv, NEW d \in open, Submit(d)
  PROVE  SlotInv'
<1>1. CASE /\ O(d.op).opens = "form" /\ O(d.op).does # "nothing" /\ MaySubmit(d)
           /\ Post(d.op, d.target, IF O(d.op).shared THEN d.data ELSE d.target, d.no)
           /\ Raise(d.op)
           /\ UNCHANGED <<open, asked>>
  BY <1>1, FormStep DEF Submit, Own
<1>2. CASE /\ O(d.op).opens = "ask"
           /\ open' = open \ {d}
           /\ IF O(d.op).from = "late"
              THEN asked' = asked \cup {[op |-> d.op, target |-> d.target, no |-> d.no]} /\ UNCHANGED sent
              ELSE Post(d.op, d.target, d.target, d.no) /\ UNCHANGED asked
           /\ UNCHANGED busy
  BY <1>2, AskStep DEF Submit, Own
<1> QED  BY <1>1, <1>2 DEF Submit

(* What every answer to a fetch leaves, and that a dialog awaits one       *)
(* answer only.                                                            *)
LEMMA FetchedRest ==
  ASSUME SlotInv, NEW f \in asked, Fetched(f)
  PROVE  /\ asked' = asked \ {f}
         /\ f.op \in DOMAIN P.ops /\ f.no \in 1..clicks
         /\ UNCHANGED <<route, busy, clicks, landed>>
         /\ Pending(f) => \A g \in asked' : g.no # f.no
<1>1. Typed /\ Rules
  BY DEF SlotInv
<1>2. asked' = asked \ {f} /\ UNCHANGED <<route, busy, clicks, landed>>
  BY DEF Fetched
<1>3. \A g \in asked : g.no = f.no => g = f
  <2> SUFFICES ASSUME NEW g \in asked, g.no = f.no PROVE g = f
    OBVIOUS
  <2>1. g.op = f.op /\ g.target = f.target
    BY <1>1 DEF Rules, Same, Item
  <2>2. /\ Formed(g)
        /\ Formed(f)
    BY <1>1 DEF Typed
  <2> QED  BY <2>1, <2>2 DEF Formed
<1> QED  BY <1>1, <1>2, <1>3 DEF Typed, Item

(* An answer that fills a view.                                            *)
LEMMA FilledStep ==
  ASSUME SlotInv, NEW f \in asked, Fetched(f), UNCHANGED sent,
         open' = {IF e.slot = O(f.op).slot /\ Wanted(f, e)
                  THEN [e EXCEPT !.data = f.target] ELSE e : e \in open}
  PROVE  SlotInv'
<1>1. Typed /\ Rules /\ FlagInv /\ clicks \in Nat /\ MaxClicks \in Nat /\ clicks <= MaxClicks
  BY Numbers DEF SlotInv, Typed
<1>2. /\ asked' = asked \ {f}
      /\ UNCHANGED <<route, busy, clicks, landed>>
  BY FetchedRest
<1>3. ASSUME NEW x \in open'
      PROVE  /\ Shaped(x)
             /\ \E e \in open : /\ x.slot = e.slot /\ x.op = e.op
                                /\ x.target = e.target /\ x.no = e.no
                                /\ x = IF e.slot = O(f.op).slot /\ Wanted(f, e)
                                       THEN [e EXCEPT !.data = f.target] ELSE e
  <2>1. PICK e \in open : x = IF e.slot = O(f.op).slot /\ Wanted(f, e)
                              THEN [e EXCEPT !.data = f.target] ELSE e
    OBVIOUS
  <2>2. Shaped(e)
    BY <1>1 DEF Typed
  <2> DEFINE g == [e EXCEPT !.data = f.target]
  <2>3. Shaped(g) /\ g.slot = e.slot /\ g.op = e.op /\ g.target = e.target /\ g.no = e.no
    BY <2>2, FilledParts
  <2>4. x = IF e.slot = O(f.op).slot /\ Wanted(f, e) THEN g ELSE e
    BY <2>1
  <2> HIDE DEF g
  <2>5. Shaped(x) /\ x.slot = e.slot /\ x.op = e.op /\ x.target = e.target /\ x.no = e.no
    BY <2>2, <2>3, <2>4
  <2> QED  BY <2>1, <2>5
<1>4. \A o : O(o)' = O(o) /\ Once(o)' = Once(o)
  BY <1>2, StaysHere
<1>5. Rules'
  <2>1. Same'
    BY <1>1, <1>2, <1>3 DEF Rules, Same, Item
  <2>2. OneEach'
    <3> SUFFICES ASSUME NEW x \in open', NEW y \in open', x.slot = y.slot
                 PROVE  x = y
      BY DEF OneEach
    <3>1. PICK e \in open : x.slot = e.slot /\ x = IF e.slot = O(f.op).slot /\ Wanted(f, e)
                                       THEN [e EXCEPT !.data = f.target] ELSE e
      BY <1>3
    <3>2. PICK g \in open : y.slot = g.slot /\ y = IF g.slot = O(f.op).slot /\ Wanted(f, g)
                                       THEN [g EXCEPT !.data = f.target] ELSE g
      BY <1>3
    <3>3. e = g
      BY <1>1, <3>1, <3>2 DEF Rules, OneEach
    <3> QED  BY <3>1, <3>2, <3>3
  <2>3. AskedFirst'
    BY <1>1, <1>2, <1>3, <1>4 DEF Rules, AskedFirst, Pending, Own
  <2>4. AskOnce' /\ SentSound'
    BY <1>1, <1>3, <1>4 DEF Rules, AskOnce, SentSound, Own
  <2>5. One'
    BY <1>1, <1>4 DEF Rules, One
  <2>6. Spent'
    <3> SUFFICES ASSUME NEW x \in Live', O(x.op).opens # "view", Once(x.op)
                 PROVE  landed[x.no] = 0
      BY <1>2, <1>4 DEF Spent
    <3>1. \E y \in Live : y.op = x.op /\ y.no = x.no
      BY <1>2, <1>3, <1>4 DEF Live, Own, Pending
    <3> QED  BY <1>1, <3>1 DEF Rules, Spent
  <2> QED  BY <2>1, <2>2, <2>3, <2>4, <2>5, <2>6 DEF Rules
<1>6. Typed'
  <2>1. busy' \in [Flags -> 0..clicks']
    BY <1>1, <1>2 DEF Typed
  <2>2. /\ \A e \in open' : /\ e.op \in DOMAIN P.ops /\ e.no \in 1..clicks
                            /\ Shaped(e)
        /\ \A g \in asked' : /\ g.op \in DOMAIN P.ops /\ g.no \in 1..clicks
                             /\ Formed(g)
    BY <1>1, <1>2, <1>3 DEF Typed, Item
  <2>3. \A p \in sent' : p.op \in DOMAIN P.ops /\ p.no \in 1..clicks /\ p.nth \in 1..clicks'
    BY <1>1, <1>2 DEF Typed, Item
  <2> QED  BY <1>1, <1>2, <2>1, <2>2, <2>3, TypedKept
<1>7. FlagInv'
  BY <1>1, <1>2, FlagsStay
<1> QED  BY <1>5, <1>6, <1>7 DEF SlotInv

(* What an answer opens: a dialog in place of the one in its slot, and the *)
(* data it shares with others.                                             *)
LEMMA OpenedParts ==
  ASSUME NEW f, NEW data, Brought(f, data), OneEach, \A d \in open : Shaped(d)
  PROVE  /\ OneEach'
         /\ \A e \in open' :
               /\ Shaped(e)
               /\ \/ /\ e.slot = O(f.op).slot /\ e.op = f.op
                     /\ e.target = f.target /\ e.no = f.no
                  \/ \E x \in open : /\ x.slot = e.slot /\ x.op = e.op
                                     /\ x.target = e.target /\ x.no = e.no
                                     /\ x.slot # O(f.op).slot
                                     /\ e.data = x.data \/ O(x.op).shared
<1> DEFINE d == [slot |-> O(f.op).slot, op |-> f.op, target |-> f.target, data |-> data, no |-> f.no]
           F(x) == IF O(f.op).shared /\ O(x.op).shared THEN [x EXCEPT !.data = data] ELSE x
<1>1. open' = {F(x) : x \in Show(d)}
  BY DEF Brought
<1>2. /\ Shaped(d)
      /\ d.slot = O(f.op).slot /\ d.op = f.op /\ d.target = f.target /\ d.no = f.no
  BY DEF Shaped, Own
<1> HIDE DEF d
<1>3. \A x \in Show(d) : x = d \/ (x \in open /\ x.slot # d.slot)
  BY DEF Show
<1>4. ASSUME NEW x \in Show(d)
      PROVE  /\ Shaped(F(x))
             /\ F(x).slot = x.slot /\ F(x).op = x.op /\ F(x).target = x.target /\ F(x).no = x.no
             /\ F(x).data = x.data \/ O(x.op).shared
  <2> DEFINE g == [x EXCEPT !.data = data]
  <2>1. Shaped(x)
    BY <1>2, <1>3
  <2>2. /\ Shaped(g)
        /\ g.slot = x.slot /\ g.op = x.op /\ g.target = x.target /\ g.no = x.no
    BY <2>1, FilledParts
  <2>3. F(x) = IF O(f.op).shared /\ O(x.op).shared THEN g ELSE x
    OBVIOUS
  <2> HIDE DEF g, F
  <2> QED  BY <2>1, <2>2, <2>3
<1> HIDE DEF F
<1>5. OneEach'
  <2> SUFFICES ASSUME NEW a \in open', NEW b \in open', a.slot = b.slot
               PROVE  a = b
    BY DEF OneEach
  <2>1. PICK x \in Show(d) : a = F(x)
    BY <1>1
  <2>2. PICK y \in Show(d) : b = F(y)
    BY <1>1
  <2>3. x.slot = y.slot
    BY <1>4, <2>1, <2>2
  <2>4. x = y
    BY <1>3, <2>3 DEF OneEach
  <2> QED  BY <2>1, <2>2, <2>4
<1>6. ASSUME NEW e \in open'
      PROVE  /\ Shaped(e)
             /\ \/ /\ e.slot = O(f.op).slot /\ e.op = f.op
                   /\ e.target = f.target /\ e.no = f.no
                \/ \E x \in open : /\ x.slot = e.slot /\ x.op = e.op
                                   /\ x.target = e.target /\ x.no = e.no
                                   /\ x.slot # O(f.op).slot
                                   /\ e.data = x.data \/ O(x.op).shared
  <2>1. PICK x \in Show(d) : e = F(x)
    BY <1>1
  <2>2. x = d \/ (x \in open /\ x.slot # d.slot)
    BY <1>3
  <2>3. /\ Shaped(e)
        /\ e.slot = x.slot /\ e.op = x.op /\ e.target = x.target /\ e.no = x.no
        /\ e.data = x.data \/ O(x.op).shared
    BY <1>4, <2>1
  <2> QED  BY <1>2, <2>2, <2>3
<1> QED  BY <1>5, <1>6

(* An answer the dialog was waited for.                                    *)
LEMMA OpenedStep ==
  ASSUME SlotInv, NEW f \in asked, Fetched(f), UNCHANGED sent, O(f.op).from = "first", NEW data,
         Brought(f, data)
  PROVE  SlotInv'
<1>1. Typed /\ Rules /\ FlagInv /\ clicks \in Nat /\ MaxClicks \in Nat /\ clicks <= MaxClicks
  BY Numbers DEF SlotInv, Typed
<1>2. /\ asked' = asked \ {f} /\ f.op \in DOMAIN P.ops /\ f.no \in 1..clicks
      /\ UNCHANGED <<route, busy, clicks, landed>>
      /\ Pending(f) /\ \A g \in asked' : g.no # f.no
  BY FetchedRest DEF Pending
<1>3. OneEach' /\ \A e \in open' : Shaped(e)
  BY <1>1, OpenedParts DEF Rules, Typed
<1>4. ASSUME NEW e \in open'
      PROVE  \/ e.slot = O(f.op).slot /\ e.op = f.op /\ e.target = f.target /\ e.no = f.no
             \/ \E x \in open : /\ x.slot = e.slot /\ x.op = e.op
                                /\ x.target = e.target /\ x.no = e.no
  BY <1>1, OpenedParts DEF Rules, Typed
<1>5. \A o : O(o)' = O(o) /\ Once(o)' = Once(o)
  BY <1>2, StaysHere
<1>6. \A q \in sent : q.no # f.no
  BY <1>1, <1>2 DEF Rules, AskedFirst
<1>7. Rules'
  <2>1. Same'
    <3>1. \A x \in Item' : \E y \in Item : y.op = x.op /\ y.target = x.target /\ y.no = x.no
      BY <1>2, <1>4 DEF Item
    <3> QED  BY <1>1, <3>1 DEF Rules, Same
  <2>2. AskedFirst'
    <3> SUFFICES ASSUME NEW g \in asked', Pending(g)
                 PROVE  /\ \A q \in sent : q.no # g.no
                        /\ \A e \in open' : Own(e) => e.no # g.no
      BY <1>5 DEF AskedFirst, Pending, Own
    <3>1. /\ \A q \in sent : q.no # g.no
          /\ \A e \in open : Own(e) => e.no # g.no
      BY <1>1, <1>2 DEF Rules, AskedFirst
    <3>2. f.no # g.no
      BY <1>2
    <3> QED  BY <1>4, <3>1, <3>2 DEF Own
  <2>3. AskOnce'
    <3> SUFFICES ASSUME NEW q \in sent, NEW e \in open', O(q.op).opens = "ask", Own(e)
                 PROVE  q.no # e.no
      BY <1>5 DEF AskOnce, Own
    <3> QED  BY <1>1, <1>4, <1>6 DEF Rules, AskOnce, Own
  <2>3a. SentSound'
    BY <1>1, <1>5 DEF Rules, SentSound
  <2>4. One'
    BY <1>1, <1>5 DEF Rules, One
  <2>5. Spent'
    <3> SUFFICES ASSUME NEW x \in Live', O(x.op).opens # "view", Once(x.op)
                 PROVE  landed[x.no] = 0
      BY <1>2, <1>5 DEF Spent
    <3>1. \E y \in Live : y.op = x.op /\ y.no = x.no
      BY <1>2, <1>4, <1>5 DEF Live, Own, Pending
    <3> QED  BY <1>1, <3>1 DEF Rules, Spent
  <2> QED  BY <1>3, <2>1, <2>2, <2>3, <2>3a, <2>4, <2>5 DEF Rules
<1>8. Typed'
  <2>1. busy' \in [Flags -> 0..clicks'] /\ landed' = landed /\ route' = route
    BY <1>1, <1>2 DEF Typed
  <2>2. /\ \A e \in open' : /\ e.op \in DOMAIN P.ops /\ e.no \in 1..clicks
                            /\ Shaped(e)
        /\ \A g \in asked' : /\ g.op \in DOMAIN P.ops /\ g.no \in 1..clicks
                             /\ Formed(g)
    BY <1>1, <1>2, <1>3, <1>4 DEF Typed, Item
  <2>3. \A p \in sent' : p.op \in DOMAIN P.ops /\ p.no \in 1..clicks /\ p.nth \in 1..clicks'
    BY <1>1, <1>2 DEF Typed, Item
  <2> QED  BY <1>1, <1>2, <2>1, <2>2, <2>3, TypedKept
<1>9. FlagInv'
  BY <1>1, <1>2, FlagsStay
<1> QED  BY <1>7, <1>8, <1>9 DEF SlotInv

(* An answer that goes into the request it was needed for.                 *)
LEMMA LateStep ==
  ASSUME SlotInv, NEW f \in asked, Fetched(f), UNCHANGED open, O(f.op).from = "late",
         sent' = sent \cup {[op |-> f.op, target |-> f.target, acts |-> f.target,
                                no |-> f.no, nth |-> f.no]}
  PROVE  SlotInv'
<1>1. Typed /\ Rules /\ FlagInv /\ clicks \in Nat /\ MaxClicks \in Nat /\ clicks <= MaxClicks
  BY Numbers DEF SlotInv, Typed
<1>2. /\ asked' = asked \ {f} /\ f.op \in DOMAIN P.ops /\ f.no \in 1..clicks
      /\ UNCHANGED <<route, busy, clicks, landed>>
      /\ Pending(f) /\ \A g \in asked' : g.no # f.no
  BY FetchedRest DEF Pending
<1> DEFINE q == [op |-> f.op, target |-> f.target, acts |-> f.target,
                                no |-> f.no, nth |-> f.no]
<1>3. q.op = f.op /\ q.target = f.target /\ q.no = f.no /\ q.nth = f.no /\ sent' = sent \cup {q}
  OBVIOUS
<1> HIDE DEF q
<1>4. O(f.op).opens = "ask" /\ O(f.op).does # "nothing"
  BY <1>1, <1>2, HereSound DEF Typed, OpSound, Behaves
<1>5. \A o : O(o)' = O(o) /\ Once(o)' = Once(o)
  BY <1>2, StaysHere
<1>6. /\ \A p \in sent : p.no # f.no
      /\ \A e \in open : Own(e) => e.no # f.no
  BY <1>1, <1>2 DEF Rules, AskedFirst
<1>7. Rules'
  <2>1. Same' /\ OneEach'
    BY <1>1, <1>2, <1>3 DEF Rules, Same, OneEach, Item
  <2>2. AskedFirst'
    BY <1>1, <1>2, <1>3, <1>5 DEF Rules, AskedFirst, Pending, Own
  <2>3. AskOnce' /\ SentSound'
    BY <1>1, <1>3, <1>4, <1>5, <1>6 DEF Rules, AskOnce, SentSound, Own
  <2>4. One'
    BY <1>1, <1>3, <1>5, <1>6 DEF Rules, One
  <2>5. Spent'
    <3> SUFFICES ASSUME NEW x \in Live', O(x.op).opens # "view", Once(x.op)
                 PROVE  landed[x.no] = 0
      BY <1>2, <1>5 DEF Spent
    <3>1. x \in Live \/ x = q
      BY <1>2, <1>3, <1>5 DEF Live, Own, Pending
    <3>2. f \in Live
      BY <1>2 DEF Live
    <3> QED  BY <1>1, <1>3, <3>1, <3>2 DEF Rules, Spent
  <2> QED  BY <2>1, <2>2, <2>3, <2>4, <2>5 DEF Rules
<1>8. Typed'
  <2>1. busy' \in [Flags -> 0..clicks'] /\ landed' = landed /\ route' = route
    BY <1>1, <1>2 DEF Typed
  <2>2. /\ \A e \in open' : /\ e.op \in DOMAIN P.ops /\ e.no \in 1..clicks
                            /\ Shaped(e)
        /\ \A g \in asked' : /\ g.op \in DOMAIN P.ops /\ g.no \in 1..clicks
                             /\ Formed(g)
    BY <1>1, <1>2 DEF Typed, Item
  <2>3. \A p \in sent' : p.op \in DOMAIN P.ops /\ p.no \in 1..clicks /\ p.nth \in 1..clicks'
    BY <1>1, <1>2, <1>3 DEF Typed, Item
  <2> QED  BY <1>1, <1>2, <2>1, <2>2, <2>3, TypedKept
<1>9. FlagInv'
  BY <1>1, <1>2, <1>3, <1>4, FlagsStay
<1> QED  BY <1>7, <1>8, <1>9 DEF SlotInv

(* The answers to a fetch, one by one.                                     *)
LEMMA FetchedCases ==
  ASSUME NEW f, Fetched(f)
  PROVE  \/ /\ O(f.op).from = "fetch"
            /\ open' = {IF e.slot = O(f.op).slot /\ Wanted(f, e)
                        THEN [e EXCEPT !.data = f.target] ELSE e : e \in open}
            /\ UNCHANGED sent
         \/ O(f.op).from = "first" /\ (\E data : Brought(f, data)) /\ UNCHANGED sent
         \/ /\ O(f.op).from = "late"
            /\ sent' = sent \cup {[op |-> f.op, target |-> f.target, acts |-> f.target,
                                   no |-> f.no, nth |-> f.no]}
            /\ UNCHANGED open
         \/ UNCHANGED <<open, sent>>
BY DEF Fetched

(* Any of them.                                                            *)
LEMMA FetchedStep ==
  ASSUME SlotInv, NEW f \in asked, Fetched(f)
  PROVE  SlotInv'
<1>1. /\ asked' \subseteq asked /\ clicks <= MaxClicks
      /\ UNCHANGED <<route, busy, clicks, landed>>
  BY FetchedRest, Numbers, PanelPagesAssumption DEF SlotInv, Typed
<1>2. CASE UNCHANGED <<open, sent>>
  BY <1>1, <1>2, QuietStep
<1>3. CASE /\ open' = {IF e.slot = O(f.op).slot /\ Wanted(f, e)
                       THEN [e EXCEPT !.data = f.target] ELSE e : e \in open}
           /\ UNCHANGED sent
  BY <1>3, FilledStep
<1>4. CASE O(f.op).from = "first" /\ (\E data : Brought(f, data)) /\ UNCHANGED sent
  BY <1>4, OpenedStep
<1>5. CASE /\ O(f.op).from = "late"
           /\ sent' = sent \cup {[op |-> f.op, target |-> f.target, acts |-> f.target,
                                no |-> f.no, nth |-> f.no]}
           /\ UNCHANGED open
  BY <1>5, LateStep
<1> QED  BY <1>2, <1>3, <1>4, <1>5, FetchedCases

(* A flag falls with the answer to the request that raised it, and no      *)
(* other bars its button by then.                                          *)
LEMMA FreedFlags ==
  ASSUME Typed, FlagInv, NEW q \in sent, route' = route, sent' = sent \ {q}, busy' = Freed(q),
         clicks' = clicks
  PROVE  FlagInv' /\ busy' \in [Flags -> 0..clicks']
<1>1. /\ \A o : O(o)' = O(o) /\ FlagOf(o)' = FlagOf(o)
      /\ \A f : Solely(f)' = Solely(f)
  BY StaysHere
<1>2. /\ busy \in [Flags -> 0..clicks] /\ clicks \in Nat
      /\ DOMAIN busy' = Flags
      /\ \A f \in Flags : \/ busy'[f] = busy[f]
                          \/ busy'[f] = 0 /\ Raises(q) /\ f = FlagOf(q.op)
  BY Numbers DEF Typed, Freed, Raises
<1>3. busy' \in [Flags -> 0..clicks']
  <2>1. busy' = [f \in Flags |-> busy'[f]]
    BY <1>2 DEF Freed
  <2>2. \A f \in Flags : busy'[f] \in 0..clicks
    BY <1>2
  <2> QED  BY <2>1, <2>2
<1>4. ASSUME NEW p \in sent', Raises(p), Solely(FlagOf(p.op))
      PROVE  /\ busy'[FlagOf(p.op)] = p.nth
             /\ \A r \in sent' : Raises(r) /\ FlagOf(r.op) = FlagOf(p.op) => r = p
  <2>1. FlagOf(p.op) \in Flags
    BY <1>4, FlagListed
  <2>2. /\ busy[FlagOf(p.op)] = p.nth
        /\ \A r \in sent : Raises(r) /\ FlagOf(r.op) = FlagOf(p.op) => r = p
    BY <1>4 DEF FlagInv
  <2> QED  BY <1>2, <1>4, <2>1, <2>2
<1> QED  BY <1>1, <1>3, <1>4 DEF FlagInv, Raises

(* A refusal.                                                              *)
LEMMA RefuseStep ==
  ASSUME SlotInv, NEW q \in sent, Refuse(q)
  PROVE  SlotInv'
<1>1. Typed /\ Rules /\ FlagInv /\ clicks \in Nat /\ MaxClicks \in Nat /\ clicks <= MaxClicks
  BY Numbers DEF SlotInv, Typed
<1>2. /\ sent' = sent \ {q} /\ busy' = Freed(q)
      /\ UNCHANGED <<route, open, asked, clicks, landed>>
  BY DEF Refuse
<1>3. FlagInv' /\ busy' \in [Flags -> 0..clicks']
  BY <1>1, <1>2, FreedFlags
<1>4. Rules'
  BY <1>1, <1>2, Fewer
<1>5. Typed'
  <2>1. /\ \A e \in open' : /\ e.op \in DOMAIN P.ops /\ e.no \in 1..clicks
                            /\ Shaped(e)
        /\ \A g \in asked' : /\ g.op \in DOMAIN P.ops /\ g.no \in 1..clicks
                             /\ Formed(g)
    BY <1>1, <1>2 DEF Typed, Item
  <2>2. \A p \in sent' : p.op \in DOMAIN P.ops /\ p.no \in 1..clicks /\ p.nth \in 1..clicks'
    BY <1>1, <1>2 DEF Typed, Item
  <2> QED  BY <1>1, <1>2, <1>3, <2>1, <2>2, TypedKept
<1> QED  BY <1>3, <1>4, <1>5 DEF SlotInv

(* What a success leaves open: dialogs that were, but not those of a slot  *)
(* it empties, and the one it shows, in another slot.                      *)
LEMMA SucceedParts ==
  ASSUME SlotInv, NEW q \in sent, Succeed(q)
  PROVE  /\ sent' = sent \ {q} /\ busy' = Freed(q)
         /\ UNCHANGED <<route, asked, clicks>>
         /\ landed' = IF Counts(q.op) THEN [landed EXCEPT ![q.no] = @ + 1] ELSE landed
         /\ OneEach'
         /\ \A e \in open' :
               \/ /\ e \in open
                  /\ O(q.op).opens = "form" /\ O(q.op).closes => e.slot # O(q.op).slot
               \/ /\ e.op = q.op /\ e.target = q.target /\ e.data = q.target /\ e.no = q.no
                  /\ Shaped(e) /\ ~Own(e) /\ e.slot = O(q.op).shows
<1>1. Typed /\ Rules
  BY DEF SlotInv
<1>2. /\ sent' = sent \ {q} /\ busy' = Freed(q)
      /\ UNCHANGED <<route, asked, clicks>>
      /\ landed' = IF Counts(q.op) THEN [landed EXCEPT ![q.no] = @ + 1] ELSE landed
  BY DEF Succeed
<1> DEFINE left == IF O(q.op).opens = "form" /\ O(q.op).closes
                   THEN open \ Slot(O(q.op).slot) ELSE open
           next == [slot |-> O(q.op).shows, op |-> q.op, target |-> q.target, data |-> q.target,
                    no |-> q.no]
<1>3. open' = IF O(q.op).shows = "-" THEN left
              ELSE {e \in left : e.slot # O(q.op).shows} \cup {next}
  BY DEF Succeed
<1>4. left \subseteq open
  OBVIOUS
<1>5. \A e \in left : O(q.op).opens = "form" /\ O(q.op).closes => e.slot # O(q.op).slot
  BY DEF Slot
<1>6. O(q.op).shows # "-" => O(q.op).shows # O(q.op).slot
  BY <1>1, HereSound DEF Typed, Item, OpSound, Behaves
<1>7. /\ next.op = q.op /\ next.target = q.target /\ next.data = q.target /\ next.no = q.no
      /\ next.slot = O(q.op).shows /\ Shaped(next)
  BY DEF Shaped
<1> HIDE DEF left, next
<1>8. O(q.op).shows # "-" => ~Own(next)
  BY <1>6, <1>7 DEF Own
<1>9. OneEach'
  BY <1>1, <1>3, <1>4, <1>7 DEF Rules, OneEach
<1> QED  BY <1>2, <1>3, <1>4, <1>5, <1>7, <1>8, <1>9

(* A success: the dialog whose effect it counts is gone, or has been since *)
(* it was sent.                                                            *)
LEMMA SucceedStep ==
  ASSUME SlotInv, NEW q \in sent, Succeed(q)
  PROVE  SlotInv'
<1>1. Typed /\ Rules /\ FlagInv /\ clicks \in Nat /\ MaxClicks \in Nat /\ clicks <= MaxClicks
  BY Numbers DEF SlotInv, Typed
<1>2. /\ sent' = sent \ {q} /\ busy' = Freed(q)
      /\ route' = route /\ asked' = asked /\ clicks' = clicks
      /\ landed' = IF Counts(q.op) THEN [landed EXCEPT ![q.no] = @ + 1] ELSE landed
      /\ OneEach'
  BY SucceedParts
<1>3. \A e \in open' : \/ /\ e \in open
                          /\ O(q.op).opens = "form" /\ O(q.op).closes => e.slot # O(q.op).slot
                       \/ /\ e.op = q.op /\ e.target = q.target /\ e.no = q.no
                          /\ Shaped(e) /\ ~Own(e)
  BY SucceedParts
<1>4. \A o : O(o)' = O(o) /\ Once(o)' = Once(o)
  BY <1>2, StaysHere
<1>5. q.op \in DOMAIN P.ops /\ q.no \in 1..clicks /\ q.no \in 1..MaxClicks
  BY <1>1 DEF Typed, Item
<1>6. FlagInv' /\ busy' \in [Flags -> 0..clicks']
  BY <1>1, <1>2, FreedFlags
<1>7. /\ landed \in [1..MaxClicks -> Nat]
      /\ landed' \in [1..MaxClicks -> Nat]
      /\ \A n \in 1..MaxClicks : n # q.no => landed'[n] = landed[n]
  <2>1. landed \in [1..MaxClicks -> Nat]
    BY <1>1 DEF Typed
  <2> QED  BY <2>1, <1>2, <1>5
<1>8. Same'
  <2>1. \A x \in Item' : \E y \in Item : y.op = x.op /\ y.target = x.target /\ y.no = x.no
    BY <1>2, <1>3 DEF Item
  <2> QED  BY <1>1, <2>1 DEF Rules, Same
<1>9. AskedFirst' /\ AskOnce'
  BY <1>1, <1>2, <1>3, <1>4 DEF Rules, AskedFirst, AskOnce, Pending, Own
<1>10. SentSound' /\ One'
  BY <1>1, <1>2, <1>4 DEF Rules, SentSound, One
<1>11. Spent'
  <2> SUFFICES ASSUME NEW x \in Live', O(x.op).opens # "view", Once(x.op)
               PROVE  landed'[x.no] = 0
    BY <1>4 DEF Spent
  <2>1. x \in Live
    BY <1>2, <1>3, <1>4 DEF Live, Own, Pending
  <2>2. x \in Item /\ x.no \in 1..MaxClicks
    BY <1>1, <2>1 DEF Live, Item, Typed
  <2>3. landed[x.no] = 0
    BY <1>1, <2>1 DEF Rules, Spent
  <2>4. ASSUME x.no = q.no PROVE FALSE
    <3>1. x.op = q.op
      BY <1>1, <2>2, <2>4 DEF Rules, Same, Item
    <3>2. CASE x \in sent'
      BY <3>2, <1>1, <1>2, <2>4 DEF Rules, One
    <3>3. CASE x \in asked' /\ Pending(x)
      BY <3>3, <1>1, <1>2, <2>4 DEF Rules, AskedFirst
    <3>4. CASE x \in open' /\ Own(x) /\ O(x.op).opens = "ask"
      BY <3>1, <3>4, <1>1, <1>3, <2>4 DEF Rules, AskOnce
    <3>5. CASE x \in open' /\ Own(x) /\ O(x.op).opens = "form"
      <4>1. O(q.op).closes
        BY <3>1, <3>5, <1>1, <1>5, HereSound DEF Typed, OpSound, Flagged, Once
      <4> QED  BY <4>1, <3>1, <3>5, <1>3 DEF Own
    <3> QED  BY <1>4, <3>2, <3>3, <3>4, <3>5 DEF Live, Own, Pending
  <2> QED  BY <1>7, <2>2, <2>3, <2>4
<1>12. Typed'
  <2>1. /\ \A e \in open' : /\ e.op \in DOMAIN P.ops /\ e.no \in 1..clicks
                            /\ Shaped(e)
        /\ \A g \in asked' : /\ g.op \in DOMAIN P.ops /\ g.no \in 1..clicks
                             /\ Formed(g)
    BY <1>1, <1>2, <1>3, <1>5 DEF Typed, Item
  <2>2. \A p \in sent' : p.op \in DOMAIN P.ops /\ p.no \in 1..clicks /\ p.nth \in 1..clicks'
    BY <1>1, <1>2 DEF Typed, Item
  <2>3. \A x \in open' \cup asked' \cup sent' : x.op \in DOMAIN P.ops /\ x.no \in 1..clicks'
    BY <1>2, <2>1, <2>2
  <2>4. \A n \in 1..MaxClicks : n > clicks' => landed'[n] = 0
    BY <1>1, <1>2, <1>5, <1>7 DEF Typed
  <2>5. clicks' \in {clicks, clicks + 1} /\ clicks' <= MaxClicks
    BY <1>1, <1>2
  <2> QED  BY <1>1, <1>2, <1>6, <1>7, <2>1, <2>2, <2>3, <2>4, <2>5, TypedStays
<1> QED  BY <1>2, <1>6, <1>8, <1>9, <1>10, <1>11, <1>12 DEF SlotInv, Rules

(* Reading, picking and closing.                                           *)
LEMMA QuietSteps ==
  ASSUME SlotInv,
         \/ Reading \/ ReadAgain \/ UNCHANGED pageVars
         \/ \E r \in Row : Pick(r)
         \/ \E d \in open : Close(d)
         \/ \E f \in asked : Hydrate(f)
  PROVE  SlotInv'
<1>1. clicks <= MaxClicks /\ clicks \in Nat /\ MaxClicks \in Nat
  BY Numbers DEF SlotInv, Typed
<1>2. CASE Reading \/ ReadAgain \/ UNCHANGED pageVars
  BY <1>1, <1>2, QuietStep DEF Reading, Read, Arrive, ReadAgain, pageVars, clicked
<1>3. ASSUME NEW r \in Row, Pick(r) PROVE SlotInv'
  <2>1. /\ UNCHANGED <<route, open, asked, sent, busy, landed>>
        /\ clicks' = clicks + 1 /\ clicks < MaxClicks
    BY <1>3 DEF Pick, Click
  <2> QED  BY <1>1, <2>1, QuietStep
<1>4. ASSUME NEW d \in open, Close(d) PROVE SlotInv'
  BY <1>1, <1>4, QuietStep DEF Close
<1>5. ASSUME NEW f \in asked, Hydrate(f) PROVE SlotInv'
  BY <1>1, <1>5, QuietStep DEF Hydrate
<1> QED  BY <1>2, <1>3, <1>4, <1>5

(* Every step.                                                             *)
LEMMA NextStep == SlotInv /\ [PageNext]_pageVars => SlotInv'
<1> SUFFICES ASSUME SlotInv, [PageNext]_pageVars PROVE SlotInv'
  OBVIOUS
<1>1. CASE Reading \/ ReadAgain \/ UNCHANGED pageVars
  BY <1>1, QuietSteps
<1>2. ASSUME NEW op \in DOMAIN P.ops, Start(op) PROVE SlotInv'
  BY <1>2, StartStep
<1>3. ASSUME NEW f \in asked, Hydrate(f) \/ Fetched(f) PROVE SlotInv'
  BY <1>3, QuietSteps, FetchedStep
<1>4. ASSUME NEW d \in open, Turn(d) \/ Submit(d) \/ Close(d) PROVE SlotInv'
  BY <1>4, TurnStep, SubmitStep, QuietSteps
<1>5. ASSUME NEW r \in Row, Pick(r) PROVE SlotInv'
  BY <1>5, QuietSteps
<1>6. ASSUME NEW q \in sent, Succeed(q) \/ Refuse(q) PROVE SlotInv'
  BY <1>6, SucceedStep, RefuseStep
<1> QED  BY <1>1, <1>2, <1>3, <1>4, <1>5, <1>6 DEF PageNext, Answering

(* The bookkeeping of the slots, whatever a user clicks and in whichever   *)
(* order the answers come: each dialog has a number of its own, and one    *)
(* whose effect counts has at most one request that has not been answered, *)
(* before which nothing landed.                                            *)
THEOREM PageInvariant == PageSpec => []SlotInv
<1>1. PageInit => SlotInv
  BY InitInv
<1>2. SlotInv /\ [PageNext]_pageVars => SlotInv'
  BY NextStep
<1> QED  BY <1>1, <1>2, PTL DEF PageSpec

(* OnceEach: a dialog sends its effect once, on every page, whatever is    *)
(* clicked meanwhile (usePendingAction.ts, the isPending of the mutations  *)
(* and the confirmations that close first).                                *)
THEOREM OnceEachAlways == PageSpec => []OnceEach
<1>1. SlotInv => OnceEach
  <2> SUFFICES ASSUME SlotInv, NEW q \in sent, O(q.op).does \in {"bump", "add", "order"}, Sole(q.op)
               PROVE  landed[q.no] + Cardinality({p \in sent : p.no = q.no}) <= 1
    BY DEF OnceEach
  <2>1. Rules /\ Once(q.op)
    BY DEF SlotInv, Once, Counted
  <2>2. {p \in sent : p.no = q.no} = {q}
    BY <2>1 DEF Rules, One
  <2>3. Cardinality({q}) = 1
    BY FS_Singleton
  <2>4. O(q.op).opens # "view" /\ q \in Live
    BY <2>1 DEF Rules, SentSound, Live
  <2>5. landed[q.no] = 0
    BY <2>1, <2>4 DEF Rules, Spent
  <2> QED  BY <2>2, <2>3, <2>5
<1> QED  BY <1>1, PageInvariant, PTL

(* Reading the list.                                                       *)
LEMMA ReadingListed ==
  ASSUME Listing, Reading \/ ReadAgain
  PROVE  Listing'
<1>1. P' = P /\ rows' = rows /\ changes' = changes
  BY DEF Reading, Read, Arrive, ReadAgain, P
<1> SUFFICES ASSUME P.loads = "query" PROVE Listing'
  BY <1>1 DEF Listing
<1>2. CASE Read
  <2>1. reads' = {rows} /\ missed' = FALSE /\ stale' = FALSE /\ UNCHANGED <<shown, seed, late>>
    BY <1>2 DEF Listing, Read, table
  <2> QED  BY <1>1, <2>1 DEF Listing, Aged
<1>3. ASSUME NEW answer \in reads, Arrive(answer) PROVE Listing'
  <2>1. /\ ~stale /\ UNCHANGED <<stale, missed>> /\ reads' = reads \ {answer}
        /\ Aged(answer) /\ (missed \/ answer = rows)
    BY <1>3 DEF Listing, Arrive
  <2>2. /\ Aged(rows)' /\ \A a \in reads' : Aged(a)'
        /\ changes' \in Nat /\ (stale' => reads' = {}) /\ (missed' \/ reads' \subseteq {rows'})
    BY <1>1, <2>1 DEF Listing, Aged
  <2>3. CASE loaded' = TRUE /\ shown' = answer /\ seed' = answer /\ late' = {}
    BY <1>1, <2>1, <2>2, <2>3 DEF Listing, Aged
  <2>4. CASE answer = seed /\ UNCHANGED <<shown, seed, late>>
    BY <1>1, <2>1, <2>2, <2>4 DEF Listing, Aged
  <2>5. CASE broken' = TRUE /\ shown' = <<>> /\ seed' = <<>>
    BY <1>1, <2>1, <2>2, <2>5 DEF Listing, Aged
  <2>6. CASE broken' = TRUE /\ UNCHANGED <<shown, seed, late>>
    BY <1>1, <2>1, <2>2, <2>6 DEF Listing, Aged
  <2> QED  BY <1>3, <2>3, <2>4, <2>5, <2>6 DEF Arrive, table
<1>4. CASE ReadAgain
  BY <1>1, <1>4 DEF Listing, ReadAgain, Aged, table
<1> QED  BY <1>2, <1>3, <1>4 DEF Reading

(* A change: every row of the server is as it was, or has a number no row  *)
(* had.                                                                    *)
LEMMA EffectRows ==
  ASSUME NEW q, rows' \in Effect(q)
  PROVE  /\ \A r \in DOMAIN rows' : rows'[r] = changes + 1
                                    \/ (r \in DOMAIN rows /\ rows'[r] = rows[r])
         /\ O(q.op).does \in {"order", "other"} => rows' = rows
<1>1. CASE rows' \in Added
  <2>1. O(q.op).does \notin {"order", "other"} \/ rows' = rows
    BY DEF Effect
  <2>2. PICK n \in Row \ DOMAIN rows : rows' = rows @@ (n :> changes + 1)
    BY <1>1 DEF Added
  <2>3. /\ DOMAIN rows' = DOMAIN rows \cup {n}
        /\ \A r \in DOMAIN rows : rows'[r] = rows[r]
        /\ rows'[n] = changes + 1
    <3> DEFINE g == n :> changes + 1
    <3>1. DOMAIN g = {n} /\ g[n] = changes + 1
      BY PairParts
    <3> HIDE DEF g
    <3>2. /\ DOMAIN (rows @@ g) = DOMAIN rows \cup DOMAIN g
          /\ \A k \in DOMAIN rows : (rows @@ g)[k] = rows[k]
          /\ \A k \in DOMAIN g \ DOMAIN rows : (rows @@ g)[k] = g[k]
      BY JoinParts
    <3>3. rows' = rows @@ g
      BY <2>2 DEF g
    <3> QED  BY <3>1, <3>2, <3>3
  <2> QED  BY <2>1, <2>3
<1>2. CASE rows' = Restrict(rows, DOMAIN rows \ q.acts)
  <2>1. O(q.op).does \notin {"order", "other"} \/ rows' = rows
    BY DEF Effect
  <2> QED  BY <1>2, <2>1 DEF Restrict
<1>3. CASE rows' = rows
  BY <1>3
<1>4. CASE rows' = [r \in DOMAIN rows |-> IF r \in q.acts \/ q.acts = {} THEN changes + 1 ELSE rows[r]]
  <2>1. O(q.op).does \notin {"order", "other"} \/ rows' = rows
    BY DEF Effect
  <2> QED  BY <1>4, <2>1
<1> QED  BY <1>1, <1>2, <1>3, <1>4 DEF Effect

(* An answer: what changes a row marks the list, or is missed.             *)
LEMMA AnsweringListed ==
  ASSUME SlotInv, Listing, NEW q \in sent, Succeed(q) \/ Refuse(q)
  PROVE  Listing'
<1>1. /\ route' = route /\ P' = P
      /\ UNCHANGED <<seed, late, loaded, broken>>
  BY DEF Succeed, Refuse, P, table
<1> SUFFICES ASSUME P.loads = "query" PROVE Listing'
  BY <1>1 DEF Listing
<1>2. Invalidates(O(q.op)) /\ O(q.op).does # "nothing"
  <2>1. route \in Pages /\ q.op \in DOMAIN P.ops
    BY DEF SlotInv, Typed, Item
  <2> QED  BY <2>1, HereSound DEF OpSound, SlotInv, Rules, SentSound
<1>3. ASSUME Marked
      PROVE  \/ FirstRead /\ UNCHANGED <<stale, reads>>
             \/ stale' = TRUE /\ reads' = {}
  BY <1>3 DEF Marked
<1>4. CASE Refuse(q)
  <2>1. UNCHANGED <<rows, changes, shown, missed>>
    BY <1>4 DEF Refuse, table
  <2>2. UNCHANGED <<stale, reads>> \/ (stale' = TRUE /\ reads' = {})
    BY <1>3, <1>4 DEF Refuse
  <2> QED  BY <1>1, <2>1, <2>2 DEF Listing, Aged
<1>5. CASE Succeed(q)
  <2>1. shown' = shown /\ changes' = changes + 1 /\ rows' \in Effect(q)
    BY <1>2, <1>5 DEF Succeed, Invalidates
  <2>2. /\ \A r \in DOMAIN rows' : rows'[r] = changes + 1
                                   \/ (r \in DOMAIN rows /\ rows'[r] = rows[r])
        /\ O(q.op).does \in {"order", "other"} => rows' = rows
    BY <2>1, EffectRows
  <2>3. \/ stale' = TRUE /\ reads' = {}
        \/ UNCHANGED <<stale, reads>> /\ missed' = TRUE
        \/ UNCHANGED <<stale, reads, missed>> /\ rows' = rows
    <3>1. Refreshed(q.op)
      BY <1>5 DEF Succeed
    <3>2. CASE Marked /\ missed' = (missed \/ FirstRead)
      BY <1>3, <3>2
    <3>3. CASE O(q.op).refresh = "push" /\ UNCHANGED <<stale, reads>> /\ missed' = TRUE
      BY <3>3
    <3>4. CASE O(q.op).refresh \in {"never", "patch"} /\ UNCHANGED <<stale, reads, missed>>
      <4>1. O(q.op).does \in {"order", "other"}
        BY <1>2, <3>4 DEF Invalidates
      <4> QED  BY <2>2, <3>4, <4>1
    <3> QED  BY <3>1, <3>2, <3>3, <3>4 DEF Refreshed
  <2>4. /\ changes' \in Nat /\ Aged(rows)' /\ Aged(seed)' /\ \A a \in reads : Aged(a)'
    BY <1>1, <2>1, <2>2 DEF Listing, Aged
  <2>5. \A r \in (DOMAIN seed \cap DOMAIN rows') \ late : rows'[r] = seed[r] => shown[r] = rows'[r]
    BY <2>2 DEF Listing, Aged
  <2>6. stale => reads = {}
    BY DEF Listing
  <2> QED  BY <1>1, <2>1, <2>3, <2>4, <2>5, <2>6 DEF Listing
<1> QED  BY <1>4, <1>5

(* An answer that is swapped in: a row it makes older than the server's is *)
(* told apart.                                                             *)
LEMMA SwappingListed ==
  ASSUME Listing, NEW f, Fetched(f)
  PROVE  Listing'
<1>1. /\ P' = P /\ UNCHANGED <<rows, changes, seed, loaded, reads, stale, missed, broken>>
  BY DEF Fetched, P
<1>2. CASE UNCHANGED <<shown, late>>
  BY <1>1, <1>2 DEF Listing, Aged
<1>3. ASSUME NEW got, Swap(got) PROVE Listing'
  <2>1. /\ DOMAIN shown' = DOMAIN shown
        /\ \A r \in DOMAIN shown : shown'[r] = IF r \in DOMAIN got THEN got[r] ELSE shown[r]
        /\ late' = (late \ DOMAIN got) \cup {r \in DOMAIN got \cap DOMAIN rows : got[r] # rows[r]}
    BY <1>3 DEF Swap
  <2> QED  BY <1>1, <2>1 DEF Listing, Aged
<1> QED  BY <1>2, <1>3 DEF Fetched

(* ListCurrent: when nothing is under way the list of every page read by a *)
(* query is what the server holds, but for what was missed and for rows an *)
(* older answer was swapped into; every handler invalidates what it        *)
(* changed.                                                                *)
THEOREM ListCurrentAlways == PageSpec => []ListCurrent
<1>1. PageInit => Listing
  BY DEF PageInit, Listing, Aged
<1>2. SlotInv /\ Listing /\ [PageNext]_pageVars => Listing'
  <2> SUFFICES ASSUME SlotInv, Listing, [PageNext]_pageVars PROVE Listing'
    OBVIOUS
  <2>1. CASE Reading \/ ReadAgain
    BY <2>1, ReadingListed
  <2>2. CASE Answering
    BY <2>2, AnsweringListed DEF Answering
  <2>3. CASE UNCHANGED <<route, rows, changes, list>>
    BY <2>3 DEF Listing, Aged, P, list, table
  <2>4. CASE UNCHANGED pageVars
    BY <2>3, <2>4 DEF pageVars
  <2>5. ASSUME NEW op, Start(op) PROVE Listing'
    BY <2>3, <2>5 DEF Start
  <2>6. ASSUME NEW f, Hydrate(f) \/ Fetched(f) PROVE Listing'
    BY <2>3, <2>6, SwappingListed DEF Hydrate
  <2>7. ASSUME NEW d, Turn(d) \/ Submit(d) \/ Close(d) PROVE Listing'
    BY <2>3, <2>7 DEF Turn, Submit, Close
  <2>8. ASSUME NEW r, Pick(r) PROVE Listing'
    BY <2>3, <2>8 DEF Pick
  <2> QED  BY <2>1, <2>2, <2>4, <2>5, <2>6, <2>7, <2>8 DEF PageNext
<1>3. Listing => ListCurrent
  BY DEF Listing, ListCurrent
<1> QED  BY <1>1, <1>2, <1>3, PageInvariant, PTL DEF PageSpec

(* A dialog that stays, is new, or stands where answers bring dialogs.     *)
LEMMA KeptSteps ==
  ASSUME SlotInv, \A e \in open' : e \in open \/ e.no = clicks + 1 \/ ByAnswer(e.slot)
  PROVE  Held
<1> SUFFICES ASSUME NEW d \in open, NEW e \in open', d.slot = e.slot, ~ByAnswer(d.slot)
             PROVE  /\ e.no >= d.no
                    /\ e.no = d.no /\ d.data = d.target => e.data = e.target
  BY DEF Held
<1>1. OneEach /\ Typed
  BY DEF SlotInv, Rules
<1>2. d.no \in Nat /\ d.no <= clicks /\ clicks \in Nat
  BY <1>1, Numbers
<1>3. e \in open => e = d
  BY <1>1 DEF OneEach
<1> QED  BY <1>2, <1>3

(* An answer to an earlier question: keyed, it is kept beside the view;    *)
(* guarded by the latest effect, it is dropped.                            *)
LEMMA FetchedKept ==
  ASSUME SlotInv, NEW f \in asked, Fetched(f)
  PROVE  Held
<1>1. /\ Typed /\ Same /\ OneEach /\ AskedFirst
      /\ f.op \in DOMAIN P.ops
  BY DEF SlotInv, Rules, Typed, Item
<1>2. CASE UNCHANGED open
  BY <1>2, KeptSteps
<1>3. ASSUME NEW data, O(f.op).from = "first", Brought(f, data)
      PROVE  Held
  <2> SUFFICES ASSUME NEW d \in open, NEW e \in open', d.slot = e.slot, ~ByAnswer(d.slot)
               PROVE  /\ e.no >= d.no
                      /\ e.no = d.no /\ d.data = d.target => e.data = e.target
    BY DEF Held
  <2>1. e.slot # O(f.op).slot
    BY <1>1, <1>3 DEF ByAnswer
  <2>2. PICK x \in open : /\ x.slot = e.slot /\ x.op = e.op /\ x.target = e.target /\ x.no = e.no
                          /\ e.data = x.data \/ O(x.op).shared
    BY <1>1, <1>3, <2>1, OpenedParts DEF Typed
  <2>3. x = d /\ d.no \in Nat
    BY <1>1, <2>2, Numbers DEF OneEach
  <2>4. ~O(d.op).shared
    <3>1. d.op \in DOMAIN P.ops /\ (d.slot = O(d.op).slot \/ d.slot = O(d.op).shows)
      BY <1>1 DEF Typed, Item, Shaped, Own
    <3> QED  BY <3>1 DEF ByAnswer
  <2> QED  BY <2>2, <2>3, <2>4
<1>4. ASSUME O(f.op).from = "fetch",
             open' = {IF e.slot = O(f.op).slot /\ Wanted(f, e)
                      THEN [e EXCEPT !.data = f.target] ELSE e : e \in open}
      PROVE  Held
  <2> SUFFICES ASSUME NEW d \in open, NEW e \in open', d.slot = e.slot, route \notin Unkept
               PROVE  /\ e.no >= d.no
                      /\ e.no = d.no /\ d.data = d.target => e.data = e.target
    BY DEF Held
  <2>1. O(f.op).guard \in {"keyed", "latest"}
    BY <1>1, <1>4, HereSound DEF Typed, OpSound, Guards
  <2>2. PICK g \in open : e = IF g.slot = O(f.op).slot /\ Wanted(f, g)
                              THEN [g EXCEPT !.data = f.target] ELSE g
    BY <1>4
  <2> DEFINE w == [g EXCEPT !.data = f.target]
  <2>3. Shaped(g)
    BY <1>1 DEF Typed
  <2>4. w.slot = g.slot /\ w.target = g.target /\ w.data = f.target /\ w.no = g.no
    BY <2>3, FilledParts
  <2>5. e = IF g.slot = O(f.op).slot /\ Wanted(f, g) THEN w ELSE g
    BY <2>2
  <2> HIDE DEF w
  <2>6. g = d
    BY <1>1, <2>4, <2>5 DEF OneEach
  <2>7. Wanted(f, g) => g.target = f.target
    BY <1>1, <2>1 DEF Wanted, Same, Item
  <2>8. d.no \in Nat
    BY <1>1, Numbers
  <2> QED  BY <2>4, <2>5, <2>6, <2>7, <2>8
<1> QED  BY <1>2, <1>3, <1>4, FetchedCases

(* What a click shows is a new dialog, or another question.                *)
LEMMA ClickedKept ==
  ASSUME SlotInv,
         \/ \E op \in DOMAIN P.ops : Start(op)
         \/ \E d \in open : Turn(d) \/ Submit(d) \/ Close(d)
  PROVE  Held
<1>1. Typed /\ OneEach
  BY DEF SlotInv, Rules
<1>2. ASSUME NEW d, d.no = clicks + 1, open' = Show(d) PROVE Held
  BY <1>1, <1>2, ShowOne, KeptSteps
<1>3. ASSUME open' \subseteq open PROVE Held
  BY <1>3, KeptSteps
<1>4. ASSUME NEW op \in DOMAIN P.ops, Start(op) PROVE Held
  <2>1. clicks' = clicks + 1
    BY <1>4 DEF Start, Click
  <2>2. PICK t \in Targets(op) :
           LET d == [slot |-> O(op).slot, op |-> op, target |-> t,
                   data |-> IF O(op).shared THEN t ELSE {}, no |-> clicks']
           IN  open' = IF O(op).opens = "-" \/ O(op).from = "first" THEN open ELSE Show(d)
    BY <1>4 DEF Start
  <2> DEFINE d == [slot |-> O(op).slot, op |-> op, target |-> t,
                   data |-> IF O(op).shared THEN t ELSE {}, no |-> clicks']
  <2>3. d.no = clicks + 1
    BY <2>1
  <2>4. open' = open \/ open' = Show(d)
    BY <2>2
  <2> HIDE DEF d
  <2> QED  BY <1>2, <1>3, <2>3, <2>4
<1>5. ASSUME NEW d \in open, Turn(d) PROVE Held
  <2>1. clicks' = clicks + 1
    BY <1>5 DEF Turn, Click
  <2>2. PICK r \in DOMAIN shown \ d.target :
           LET kept == IF O(d.op).guard = "keyed" THEN {} ELSE d.data
           IN  open' = Show([d EXCEPT !.target = {r}, !.data = kept, !.no = clicks'])
    BY <1>5 DEF Turn
  <2> DEFINE kept == IF O(d.op).guard = "keyed" THEN {} ELSE d.data
             e == [d EXCEPT !.target = {r}, !.data = kept, !.no = clicks']
  <2>3. DOMAIN d = {"slot", "op", "target", "data", "no"}
    BY <1>1 DEF Typed, Shaped
  <2>4. e.no = clicks + 1
    <3> HIDE DEF kept
    <3> QED  BY <2>1, <2>3
  <2>5. open' = Show(e)
    BY <2>2
  <2> HIDE DEF e
  <2> QED  BY <1>2, <2>4, <2>5
<1>6. ASSUME NEW d \in open, Submit(d) \/ Close(d) PROVE Held
  <2>1. open' \subseteq open
    BY <1>6 DEF Submit, Close
  <2> QED  BY <1>3, <2>1
<1> QED  BY <1>4, <1>5, <1>6

(* ViewKept: on every page but the Unkept ones, in every slot no answer    *)
(* brings a dialog to, a dialog gives way only to a later click's, and a   *)
(* view that shows what it was last asked for keeps showing it.            *)
THEOREM ViewKeptAlways == PageSpec => ViewKept
<1>1. SlotInv /\ [PageNext]_pageVars => [Held]_pageVars
  <2> SUFFICES ASSUME SlotInv, PageNext PROVE Held
    OBVIOUS
  <2>1. CASE open' = open
    BY <2>1, KeptSteps
  <2>2. CASE Reading \/ ReadAgain \/ (\E r \in Row : Pick(r)) \/ (\E f \in asked : Hydrate(f))
    BY <2>1, <2>2 DEF Reading, Read, Arrive, ReadAgain, Pick, Hydrate, clicked
  <2>3. CASE \E f \in asked : Fetched(f)
    BY <2>3, FetchedKept
  <2>4. ASSUME NEW q \in sent, Succeed(q) PROVE Held
    <3>1. q.op \in DOMAIN P.ops
      BY DEF SlotInv, Typed, Item
    <3>2. \A e \in open' : e \in open \/ e.slot = O(q.op).shows
      BY <2>4, SucceedParts
    <3> QED  BY <3>1, <3>2, KeptSteps DEF ByAnswer
  <2>5. ASSUME NEW q \in sent, Refuse(q) PROVE Held
    BY <2>1, <2>5 DEF Refuse
  <2> QED  BY <2>2, <2>3, <2>4, <2>5, ClickedKept DEF PageNext, Answering
<1> QED  BY <1>1, PageInvariant, PTL DEF PageSpec, ViewKept, Held
=============================================================================
