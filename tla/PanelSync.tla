----------------------------- MODULE PanelSync -----------------------------
(***************************************************************************)
(* How one browser tab keeps its lists fresh: the server's handlers and    *)
(* jobs announce what they changed (controller/inbound.go, client.go, job/ *)
(* node_traffic_sync_job.go), the hub fans the messages out (websocket/    *)
(* hub.go), the tab's bridge turns them into invalidations or new data     *)
(* (api/websocketBridge.ts), and the hooks of the mounted page refetch     *)
(* (hooks/useClients.ts, pages/inbounds/useInbounds.ts, api/queries).      *)
(*                                                                         *)
(* Data is its version.  The query library is external: a query refetches  *)
(* when it is invalidated while its page is mounted, when its page mounts  *)
(* and it is stale or empty, and after one failure once more; a refetch    *)
(* drops the answer of the one under way, if the query has data by then.   *)
(***************************************************************************)
EXTENDS PanelSocket, Sequences, FiniteSets

Lists == INSTANCE SequencesExt

CONSTANTS MaxEdits,   \* bound on the versions at which others still change
          QueueSize,  \* hubBroadcastQueue
          SendSize,   \* clientSendQueue
          Changes,    \* the kinds of change considered, of Kinds
          Key,        \* the queries considered, of "slim", "options", "list"
          Empty       \* no data

ASSUME PanelSyncAssumption ==
    /\ Key \subseteq {"slim", "options", "list"}
    /\ Changes \subseteq {"client", "inbound", "toggle", "sync"}

VARIABLES large,      \* more than broadcastInboundsUpdateClientLimit clients
          db,         \* the version of each kind of data
          handlers,   \* announcements still to be made, one list per change
          queue,      \* hub.broadcast
          hot,        \* an inbounds push was made less than 250 ms ago
          wire,       \* messages on their way to this tab's socket
          registered, \* the hub knows the socket
          pending,    \* the bridge's invalidateTimer: the kind it will
                      \* invalidate, or "none"
          recent,     \* a local invalidation is less than 1500 ms old
          page,       \* the page mounted
          cache,      \* the query cache
          own,        \* the tab's own change: idle, sent or done
          acked       \* acked[k]: the versions the tab's own change made, when
                      \* it was told so with k mounted and not overtaken

server == <<large, db, handlers>>
hub == <<queue, hot, registered>>
bridge == <<pending, recent>>
tab == <<page, own, acked>>
vars == <<socket, server, hub, wire, bridge, cache, tab>>

Data == {"inbounds", "clients"}

(* queryKeys.ts: the bucket of each query, which is what is invalidated.   *)
Bucket(k) == IF k = "list" THEN "clients" ELSE "inbounds"

(* What a query's answer shows: the slim list counts each inbound's        *)
(* clients; options are the inbounds alone.                                *)
Reads(k) == CASE k = "slim" -> Data
              [] k = "options" -> {"inbounds"}
              [] k = "list" -> {"clients"}

On(p) == IF p = "inbounds" THEN {"slim"} ELSE {"options", "list"}
Mounted(k) == k \in On(page)

Snapshot(k) == [d \in Reads(k) |-> db[d]]
Shows(k, v) == /\ cache[k].data # Empty
               /\ \A d \in Reads(k) : cache[k].data[d] >= v[d]

(* What each kind of change touches, and what is announced after it.       *)
Kinds == {"client", "inbound", "toggle", "sync"}
Touches(kind) == IF kind \in {"client", "toggle"}
                 THEN {IF kind = "client" THEN "clients" ELSE "inbounds"} ELSE Data

InboundsNews == IF large THEN <<"inbounds">> ELSE <<"push">>
Announces(kind) ==
    CASE kind = "client" -> <<"clients">>
      [] kind = "inbound" -> InboundsNews \o <<"clients">>
      [] kind = "toggle" -> <<"inbounds">>
      [] kind = "sync" -> <<"inbounds", "clients">>

-----------------------------------------------------------------------------
(* A query, as the library runs it.                                        *)
Asked(q) == [q EXCEPT !.fetch = "asking", !.got = Empty, !.stale = TRUE]

(* invalidateQueries: stale, and refetched if mounted, from the start; but *)
(* the fetch under way of a query with no data yet is not cancelled.       *)
FirstFetch(k) == cache[k].data = Empty /\ cache[k].fetch # "idle"
Invalidated(k) == IF Mounted(k) /\ ~FirstFetch(k) THEN Asked(cache[k])
                                                  ELSE [cache[k] EXCEPT !.stale = TRUE]
Invalidate(kinds) ==
    cache' = [k \in Key |-> IF Bucket(k) \in kinds THEN Invalidated(k) ELSE cache[k]]

Init ==
    /\ SocketInit
    /\ large \in BOOLEAN
    /\ db = [d \in Data |-> 0]
    /\ handlers = <<>> /\ queue = <<>> /\ wire = <<>>
    /\ hot = FALSE /\ registered = FALSE
    /\ pending = "none" /\ recent = FALSE
    /\ page \in {"inbounds", "clients"}
    /\ cache = [k \in Key |-> [data |-> Empty, stale |-> TRUE,
                               got |-> Empty,
                               fetch |-> IF Mounted(k) THEN "asking" ELSE "idle"]]
    /\ own = [step |-> "idle", page |-> page, made |-> db] /\ acked = [k \in Key |-> db]

(* The server reads what a fetch asked for.                                *)
FetchRead(k) ==
    /\ cache[k].fetch = "asking"
    /\ cache' = [cache EXCEPT ![k].fetch = "answered", ![k].got = Snapshot(k)]
    /\ UNCHANGED <<server, hub, bridge, tab, socket, wire>>

(* The answer replaces the data, whatever a push has put there meanwhile.  *)
FetchDone(k) ==
    /\ cache[k].fetch = "answered"
    /\ cache' = [cache EXCEPT ![k] = [data |-> @.got, stale |-> FALSE, got |-> Empty,
                                      fetch |-> "idle"]]
    /\ UNCHANGED <<server, hub, bridge, tab, socket, wire>>

(* A fetch that fails is tried once more (queryClient.ts, retry: 1), and   *)
(* then the page shows the error beside the old data, which stays stale.   *)
FetchFail(k) ==
    /\ cache[k].fetch # "idle"
    /\ \E then \in {"asking", "idle"} :
           cache' = [cache EXCEPT ![k].fetch = then, ![k].got = Empty]
    /\ UNCHANGED <<server, hub, bridge, tab, socket, wire>>

(* Another page: its queries mount and refetch if stale.  The bridge's     *)
(* socket is not theirs: their useWebSocket keeps a client of its own, and *)
(* the layout, which has the bridge, stays mounted.                        *)
Visit(p) ==
    /\ page # p
    /\ page' = p
    /\ cache' = [k \in Key |-> IF k \in On(p) /\ cache[k].stale /\ cache[k].fetch = "idle"
                               THEN Asked(cache[k]) ELSE cache[k]]
    /\ UNCHANGED <<server, hub, bridge, wire, own, acked, socket>>
-----------------------------------------------------------------------------
(* The server.  A handler or job commits, and announces afterwards.        *)
Commit(kind) ==
    /\ db' = [d \in Data |-> IF d \in Touches(kind) THEN db[d] + 1 ELSE db[d]]
    /\ handlers' = Append(handlers, Announces(kind))

(* Another administrator's change, or a job's.                             *)
OthersChange(kind) ==
    /\ db["inbounds"] + db["clients"] < MaxEdits
    /\ Commit(kind)
    /\ UNCHANGED <<hub, bridge, tab, socket, large, wire, cache>>

(* The next announcement of a handler: an invalidation, or the list itself *)
(* as it is read now, dropped while the type is throttled.  Nothing is     *)
(* queued when the queue stays full.                                       *)
Message(news) == IF news = "push" THEN [type |-> "inbounds", payload |-> db]
                                  ELSE [type |-> "invalidate", payload |-> news]

Announce(h) ==
    /\ LET news == Head(handlers[h])
           push == news = "push"
       IN  /\ queue' = IF Len(queue) >= QueueSize \/ (push /\ hot) THEN queue
                       ELSE Append(queue, Message(news))
           /\ hot' = (hot \/ push)
    /\ handlers' = IF Len(handlers[h]) > 1 THEN [handlers EXCEPT ![h] = Tail(@)]
                    ELSE Lists!RemoveAt(handlers, h)
    /\ UNCHANGED <<bridge, tab, socket, large, db, wire, registered, cache>>

CoolDown ==
    /\ hot
    /\ hot' = FALSE
    /\ UNCHANGED <<server, bridge, tab, socket, queue, wire, registered, cache>>

(* Hub.runOnce: the socket is registered through the hub's own queue.      *)
Register ==
    /\ ws = "open" /\ ~registered
    /\ registered' = TRUE
    /\ UNCHANGED <<server, bridge, tab, socket, queue, hot, wire, cache>>

(* Hub.fanout: to every registered socket; one whose buffer is full is     *)
(* dropped, which the tab sees as its link closing.                        *)
Fanout ==
    /\ queue # <<>>
    /\ queue' = Tail(queue)
    /\ \/ /\ registered /\ Len(wire) < SendSize
          /\ wire' = Append(wire, Head(queue))
          /\ UNCHANGED <<socket, registered>>
       \/ /\ registered /\ Len(wire) >= SendSize
          /\ registered' = FALSE /\ LinkLost /\ UNCHANGED wire
       \/ /\ ~registered
          /\ UNCHANGED <<socket, wire, registered>>
    /\ UNCHANGED <<server, bridge, tab, hot, cache>>
-----------------------------------------------------------------------------
(* The bridge's socket: what was on its way dies with the link.  The layout*)
(* connects when it is mounted, again after a new login.                   *)
SocketStep ==
    /\ SocketNext
    /\ registered' = (registered /\ ws' = "open")
    /\ wire' = IF ws' = "open" THEN wire ELSE <<>>
    /\ UNCHANGED <<server, bridge, tab, queue, hot, cache>>

(* websocketBridge onInvalidate: one timer for both kinds, and the signal  *)
(* that comes last is the one it serves.                                   *)
(* onInbounds: setQueryData replaces the list; a fetch under way goes on.  *)
Deliver ==
    /\ wire # <<>> /\ ws = "open"
    /\ wire' = Tail(wire)
    /\ LET msg == Head(wire)
       IN  \/ /\ msg.type = "invalidate"
              /\ pending' = msg.payload
              /\ UNCHANGED cache
           \/ /\ msg.type = "inbounds"
              /\ cache' = [cache EXCEPT !["slim"].data = msg.payload, !["slim"].stale = FALSE]
              /\ UNCHANGED pending
    /\ UNCHANGED <<server, hub, tab, socket, recent>>

(* 200 ms later: invalidate, unless this tab has just done so itself, for  *)
(* its own change has signalled back.                                      *)
TimerFires ==
    /\ pending # "none"
    /\ pending' = "none"
    /\ IF recent THEN UNCHANGED cache ELSE Invalidate({pending})
    /\ UNCHANGED <<server, hub, tab, socket, wire, recent>>

(* isRecentLocalInvalidate turns false.                                    *)
Forget ==
    /\ recent
    /\ recent' = FALSE
    /\ UNCHANGED <<server, hub, tab, socket, wire, pending, cache>>

(* The tab's own change: a mutation of useClients, or of the inbounds page;*)
(* one in a behaviour.                                                     *)
Send(kind) ==
    /\ own.step = "idle"
    /\ kind = IF page = "clients" THEN "client" ELSE "inbound"
    /\ Commit(kind)
    /\ own' = [step |-> "sent", page |-> page, made |-> db']
    /\ UNCHANGED <<hub, bridge, socket, large, wire, page, cache, acked>>

(* The answer never comes: nothing is invalidated.                         *)
SendFails ==
    /\ own.step = "sent"
    /\ own' = [own EXCEPT !.step = "done"]
    /\ UNCHANGED <<server, hub, bridge, socket, wire, page, cache, acked>>

OwnBucketsInboundsOnly(p) == {"inbounds"}

(* onSuccess of a client mutation: invalidateAll marks the invalidation as *)
(* local and drops both buckets; the inbounds page's refresh drops the     *)
(* inbounds only.                                                          *)
OwnBuckets(p) == IF p = "clients" THEN Data ELSE {"inbounds"}

(* A first fetch that the server answered before the change goes on, and   *)
(* its answer counts as fresh.                                             *)
Overtaken(k) == /\ FirstFetch(k) /\ cache[k].fetch = "answered"
                /\ \E d \in Reads(k) : cache[k].got[d] < own.made[d]

OwnDone ==
    /\ own.step = "sent"
    /\ own' = [own EXCEPT !.step = "done"]
    /\ acked' = [k \in Key |->
                    IF Mounted(k) /\ (own.page = "clients" \/ k # "list") /\ ~Overtaken(k)
                    THEN own.made ELSE acked[k]]
    /\ Invalidate(OwnBuckets(own.page))
    /\ recent' = (recent \/ own.page = "clients")
    /\ UNCHANGED <<server, hub, socket, wire, pending, page>>
-----------------------------------------------------------------------------
Next == \/ SocketStep \/ Register \/ Fanout \/ CoolDown \/ Deliver \/ TimerFires \/ Forget
        \/ SendFails \/ OwnDone
        \/ \E k \in Key : FetchRead(k) \/ FetchDone(k) \/ FetchFail(k)
        \/ \E p \in {"inbounds", "clients"} : Visit(p)
        \/ \E kind \in Changes : OthersChange(kind)
        \/ \E kind \in {"client", "inbound"} : Send(kind)
        \/ \E h \in DOMAIN handlers : Announce(h)

Spec == Init /\ [][Next]_vars

FairSpec ==
    /\ Spec
    /\ WF_vars(SocketStep /\ (Opened \/ Retry \/ (ws = "closing" /\ Closed)))
-----------------------------------------------------------------------------
(* When the tab is told that its own change was made, the lists on screen  *)
(* that it invalidates show it from then on or are marked to be fetched    *)
(* again, whatever answers and changes of others are under way:            *)
(* "Invalidate both buckets so the Inbounds page and any open edit modal   *)
(* pick up the new shape" (useClients.ts:365-370).  Two kinds of list are  *)
(* let off: one on its first fetch, which the server had answered before   *)
(* the change (Overtaken), and, below the limit, the slim list, in whose   *)
(* place a push may put an older one.                                      *)
OwnChangeKept ==
    \A k \in Key : cache[k].data # Empty /\ (large \/ k # "slim") =>
                      Shows(k, acked[k]) \/ cache[k].stale

(* A socket that was lost, or could not be opened, is open again one day:  *)
(* after maxReconnectAttempts quick retries the slow ones go on for ever   *)
(* (websocket.ts:241-266).  MaxLosses makes failures end.                  *)
ComesBack == (timer \/ ws \in {"connecting", "closing"}) ~> ws = "open"
=============================================================================
