------------------------------ MODULE NodeSync ------------------------------
(***************************************************************************)
(* The inbounds of one node: the panel keeps their client lists and sums   *)
(* their clients' traffic; the node, a panel of its own, serves them.  An  *)
(* edit is pushed to the node while it is made (service/                   *)
(* client_inbound_apply.go); what the node did not take marks it dirty     *)
(* (service/node.go).  Every few seconds a pass of job/                    *)
(* node_traffic_sync_job.go pushes everything to a dirty node, then takes  *)
(* a snapshot of the node and merges it (service/inbound_node.go).         *)
(***************************************************************************)
EXTENDS Naturals, FiniteSets, FiniteSetsExt

CONSTANTS Inbound,     \* inbounds of the node
          Client,      \* emails
          Request,     \* requests of administrators
          Story,       \* which requests may be made together, and the lists at the start
          MaxFaults,   \* bound on calls that fail and on probes that find the node away
          NoRow        \* no client_traffics row, or no baseline

(* A story is a start, the lists of both panels, what each request asks    *)
(* for, and a bound on the traffic a client makes.                         *)
Ask == [does: {"add", "delete", "detach", "reset"}, who: Client, on: SUBSET Inbound]

ASSUME NodeSyncAssumption ==
    /\ Story \subseteq [start: [Inbound -> SUBSET Client], asks: [Request -> Ask], units: Nat]
    /\ Inbound \subseteq Nat \ {0} /\ IsFiniteSet(Inbound)
    /\ MaxFaults \in Nat
    /\ NoRow \notin Nat \cup [up : Nat, home : Inbound]

VARIABLES listed,    \* the clients in each inbound's settings
          links,     \* client_inbounds
          records,   \* clients that have a record
          usage,     \* client_traffics: what was counted, and the inbound of the row
          base,      \* node_client_traffics: the node's counter at the last merge
          tombs,     \* recentlyDeleted
          dirty,     \* config_dirty and config_dirty_at of the node
          online,    \* its status
          held,      \* the clients in the node's own settings
          meter,     \* the node's client_traffics
          ask,       \* what each request asks for
          units,     \* how much traffic each client makes at most
          job,       \* how far it is
          pass,      \* the pass of the job under way
          faults,    \* failures so far
          carried,   \* traffic the node counted for each client
          cleared,   \* of which resets put aside on the panel
          owed       \* edits that were marked and are not on the node yet

panel   == <<listed, links, records>>
tally   == <<usage, base, cleared>>
node    == <<held, meter>>
request == <<ask, units, job>>
vars    == <<panel, tally, tombs, dirty, online, node, request, pass, faults, carried, owed>>

Idle  == [pc |-> "idle"]
Fresh == [pc |-> "next", todo |-> {}, at |-> 0, list |-> {}, refused |-> FALSE]

Others(i) == Inbound \ {i}

(* AddClientStat: a row for each of the clients that has none.             *)
WithRows(rows, i, clients) ==
    [c \in Client |-> IF c \in clients /\ rows[c] = NoRow THEN [up |-> 0, home |-> i] ELSE rows[c]]

Init == /\ \E s \in Story :
               /\ listed = s.start /\ links = s.start /\ held = s.start
               /\ records = UNION {s.start[i] : i \in Inbound}
               /\ ask = s.asks /\ units = s.units
        /\ meter = [c \in Client |-> IF c \in records
                                     THEN [up |-> 0, home |-> Min({i \in Inbound : c \in held[i]})]
                                     ELSE NoRow]
        /\ usage = meter
        /\ base = [c \in Client |-> IF c \in records THEN 0 ELSE NoRow]
        /\ tombs = {}
        /\ dirty = [mark |-> FALSE, at |-> 0]
        /\ online = TRUE
        /\ job = [r \in Request |-> [Fresh EXCEPT !.pc = "new"]]
        /\ pass = Idle
        /\ faults = 0
        /\ carried = [c \in Client |-> 0]
        /\ cleared = [c \in Client |-> 0]
        /\ owed = {}
-----------------------------------------------------------------------------
(* The node's side of a call, by the same services.                        *)

(* UpdateInbound with updateClientTraffics: rows of removed clients go     *)
(* with their last inbound.                                                *)
NodeStores(i, list) ==
    LET gone == {c \in held[i] \ list : \A j \in Others(i) : c \notin held[j]}
    IN  /\ held' = [held EXCEPT ![i] = list]
        /\ meter' = WithRows([c \in Client |-> IF c \in gone THEN NoRow ELSE meter[c]],
                             i, list \ held[i])

NodeAdds(i, c) ==
    /\ held' = [held EXCEPT ![i] = @ \cup {c}]
    /\ meter' = WithRows(meter, i, {c})

(* detach keeps the traffic row.                                           *)
NodeDetaches(i, c) ==
    /\ held' = [held EXCEPT ![i] = @ \ {c}]
    /\ UNCHANGED meter

(* A call that fails: a fault, unless the heartbeat had found the node away.*)
CallFails == IF online THEN faults < MaxFaults /\ faults' = faults + 1 ELSE UNCHANGED faults

StillOwed == {o \in owed : (o.who \in held'[o.at]) # o.want}
-----------------------------------------------------------------------------
(* Requests.                                                               *)

Linked(c) == {i \in Inbound : c \in links[i]}

(* Attach or Create, Delete with its tombstone, Detach: the inbounds to    *)
(* visit are read before any of their locks is taken.                      *)
Start(r) ==
    LET a == ask[r]
        Visit(inbounds) == job' = [job EXCEPT ![r] = [Fresh EXCEPT !.todo = inbounds]]
    IN  /\ job[r].pc = "new"
        /\ \/ a.does = "add" /\ Visit(a.on \ Linked(a.who)) /\ UNCHANGED tombs
           \/ /\ a.does = "delete" /\ a.who \in records
              /\ tombs' = tombs \cup {a.who}
              /\ Visit(Linked(a.who))
           \/ /\ a.does = "detach" /\ a.who \in records
              /\ Visit(a.on \cap Linked(a.who))
              /\ UNCHANGED tombs
           \/ /\ a.does \in {"delete", "detach"} /\ a.who \notin records
              /\ job' = [job EXCEPT ![r] = [Fresh EXCEPT !.pc = "done"]]
              /\ UNCHANGED tombs
        /\ UNCHANGED <<panel, tally, dirty, online, node, ask, units, pass, faults, carried, owed>>

Locked(i) == \E r \in Request : job[r].pc \in {"push", "write", "mark"} /\ job[r].at = i

(* addInboundClient under the inbound's lock: the list it will write.      *)
(* compactOrphans drops clients without a record.                          *)
ReadToAdd(r) ==
    LET c == ask[r].who
    IN  /\ job[r].pc = "next" /\ ask[r].does = "add"
        /\ \E i \in job[r].todo :
              /\ ~Locked(i)
              /\ job' = [job EXCEPT ![r] = [@ EXCEPT !.pc = "push", !.at = i, !.refused = FALSE,
                                                     !.list = (listed[i] \cap records) \cup {c}]]
        /\ UNCHANGED <<panel, tally, tombs, dirty, online, node, ask, units, pass, faults, carried, owed>>

(* DelInboundClientByEmail likewise.  A client that another inbound lists  *)
(* keeps its statistics, and the node is not told.                         *)
ReadToRemove(r) ==
    LET c == ask[r].who
    IN  /\ job[r].pc = "next" /\ ask[r].does \in {"delete", "detach"}
        /\ \E i \in job[r].todo :
              LET shared == \E j \in Others(i) : c \in listed[j]
                  wipe == ask[r].does = "delete" /\ ~shared /\ usage[c] # NoRow
              IN  /\ ~Locked(i)
                  /\ \/ /\ c \notin listed[i]
                        /\ job' = [job EXCEPT ![r].todo = @ \ {i}]
                        /\ UNCHANGED tally
                     \/ /\ c \in listed[i]
                        /\ job' = [job EXCEPT ![r] =
                                     [@ EXCEPT !.pc = IF shared THEN "write" ELSE "push",
                                               !.at = i, !.refused = FALSE,
                                               !.list = (listed[i] \ {c}) \cap records]]
                        /\ usage' = IF wipe THEN [usage EXCEPT ![c] = NoRow] ELSE usage
                        /\ base' = IF wipe THEN [base EXCEPT ![c] = NoRow] ELSE base
                        /\ cleared' = IF wipe THEN [cleared EXCEPT ![c] = 0] ELSE cleared
        /\ UNCHANGED <<panel, tombs, dirty, online, node, ask, units, pass, faults, carried, owed>>

(* nodePushPlan and the call.  A call that fails may have been applied.    *)
Push(r) ==
    LET c == ask[r].who
        i == job[r].at
        Call == IF ask[r].does = "add" THEN NodeAdds(i, c) ELSE NodeDetaches(i, c)
        Told(refused) == job' = [job EXCEPT ![r] = [@ EXCEPT !.pc = "write", !.refused = refused]]
    IN  /\ job[r].pc = "push"
        /\ \/ online /\ Call /\ Told(FALSE) /\ UNCHANGED faults
           \/ /\ online /\ faults < MaxFaults /\ faults' = faults + 1
              /\ Call \/ UNCHANGED node
              /\ Told(TRUE)
           \/ ~online /\ Told(TRUE) /\ UNCHANGED <<node, faults>>
        /\ owed' = StillOwed
        /\ UNCHANGED <<panel, tally, tombs, dirty, online, ask, units, pass, carried>>

(* The settings are saved and SyncInbound makes records and links agree    *)
(* with them; an addition makes the statistics in the same transaction.    *)
Write(r) ==
    LET c == ask[r].who
        i == job[r].at
    IN  /\ job[r].pc = "write"
        /\ listed' = [listed EXCEPT ![i] = job[r].list]
        /\ links' = [links EXCEPT ![i] = job[r].list]
        /\ records' = records \cup job[r].list
        /\ usage' = IF ask[r].does = "add" THEN WithRows(usage, i, {c}) ELSE usage
        /\ job' = [job EXCEPT ![r] = [@ EXCEPT !.pc = IF job[r].refused THEN "mark" ELSE "next",
                                               !.todo = job[r].todo \ {i}]]
        /\ owed' = {o \in owed : ~(o.at = i /\ o.who = c)}
        /\ UNCHANGED <<base, cleared, tombs, dirty, online, node, ask, units, pass, faults, carried>>

(* MarkNodeDirty after the commit, still under the lock.  The edit is owed *)
(* to the node from here on, unless a merge that has looked at the mark    *)
(* already goes past it or the client it added has been deleted meanwhile. *)
Mark(r) ==
    LET edit == [at |-> job[r].at, who |-> ask[r].who, want |-> ask[r].does = "add"]
        overtaken == pass.pc = "merge" /\ ~pass.dirty
        stands == IF edit.want THEN edit.who \in listed[edit.at] \cap records
                               ELSE edit.who \notin listed[edit.at]
        waits == (edit.who \in held[edit.at]) # edit.want
    IN  /\ job[r].pc = "mark"
        /\ dirty' = [mark |-> TRUE, at |-> dirty.at + 1]
        /\ job' = [job EXCEPT ![r].pc = "next"]
        /\ owed' = IF waits /\ stands /\ ~overtaken THEN owed \cup {edit} ELSE owed
        /\ UNCHANGED <<panel, tally, tombs, online, node, ask, units, pass, faults, carried>>

(* The inbounds are done: Delete removes what is left of the client.       *)
Finish(r) ==
    LET c == ask[r].who
        remove == ask[r].does = "delete"
    IN  /\ job[r].pc = "next" /\ job[r].todo = {}
        /\ job' = [job EXCEPT ![r] = [Fresh EXCEPT !.pc = "done"]]
        /\ links' = IF remove THEN [i \in Inbound |-> links[i] \ {c}] ELSE links
        /\ records' = IF remove THEN records \ {c} ELSE records
        /\ usage' = IF remove THEN [usage EXCEPT ![c] = NoRow] ELSE usage
        /\ cleared' = IF remove THEN [cleared EXCEPT ![c] = 0] ELSE cleared
        /\ owed' = IF remove THEN {o \in owed : o.who # c} ELSE owed
        /\ UNCHANGED <<listed, base, tombs, dirty, online, node, ask, units, pass, faults, carried>>

(* resetClientTrafficLocked, one closure of the traffic writer.  The       *)
(* baseline stays; whether the node was reached is only logged.            *)
Reset(r) ==
    LET c == ask[r].who
        zero == meter' = [meter EXCEPT ![c] = IF @ = NoRow THEN @ ELSE [@ EXCEPT !.up = 0]]
    IN  /\ job[r].pc = "new" /\ ask[r].does = "reset"
        /\ job' = [job EXCEPT ![r].pc = "done"]
        /\ \/ usage[c] = NoRow /\ UNCHANGED <<usage, cleared, meter, faults>>
           \/ /\ usage[c] # NoRow
              /\ usage' = [usage EXCEPT ![c].up = 0]
              /\ cleared' = [cleared EXCEPT ![c] = @ + usage[c].up]
              /\ \/ zero /\ UNCHANGED faults
                 \/ CallFails /\ (zero \/ UNCHANGED meter)
        /\ UNCHANGED <<panel, base, tombs, dirty, online, held, ask, units, pass, carried, owed>>
-----------------------------------------------------------------------------
(* A pass of the job: syncOne.                                             *)

(* Nodes are loaded with their status and their mark.                      *)
Begin ==
    /\ pass.pc = "idle" /\ online
    /\ pass' = IF dirty.mark THEN [pc |-> "plan", at |-> dirty.at] ELSE [pc |-> "fetch"]
    /\ UNCHANGED <<panel, tally, tombs, dirty, online, node, request, faults, carried, owed>>

(* ReconcileNode reads the inbounds once ...                               *)
Plan ==
    /\ pass.pc = "plan"
    /\ pass' = [pc |-> "reconcile", at |-> pass.at, plan |-> listed, left |-> Inbound]
    /\ UNCHANGED <<panel, tally, tombs, dirty, online, node, request, faults, carried, owed>>

(* ... and updates them one by one; at an error the pass is over.          *)
Reconcile ==
    /\ pass.pc = "reconcile"
    /\ \E i \in pass.left :
          \/ /\ NodeStores(i, pass.plan[i])
             /\ pass' = [pass EXCEPT !.left = @ \ {i}]
             /\ UNCHANGED faults
          \/ /\ CallFails
             /\ NodeStores(i, pass.plan[i]) \/ UNCHANGED node
             /\ pass' = Idle
    /\ owed' = StillOwed
    /\ UNCHANGED <<panel, tally, tombs, dirty, online, request, carried>>

(* Mutated: without the condition on config_dirty_at.                      *)
ClearAnyMark ==
    /\ pass.pc = "reconcile" /\ pass.left = {}
    /\ dirty' = [dirty EXCEPT !.mark = FALSE]
    /\ pass' = [pc |-> "fetch"]
    /\ UNCHANGED <<panel, tally, tombs, online, node, request, faults, carried, owed>>

(* ClearNodeDirty: only the mark that the pass began with.                 *)
ClearNodeDirty ==
    /\ pass.pc = "reconcile" /\ pass.left = {}
    /\ dirty' = [dirty EXCEPT !.mark = @ /\ dirty.at # pass.at]
    /\ pass' = [pc |-> "fetch"]
    /\ UNCHANGED <<panel, tally, tombs, online, node, request, faults, carried, owed>>

(* FetchTrafficSnapshot: the node's lists, and with each inbound the rows  *)
(* of those it lists and of those whose row was made there.                *)
Fetch ==
    /\ pass.pc = "fetch"
    /\ \/ /\ pass' = [pc |-> "look", held |-> held, meter |-> meter,
                      reported |-> [i \in Inbound |->
                          {c \in Client : meter[c] # NoRow /\ (c \in held[i] \/ meter[c].home = i)}]]
          /\ UNCHANGED faults
       \/ CallFails /\ pass' = Idle
    /\ UNCHANGED <<panel, tally, tombs, dirty, online, node, request, carried, owed>>

(* NodeSyncState, after the snapshot was taken.                            *)
Look ==
    /\ pass.pc = "look"
    /\ pass' = [pc |-> "merge", dirty |-> dirty.mark, held |-> pass.held,
                meter |-> pass.meter, reported |-> pass.reported]
    /\ UNCHANGED <<panel, tally, tombs, dirty, online, node, request, faults, carried, owed>>

(* What is new on a counter; below its baseline it began again at zero.    *)
Since(canon, was) == IF was = NoRow THEN 0
                     ELSE IF canon >= was THEN canon - was ELSE canon

(* Mutated: the baseline is not moved on for the client's next inbound.    *)
TallyOnce(c, i, t) ==
    LET canon == pass.meter[c].up
    IN  IF t.row # NoRow
        THEN [row |-> [t.row EXCEPT !.up = @ + Since(canon, base[c])], base |-> canon]
        ELSE IF pass.dirty THEN t ELSE [row |-> [up |-> canon, home |-> i], base |-> canon]

(* One report of a client: a row that is missing is made from the node's,  *)
(* unless the node is dirty.                                               *)
Tally(c, i, t) ==
    LET canon == pass.meter[c].up
    IN  IF t.row # NoRow
        THEN [row |-> [t.row EXCEPT !.up = @ + Since(canon, t.base)], base |-> canon]
        ELSE IF pass.dirty THEN t ELSE [row |-> [up |-> canon, home |-> i], base |-> canon]

(* All inbounds that report it, one after the other by id.                 *)
Reports(c) == {i \in Inbound : c \in pass.reported[i]}

Counted(c) == LET Again(i, t) == Tally(c, i, t)
                  Itself(i)   == i
              IN  MapThenFoldSet(Again, [row |-> usage[c], base |-> base[c]],
                                 Itself, Max, Reports(c))

(* Mutated: the settings column is left out of what a clean node's inbound *)
(* is updated with.                                                        *)
MergeWithoutSettings ==
    LET linked == [i \in Inbound |-> pass.held[i] \ tombs]
        now    == UNION {linked[i] : i \in Inbound}
        gone   == UNION {links[i] : i \in Inbound} \ now
    IN  /\ links' = linked
        /\ records' = (records \cup now) \ gone
        /\ usage' = [c \in Client |-> IF c \in gone THEN NoRow ELSE Counted(c).row]
        /\ base' = [c \in Client |-> IF c \in gone THEN NoRow ELSE Counted(c).base]
        /\ cleared' = [c \in Client |-> IF c \in gone THEN 0 ELSE cleared[c]]
        /\ UNCHANGED listed

(* The lists of a clean node are the node's; SyncInbound leaves out those  *)
(* that were just deleted; a client that is left without inbounds goes     *)
(* with its record, and a row nobody reports any more goes too.            *)
MergeAll ==
    LET linked == [i \in Inbound |-> pass.held[i] \ tombs]
        now    == UNION {linked[i] : i \in Inbound}
        gone   == UNION {links[i] : i \in Inbound} \ now
        silent == {c \in Client : usage[c] # NoRow /\ \A i \in Inbound : c \notin pass.reported[i]}
        lost   == gone \cup {c \in silent : \A j \in Others(usage[c].home) : c \notin listed[j]}
    IN  /\ listed' = pass.held
        /\ links' = linked
        /\ records' = (records \cup now) \ gone
        /\ usage' = [c \in Client |-> IF c \in lost THEN NoRow ELSE Counted(c).row]
        /\ base' = [c \in Client |-> IF c \in gone \cup silent THEN NoRow ELSE Counted(c).base]
        /\ cleared' = [c \in Client |-> IF c \in lost THEN 0 ELSE cleared[c]]

(* With the mark only counters advance.                                    *)
MergeCounters ==
    /\ usage' = [c \in Client |-> Counted(c).row]
    /\ base' = [c \in Client |-> Counted(c).base]
    /\ UNCHANGED <<panel, cleared>>

(* setRemoteTrafficLocked, in the traffic writer.                          *)
Merge ==
    /\ pass.pc = "merge"
    /\ IF pass.dirty THEN MergeCounters ELSE MergeAll
    /\ pass' = Idle
    /\ UNCHANGED <<tombs, dirty, online, node, request, faults, carried, owed>>
-----------------------------------------------------------------------------
(* The node counts what its clients carry.                                 *)
Carry(c) ==
    /\ carried[c] < units
    /\ meter[c] # NoRow /\ \E i \in Inbound : c \in held[i]
    /\ meter' = [meter EXCEPT ![c].up = @ + 1]
    /\ carried' = [carried EXCEPT ![c] = @ + 1]
    /\ UNCHANGED <<panel, tally, tombs, dirty, online, held, request, pass, faults, owed>>

(* The heartbeat job finds the node away, or back.                         *)
Heartbeat ==
    /\ \/ online /\ faults < MaxFaults /\ faults' = faults + 1
       \/ ~online /\ UNCHANGED faults
    /\ online' = ~online
    /\ UNCHANGED <<panel, tally, tombs, dirty, node, request, pass, carried, owed>>

(* deleteTombstoneTTL has passed.                                          *)
Expire(c) ==
    /\ c \in tombs
    /\ tombs' = tombs \ {c}
    /\ UNCHANGED <<panel, tally, dirty, online, node, request, pass, faults, carried, owed>>

Continue(r) == \/ ReadToAdd(r) \/ ReadToRemove(r) \/ Push(r)
               \/ Write(r) \/ Mark(r) \/ Finish(r)

Pass == Begin \/ Plan \/ Reconcile \/ ClearNodeDirty \/ Fetch \/ Look \/ Merge

Next == \/ \E r \in Request : Start(r) \/ Reset(r) \/ Continue(r)
        \/ Pass
        \/ \E c \in Client : Carry(c) \/ Expire(c)
        \/ Heartbeat

Spec == Init /\ [][Next]_vars

(* A request goes on, the cron job passes again and again, the heartbeat   *)
(* finds a node that is back, and 90 seconds pass.                         *)
FairSpec == /\ Spec
            /\ \A r \in Request : WF_vars(Continue(r))
            /\ WF_vars(Pass)
            /\ WF_vars(~online /\ Heartbeat)
            /\ \A c \in Client : WF_vars(Expire(c))
-----------------------------------------------------------------------------
(* What is owed to the node, an edit that was marked and has not reached   *)
(* it, stays in the panel's lists and keeps the node dirty: neither a      *)
(* merge of an older snapshot nor the end of a pass that did not carry it  *)
(* (ClearNodeDirty's compare-and-swap) makes the panel forget it.          *)
MarkedUntilDelivered ==
    /\ owed # {} => dirty.mark
    /\ \A o \in owed : (o.who \in listed[o.at]) = o.want

(* Traffic is counted once: what stands in client_traffics and what resets *)
(* put aside never exceeds what the node carried, although a client is     *)
(* reported with several inbounds, counters begin again, rows come and go, *)
(* and snapshots are older than the baselines' resets.                     *)
CountedOnce ==
    \A c \in Client : usage[c] # NoRow => usage[c].up + cleared[c] <= carried[c]

(* However edits, passes and failures met, the panel and the node agree    *)
(* for good in the end, and the links agree with the lists.                *)
Converges == <>[](listed = held /\ links = held)
=============================================================================
