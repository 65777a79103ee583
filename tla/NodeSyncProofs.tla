---------------------------- MODULE NodeSyncProofs ----------------------------
(***************************************************************************)
(* MarkedUntilDelivered and CountedOnce for every finite set of inbounds   *)
(* and every set of clients and requests, any stories, and any number of   *)
(* failures.                                                               *)
(* What the first takes beyond itself: of the edits that write one         *)
(* inbound's list only one holds its lock, and the list it is about to     *)
(* write keeps what others are owed (ListInv); a pass that may clear the   *)
(* mark carries, with the inbounds it has not yet updated, all that is     *)
(* owed (PassInv); and a merge that overwrites the lists began when        *)
(* nothing was.                                                            *)
(* What the second takes: the traffic beyond the baseline is covered too,  *)
(* and with a snapshot at hand what it shows beyond the baseline together  *)
(* with what the node counted since (CountInv); and that a client several  *)
(* inbounds report is counted as if one had (CountedTells), by induction   *)
(* over the reports.                                                       *)
(***************************************************************************)
EXTENDS NodeSync, FiniteSetTheorems, TLAPS

Lists == [Inbound -> SUBSET Client]
Row   == [pc : {"new", "next", "push", "write", "mark", "done"}, todo : SUBSET Inbound,
          at : Inbound \cup {0}, list : SUBSET Client, refused : BOOLEAN]

PassShape ==
    /\ pass.pc = "plan" => pass.at \in Nat
    /\ pass.pc = "reconcile" =>
          pass \in [pc : {"reconcile"}, at : Nat, plan : Lists, left : SUBSET Inbound]
    /\ pass.pc \in {"look", "merge"} => pass.held \in Lists
    /\ pass.pc = "merge" => pass.dirty \in BOOLEAN

ShapeInv ==
    /\ listed \in Lists /\ held \in Lists
    /\ ask \in [Request -> Ask] /\ job \in [Request -> Row]
    /\ dirty \in [mark : BOOLEAN, at : Nat]
    /\ owed \subseteq [at : Inbound, who : Client, want : BOOLEAN]
    /\ PassShape

Writes(r) == job[r].pc \in {"push", "write"}
Holds(r)  == job[r].pc \in {"push", "write", "mark"}
Kept(o, list) == (o.who \in list) = o.want

LockInv ==
    /\ \A r \in Request : Holds(r) => job[r].at \in Inbound
    /\ \A r, q \in Request : r # q /\ Holds(r) /\ Holds(q) => job[r].at # job[q].at

ListInv ==
    \A r \in Request : Writes(r) =>
        \A o \in owed : o.at = job[r].at /\ o.who # ask[r].who => Kept(o, job[r].list)

OwedInv == \A o \in owed : Kept(o, listed[o.at]) /\ (o.want => o.who \in records)
MarkInv == owed # {} => dirty.mark

PassInv ==
    /\ pass.pc \in {"plan", "reconcile"} => pass.at <= dirty.at
    /\ pass.pc = "reconcile" /\ pass.at = dirty.at =>
          \A o \in owed : o.at \in pass.left /\ Kept(o, pass.plan[o.at])
    /\ pass.pc = "merge" /\ ~pass.dirty => owed = {}

EditInv == LockInv /\ ListInv
NInv == ShapeInv /\ EditInv /\ OwedInv /\ MarkInv /\ PassInv

-----------------------------------------------------------------------------
LEMMA InitNodeSync == Init => NInv
  <1> SUFFICES ASSUME Init
               PROVE  NInv
    OBVIOUS
  <1>1. /\ owed = {} /\ pass = Idle /\ dirty = [mark |-> FALSE, at |-> 0]
        /\ job = [r \in Request |-> [Fresh EXCEPT !.pc = "new"]]
    BY DEF Init
  <1>2. listed \in Lists /\ held \in Lists /\ ask \in [Request -> Ask]
    BY NodeSyncAssumption DEF Init, Lists
  <1>3. \A r \in Request : job[r] \in Row /\ job[r].pc = "new"
    BY <1>1 DEF Fresh, Row
  <1>4. ShapeInv
    BY <1>1, <1>2, <1>3 DEF ShapeInv, PassShape, Idle
  <1>5. EditInv /\ OwedInv /\ MarkInv /\ PassInv
    BY <1>1, <1>3 DEF EditInv, LockInv, ListInv, OwedInv, MarkInv, PassInv, Idle, Writes, Holds
  <1>6. QED
    BY <1>4, <1>5 DEF NInv

(* Steps that leave the lists, the mark and the pass as they are, take no  *)
(* lock and owe nothing new.                                               *)
LEMMA Quiet ==
    ASSUME NInv, UNCHANGED <<listed, dirty, ask, pass>>, held' \in Lists,
           job' \in [Request -> Row], owed' \subseteq owed,
           \A o \in owed' : o.want => o.who \in records',
           \A r \in Request : /\ Holds(r)' => Holds(r) /\ job'[r].at = job[r].at
                              /\ Writes(r)' => Writes(r) /\ job'[r].list = job[r].list
    PROVE  NInv'
  <1>1. ShapeInv'
    BY DEF NInv, ShapeInv, PassShape
  <1>2. EditInv'
    BY DEF NInv, EditInv, LockInv, ListInv, Holds, Writes, Kept
  <1>3. OwedInv' /\ MarkInv'
    BY DEF NInv, OwedInv, MarkInv, Kept
  <1>4. PassInv'
    BY DEF NInv, PassInv, Kept
  <1>5. QED
    BY <1>1, <1>2, <1>3, <1>4 DEF NInv

LEMMA QuietSteps ==
    ASSUME NInv, \/ \E r \in Request : Start(r) \/ Reset(r) \/ Push(r) \/ Finish(r)
                 \/ \E c \in Client : Carry(c) \/ Expire(c)
                 \/ Heartbeat \/ UNCHANGED vars
    PROVE  NInv'
  <1>1. ASSUME NEW r \in Request, Start(r)
        PROVE  NInv'
    <2>1. /\ \A todo \in SUBSET Inbound : [Fresh EXCEPT !.todo = todo] \in Row
          /\ [Fresh EXCEPT !.pc = "done"] \in Row
          /\ ask[r].on \in SUBSET Inbound /\ Linked(ask[r].who) \in SUBSET Inbound
      BY DEF NInv, ShapeInv, Fresh, Row, Ask, Linked
    <2>2. \/ \E todo \in SUBSET Inbound : job' = [job EXCEPT ![r] = [Fresh EXCEPT !.todo = todo]]
          \/ job' = [job EXCEPT ![r] = [Fresh EXCEPT !.pc = "done"]]
      <3>1. \/ job' = [job EXCEPT ![r] = [Fresh EXCEPT !.todo = ask[r].on \ Linked(ask[r].who)]]
            \/ job' = [job EXCEPT ![r] = [Fresh EXCEPT !.todo = Linked(ask[r].who)]]
            \/ job' = [job EXCEPT ![r] = [Fresh EXCEPT !.todo = ask[r].on \cap Linked(ask[r].who)]]
            \/ job' = [job EXCEPT ![r] = [Fresh EXCEPT !.pc = "done"]]
        BY <1>1 DEF Start
      <3>2. QED
        BY <2>1, <3>1
    <2>3. /\ job' \in [Request -> Row] /\ job'[r].pc \in {"next", "done"}
          /\ \A q \in Request : q # r => job'[q] = job[q]
      BY <2>1, <2>2 DEF NInv, ShapeInv, Fresh
    <2>4. UNCHANGED <<listed, dirty, ask, pass, held, owed, records>>
      BY <1>1 DEF Start, panel, node
    <2>5. \A q \in Request : /\ Holds(q)' => Holds(q) /\ job'[q].at = job[q].at
                             /\ Writes(q)' => Writes(q) /\ job'[q].list = job[q].list
      BY <2>3 DEF Holds, Writes
    <2>6. held' \in Lists /\ \A o \in owed : o.want => o.who \in records'
      BY <2>4 DEF NInv, ShapeInv, OwedInv
    <2>7. QED
      BY <2>3, <2>4, <2>5, <2>6, Quiet
  <1>2. ASSUME NEW r \in Request, Reset(r)
        PROVE  NInv'
    <2>1. /\ job' = [job EXCEPT ![r].pc = "done"]
          /\ UNCHANGED <<listed, dirty, ask, pass, held, owed, records>>
      BY <1>2 DEF Reset, panel
    <2>2. job' \in [Request -> Row]
      BY <2>1 DEF NInv, ShapeInv, Row
    <2>3. \A q \in Request : /\ Holds(q)' => Holds(q) /\ job'[q].at = job[q].at
                             /\ Writes(q)' => Writes(q) /\ job'[q].list = job[q].list
      BY <2>1 DEF NInv, ShapeInv, Row, Holds, Writes
    <2>4. held' \in Lists /\ \A o \in owed : o.want => o.who \in records'
      BY <2>1 DEF NInv, ShapeInv, OwedInv
    <2>5. QED
      BY <2>1, <2>2, <2>3, <2>4, Quiet
  <1>3. ASSUME NEW r \in Request, Push(r)
        PROVE  NInv'
    <2>1. owed' \subseteq owed
      BY <1>3 DEF Push, StillOwed
    <2>2. /\ job' \in [Request -> Row] /\ Writes(r) /\ Holds(r)
          /\ job'[r].at = job[r].at /\ job'[r].list = job[r].list
          /\ \A q \in Request : q # r => job'[q] = job[q]
      <3>1. PICK b \in BOOLEAN :
               job' = [job EXCEPT ![r] = [@ EXCEPT !.pc = "write", !.refused = b]]
        BY <1>3 DEF Push
      <3>2. /\ job[r] \in Row /\ job[r].pc = "push"
            /\ job \in [Request -> Row]
        BY <1>3 DEF NInv, ShapeInv, Push
      <3> DEFINE row == [job[r] EXCEPT !.pc = "write", !.refused = b]
      <3>3. row \in Row /\ row.at = job[r].at /\ row.list = job[r].list
        BY <3>2 DEF Row
      <3>4. job' = [job EXCEPT ![r] = row]
        BY <3>1
      <3> HIDE DEF row
      <3>5. QED
        BY <3>2, <3>3, <3>4 DEF Writes, Holds
    <2>3. held' \in Lists
      <3>1. \/ held' = [held EXCEPT ![job[r].at] = @ \cup {ask[r].who}]
            \/ held' = [held EXCEPT ![job[r].at] = @ \ {ask[r].who}]
            \/ held' = held
        BY <1>3 DEF Push, NodeAdds, NodeDetaches, node
      <3>2. job[r].at \in Inbound /\ ask[r].who \in Client
        BY <2>2 DEF NInv, ShapeInv, EditInv, LockInv, Ask
      <3>3. QED
        BY <3>1, <3>2 DEF NInv, ShapeInv, Lists
    <2>4. QED
      BY <1>3, <2>1, <2>2, <2>3, Quiet
      DEF NInv, ShapeInv, OwedInv, Push, panel, Holds, Writes
  <1>4. ASSUME NEW r \in Request, Finish(r)
        PROVE  NInv'
    <2>1. owed' \subseteq owed /\ \A o \in owed' : o.want => o.who \in records'
      BY <1>4 DEF NInv, OwedInv, Finish
    <2>2. /\ job' \in [Request -> Row] /\ job'[r].pc = "done"
          /\ \A q \in Request : q # r => job'[q] = job[q]
      BY <1>4 DEF NInv, ShapeInv, Finish, Fresh, Row
    <2>3. QED
      BY <1>4, <2>1, <2>2, Quiet
      DEF NInv, ShapeInv, Finish, node, Holds, Writes
  <1>5. CASE (\E c \in Client : Carry(c) \/ Expire(c)) \/ Heartbeat \/ UNCHANGED vars
    <2>1. UNCHANGED <<listed, records, dirty, ask, pass, held, job, owed>>
      BY <1>5 DEF Carry, Expire, Heartbeat, vars, panel, node, request
    <2>2. QED
      BY <2>1, Quiet DEF NInv, ShapeInv, OwedInv, Holds, Writes
  <1>6. QED
    BY <1>1, <1>2, <1>3, <1>4, <1>5

-----------------------------------------------------------------------------
(* Taking the lock: nobody else is at this inbound, and what is owed there *)
(* is in the list that is read, or out of it.                              *)
LEMMA LockSteps ==
    ASSUME NInv, NEW r \in Request, ReadToAdd(r) \/ ReadToRemove(r)
    PROVE  NInv'
  <1>1. UNCHANGED <<listed, records, dirty, ask, pass, held, owed>>
    BY DEF ReadToAdd, ReadToRemove, panel, node
  <1>2. ~Holds(r) /\ job \in [Request -> Row] /\ ask[r].who \in Client
    BY DEF NInv, ShapeInv, Holds, ReadToAdd, ReadToRemove, Ask
  <1>3. CASE job' \in [Request -> Row] /\ ~Holds(r)' /\ \A q \in Request : q # r => job'[q] = job[q]
    BY <1>1, <1>3, Quiet DEF NInv, ShapeInv, OwedInv, Holds, Writes
  <1>4. ASSUME NEW i \in Inbound, ~Locked(i), NEW list \in SUBSET Client, NEW at \in {"push", "write"},
               job' = [job EXCEPT ![r] = [@ EXCEPT !.pc = at, !.at = i, !.refused = FALSE,
                                                   !.list = list]],
               \A c \in Client : c # ask[r].who => (c \in list <=> c \in listed[i] \cap records)
        PROVE  NInv'
    <2>1. /\ job' \in [Request -> Row] /\ \A q \in Request : q # r => job'[q] = job[q]
          /\ job'[r].at = i /\ job'[r].list = list /\ job'[r].pc \in {"push", "write"}
      BY <1>2, <1>4 DEF Row
    <2>2. ShapeInv'
      BY <1>1, <2>1 DEF NInv, ShapeInv, PassShape
    <2>3. LockInv'
      BY <1>4, <2>1 DEF NInv, EditInv, LockInv, Locked, Holds
    <2>4. ListInv'
      <3>1. \A o \in owed : o.at = i /\ o.who # ask[r].who => Kept(o, list)
        BY <1>4 DEF NInv, ShapeInv, OwedInv, Kept
      <3>2. QED
        BY <1>1, <2>1, <3>1 DEF NInv, EditInv, ListInv, Writes, Kept
    <2>5. OwedInv' /\ MarkInv' /\ PassInv'
      BY <1>1 DEF NInv, OwedInv, MarkInv, PassInv, Kept
    <2>6. QED
      BY <2>2, <2>3, <2>4, <2>5 DEF NInv, EditInv
  <1>5. CASE ReadToAdd(r)
    <2>1. PICK i \in job[r].todo :
             /\ ~Locked(i)
             /\ job' = [job EXCEPT ![r] =
                          [@ EXCEPT !.pc = "push", !.at = i, !.refused = FALSE,
                                    !.list = (listed[i] \cap records) \cup {ask[r].who}]]
      BY <1>5 DEF ReadToAdd
    <2>2. i \in Inbound /\ (listed[i] \cap records) \cup {ask[r].who} \in SUBSET Client
      BY <1>2 DEF NInv, ShapeInv, Lists, Row
    <2>3. QED
      BY <1>4, <2>1, <2>2
  <1>6. CASE ReadToRemove(r)
    <2>1. PICK i \in job[r].todo :
             /\ ~Locked(i)
             /\ \/ job' = [job EXCEPT ![r].todo = @ \ {i}]
                \/ \E at \in {"push", "write"} :
                      job' = [job EXCEPT ![r] =
                                [@ EXCEPT !.pc = at, !.at = i, !.refused = FALSE,
                                          !.list = (listed[i] \ {ask[r].who}) \cap records]]
      BY <1>6 DEF ReadToRemove
    <2>2. i \in Inbound /\ (listed[i] \ {ask[r].who}) \cap records \in SUBSET Client
      BY <1>2 DEF NInv, ShapeInv, Lists, Row
    <2>3. CASE job' = [job EXCEPT ![r].todo = @ \ {i}]
      BY <1>2, <1>3, <2>3 DEF Row, Holds
    <2>4. ASSUME NEW at \in {"push", "write"},
                 job' = [job EXCEPT ![r] = [@ EXCEPT !.pc = at, !.at = i, !.refused = FALSE,
                                           !.list = (listed[i] \ {ask[r].who}) \cap records]]
          PROVE  NInv'
      <3> DEFINE list == (listed[i] \ {ask[r].who}) \cap records
      <3>1. \A c \in Client : c # ask[r].who => (c \in list <=> c \in listed[i] \cap records)
        OBVIOUS
      <3> HIDE DEF list
      <3>2. QED
        BY <1>4, <2>1, <2>2, <2>4, <3>1 DEF list
    <2>5. QED
      BY <2>1, <2>3, <2>4
  <1>7. QED
    BY <1>5, <1>6

(* Writing the list settles what this client was owed there, for better or *)
(* worse, and keeps what the others are.                                   *)
LEMMA WriteSteps ==
    ASSUME NInv, NEW r \in Request, Write(r)
    PROVE  NInv'
  <1> DEFINE i == job[r].at
             c == ask[r].who
  <1>1. /\ job \in [Request -> Row] /\ i \in Inbound /\ job[r].list \in SUBSET Client
        /\ Writes(r) /\ Holds(r)
    BY DEF NInv, ShapeInv, EditInv, LockInv, Write, Writes, Holds, Row
  <1>2. /\ listed' = [listed EXCEPT ![i] = job[r].list]
        /\ owed' = {o \in owed : ~(o.at = i /\ o.who = c)}
        /\ records \subseteq records'
        /\ UNCHANGED <<dirty, ask, pass, held>>
    BY DEF Write, node
  <1>3. /\ job' \in [Request -> Row] /\ job'[r].at = i /\ job'[r].pc \in {"mark", "next"}
        /\ \A q \in Request : q # r => job'[q] = job[q]
    <2>1. PICK to \in {"mark", "next"} :
             job' = [job EXCEPT ![r] = [@ EXCEPT !.pc = to, !.todo = job[r].todo \ {job[r].at}]]
      BY DEF Write
    <2>2. [job[r] EXCEPT !.pc = to, !.todo = job[r].todo \ {job[r].at}] \in Row
      BY <1>1 DEF Row
    <2>3. job' \in [Request -> Row] /\ \A q \in Request : q # r => job'[q] = job[q]
      BY <1>1, <2>1, <2>2
    <2>4. job'[r].at = job[r].at /\ job'[r].pc = to
      BY <1>1, <2>1 DEF Row
    <2>5. QED
      BY <2>3, <2>4
  <1>4. ShapeInv'
    <2>1. listed' \in Lists
      BY <1>1, <1>2 DEF NInv, ShapeInv, Lists
    <2>2. QED
      BY <1>2, <1>3, <2>1 DEF NInv, ShapeInv, PassShape
  <1>5. LockInv'
    BY <1>1, <1>3 DEF NInv, EditInv, LockInv, Holds
  <1>6. ListInv'
    BY <1>2, <1>3 DEF NInv, EditInv, ListInv, Writes, Kept
  <1>7. OwedInv'
    <2>1. \A o \in owed' : Kept(o, listed'[o.at])
      <3> SUFFICES ASSUME NEW o \in owed'
                   PROVE  Kept(o, listed'[o.at])
        OBVIOUS
      <3>1. o \in owed /\ o.at \in Inbound
        BY <1>2 DEF NInv, ShapeInv
      <3>2. CASE o.at = i
        BY <1>1, <1>2, <3>1, <3>2 DEF NInv, ShapeInv, EditInv, ListInv, Lists, Kept
      <3>3. CASE o.at # i
        BY <1>1, <1>2, <3>1, <3>3 DEF NInv, ShapeInv, OwedInv, Lists, Kept
      <3>4. QED
        BY <3>2, <3>3
    <2>2. QED
      BY <1>2, <2>1 DEF NInv, OwedInv, Kept
  <1>8. MarkInv' /\ PassInv'
    BY <1>2 DEF NInv, MarkInv, PassInv, Kept
  <1>9. QED
    BY <1>4, <1>5, <1>6, <1>7, <1>8 DEF NInv, EditInv

(* What is owed from here on is what the lists say; no pass that is under  *)
(* way can clear this mark, and no merge that ignores it is under way.     *)
LEMMA MarkSteps ==
    ASSUME NInv, NEW r \in Request, Mark(r)
    PROVE  NInv'
  <1> DEFINE edit == [at |-> job[r].at, who |-> ask[r].who, want |-> ask[r].does = "add"]
  <1>1. /\ job \in [Request -> Row] /\ Holds(r) /\ ask[r] \in Ask
        /\ UNCHANGED <<listed, records, ask, pass, held>>
    BY DEF NInv, ShapeInv, Mark, Holds, panel, node
  <1>2. /\ dirty' = [mark |-> TRUE, at |-> dirty.at + 1] /\ dirty.at \in Nat
        /\ job' \in [Request -> Row] /\ job'[r].pc = "next"
        /\ \A q \in Request : q # r => job'[q] = job[q]
    BY <1>1 DEF NInv, ShapeInv, Mark, Row
  <1>3. \/ owed' = owed
        \/ /\ owed' = owed \cup {edit}
           /\ ~(pass.pc = "merge" /\ ~pass.dirty)
           /\ Kept(edit, listed[edit.at])
           /\ edit.want => edit.who \in records
    <2>1. \/ owed' = owed
          \/ /\ owed' = owed \cup {edit}
             /\ ~(pass.pc = "merge" /\ ~pass.dirty)
             /\ IF edit.want THEN edit.who \in listed[edit.at] \cap records
                             ELSE edit.who \notin listed[edit.at]
      BY DEF Mark
    <2>2. edit.want \in BOOLEAN /\ (edit.who \in listed[edit.at]) \in BOOLEAN
      OBVIOUS
    <2>3. CASE edit.want = TRUE
      BY <2>1, <2>3 DEF Kept
    <2>4. CASE edit.want = FALSE
      <3>1. CASE owed' = owed
        BY <3>1
      <3>2. CASE /\ owed' = owed \cup {edit}
                 /\ ~(pass.pc = "merge" /\ ~pass.dirty)
                 /\ edit.who \notin listed[edit.at]
        <4> HIDE DEF edit
        <4>1. (edit.who \in listed[edit.at]) = FALSE
          BY <3>2
        <4>2. QED
          BY <2>4, <3>2, <4>1 DEF Kept
      <3>3. QED
        BY <2>1, <2>4, <3>1, <3>2
    <2>5. QED
      BY <2>2, <2>3, <2>4
  <1>4. edit \in [at : Inbound \cup {0}, who : Client, want : BOOLEAN]
    BY <1>1 DEF Row, Ask
  <1>5. ShapeInv'
    <2>1. edit.at \in Inbound
      BY <1>1 DEF NInv, EditInv, LockInv
    <2>2. owed' \subseteq [at : Inbound, who : Client, want : BOOLEAN]
      BY <1>3, <1>4, <2>1 DEF NInv, ShapeInv
    <2>3. dirty' \in [mark : BOOLEAN, at : Nat]
      BY <1>2
    <2>4. QED
      BY <1>1, <1>2, <2>2, <2>3 DEF NInv, ShapeInv, PassShape
  <1>6. EditInv'
    <2>1. LockInv'
      BY <1>2 DEF NInv, EditInv, LockInv, Holds
    <2>2. ListInv'
      <3> SUFFICES ASSUME NEW q \in Request, Writes(q)', NEW o \in owed',
                          o.at = job'[q].at, o.who # ask'[q].who
                   PROVE  Kept(o, job'[q].list)
        BY DEF ListInv, Kept
      <3>1. q # r /\ job'[q] = job[q] /\ Writes(q) /\ Holds(q)
        BY <1>2 DEF Writes, Holds
      <3>2. o # edit
        BY <1>1, <3>1 DEF NInv, EditInv, LockInv
      <3>3. QED
        BY <1>1, <1>3, <3>1, <3>2 DEF NInv, EditInv, ListInv, Kept
    <2>3. QED
      BY <2>1, <2>2 DEF EditInv
  <1>7. OwedInv' /\ MarkInv'
    BY <1>1, <1>2, <1>3 DEF NInv, OwedInv, MarkInv, Kept
  <1>8. PassInv'
    <2>1. pass.pc \in {"plan", "reconcile"} => pass.at <= dirty.at /\ pass.at \in Nat
      BY DEF NInv, ShapeInv, PassShape, PassInv
    <2>2. QED
      BY <1>1, <1>2, <1>3, <2>1 DEF NInv, PassInv
  <1>9. QED
    BY <1>5, <1>6, <1>7, <1>8 DEF NInv

-----------------------------------------------------------------------------
(* The steps of a pass.                                                    *)
LEMMA PassSteps ==
    ASSUME NInv, Pass
    PROVE  NInv'
  <1>2. CASE Begin \/ Fetch \/ Look
    <2>1. UNCHANGED <<listed, records, ask, job, dirty, held, owed>>
      BY <1>2 DEF Begin, Fetch, Look, panel, node, request
    <2>2. EditInv' /\ OwedInv' /\ MarkInv'
      BY <2>1 DEF NInv, EditInv, LockInv, ListInv, OwedInv, MarkInv, Holds, Writes, Kept
    <2>3. PassShape' /\ PassInv'
      BY <1>2, <2>1
      DEF NInv, ShapeInv, PassShape, PassInv, MarkInv, Begin, Fetch, Look, Idle
    <2>4. QED
      BY <2>1, <2>2, <2>3 DEF NInv, ShapeInv
  <1>3. CASE Plan
    <2>1. /\ UNCHANGED <<listed, records, ask, job, dirty, held, owed>>
          /\ pass' = [pc |-> "reconcile", at |-> pass.at, plan |-> listed, left |-> Inbound]
          /\ pass.at \in Nat /\ pass.at <= dirty.at
      BY <1>3 DEF NInv, ShapeInv, PassShape, PassInv, Plan, panel, node, request
    <2>2. EditInv' /\ OwedInv' /\ MarkInv'
      BY <2>1 DEF NInv, EditInv, LockInv, ListInv, OwedInv, MarkInv, Holds, Writes, Kept
    <2>3. PassShape' /\ PassInv'
      BY <2>1 DEF NInv, ShapeInv, PassShape, PassInv, OwedInv, Kept
    <2>4. QED
      BY <2>1, <2>2, <2>3 DEF NInv, ShapeInv
  <1>4. CASE Reconcile
    <2>1. /\ UNCHANGED <<listed, records, ask, job, dirty>> /\ owed' = StillOwed
          /\ pass.pc = "reconcile"
          /\ pass \in [pc : {"reconcile"}, at : Nat, plan : Lists, left : SUBSET Inbound]
      BY <1>4 DEF NInv, ShapeInv, PassShape, Reconcile, panel, request
    <2>2. owed' \subseteq owed /\ owed' = {o \in owed : ~Kept(o, held'[o.at])}
      BY <2>1 DEF StillOwed, Kept
    <2>3. PICK i \in pass.left :
             \/ NodeStores(i, pass.plan[i]) /\ pass' = [pass EXCEPT !.left = @ \ {i}]
             \/ (NodeStores(i, pass.plan[i]) \/ UNCHANGED node) /\ pass' = Idle
      BY <1>4 DEF Reconcile
    <2>4. held' \in Lists /\ (NodeStores(i, pass.plan[i]) => held'[i] = pass.plan[i])
      BY <2>1, <2>3 DEF NInv, ShapeInv, NodeStores, node, Lists
    <2>5. EditInv' /\ OwedInv' /\ MarkInv'
      BY <2>1, <2>2 DEF NInv, EditInv, LockInv, ListInv, OwedInv, MarkInv, Holds, Writes, Kept
    <2>6. PassShape' /\ PassInv'
      <3>1. CASE pass' = Idle
        BY <3>1 DEF PassShape, PassInv, Idle
      <3>2. CASE NodeStores(i, pass.plan[i]) /\ pass' = [pass EXCEPT !.left = @ \ {i}]
        <4>1. /\ pass' \in [pc : {"reconcile"}, at : Nat, plan : Lists, left : SUBSET Inbound]
              /\ pass'.at = pass.at /\ pass'.plan = pass.plan /\ pass'.left = pass.left \ {i}
          BY <2>1, <3>2
        <4>2. pass.at = dirty.at => \A o \in owed' : o.at \in pass'.left /\ Kept(o, pass'.plan[o.at])
          BY <2>1, <2>2, <2>4, <3>2, <4>1 DEF NInv, PassInv
        <4>3. PassShape'
          BY <4>1 DEF PassShape
        <4>4. PassInv'
          BY <2>1, <4>1, <4>2 DEF NInv, PassInv, Kept
        <4>5. QED
          BY <4>3, <4>4
      <3>3. QED
        BY <2>3, <3>1, <3>2
    <2>7. ShapeInv'
      BY <2>1, <2>2, <2>4, <2>6 DEF NInv, ShapeInv
    <2>8. QED
      BY <2>5, <2>6, <2>7 DEF NInv
  <1>5. CASE ClearNodeDirty
    <2>1. /\ UNCHANGED <<listed, records, ask, job, held, owed>>
          /\ pass' = [pc |-> "fetch"]
          /\ dirty' \in [mark : BOOLEAN, at : Nat]
          /\ dirty'.mark = (dirty.mark /\ dirty.at # pass.at)
      BY <1>5 DEF NInv, ShapeInv, ClearNodeDirty, panel, node, request
    <2>2. pass.at = dirty.at => owed = {}
      BY <1>5 DEF NInv, PassInv, ClearNodeDirty
    <2>3. MarkInv'
      BY <2>1, <2>2 DEF NInv, MarkInv
    <2>4. EditInv' /\ OwedInv'
      BY <2>1 DEF NInv, EditInv, LockInv, ListInv, OwedInv, Holds, Writes, Kept
    <2>5. PassShape' /\ PassInv'
      BY <2>1 DEF PassShape, PassInv
    <2>6. QED
      BY <2>1, <2>3, <2>4, <2>5 DEF NInv, ShapeInv
  <1>6. CASE Merge
    <2>1. /\ UNCHANGED <<ask, job, dirty, held, owed>> /\ pass' = Idle
          /\ pass.pc = "merge" /\ pass.held \in Lists /\ pass.dirty \in BOOLEAN
      BY <1>6 DEF NInv, ShapeInv, PassShape, Merge, node, request
    <2>2. PassShape' /\ PassInv'
      BY <2>1 DEF PassShape, PassInv, Idle
    <2>3. CASE pass.dirty
      <3>1. UNCHANGED <<listed, records>>
        BY <1>6, <2>3 DEF Merge, MergeCounters, panel
      <3>2. QED
        BY <2>1, <2>2, <3>1
        DEF NInv, ShapeInv, EditInv, LockInv, ListInv, OwedInv, MarkInv, Holds, Writes, Kept
    <2>4. CASE ~pass.dirty
      <3>1. owed = {} /\ owed' = {}
        BY <2>1, <2>4 DEF NInv, PassInv
      <3>2. listed' \in Lists
        BY <1>6, <2>1, <2>4 DEF Merge, MergeAll
      <3>3. QED
        BY <2>1, <2>2, <3>1, <3>2
        DEF NInv, ShapeInv, EditInv, LockInv, ListInv, OwedInv, MarkInv, Holds, Writes
    <2>5. QED
      BY <2>1, <2>3, <2>4
  <1>7. QED
    BY <1>2, <1>3, <1>4, <1>5, <1>6 DEF Pass

-----------------------------------------------------------------------------
(* CountedOnce.                                                            *)

(* What a counter shows; that the traffic a client was billed for, with    *)
(* what its meter shows beyond the baseline, was carried; and that this    *)
(* will still be so when the snapshot at hand has been merged.             *)
Counter == [up : Nat, home : Inbound] \cup {NoRow}
Read(row) == IF row = NoRow THEN 0 ELSE row.up

Covered(u, put, b, m, k) ==
    /\ m <= k
    /\ u = NoRow => put = 0
    /\ u # NoRow => u.up + put + Since(m, b) <= k

CoveredBy(s, u, put, b, m, k) ==
    /\ s + Since(m, s) <= k
    /\ u # NoRow => u.up + put + Since(s, b) + Since(m, s) <= k

Taken == pass.pc \in {"look", "merge"}

CountShape ==
    /\ usage \in [Client -> Counter] /\ meter \in [Client -> Counter]
    /\ base \in [Client -> Nat \cup {NoRow}]
    /\ cleared \in [Client -> Nat] /\ carried \in [Client -> Nat]
    /\ Taken => /\ pass.meter \in [Client -> Counter]
                /\ \A i \in Inbound : \A c \in pass.reported[i] : pass.meter[c] # NoRow

CountInv ==
    \A c \in Client :
        /\ Covered(usage[c], cleared[c], base[c], Read(meter[c]), carried[c])
        /\ Taken => CoveredBy(Read(pass.meter[c]), usage[c], cleared[c], base[c],
                              Read(meter[c]), carried[c])

-----------------------------------------------------------------------------
(* A finite set of numbers has a least and a greatest.                     *)
LEMMA Extremes ==
    ASSUME NEW S, S \subseteq Nat, IsFiniteSet(S), S # {}
    PROVE  /\ Min(S) \in S /\ \A y \in S : Min(S) <= y
           /\ Max(S) \in S /\ \A y \in S : Max(S) >= y
  <1> DEFINE Bounded(s) == /\ \E x \in s : \A y \in s : x <= y
                           /\ \E x \in s : \A y \in s : x >= y
             Bad == {s \in SUBSET S : s # {} /\ ~Bounded(s)}
  <1>1. ASSUME Bad # {}
        PROVE  FALSE
    <2>1. /\ IsWellFoundedOn(StrictSubsetOrdering(S), SUBSET S)
          /\ Bad \subseteq SUBSET S
      BY FS_StrictSubsetOrderingWellFounded, FS_FiniteSubsetsOfFinite
    <2>2. PICK s \in Bad : \A r \in Bad : <<r, s>> \notin StrictSubsetOrdering(S)
      <3> HIDE DEF Bad
      <3>1. QED
        BY <1>1, <2>1, WFMin
    <2>3. PICK x \in s : TRUE
      BY <2>2
    <2> DEFINE r == s \ {x}
    <2>4. r \in SUBSET S /\ <<r, s>> \in StrictSubsetOrdering(S) /\ s \subseteq Nat
      BY <2>2, <2>3 DEF StrictSubsetOrdering
    <2>5. r = {} \/ Bounded(r)
      BY <2>2, <2>4
    <2>6. Bounded(s)
      BY <2>3, <2>4, <2>5
    <2>7. QED
      BY <2>2, <2>6
  <1>2. Bounded(S)
    BY <1>1
  <1>3. QED
    BY <1>2 DEF Min, Max

-----------------------------------------------------------------------------
LEMMA SinceFacts ==
    ASSUME NEW m \in Nat, NEW b \in Nat \cup {NoRow}
    PROVE  /\ Since(m, b) \in Nat /\ Since(m, b) <= m
           /\ Since(m, NoRow) = 0 /\ Since(m, m) = 0 /\ Since(0, b) = 0
           /\ Since(m + 1, b) <= Since(m, b) + 1
  <1>1. NoRow \notin Nat
    BY NodeSyncAssumption
  <1>2. Since(m, NoRow) = 0 /\ Since(0, NoRow) = 0 /\ Since(m + 1, NoRow) = 0
    BY DEF Since
  <1>3. \A n, d \in Nat : Since(n, d) = IF n >= d THEN n - d ELSE n
    BY <1>1 DEF Since
  <1>4. QED
    BY <1>2, <1>3

(* What one report makes of a row that is there, and of one that is not.   *)
LEMMA TallyRow ==
    ASSUME NEW c, NEW i \in Inbound, NEW t, t.row \in [up : Nat, home : Inbound],
           t.base \in Nat \cup {NoRow}, pass.meter[c].up \in Nat
    PROVE  /\ Tally(c, i, t) = [row |-> Tally(c, i, t).row, base |-> pass.meter[c].up]
           /\ Tally(c, i, t).row \in [up : Nat, home : Inbound]
           /\ Tally(c, i, t).row.up = t.row.up + Since(pass.meter[c].up, t.base)
           /\ Tally(c, i, t).row.home = t.row.home
  <1> DEFINE new == [t.row EXCEPT !.up = @ + Since(pass.meter[c].up, t.base)]
  <1>1. t.row # NoRow /\ Since(pass.meter[c].up, t.base) \in Nat
    BY SinceFacts, NodeSyncAssumption
  <1>2. /\ new \in [up : Nat, home : Inbound] /\ new.home = t.row.home
        /\ new.up = t.row.up + Since(pass.meter[c].up, t.base)
    BY <1>1
  <1>3. Tally(c, i, t) = [row |-> new, base |-> pass.meter[c].up]
    BY <1>1 DEF Tally
  <1>4. Tally(c, i, t).row = new
    BY <1>3
  <1>5. QED
    BY <1>2, <1>3, <1>4

LEMMA TallyNoRow ==
    ASSUME NEW c, NEW i \in Inbound, NEW t, t.row = NoRow, pass.meter[c].up \in Nat
    PROVE  /\ pass.dirty => Tally(c, i, t) = t
           /\ ~pass.dirty => Tally(c, i, t) = [row |-> [up |-> pass.meter[c].up, home |-> i],
                                               base |-> pass.meter[c].up]
  BY DEF Tally

(* A client that several inbounds report is tallied once: the second       *)
(* report finds the baseline at the counter.                               *)
LEMMA TallyTwice ==
    ASSUME NEW c, NEW i \in Inbound, NEW j \in Inbound, NEW t,
           t.row \in Counter, t.base \in Nat \cup {NoRow},
           pass.meter[c].up \in Nat, pass.dirty \in BOOLEAN
    PROVE  Tally(c, i, Tally(c, j, t)) = Tally(c, j, t)
  <1> DEFINE canon == pass.meter[c].up
  <1>1. ASSUME NEW u, u.row \in [up : Nat, home : Inbound], u = [row |-> u.row, base |-> canon]
        PROVE  Tally(c, i, u) = u
    <2>1. Since(canon, canon) = 0 /\ u.base = canon
      BY <1>1, SinceFacts
    <2> DEFINE new == Tally(c, i, u)
    <2>2. /\ new = [row |-> new.row, base |-> canon]
          /\ new.row \in [up : Nat, home : Inbound]
          /\ new.row.up = u.row.up + 0 /\ new.row.home = u.row.home
      BY <1>1, <2>1, TallyRow
    <2> HIDE DEF new
    <2>3. new.row = u.row
      BY <1>1, <2>2
    <2>4. new = u
      BY <1>1, <2>2, <2>3
    <2>5. QED
      BY <2>4 DEF new
  <1>2. CASE t.row # NoRow
    <2>1. t.row \in [up : Nat, home : Inbound]
      BY <1>2 DEF Counter
    <2> DEFINE u == Tally(c, j, t)
    <2>2. u.row \in [up : Nat, home : Inbound] /\ u = [row |-> u.row, base |-> canon]
      BY <2>1, TallyRow
    <2> HIDE DEF u
    <2>3. Tally(c, i, u) = u
      BY <1>1, <2>2
    <2>4. QED
      BY <2>3 DEF u
  <1>3. CASE t.row = NoRow /\ pass.dirty
    BY <1>3, TallyNoRow
  <1>4. CASE t.row = NoRow /\ ~pass.dirty
    <2> DEFINE u == Tally(c, j, t)
    <2>1. u = [row |-> [up |-> canon, home |-> j], base |-> canon]
      BY <1>4, TallyNoRow
    <2>2. u.row \in [up : Nat, home : Inbound] /\ u = [row |-> u.row, base |-> canon]
      <3> HIDE DEF u
      <3>1. QED
        BY <2>1
    <2> HIDE DEF u
    <2>3. Tally(c, i, u) = u
      BY <1>1, <2>2
    <2>4. QED
      BY <2>3 DEF u
  <1>5. QED
    BY <1>2, <1>3, <1>4

(* However many inbounds report a client, what is counted is one report    *)
(* of it, that of the first.                                               *)
LEMMA CountedTells ==
    ASSUME NEW c, usage[c] \in Counter, base[c] \in Nat \cup {NoRow},
           Reports(c) # {} => pass.meter[c].up \in Nat, pass.dirty \in BOOLEAN
    PROVE  LET t == [row |-> usage[c], base |-> base[c]]
           IN  Counted(c) = IF Reports(c) = {} THEN t ELSE Tally(c, Min(Reports(c)), t)
  <1> DEFINE t == [row |-> usage[c], base |-> base[c]]
             R == Reports(c)
             one == [s \in SUBSET R |-> IF s = {} THEN t ELSE Tally(c, Min(s), t)]
             Unfolds(f) == f = [s \in SUBSET R |->
                                  IF s = {} THEN t ELSE Tally(c, Max(s), f[s \ {Max(s)}])]
  <1>1. R \subseteq Inbound /\ IsFiniteSet(R) /\ R \subseteq Nat
    BY NodeSyncAssumption, FS_Subset DEF Reports
  <1>2. ASSUME NEW s \in SUBSET R, s # {}
        PROVE  /\ Min(s) \in s /\ Max(s) \in s
               /\ s \ {Max(s)} = {} => Max(s) = Min(s)
               /\ s \ {Max(s)} # {} => Min(s \ {Max(s)}) = Min(s)
    <2>1. s \subseteq Nat /\ IsFiniteSet(s)
      BY <1>1, FS_Subset
    <2>2. /\ Min(s) \in s /\ \A y \in s : Min(s) <= y
          /\ Max(s) \in s /\ \A y \in s : Max(s) >= y
      BY <1>2, <2>1, Extremes
    <2> DEFINE r == s \ {Max(s)}
    <2>3. r # {} => /\ Min(r) \in r /\ \A y \in r : Min(r) <= y
                    /\ Max(r) \in r /\ \A y \in r : Max(r) >= y
      <3>1. r \subseteq Nat /\ IsFiniteSet(r)
        BY <2>1, FS_Subset
      <3> HIDE DEF r
      <3>2. QED
        BY <3>1, Extremes
    <2>4. QED
      BY <2>1, <2>2, <2>3
  <1>3. \A s \in SUBSET R : s # {} => one[s] = Tally(c, Max(s), one[s \ {Max(s)}])
    <2> SUFFICES ASSUME NEW s \in SUBSET R, s # {}
                 PROVE  one[s] = Tally(c, Max(s), one[s \ {Max(s)}])
      OBVIOUS
    <2>1. one[s] = Tally(c, Min(s), t)
      OBVIOUS
    <2>2. CASE s \ {Max(s)} = {}
      <3>1. one[s \ {Max(s)}] = t
        BY <2>2
      <3>2. QED
        BY <1>2, <2>1, <2>2, <3>1
    <2>3. CASE s \ {Max(s)} # {}
      <3>1. one[s \ {Max(s)}] = Tally(c, Min(s), t)
        BY <1>2, <2>3
      <3>2. /\ Min(s) \in Inbound /\ Max(s) \in Inbound
            /\ t.row \in Counter /\ t.base \in Nat \cup {NoRow} /\ pass.meter[c].up \in Nat
        BY <1>1, <1>2
      <3>3. Tally(c, Max(s), Tally(c, Min(s), t)) = Tally(c, Min(s), t)
        <4> HIDE DEF t
        <4>1. QED
          BY <3>2, TallyTwice
      <3>4. QED
        BY <2>1, <3>1, <3>3
    <2>4. QED
      BY <2>2, <2>3
  <1>4. Unfolds(one)
    BY <1>3
  <1>5. PICK f : Unfolds(f) /\ Counted(c) = f[R]
    <2>1. Counted(c) = (CHOOSE f : Unfolds(f))[R]
      BY DEF Counted, MapThenFoldSet
    <2>2. Unfolds(CHOOSE f : Unfolds(f))
      <3> HIDE DEF Unfolds
      <3>1. QED
        BY <1>4
    <2>3. QED
      <3> HIDE DEF Unfolds
      <3>1. QED
        BY <2>1, <2>2
  <1>6. \A s \in SUBSET R : f[s] = one[s]
    <2> DEFINE Bad == {s \in SUBSET R : f[s] # one[s]}
    <2> SUFFICES ASSUME Bad # {}
                 PROVE  FALSE
      OBVIOUS
    <2>1. /\ IsWellFoundedOn(StrictSubsetOrdering(R), SUBSET R)
          /\ Bad \subseteq SUBSET R
      BY <1>1, FS_StrictSubsetOrderingWellFounded, FS_FiniteSubsetsOfFinite
    <2>2. PICK s \in Bad : \A r \in Bad : <<r, s>> \notin StrictSubsetOrdering(R)
      <3> HIDE DEF Bad
      <3>1. QED
        BY <2>1, WFMin
    <2>3. s \in SUBSET R /\ f[s] # one[s]
      BY <2>2
    <2>4. s # {}
      BY <1>5, <2>3
    <2>5. f[s] = Tally(c, Max(s), f[s \ {Max(s)}])
      BY <1>5, <2>3, <2>4
    <2>6. s \ {Max(s)} \notin Bad
      BY <1>2, <2>2, <2>3, <2>4 DEF StrictSubsetOrdering
    <2>7. f[s \ {Max(s)}] = one[s \ {Max(s)}]
      BY <2>3, <2>6
    <2>8. QED
      BY <1>3, <2>3, <2>4, <2>5, <2>7
  <1>7. QED
    BY <1>5, <1>6

-----------------------------------------------------------------------------
CInv == CountShape /\ CountInv

LEMMA InitCount == Init => CInv
  <1> SUFFICES ASSUME Init
               PROVE  CInv
    OBVIOUS
  <1>1. PICK s \in Story : /\ held = s.start
                           /\ records = UNION {s.start[i] : i \in Inbound}
    BY DEF Init
  <1>2. meter \in [Client -> Counter] /\ \A c \in Client : Read(meter[c]) = 0
    <2>1. \A c \in records : Min({i \in Inbound : c \in held[i]}) \in Inbound
      <3> SUFFICES ASSUME NEW c \in records
                   PROVE  Min({i \in Inbound : c \in held[i]}) \in Inbound
        OBVIOUS
      <3> DEFINE at == {i \in Inbound : c \in held[i]}
      <3>1. at # {} /\ at \subseteq Nat /\ IsFiniteSet(at)
        BY <1>1, NodeSyncAssumption, FS_Subset
      <3> HIDE DEF at
      <3>2. Min(at) \in at
        BY <3>1, Extremes
      <3>3. QED
        BY <3>2 DEF at
    <2>2. QED
      BY <2>1 DEF Init, Counter, Read
  <1>3. /\ usage = meter /\ cleared = [c \in Client |-> 0] /\ carried = [c \in Client |-> 0]
        /\ base \in [Client -> Nat \cup {NoRow}] /\ ~Taken
    BY DEF Init, Taken, Idle
  <1>4. \A c \in Client : Covered(usage[c], cleared[c], base[c], Read(meter[c]), carried[c])
    <2>1. \A c \in Client : Since(0, base[c]) = 0
      BY <1>3, SinceFacts
    <2>2. QED
      BY <1>2, <1>3, <2>1 DEF Covered, Read
  <1>5. QED
    BY <1>2, <1>3, <1>4 DEF CInv, CountShape, CountInv

(* One client's counters, through a step that loses what the node counted, *)
(* or the baseline, or moves what was counted aside, or removes the row.   *)
Loses(u, put, b, m, v, aside, d, n) ==
    /\ n \in {m, 0} /\ d \in {b, NoRow}
    /\ \/ v = u /\ aside = put
       \/ v = NoRow /\ aside = 0
       \/ u = NoRow /\ aside = put /\ v.up = 0
       \/ u # NoRow /\ v # NoRow /\ v.up + aside = u.up + put

LEMMA Fewer ==
    ASSUME NEW u \in Counter, NEW put \in Nat, NEW b \in Nat \cup {NoRow},
           NEW m \in Nat, NEW k \in Nat,
           NEW v \in Counter, NEW aside \in Nat, NEW d, NEW n,
           Loses(u, put, b, m, v, aside, d, n), Covered(u, put, b, m, k)
    PROVE  /\ Covered(v, aside, d, n, k)
           /\ \A s \in Nat : CoveredBy(s, u, put, b, m, k) => CoveredBy(s, v, aside, d, n, k)
  <1>1. NoRow \notin Nat /\ (u # NoRow => u.up \in Nat) /\ (v # NoRow => v.up \in Nat)
    BY NodeSyncAssumption DEF Counter
  <1>2. /\ Since(m, b) \in Nat /\ Since(n, d) \in Nat
        /\ Since(n, d) <= Since(m, b) /\ Since(n, d) <= n /\ n <= m
    <2>1. /\ Since(m, b) \in Nat /\ Since(m, b) <= m
          /\ Since(0, b) = 0 /\ Since(m, NoRow) = 0
      BY SinceFacts
    <2>2. Since(0, NoRow) = 0
      BY DEF Since
    <2>3. (n = m \/ n = 0) /\ (d = b \/ d = NoRow)
      BY DEF Loses
    <2>4. QED
      BY <2>1, <2>2, <2>3
  <1>3. Covered(v, aside, d, n, k)
    <2>1. n <= k
      BY <1>2 DEF Covered, Loses
    <2>2. v = NoRow => aside = 0
      BY DEF Covered, Loses
    <2>3. v # NoRow => v.up + aside + Since(n, d) <= k
      BY <1>1, <1>2 DEF Covered, Loses
    <2>4. QED
      BY <2>1, <2>2, <2>3 DEF Covered, Loses
  <1>4. ASSUME NEW s \in Nat, CoveredBy(s, u, put, b, m, k)
        PROVE  CoveredBy(s, v, aside, d, n, k)
    <2>1. /\ Since(m, s) \in Nat /\ Since(n, s) \in Nat /\ Since(n, s) <= Since(m, s)
          /\ Since(s, b) \in Nat /\ Since(s, d) \in Nat /\ Since(s, d) <= Since(s, b)
          /\ Since(s, d) <= s
      <3>1. /\ Since(m, s) \in Nat /\ Since(0, s) = 0
            /\ Since(s, b) \in Nat /\ Since(s, b) <= s /\ Since(s, NoRow) = 0
        BY SinceFacts
      <3>2. (n = m \/ n = 0) /\ (d = b \/ d = NoRow)
        BY DEF Loses
      <3>3. QED
        BY <3>1, <3>2
    <2>2. s + Since(n, s) <= k
      BY <1>4, <2>1 DEF CoveredBy
    <2>3. v # NoRow => v.up + aside + Since(s, d) + Since(n, s) <= k
      BY <1>1, <1>4, <2>1, <2>2 DEF Covered, CoveredBy, Loses
    <2>4. QED
      BY <2>2, <2>3 DEF CoveredBy
  <1>5. QED
    BY <1>3, <1>4

LEMMA FewerStep ==
    ASSUME CInv, UNCHANGED carried,
           Taken' => Taken /\ pass'.meter = pass.meter /\ pass'.reported = pass.reported,
           usage' \in [Client -> Counter], cleared' \in [Client -> Nat],
           meter' \in [Client -> Counter], base' \in [Client -> Nat \cup {NoRow}],
           \A c \in Client : Loses(usage[c], cleared[c], base[c], Read(meter[c]),
                                  usage'[c], cleared'[c], base'[c], Read(meter'[c]))
    PROVE  CInv'
  <1>1. \A row \in Counter : Read(row) \in Nat
    BY DEF Counter, Read
  <1>2. CountShape'
    BY DEF CInv, CountShape, Taken
  <1>3. ASSUME NEW c \in Client
        PROVE  /\ Covered(usage'[c], cleared'[c], base'[c], Read(meter'[c]), carried[c])
               /\ \A s \in Nat :
                     CoveredBy(s, usage[c], cleared[c], base[c], Read(meter[c]), carried[c])
                       => CoveredBy(s, usage'[c], cleared'[c], base'[c], Read(meter'[c]), carried[c])
    <2>1. /\ usage[c] \in Counter /\ cleared[c] \in Nat /\ base[c] \in Nat \cup {NoRow}
          /\ Read(meter[c]) \in Nat /\ carried[c] \in Nat
          /\ usage'[c] \in Counter /\ cleared'[c] \in Nat
          /\ base'[c] \in Nat \cup {NoRow} /\ Read(meter'[c]) \in Nat
      BY <1>1 DEF CInv, CountShape
    <2>2. Covered(usage[c], cleared[c], base[c], Read(meter[c]), carried[c])
      BY DEF CInv, CountInv
    <2>3. PICK u \in Counter, put \in Nat, b \in Nat \cup {NoRow}, m \in Nat, k \in Nat,
               v \in Counter, aside \in Nat, d \in Nat \cup {NoRow}, n \in Nat :
             /\ usage[c] = u /\ cleared[c] = put /\ base[c] = b /\ Read(meter[c]) = m
             /\ carried[c] = k
             /\ usage'[c] = v /\ cleared'[c] = aside /\ base'[c] = d /\ Read(meter'[c]) = n
      BY <2>1
    <2>4. Loses(u, put, b, m, v, aside, d, n) /\ Covered(u, put, b, m, k)
      BY <2>2, <2>3
    <2>5. /\ Covered(v, aside, d, n, k)
          /\ \A s \in Nat : CoveredBy(s, u, put, b, m, k) => CoveredBy(s, v, aside, d, n, k)
      BY <2>4, Fewer
    <2>6. QED
      BY <2>3, <2>5
  <1>4. CountInv'
    <2>1. ASSUME NEW c \in Client, Taken'
          PROVE  CoveredBy(Read(pass'.meter[c]), usage'[c], cleared'[c], base'[c],
                           Read(meter'[c]), carried[c])
      <3>1. Taken /\ pass'.meter = pass.meter /\ Read(pass.meter[c]) \in Nat
        BY <1>1, <2>1 DEF CInv, CountShape
      <3>2. CoveredBy(Read(pass.meter[c]), usage[c], cleared[c], base[c], Read(meter[c]), carried[c])
        BY <3>1 DEF CInv, CountInv
      <3>3. QED
        BY <1>3, <3>1, <3>2
    <2>2. QED
      BY <1>3, <2>1 DEF CountInv
  <1>5. QED
    BY <1>2, <1>4 DEF CInv

(* Rows that a step makes start at zero; rows that it drops count as zero. *)
LEMMA Rows ==
    ASSUME NEW rows \in [Client -> Counter], NEW i \in Inbound, NEW clients
    PROVE  /\ WithRows(rows, i, clients) \in [Client -> Counter]
           /\ \A c \in Client : \/ WithRows(rows, i, clients)[c] = rows[c]
                                \/ /\ rows[c] = NoRow /\ Read(WithRows(rows, i, clients)[c]) = 0
                                   /\ WithRows(rows, i, clients)[c].up = 0
  BY DEF WithRows, Counter, Read

LEMMA Still ==
    ASSUME CInv, UNCHANGED <<tally, carried>>, meter' \in [Client -> Counter],
           Taken' => Taken /\ pass'.meter = pass.meter /\ pass'.reported = pass.reported,
           \A c \in Client : meter'[c] = meter[c] \/ Read(meter'[c]) = 0
    PROVE  CInv'
  <1>1. \A c \in Client : Loses(usage[c], cleared[c], base[c], Read(meter[c]),
                                usage'[c], cleared'[c], base'[c], Read(meter'[c]))
    BY DEF tally, Loses
  <1>2. QED
    BY <1>1, FewerStep DEF CInv, CountShape, tally

(* The node's own steps, and the pass until it has a snapshot.             *)
LEMMA NodeSteps ==
    ASSUME CInv, NEW i \in Inbound,
           \/ \E list \in SUBSET Client : NodeStores(i, list)
           \/ \E c \in Client : NodeAdds(i, c) \/ NodeDetaches(i, c)
           \/ UNCHANGED node
    PROVE  /\ meter' \in [Client -> Counter]
           /\ \A c \in Client : meter'[c] = meter[c] \/ Read(meter'[c]) = 0
  <1>1. meter \in [Client -> Counter]
    BY DEF CInv, CountShape
  <1>2. ASSUME NEW list \in SUBSET Client, NodeStores(i, list)
        PROVE  /\ meter' \in [Client -> Counter]
               /\ \A c \in Client : meter'[c] = meter[c] \/ Read(meter'[c]) = 0
    <2>1. PICK rows \in [Client -> Counter] :
             /\ \A c \in Client : rows[c] = meter[c] \/ rows[c] = NoRow
             /\ meter' = WithRows(rows, i, list \ held[i])
      <3> DEFINE gone == {c \in held[i] \ list : \A j \in Others(i) : c \notin held[j]}
                 rows == [c \in Client |-> IF c \in gone THEN NoRow ELSE meter[c]]
      <3>1. meter' = WithRows(rows, i, list \ held[i])
        BY <1>2 DEF NodeStores
      <3>2. rows \in [Client -> Counter]
        BY <1>1 DEF Counter
      <3>3. QED
        BY <3>1, <3>2
    <2>2. QED
      BY <2>1, Rows DEF Read
  <1>3. CASE \E c \in Client : NodeAdds(i, c)
    BY <1>1, <1>3, Rows DEF NodeAdds
  <1>4. CASE (\E c \in Client : NodeDetaches(i, c)) \/ UNCHANGED node
    BY <1>1, <1>4 DEF NodeDetaches, node
  <1>5. QED
    BY <1>2, <1>3, <1>4

LEMMA StillSteps ==
    ASSUME CInv, NInv,
           \/ \E r \in Request : Start(r) \/ ReadToAdd(r) \/ Push(r) \/ Mark(r)
           \/ Begin \/ Plan \/ Reconcile \/ ClearNodeDirty \/ Look
           \/ Heartbeat \/ (\E c \in Client : Expire(c)) \/ UNCHANGED vars
    PROVE  CInv'
  <1>1. CASE \/ \E r \in Request : Start(r) \/ ReadToAdd(r) \/ Mark(r)
             \/ Heartbeat \/ (\E c \in Client : Expire(c)) \/ UNCHANGED vars
    <2>1. UNCHANGED <<tally, carried, meter, pass>>
      BY <1>1 DEF Start, ReadToAdd, Mark, Heartbeat, Expire, vars, node
    <2>2. QED
      BY <2>1, Still DEF CInv, CountShape, Taken
  <1>2. CASE Begin \/ Plan \/ ClearNodeDirty \/ Look
    <2>1. UNCHANGED <<tally, carried, meter>>
      BY <1>2 DEF Begin, Plan, ClearNodeDirty, Look, node
    <2>2. Taken' => Taken /\ pass'.meter = pass.meter /\ pass'.reported = pass.reported
      BY <1>2 DEF Begin, Plan, ClearNodeDirty, Look, Taken
    <2>3. QED
      BY <2>1, <2>2, Still DEF CInv, CountShape
  <1>3. ASSUME NEW r \in Request, Push(r)
        PROVE  CInv'
    <2>1. job[r].at \in Inbound /\ ask[r].who \in Client
      BY <1>3 DEF NInv, ShapeInv, EditInv, LockInv, Holds, Push, Ask
    <2>2. \/ NodeAdds(job[r].at, ask[r].who) \/ NodeDetaches(job[r].at, ask[r].who)
          \/ UNCHANGED node
      BY <1>3 DEF Push
    <2>3. /\ meter' \in [Client -> Counter]
          /\ \A c \in Client : meter'[c] = meter[c] \/ Read(meter'[c]) = 0
      BY <2>1, <2>2, NodeSteps
    <2>4. QED
      BY <1>3, <2>3, Still DEF Push, Taken
  <1>4. CASE Reconcile
    <2>1. PICK i \in pass.left : /\ NodeStores(i, pass.plan[i]) \/ UNCHANGED node
                                 /\ pass' = Idle \/ pass' = [pass EXCEPT !.left = @ \ {i}]
      BY <1>4 DEF Reconcile
    <2>2. /\ pass \in [pc : {"reconcile"}, at : Nat, plan : Lists, left : SUBSET Inbound]
          /\ i \in Inbound /\ pass.plan[i] \in SUBSET Client
      BY <1>4, <2>1 DEF NInv, ShapeInv, PassShape, Reconcile, Lists
    <2>3. /\ meter' \in [Client -> Counter]
          /\ \A c \in Client : meter'[c] = meter[c] \/ Read(meter'[c]) = 0
      BY <2>1, <2>2, NodeSteps
    <2>4. ~Taken'
      BY <2>1, <2>2 DEF Taken, Idle
    <2>5. QED
      BY <1>4, <2>3, <2>4, Still DEF Reconcile
  <1>5. QED
    BY <1>1, <1>2, <1>3, <1>4

(* Requests that make a row, remove it, or reset it.                       *)
LEMMA RequestSteps ==
    ASSUME CInv, NInv, NEW r \in Request,
           ReadToRemove(r) \/ Write(r) \/ Finish(r) \/ Reset(r)
    PROVE  CInv'
  <1> DEFINE c == ask[r].who
  <1>1. /\ usage \in [Client -> Counter] /\ cleared \in [Client -> Nat]
        /\ base \in [Client -> Nat \cup {NoRow}] /\ meter \in [Client -> Counter]
        /\ ask[r] \in Ask
        /\ \A d \in Client : usage[d] = NoRow => cleared[d] = 0
    BY DEF CInv, CountShape, CountInv, Covered, NInv, ShapeInv
  <1>2. UNCHANGED <<carried, pass>>
    BY DEF ReadToRemove, Write, Finish, Reset
  <1>3. Taken' => Taken /\ pass'.meter = pass.meter /\ pass'.reported = pass.reported
    BY <1>2 DEF Taken
  <1>4. CASE ReadToRemove(r)
    <2>1. \/ UNCHANGED <<usage, base, cleared>>
          \/ /\ usage' = [usage EXCEPT ![c] = NoRow] /\ base' = [base EXCEPT ![c] = NoRow]
             /\ cleared' = [cleared EXCEPT ![c] = 0]
      <3>1. PICK wipe \in BOOLEAN :
               \/ UNCHANGED tally
               \/ /\ usage' = IF wipe THEN [usage EXCEPT ![c] = NoRow] ELSE usage
                  /\ base' = IF wipe THEN [base EXCEPT ![c] = NoRow] ELSE base
                  /\ cleared' = IF wipe THEN [cleared EXCEPT ![c] = 0] ELSE cleared
        BY <1>4 DEF ReadToRemove
      <3>2. QED
        BY <3>1 DEF tally
    <2>2. UNCHANGED meter
      BY <1>4 DEF ReadToRemove, node
    <2>3. /\ usage' \in [Client -> Counter] /\ cleared' \in [Client -> Nat]
          /\ base' \in [Client -> Nat \cup {NoRow}]
      BY <1>1, <2>1 DEF Counter
    <2>4. \A d \in Client : Loses(usage[d], cleared[d], base[d], Read(meter[d]),
                                  usage'[d], cleared'[d], base'[d], Read(meter'[d]))
      BY <1>1, <2>1, <2>2 DEF Loses
    <2>5. QED
      BY <1>1, <1>2, <1>3, <2>2, <2>3, <2>4, FewerStep
  <1>5. CASE Write(r)
    <2>1. UNCHANGED <<meter, base, cleared>>
      BY <1>5 DEF Write, node
    <2>2. job[r].at \in Inbound
      BY <1>5 DEF NInv, EditInv, LockInv, Holds, Write
    <2>3. usage' = usage \/ usage' = WithRows(usage, job[r].at, {c})
      BY <1>5 DEF Write
    <2>4. /\ usage' \in [Client -> Counter]
          /\ \A d \in Client : usage'[d] = usage[d] \/ (usage[d] = NoRow /\ usage'[d].up = 0)
      BY <1>1, <2>2, <2>3, Rows
    <2>5. \A d \in Client : Loses(usage[d], cleared[d], base[d], Read(meter[d]),
                                  usage'[d], cleared'[d], base'[d], Read(meter'[d]))
      BY <2>1, <2>4 DEF Loses
    <2>6. QED
      BY <1>1, <1>2, <1>3, <2>1, <2>4, <2>5, FewerStep
  <1>6. CASE Finish(r)
    <2>1. /\ UNCHANGED <<meter, base>>
          /\ \/ UNCHANGED <<usage, cleared>>
             \/ usage' = [usage EXCEPT ![c] = NoRow] /\ cleared' = [cleared EXCEPT ![c] = 0]
      BY <1>6 DEF Finish, node
    <2>2. usage' \in [Client -> Counter] /\ cleared' \in [Client -> Nat]
      BY <1>1, <2>1 DEF Counter
    <2>3. \A d \in Client : Loses(usage[d], cleared[d], base[d], Read(meter[d]),
                                  usage'[d], cleared'[d], base'[d], Read(meter'[d]))
      BY <1>1, <2>1 DEF Loses
    <2>4. QED
      BY <1>1, <1>2, <1>3, <2>1, <2>2, <2>3, FewerStep
  <1>7. CASE Reset(r)
    <2>1. /\ UNCHANGED base /\ c \in Client
          /\ \/ UNCHANGED <<usage, cleared>>
             \/ /\ usage[c] # NoRow
                /\ usage' = [usage EXCEPT ![c].up = 0]
                /\ cleared' = [cleared EXCEPT ![c] = @ + usage[c].up]
          /\ \/ UNCHANGED meter
             \/ meter' = [meter EXCEPT ![c] = IF @ = NoRow THEN @ ELSE [@ EXCEPT !.up = 0]]
      BY <1>1, <1>7 DEF Reset, Ask
    <2>2. meter' \in [Client -> Counter] /\ \A d \in Client : Read(meter'[d]) \in {Read(meter[d]), 0}
      BY <1>1, <2>1 DEF Counter, Read
    <2>3. /\ usage' \in [Client -> Counter] /\ cleared' \in [Client -> Nat]
          /\ \A d \in Client :
                \/ usage'[d] = usage[d] /\ cleared'[d] = cleared[d]
                \/ /\ usage[d] # NoRow /\ usage'[d] # NoRow
                   /\ usage'[d].up + cleared'[d] = usage[d].up + cleared[d]
      <3>1. CASE UNCHANGED <<usage, cleared>>
        BY <1>1, <3>1
      <3>2. CASE /\ usage[c] # NoRow
                 /\ usage' = [usage EXCEPT ![c].up = 0]
                 /\ cleared' = [cleared EXCEPT ![c] = @ + usage[c].up]
        <4>1. usage[c] \in [up : Nat, home : Inbound]
          BY <1>1, <2>1, <3>2 DEF Counter
        <4>2. PICK row \in [up : Nat, home : Inbound] : row.up = 0 /\ row = [usage[c] EXCEPT !.up = 0]
          BY <4>1
        <4>3. usage' = [usage EXCEPT ![c] = row] /\ row # NoRow
          BY <3>2, <4>2, NodeSyncAssumption
        <4>4. row \in Counter /\ usage[c].up \in Nat
          BY <4>1, <4>2 DEF Counter
        <4>5. usage' \in [Client -> Counter] /\ usage'[c] = row
          BY <1>1, <2>1, <4>3, <4>4
        <4>6. /\ cleared' \in [Client -> Nat]
              /\ cleared'[c] = cleared[c] + usage[c].up
          BY <1>1, <2>1, <3>2, <4>4
        <4>7. \A d \in Client \ {c} : usage'[d] = usage[d] /\ cleared'[d] = cleared[d]
          BY <1>1, <2>1, <3>2, <4>3
        <4>8. /\ usage[c] # NoRow /\ usage'[c] # NoRow
              /\ usage'[c].up + cleared'[c] = usage[c].up + cleared[c]
          BY <1>1, <2>1, <3>2, <4>2, <4>3, <4>4, <4>5, <4>6
        <4>9. QED
          BY <4>5, <4>6, <4>7, <4>8
      <3>3. QED
        BY <2>1, <3>1, <3>2
    <2>4. \A d \in Client : Loses(usage[d], cleared[d], base[d], Read(meter[d]),
                                  usage'[d], cleared'[d], base'[d], Read(meter'[d]))
      BY <2>1, <2>2, <2>3 DEF Loses
    <2>5. QED
      BY <1>1, <1>2, <1>3, <2>1, <2>2, <2>3, <2>4, FewerStep
  <1>8. QED
    BY <1>4, <1>5, <1>6, <1>7

LEMMA CarrySteps ==
    ASSUME CInv, NEW c \in Client, Carry(c)
    PROVE  CInv'
  <1>1. /\ UNCHANGED <<usage, base, cleared, pass>>
        /\ meter[c] # NoRow
        /\ meter' = [meter EXCEPT ![c].up = @ + 1]
        /\ carried' = [carried EXCEPT ![c] = @ + 1]
    BY DEF Carry, tally
  <1>2. /\ usage \in [Client -> Counter] /\ cleared \in [Client -> Nat]
        /\ base \in [Client -> Nat \cup {NoRow}] /\ meter \in [Client -> Counter]
        /\ carried \in [Client -> Nat]
    BY DEF CInv, CountShape
  <1>3. /\ meter' \in [Client -> Counter] /\ carried' \in [Client -> Nat]
        /\ Read(meter[c]) \in Nat
        /\ Read(meter'[c]) = Read(meter[c]) + 1 /\ carried'[c] = carried[c] + 1
        /\ \A d \in Client : d # c => meter'[d] = meter[d] /\ carried'[d] = carried[d]
    <2>1. meter[c] \in [up : Nat, home : Inbound]
      BY <1>1, <1>2 DEF Counter
    <2>2. PICK row : row = [meter[c] EXCEPT !.up = @ + 1]
      OBVIOUS
    <2>3. /\ row \in [up : Nat, home : Inbound] /\ row.up = meter[c].up + 1
          /\ meter' = [meter EXCEPT ![c] = row] /\ row # NoRow
      BY <1>1, <2>1, <2>2, NodeSyncAssumption
    <2>4. QED
      BY <1>1, <1>2, <2>1, <2>2, <2>3 DEF Counter, Read
  <1>4. CountShape'
    BY <1>1, <1>3 DEF CInv, CountShape, Taken
  <1>5. Covered(usage[c], cleared[c], base[c], Read(meter[c]) + 1, carried[c] + 1)
    <2>1. Covered(usage[c], cleared[c], base[c], Read(meter[c]), carried[c])
      BY DEF CInv, CountInv
    <2>2. /\ Since(Read(meter[c]), base[c]) \in Nat
          /\ Since(Read(meter[c]) + 1, base[c]) \in Nat
          /\ Since(Read(meter[c]) + 1, base[c]) <= Since(Read(meter[c]), base[c]) + 1
      <3>1. Read(meter[c]) \in Nat /\ Read(meter[c]) + 1 \in Nat /\ base[c] \in Nat \cup {NoRow}
        BY <1>2, <1>3
      <3>2. QED
        BY <3>1, SinceFacts
    <2>3. usage[c] # NoRow => usage[c].up \in Nat
      BY <1>2 DEF Counter
    <2>4. QED
      BY <1>2, <1>3, <2>1, <2>2, <2>3 DEF Covered
  <1>6. ASSUME Taken
        PROVE  CoveredBy(Read(pass.meter[c]), usage[c], cleared[c], base[c],
                         Read(meter[c]) + 1, carried[c] + 1)
    <2> DEFINE s == Read(pass.meter[c])
    <2>1. CoveredBy(s, usage[c], cleared[c], base[c], Read(meter[c]), carried[c])
      BY <1>6 DEF CInv, CountInv
    <2>2. s \in Nat
      BY <1>6 DEF CInv, CountShape, Counter, Read
    <2> HIDE DEF s
    <2>3. /\ Since(Read(meter[c]), s) \in Nat /\ Since(Read(meter[c]) + 1, s) \in Nat
          /\ Since(Read(meter[c]) + 1, s) <= Since(Read(meter[c]), s) + 1
          /\ Since(s, base[c]) \in Nat
      <3>1. Read(meter[c]) + 1 \in Nat /\ base[c] \in Nat \cup {NoRow}
        BY <1>2, <1>3
      <3>2. QED
        BY <1>3, <2>2, <3>1, SinceFacts
    <2>4. usage[c] # NoRow => usage[c].up \in Nat
      BY <1>2 DEF Counter
    <2>5. CoveredBy(s, usage[c], cleared[c], base[c], Read(meter[c]) + 1, carried[c] + 1)
      BY <1>2, <1>3, <2>1, <2>2, <2>3, <2>4 DEF CoveredBy
    <2>6. QED
      BY <2>5 DEF s
  <1>7. CountInv'
    <2> SUFFICES ASSUME NEW d \in Client
                 PROVE  /\ Covered(usage[d], cleared[d], base[d], Read(meter'[d]), carried'[d])
                        /\ Taken => CoveredBy(Read(pass.meter[d]), usage[d], cleared[d], base[d],
                                              Read(meter'[d]), carried'[d])
      BY <1>1 DEF CountInv, Taken
    <2>1. CASE d = c
      BY <1>3, <1>5, <1>6, <2>1
    <2>2. CASE d # c
      BY <1>3, <2>2 DEF CInv, CountInv
    <2>3. QED
      BY <2>1, <2>2
  <1>8. QED
    BY <1>4, <1>7 DEF CInv

LEMMA FetchSteps ==
    ASSUME CInv, Fetch
    PROVE  CInv'
  <1>1. /\ UNCHANGED <<tally, usage, base, cleared, carried, meter>>
        /\ \/ pass' = Idle
           \/ pass' = [pc |-> "look", held |-> held, meter |-> meter,
                       reported |-> [i \in Inbound |->
                           {c \in Client : meter[c] # NoRow /\ (c \in held[i] \/ meter[c].home = i)}]]
    BY DEF Fetch, tally, node
  <1>2. CASE pass' = Idle
    <2>1. ~Taken'
      BY <1>2 DEF Taken, Idle
    <2>2. QED
      BY <1>1, <2>1, Still DEF CInv, CountShape
  <1>3. CASE pass' # Idle
    <2>1. /\ pass'.meter = meter
          /\ \A i \in Inbound : \A c \in pass'.reported[i] : meter[c] # NoRow
      BY <1>1, <1>3
    <2>2. CountShape'
      BY <1>1, <2>1 DEF CInv, CountShape
    <2>3. ASSUME NEW c \in Client
          PROVE  CoveredBy(Read(meter[c]), usage[c], cleared[c], base[c], Read(meter[c]), carried[c])
      <3>1. /\ Read(meter[c]) \in Nat /\ base[c] \in Nat \cup {NoRow} /\ cleared[c] \in Nat
            /\ usage[c] # NoRow => usage[c].up \in Nat
        BY DEF CInv, CountShape, Counter, Read
      <3>2. Covered(usage[c], cleared[c], base[c], Read(meter[c]), carried[c])
        BY DEF CInv, CountInv
      <3>3. Since(Read(meter[c]), Read(meter[c])) = 0 /\ Since(Read(meter[c]), base[c]) \in Nat
        BY <3>1, SinceFacts
      <3>4. QED
        BY <3>1, <3>2, <3>3 DEF Covered, CoveredBy
    <2>4. CountInv'
      BY <1>1, <2>1, <2>3 DEF CInv, CountInv
    <2>5. QED
      BY <2>2, <2>4 DEF CInv
  <1>4. QED
    BY <1>2, <1>3

(* What a merge makes of one client's row and baseline.                    *)
LEMMA CountedCovers ==
    ASSUME CInv, pass.pc = "merge", pass.dirty \in BOOLEAN, NEW c \in Client
    PROVE  /\ Counted(c).row \in Counter /\ Counted(c).base \in Nat \cup {NoRow}
           /\ Covered(Counted(c).row, cleared[c], Counted(c).base, Read(meter[c]), carried[c])
  <1> DEFINE t == [row |-> usage[c], base |-> base[c]]
             m == Read(meter[c])
             i == Min(Reports(c))
  <1>1. /\ usage[c] \in Counter /\ base[c] \in Nat \cup {NoRow} /\ cleared[c] \in Nat
        /\ m \in Nat /\ carried[c] \in Nat
        /\ pass.meter[c] \in Counter /\ Taken
        /\ Reports(c) # {} => pass.meter[c] # NoRow
    BY DEF CInv, CountShape, Counter, Read, Taken, Reports
  <1>2. Reports(c) # {} => pass.meter[c].up \in Nat /\ Read(pass.meter[c]) = pass.meter[c].up
    BY <1>1 DEF Counter, Read
  <1>3. Covered(usage[c], cleared[c], base[c], m, carried[c])
    BY DEF CInv, CountInv
  <1>4. Counted(c) = IF Reports(c) = {} THEN t ELSE Tally(c, i, t)
    BY <1>1, <1>2, CountedTells
  <1>5. CASE Reports(c) = {}
    BY <1>1, <1>3, <1>4, <1>5
  <1>6. CASE Reports(c) # {}
    <2>1. PICK s \in Nat : s = pass.meter[c].up
      BY <1>2, <1>6
    <2>2. CoveredBy(s, usage[c], cleared[c], base[c], m, carried[c])
      BY <1>1, <1>2, <1>6, <2>1 DEF CInv, CountInv
    <2>3. i \in Inbound
      <3>1. Reports(c) \subseteq Inbound /\ Reports(c) \subseteq Nat /\ IsFiniteSet(Reports(c))
        BY NodeSyncAssumption, FS_Subset DEF Reports
      <3>2. QED
        BY <1>6, <3>1, Extremes
    <2>4. /\ t.row = usage[c] /\ t.base = base[c]
          /\ Since(m, s) \in Nat /\ Since(s, base[c]) \in Nat
      BY <1>1, SinceFacts
    <2>5. CASE usage[c] # NoRow
      <3>1. usage[c] \in [up : Nat, home : Inbound]
        BY <1>1, <2>5 DEF Counter
      <3> DEFINE u == Tally(c, i, t)
      <3>2. /\ u = [row |-> u.row, base |-> s] /\ u.row \in [up : Nat, home : Inbound]
            /\ u.row.up = usage[c].up + Since(s, base[c])
        <4>1. t.row \in [up : Nat, home : Inbound] /\ t.base \in Nat \cup {NoRow}
          BY <1>1, <3>1
        <4>2. pass.meter[c].up \in Nat
          BY <2>1
        <4> HIDE DEF t, i
        <4>3. /\ u = [row |-> u.row, base |-> pass.meter[c].up]
              /\ u.row \in [up : Nat, home : Inbound]
              /\ u.row.up = t.row.up + Since(pass.meter[c].up, t.base)
          BY <2>3, <4>1, <4>2, TallyRow
        <4>4. QED
          BY <2>1, <2>4, <4>3
      <3> HIDE DEF u
      <3>3. u.base = s
        BY <3>2
      <3>4. u.row # NoRow
        BY <3>2, NodeSyncAssumption
      <3>5. Covered(u.row, cleared[c], s, m, carried[c])
        BY <1>1, <1>3, <2>2, <2>4, <2>5, <3>1, <3>2, <3>4 DEF Covered, CoveredBy
      <3>6. Counted(c) = u
        BY <1>4, <1>6 DEF u
      <3>7. QED
        BY <2>1, <3>2, <3>3, <3>5, <3>6 DEF Counter
    <2>6. CASE usage[c] = NoRow /\ pass.dirty
      <3>1. Tally(c, i, t) = t
        BY <1>2, <1>6, <2>3, <2>4, <2>6, TallyNoRow
      <3>2. QED
        BY <1>1, <1>3, <1>4, <3>1
    <2>7. CASE usage[c] = NoRow /\ ~pass.dirty
      <3>1. Tally(c, i, t) = [row |-> [up |-> s, home |-> i], base |-> s]
        BY <1>2, <1>6, <2>1, <2>3, <2>4, <2>7, TallyNoRow
      <3>2. PICK row \in [up : Nat, home : Inbound] : row = [up |-> s, home |-> i]
        BY <2>3
      <3>3. row.up = s /\ row # NoRow
        BY <3>2, NodeSyncAssumption
      <3>4. Counted(c) = [row |-> row, base |-> s]
        BY <1>4, <1>6, <3>1, <3>2
      <3>5. Covered(row, cleared[c], s, m, carried[c])
        BY <1>1, <1>3, <2>2, <2>4, <2>7, <3>3 DEF Covered, CoveredBy
      <3>6. Counted(c).row = row /\ Counted(c).base = s
        BY <3>4
      <3>7. QED
        BY <3>5, <3>6 DEF Counter
    <2>8. QED
      BY <2>5, <2>6, <2>7
  <1>7. QED
    BY <1>5, <1>6

LEMMA MergeSteps ==
    ASSUME CInv, NInv, Merge
    PROVE  CInv'
  <1>1. /\ pass.pc = "merge" /\ pass.dirty \in BOOLEAN /\ ~Taken'
        /\ UNCHANGED <<carried, meter>>
    BY DEF NInv, ShapeInv, PassShape, Merge, Taken, Idle, node
  <1>2. cleared \in [Client -> Nat] /\ meter \in [Client -> Counter] /\ carried \in [Client -> Nat]
    BY DEF CInv, CountShape
  <1>3. /\ usage' = [c \in Client |-> usage'[c]] /\ base' = [c \in Client |-> base'[c]]
        /\ cleared' = [c \in Client |-> cleared'[c]]
        /\ \A c \in Client :
              \/ usage'[c] = NoRow /\ cleared'[c] = 0 /\ base'[c] \in {Counted(c).base, NoRow}
              \/ /\ usage'[c] = Counted(c).row /\ cleared'[c] = cleared[c]
                 /\ base'[c] \in {Counted(c).base, NoRow}
    <2>1. CASE pass.dirty
      BY <1>2, <2>1 DEF Merge, MergeCounters
    <2>2. CASE ~pass.dirty
      <3>1. PICK lost, dropped \in SUBSET Client :
               /\ usage' = [c \in Client |-> IF c \in lost THEN NoRow ELSE Counted(c).row]
               /\ base' = [c \in Client |-> IF c \in dropped THEN NoRow ELSE Counted(c).base]
               /\ cleared' = [c \in Client |-> IF c \in lost THEN 0 ELSE cleared[c]]
        <4> DEFINE linked == [i \in Inbound |-> pass.held[i] \ tombs]
                   now    == UNION {linked[i] : i \in Inbound}
                   gone   == UNION {links[i] : i \in Inbound} \ now
                   silent == {c \in Client : usage[c] # NoRow /\ \A i \in Inbound : c \notin pass.reported[i]}
                   lost   == gone \cup {c \in silent : \A j \in Others(usage[c].home) : c \notin listed[j]}
        <4>1. MergeAll
          BY <2>2 DEF Merge
        <4>2. /\ usage' = [c \in Client |-> IF c \in lost \cap Client THEN NoRow ELSE Counted(c).row]
              /\ base' = [c \in Client |-> IF c \in (gone \cup silent) \cap Client
                                           THEN NoRow ELSE Counted(c).base]
              /\ cleared' = [c \in Client |-> IF c \in lost \cap Client THEN 0 ELSE cleared[c]]
          BY <4>1 DEF MergeAll
        <4> HIDE DEF lost, gone, silent
        <4>3. lost \cap Client \in SUBSET Client /\ (gone \cup silent) \cap Client \in SUBSET Client
          OBVIOUS
        <4>4. QED
          BY <4>2, <4>3
      <3>2. QED
        BY <3>1
    <2>3. QED
      BY <2>1, <2>2
  <1>4. ASSUME NEW c \in Client
        PROVE  /\ usage'[c] \in Counter /\ base'[c] \in Nat \cup {NoRow} /\ cleared'[c] \in Nat
               /\ Covered(usage'[c], cleared'[c], base'[c], Read(meter'[c]), carried'[c])
    <2>1. /\ Counted(c).row \in Counter /\ Counted(c).base \in Nat \cup {NoRow}
          /\ Covered(Counted(c).row, cleared[c], Counted(c).base, Read(meter[c]), carried[c])
      BY <1>1, CountedCovers
    <2>2. Read(meter[c]) \in Nat /\ cleared[c] \in Nat /\ carried[c] \in Nat
      BY <1>2 DEF Counter, Read
    <2>3. /\ usage'[c] \in Counter /\ base'[c] \in Nat \cup {NoRow} /\ cleared'[c] \in Nat
      BY <1>3, <2>1, <2>2 DEF Counter
    <2>4. CASE usage'[c] = NoRow /\ cleared'[c] = 0
      BY <1>1, <2>1, <2>3, <2>4 DEF Covered
    <2>5. CASE usage'[c] = Counted(c).row /\ cleared'[c] = cleared[c]
      <3>1. /\ Since(Read(meter[c]), NoRow) = 0
            /\ Since(Read(meter[c]), Counted(c).base) \in Nat
        BY <2>1, <2>2, SinceFacts
      <3>2. Counted(c).row # NoRow => Counted(c).row.up \in Nat
        BY <2>1 DEF Counter
      <3>3. base'[c] = Counted(c).base \/ base'[c] = NoRow
        BY <1>3
      <3>4. Covered(Counted(c).row, cleared[c], NoRow, Read(meter[c]), carried[c])
        BY <2>1, <2>2, <3>1, <3>2 DEF Covered
      <3>5. QED
        BY <1>1, <2>1, <2>3, <2>5, <3>3, <3>4
    <2>6. QED
      BY <1>3, <2>3, <2>4, <2>5
  <1>5. CountShape'
    BY <1>1, <1>2, <1>3, <1>4 DEF CountShape
  <1>6. CountInv'
    BY <1>1, <1>4 DEF CountInv
  <1>7. QED
    BY <1>5, <1>6 DEF CInv

-----------------------------------------------------------------------------
(* The invariant the property rests on.                                    *)
THEOREM NodeSyncInvariance == Spec => []NInv
  <1>1. NInv /\ [Next]_vars => NInv'
    BY QuietSteps, LockSteps, WriteSteps, MarkSteps, PassSteps DEF Next, Continue
  <1>2. QED
    BY <1>1, InitNodeSync, PTL DEF Spec

(* An edit that the node did not take and that was marked (node.go:578,    *)
(* client_inbound_apply.go:311, 799) stays in the panel's lists and keeps  *)
(* the node dirty until the node has it: no pass clears a mark it does not *)
(* carry (node.go:590), and no merge puts an older list in its place       *)
(* (inbound_node.go:409), whatever fails and however requests meet.        *)
THEOREM MarksAreKept == Spec => []MarkedUntilDelivered
  <1>1. NInv => MarkedUntilDelivered
    BY DEF NInv, OwedInv, MarkInv, MarkedUntilDelivered, Kept
  <1>2. QED
    BY <1>1, NodeSyncInvariance, PTL

(* With a snapshot at hand, what it shows beyond the baseline and what the *)
(* node has counted since are covered by what was carried.                 *)
THEOREM CountInvariance == Spec => []CInv
  <1>1. NInv /\ CInv /\ [Next]_vars => CInv'
    BY StillSteps, RequestSteps, CarrySteps, FetchSteps, MergeSteps DEF Next, Continue, Pass
  <1>2. QED
    BY <1>1, InitCount, NodeSyncInvariance, PTL DEF Spec

(* What client_traffics holds for a client, with what resets put aside,    *)
(* never exceeds what the node carried for it: the delta of a merge        *)
(* (inbound_node.go:546) is taken once per client however many inbounds    *)
(* report it (:616), from a snapshot that may be older than a reset, a     *)
(* deletion or a new row on either panel.                                  *)
THEOREM TrafficCountedOnce == Spec => []CountedOnce
  <1>1. CInv => CountedOnce
    <2> SUFFICES ASSUME CInv, NEW c \in Client, usage[c] # NoRow
                 PROVE  usage[c].up + cleared[c] <= carried[c]
      BY DEF CountedOnce
    <2>1. Read(meter[c]) \in Nat /\ base[c] \in Nat \cup {NoRow} /\ usage[c].up \in Nat
      BY DEF CInv, CountShape, Counter, Read
    <2>2. Since(Read(meter[c]), base[c]) \in Nat
      BY <2>1, SinceFacts
    <2>3. usage[c].up + cleared[c] + Since(Read(meter[c]), base[c]) <= carried[c]
      BY DEF CInv, CountInv, Covered
    <2>4. cleared[c] \in Nat /\ carried[c] \in Nat
      BY DEF CInv, CountShape
    <2>5. QED
      BY <2>1, <2>2, <2>3, <2>4
  <1>2. QED
    BY <1>1, CountInvariance, PTL
=============================================================================
