----------------------------- MODULE XrayProofs -----------------------------
(***************************************************************************)
(* Proofs about the core's configuration: of XraySupervisor, for every set *)
(* of clients and callers in whatever roles, and any number of failures,   *)
(* requests and edits; and of XrayEditor, for any number of edits, saves   *)
(* and changes of subscriptions.                                           *)
(*                                                                         *)
(* SnapshotCurrent is not inductive: that the core has the new             *)
(* configuration when p.SetConfig is called takes the mutex (TypeOK) and   *)
(* what each call made of the core so far, with edits pushed in between    *)
(* (HotInv).                                                               *)
(*                                                                         *)
(* Nor are CleanIsSaved and TagsResolve.  The first takes what is on its   *)
(* way to the page (SavedInv).  The second takes the same of every         *)
(* template the page may yet show, the server's, the cached one, those     *)
(* being saved and the one a fetch has read (Held), of the rule an open    *)
(* form keeps (FormKept), and that "blocked", which the routing basics     *)
(* name without adding it, is there or was taken away (Resolved).          *)
(***************************************************************************)
EXTENDS XraySupervisor, XrayEditor, SequenceTheorems, FiniteSetTheorems, WellFoundedInduction, TLAPS

(* While a difference is applied, what has been called for is in the core, *)
(* and the rest was never different.                                       *)
Applied(c) ==
    /\ cfg[c].static = snap.static /\ core.static = snap.static
    /\ "dropOutbound" \in todo => cfg[c].outbound = 0
    /\ "addOutbound" \in todo => cfg[c].outbound = 1
    /\ {"dropOutbound", "addOutbound"} \cap todo = {} => core.outbound = cfg[c].outbound
    /\ "route" \notin todo => core.routing = cfg[c].routing
    /\ "dropInbound" \in todo /\ "addInbound" \notin todo => cfg[c].inbound = Absent
    /\ {"dropInbound", "addInbound"} \cap todo = {} => pushed \/ core.inbound = cfg[c].inbound

HotInv == \A c \in Caller : pc[c] = "hot" /\ up => Applied(c)

XInv == TypeOK /\ HotInv /\ SnapshotCurrent

Steps == Inside \cup {"idle", "lock", "lockstop", "saved", "done", "failed"}

-----------------------------------------------------------------------------
(* The fields of a configuration, and what changing some does to it.       *)
LEMMA ConfigFields ==
    ASSUME NEW k \in Config
    PROVE  /\ k.inbound \in Inbounds
           /\ k.outbound \in 0..1 /\ k.routing \in 0..1 /\ k.static \in 0..1
  BY DEF Config

LEMMA InboundChanged ==
    ASSUME NEW k \in Config, NEW i \in Inbounds, NEW n, n = [k EXCEPT !.inbound = i]
    PROVE  /\ n \in Config /\ n.inbound = i
           /\ n.outbound = k.outbound /\ n.routing = k.routing /\ n.static = k.static
  BY DEF Config

LEMMA OutboundChanged ==
    ASSUME NEW k \in Config, NEW o \in 0..1, NEW n, n = [k EXCEPT !.outbound = o]
    PROVE  /\ n \in Config /\ n.outbound = o
           /\ n.inbound = k.inbound /\ n.routing = k.routing /\ n.static = k.static
  BY DEF Config

LEMMA RoutingChanged ==
    ASSUME NEW k \in Config, NEW r \in 0..1, NEW n, n = [k EXCEPT !.routing = r]
    PROVE  /\ n \in Config /\ n.routing = r
           /\ n.inbound = k.inbound /\ n.outbound = k.outbound /\ n.static = k.static
  BY DEF Config

LEMMA EmptyIsOne == Absent \in Inbounds /\ Empty \in Config
  BY DEF Inbounds, Empty, Config

LEMMA UsersChanged ==
    ASSUME NEW i \in Inbounds, i # Absent, NEW u \in SUBSET Client
    PROVE  [i EXCEPT !.users = u] \in Inbounds
  BY DEF Inbounds

LEMMA InboundUsers ==
    ASSUME NEW i \in Inbounds
    PROVE  i.users \in SUBSET Client
  BY DEF Inbounds, Absent

(* Only the holder of the mutex is inside.                                 *)
LEMMA OneInside ==
    ASSUME TypeOK, NEW c \in Caller, NEW d \in Caller, pc[c] \in Inside, pc[d] \in Inside
    PROVE  c = d
  BY DEF TypeOK

(* A step that moves one caller from outside the mutex to outside, or      *)
(* within it but not from or to an attempt, and no configuration.          *)
LEMMA CallerMoves ==
    ASSUME XInv, NEW c \in Caller, NEW step \in Steps \ {"hot"}, Goto(c, step),
           UNCHANGED <<db, process, lock, cfg, edit, edits>>,
           todo' = todo \/ (todo' = {} /\ pc[c] \in Inside),
           flag' \in BOOLEAN, manual' \in BOOLEAN, ticks' \in 0..2,
           calls' \in [Caller -> 0..MaxCalls], faults' \in 0..MaxFaults,
           step \in Inside <=> pc[c] \in Inside,
           pc[c] \notin {"hot", "stop"}
    PROVE  XInv'
  <1> USE DEF XInv, process
  <1>1. pc' \in [Caller -> Steps] /\ pc'[c] = step /\ \A d \in Caller : d # c => pc'[d] = pc[d]
    BY DEF Goto, TypeOK, Steps
  <1>2. \A d \in Caller : pc'[d] \in Inside <=> lock' = d
    BY <1>1 DEF TypeOK
  <1>3. TypeOK'
    <2>1. todo' \subseteq Operations
      BY DEF TypeOK
    <2>2. QED
      BY <1>1, <1>2, <2>1 DEF TypeOK, Steps
  <1>4. HotInv'
    <2>1. SUFFICES ASSUME NEW d \in Caller, pc'[d] = "hot", up'
                   PROVE  Applied(d)'
      BY DEF HotInv
    <2>2. d # c /\ pc[d] = "hot"
      BY <1>1, <2>1
    <2>3. todo' = todo
      BY <2>2, OneInside DEF Inside
    <2>4. Applied(d)
      BY <2>1, <2>2 DEF HotInv
    <2>5. QED
      BY <2>3, <2>4 DEF Applied
  <1>5. SnapshotCurrent'
    <2>1. Reconciling => Reconciling'
      BY <1>1 DEF Reconciling
    <2>2. QED
      BY <2>1 DEF SnapshotCurrent
  <1>6. QED
    BY <1>3, <1>4, <1>5

(* Taking the mutex.                                                       *)
LEMMA MutexTaken ==
    ASSUME XInv, NEW c \in Caller, NEW step \in {"build", "halt"}, Goto(c, step),
           lock = Nobody, lock' = c, pc[c] \notin Inside, manual' \in BOOLEAN,
           UNCHANGED <<db, process, flag, ticks, cfg, todo, calls, editing, faults>>
    PROVE  XInv'
  <1> USE DEF XInv, process, editing
  <1>1. pc' \in [Caller -> Steps] /\ pc'[c] = step /\ \A d \in Caller : d # c => pc'[d] = pc[d]
    BY DEF Goto, TypeOK, Steps, Inside
  <1>2. \A d \in Caller : pc'[d] \in Inside <=> lock' = d
    BY <1>1, XraySupervisorAssumption DEF TypeOK, Inside
  <1>3. TypeOK'
    BY <1>1, <1>2 DEF TypeOK, Steps
  <1>4. \A d \in Caller : pc[d] \notin Inside
    BY XraySupervisorAssumption DEF TypeOK
  <1>5. HotInv'
    BY <1>1, <1>4 DEF HotInv, Inside
  <1>6. SnapshotCurrent'
    BY <1>4 DEF SnapshotCurrent, Reconciling, Inside
  <1>7. QED
    BY <1>3, <1>5, <1>6

(* What the panel believes of the core is so, inbounds aside if pushed.    *)
Believed == /\ core.static = snap.static
            /\ core.outbound = snap.outbound
            /\ core.routing = snap.routing
            /\ pushed \/ core.inbound = snap.inbound

(* Giving it back, with the configurations as the holder leaves them.      *)
LEMMA MutexReturned ==
    ASSUME XInv, NEW c \in Caller, NEW result \in {"idle", "done", "failed"},
           Return(c, result), pc[c] \in Inside,
           UNCHANGED <<db, signals, todo, calls, editing>>,
           {core', snap'} \subseteq Config, up' \in BOOLEAN, pushed' \in BOOLEAN,
           faults' \in 0..MaxFaults,
           up' => Believed'
    PROVE  XInv'
  <1> USE DEF XInv, signals, editing
  <1>1. pc' \in [Caller -> Steps] /\ pc'[c] = result /\ \A d \in Caller : d # c => pc'[d] = pc[d]
    BY DEF Return, Goto, TypeOK, Steps
  <1>2. lock = c /\ lock' = Nobody /\ \A d \in Caller : pc'[d] \notin Inside
    BY <1>1 DEF Return, TypeOK, Inside
  <1>3. TypeOK'
    <2>1. cfg' \in [Caller -> Config]
      BY EmptyIsOne DEF Return, TypeOK
    <2>2. \A d \in Caller : pc'[d] \in Inside <=> lock' = d
      BY <1>2, XraySupervisorAssumption
    <2>3. db' \in Config
      BY DEF TypeOK
    <2>4. QED
      BY <1>1, <1>2, <2>1, <2>2, <2>3 DEF TypeOK, Steps
  <1>4. HotInv'
    BY <1>2 DEF HotInv, Inside
  <1>5. SnapshotCurrent'
    BY DEF SnapshotCurrent, Believed
  <1>6. QED
    BY <1>3, <1>4, <1>5

(* A step of the mutex's holder that stays inside, not to an attempt.      *)
LEMMA HolderMoves ==
    ASSUME XInv, NEW c \in Caller, NEW step \in {"decide", "stop", "start"}, Goto(c, step),
           pc[c] \in Inside, UNCHANGED <<db, snap, signals, lock, calls, editing>>,
           cfg' \in [Caller -> Config], core' \in Config, up' \in BOOLEAN, pushed' \in BOOLEAN,
           todo' \subseteq Operations, faults' \in 0..MaxFaults,
           up' /\ step # "stop" => Believed'
    PROVE  XInv'
  <1> USE DEF XInv, signals, editing
  <1>1. pc' \in [Caller -> Steps] /\ pc'[c] = step /\ \A d \in Caller : d # c => pc'[d] = pc[d]
    BY DEF Goto, TypeOK, Steps, Inside
  <1>2. lock = c /\ \A d \in Caller : pc'[d] \in Inside <=> lock' = d
    BY <1>1 DEF TypeOK, Inside
  <1>3. TypeOK'
    <2>1. {db', snap', core'} \subseteq Config
      BY DEF TypeOK
    <2>2. QED
      BY <1>1, <1>2, <2>1 DEF TypeOK, Steps
  <1>4. HotInv'
    <2>1. \A d \in Caller : pc'[d] # "hot"
      BY <1>1, <1>2 DEF Inside
    <2>2. QED
      BY <2>1 DEF HotInv
  <1>5. SnapshotCurrent'
    <2>1. step = "stop" => Reconciling'
      BY <1>1 DEF Reconciling
    <2>2. QED
      BY <2>1 DEF SnapshotCurrent, Believed
  <1>6. QED
    BY <1>3, <1>4, <1>5

(* The mutex's holder, when it is not reconciling, finds what is believed. *)
LEMMA HolderBelieves ==
    ASSUME XInv, NEW c \in Caller, pc[c] \in Inside \ {"hot", "stop"}, up
    PROVE  Believed
  <1>1. ~Reconciling
    BY OneInside DEF XInv, Reconciling, Inside
  <1>2. QED
    BY <1>1 DEF XInv, SnapshotCurrent, Believed

-----------------------------------------------------------------------------
LEMMA InitXray == Init => XInv
  <1> SUFFICES ASSUME Init
               PROVE  XInv
    OBVIOUS
  <1>1. db \in Config /\ snap = db /\ core = db
    BY XraySupervisorAssumption DEF Init
  <1>2. TypeOK
    <2>a. {db, snap, core} \subseteq Config
      BY <1>1
    <2>b. cfg \in [Caller -> Config]
      BY EmptyIsOne DEF Init
    <2>c. edit \in Edits
      BY EmptyIsOne DEF Init, NoEdit, Edits
    <2>d. /\ up = TRUE /\ flag = FALSE /\ manual = FALSE /\ pushed = FALSE
          /\ ticks = 0 /\ lock = Nobody /\ todo = {}
      BY Zenon DEF Init
    <2>1. /\ up \in BOOLEAN /\ flag \in BOOLEAN /\ manual \in BOOLEAN /\ pushed \in BOOLEAN
          /\ ticks \in 0..2 /\ lock \in Caller \cup {Nobody} /\ todo \subseteq Operations
      <3>1. up \in BOOLEAN /\ flag \in BOOLEAN /\ manual \in BOOLEAN /\ pushed \in BOOLEAN
        BY <2>d, Zenon
      <3>2. ticks \in 0..2 /\ todo \subseteq Operations
        BY <2>d
      <3>3. lock \in Caller \cup {Nobody}
        BY <2>d
      <3>4. QED
        BY <3>1, <3>2, <3>3
    <2>2. /\ calls \in [Caller -> 0..MaxCalls] /\ edits \in 0..MaxEdits /\ faults \in 0..MaxFaults
      BY XraySupervisorAssumption DEF Init
    <2>3. /\ pc \in [Caller -> Steps] /\ \A c \in Caller : pc[c] \notin Inside /\ lock # c
      BY XraySupervisorAssumption DEF Init, Steps, Inside
    <2>4. QED
      BY <2>a, <2>b, <2>c, <2>1, <2>2, <2>3 DEF TypeOK, Steps
  <1>3. HotInv /\ SnapshotCurrent
    BY <1>1 DEF Init, HotInv, SnapshotCurrent
  <1>4. QED
    BY <1>2, <1>3 DEF XInv

(* The callers outside the mutex.                                          *)
LEMMA OutsideKeeps ==
    ASSUME XInv, NEW c \in Caller,
           Check(c) \/ ConsumeFlag(c) \/ Request(c) \/ SeeRunning(c) \/ Resume(c)
    PROVE  XInv'
  <1> USE DEF XInv
  <1>0. /\ calls \in [Caller -> 0..MaxCalls] /\ ticks \in 0..2 /\ faults \in 0..MaxFaults
        /\ flag \in BOOLEAN /\ manual \in BOOLEAN /\ db \in Config
    BY DEF TypeOK
  <1>1. CASE Save(c)
    <2>1. /\ UNCHANGED <<process, signals, lock, cfg, todo, edit, edits, faults>>
          /\ pc[c] = "idle" /\ pc' = [pc EXCEPT ![c] = "saved"]
          /\ calls' \in [Caller -> 0..MaxCalls]
      BY <1>0, <1>1, XraySupervisorAssumption DEF Save, Asks, Goto, editing
    <2>2. db' \in Config
      <3>1. PICK new \in Templates : db' = [new EXCEPT !.inbound = db.inbound]
        BY <1>1 DEF Save
      <3>2. new \in Config /\ db.inbound \in Inbounds
        BY <1>0, XraySupervisorAssumption, ConfigFields
      <3>3. QED
        BY <3>1, <3>2, InboundChanged
    <2>3. /\ pc' \in [Caller -> Steps] /\ pc'[c] = "saved"
          /\ \A d \in Caller : d # c => pc'[d] = pc[d]
      BY <2>1 DEF TypeOK, Steps
    <2>4. \A d \in Caller : pc'[d] \in Inside <=> lock' = d
      BY <2>1, <2>3 DEF TypeOK, Inside
    <2>5. TypeOK'
      BY <2>1, <2>2, <2>3, <2>4 DEF TypeOK, Steps, signals, process
    <2>6. HotInv' /\ SnapshotCurrent'
      <3>1. \A d \in Caller, step \in {"hot", "stop"} : pc'[d] = step <=> pc[d] = step
        BY <2>1, <2>3
      <3>2. SnapshotCurrent'
        BY <2>1, <3>1 DEF SnapshotCurrent, Reconciling, process
      <3>3. HotInv'
        BY <2>1, <3>1 DEF HotInv, Applied, process
      <3>4. QED
        BY <3>2, <3>3
    <2>7. QED
      BY <2>5, <2>6
  <1>2. CASE AskRestart(c) \/ AskStop(c)
    <2>1. calls' \in [Caller -> 0..MaxCalls] /\ pc[c] = "idle"
      BY <1>0, <1>2, XraySupervisorAssumption DEF AskRestart, AskStop, Asks
    <2>2. PICK step \in {"lock", "lockstop"} : Goto(c, step)
      BY <1>2 DEF AskRestart, AskStop
    <2>3. UNCHANGED <<db, process, signals, lock, cfg, todo, edit, edits, faults>>
      BY <1>2 DEF AskRestart, AskStop, editing
    <2>4. QED
      BY <1>0, <2>1, <2>2, <2>3, CallerMoves DEF Steps, Inside, signals
  <1>3. CASE ConsumeFlag(c) \/ SeeRunning(c) \/ Resume(c)
    <2>1. PICK step \in {"lock", "idle"} : Goto(c, step)
      BY <1>3 DEF ConsumeFlag, SeeRunning, Resume
    <2>2. /\ UNCHANGED <<db, process, manual, lock, cfg, todo, calls, edit, edits, faults>>
          /\ flag' \in BOOLEAN /\ ticks' \in 0..2 /\ pc[c] \in {"idle", "saved", "done", "failed"}
      <3>1. CASE ConsumeFlag(c)
        BY <1>0, <3>1 DEF ConsumeFlag, editing
      <3>2. CASE SeeRunning(c)
        BY <1>0, <3>2 DEF SeeRunning, editing, signals
      <3>3. CASE Resume(c)
        <4>1. flag' \in BOOLEAN
          BY <3>3 DEF Resume
        <4>2. QED
          BY <1>0, <3>3, <4>1 DEF Resume, editing
      <3>4. QED
        BY <1>3, <3>1, <3>2, <3>3
    <2>3. QED
      BY <1>0, <2>1, <2>2, CallerMoves DEF Steps, Inside
  <1>4. CASE Check(c)
    <2>1. /\ UNCHANGED <<db, process, flag, manual, lock, cfg, todo, calls, edit, edits, faults>>
          /\ ticks' \in 0..2 /\ pc[c] = "idle"
      BY <1>0, <1>4 DEF Check, editing
    <2>2. CASE Goto(c, "lock")
      BY <1>0, <2>1, <2>2, CallerMoves DEF Steps, Inside
    <2>3. CASE UNCHANGED pc
      <3>1. TypeOK'
        BY <2>1, <2>3 DEF TypeOK, process
      <3>2. SnapshotCurrent'
        BY <2>1, <2>3 DEF SnapshotCurrent, Reconciling, process
      <3>3. HotInv'
        BY <2>1, <2>3 DEF HotInv, Applied, process
      <3>4. QED
        BY <3>1, <3>2, <3>3
    <2>4. QED
      BY <1>4, <2>2, <2>3 DEF Check
  <1>5. QED
    BY <1>1, <1>2, <1>3, <1>4 DEF Request

(* A call of tryHotApply brings what it is about where it should be, and   *)
(* leaves the rest.                                                        *)
LEMMA CallChanges ==
    ASSUME core \in Config, NEW new \in Config, NEW op \in Operations
    PROVE  /\ Called(op, new) \in Config
           /\ Called(op, new).static = core.static
           /\ Called(op, new).outbound = IF op = "dropOutbound" THEN 0
                                         ELSE IF op = "addOutbound" THEN 1 ELSE core.outbound
           /\ Called(op, new).routing = IF op = "route" THEN new.routing ELSE core.routing
           /\ Called(op, new).inbound = IF op = "dropInbound" THEN Absent
                                        ELSE IF op = "addInbound" THEN new.inbound ELSE core.inbound
  <1>0. new.inbound \in Inbounds /\ new.routing \in 0..1
    BY ConfigFields
  <1>1. CASE op = "dropInbound"
    BY <1>1, EmptyIsOne, InboundChanged DEF Called
  <1>2. CASE op = "dropOutbound"
    BY <1>2, OutboundChanged DEF Called
  <1>3. CASE op = "addOutbound"
    BY <1>3, OutboundChanged DEF Called
  <1>4. CASE op = "addInbound"
    BY <1>0, <1>4, InboundChanged DEF Called
  <1>5. CASE op = "route"
    BY <1>0, <1>5, RoutingChanged DEF Called
  <1>6. QED
    BY <1>1, <1>2, <1>3, <1>4, <1>5 DEF Operations

LEMMA HotCallKeeps ==
    ASSUME XInv, NEW c \in Caller, HotCall(c)
    PROVE  XInv'
  <1> USE DEF XInv
  <1>0. /\ UNCHANGED <<db, snap, up, signals, lock, pc, cfg, calls, editing, faults>>
        /\ pc[c] = "hot" /\ up
    BY DEF HotCall
  <1>1. PICK op \in todo : /\ First(op)
                           /\ core' = Called(op, cfg[c])
                           /\ todo' = todo \ {op}
                           /\ pushed' = (pushed /\ ~LastOfInbound(op))
    BY DEF HotCall
  <1>2. op \in Operations /\ core \in Config /\ cfg[c] \in Config /\ todo \subseteq Operations
    BY <1>1 DEF TypeOK
  <1>3. Applied(c)
    BY <1>0 DEF HotInv
  <1>4. /\ core' \in Config
        /\ core'.static = core.static
        /\ core'.outbound = IF op = "dropOutbound" THEN 0
                            ELSE IF op = "addOutbound" THEN 1 ELSE core.outbound
        /\ core'.routing = IF op = "route" THEN cfg[c].routing ELSE core.routing
        /\ core'.inbound = IF op = "dropInbound" THEN Absent
                           ELSE IF op = "addInbound" THEN cfg[c].inbound ELSE core.inbound
    BY <1>1, <1>2, CallChanges
  <1>5. pushed' \in BOOLEAN /\ todo' \subseteq Operations
    BY <1>1, <1>2
  <1>6. TypeOK'
    BY <1>0, <1>4, <1>5 DEF TypeOK, signals, editing
  <1>7. cfg'[c] = cfg[c] /\ snap' = snap
    BY <1>0
  <1>8. Applied(c)'
    <2>1. cfg'[c].static = snap'.static /\ core'.static = snap'.static
      BY <1>3, <1>4, <1>7 DEF Applied
    <2>2. /\ "dropOutbound" \in todo' => cfg'[c].outbound = 0
          /\ "addOutbound" \in todo' => cfg'[c].outbound = 1
      BY <1>1, <1>3, <1>7 DEF Applied
    <2>3. {"dropOutbound", "addOutbound"} \cap todo' = {} => core'.outbound = cfg'[c].outbound
      <3>1. "dropOutbound" \in todo => cfg[c].outbound = 0
        BY <1>3 DEF Applied
      <3>2. "addOutbound" \in todo => cfg[c].outbound = 1
        BY <1>3 DEF Applied
      <3>3. {"dropOutbound", "addOutbound"} \cap todo = {} => core.outbound = cfg[c].outbound
        BY <1>3 DEF Applied
      <3>4. CASE op = "dropOutbound"
        BY <1>1, <1>4, <1>7, <3>1, <3>4
      <3>5. CASE op = "addOutbound"
        BY <1>1, <1>4, <1>7, <3>2, <3>5
      <3>6. CASE op \notin {"dropOutbound", "addOutbound"}
        BY <1>1, <1>4, <1>7, <3>3, <3>6
      <3>7. QED
        BY <3>4, <3>5, <3>6
    <2>4. "route" \notin todo' => core'.routing = cfg'[c].routing
      <3>1. "route" \notin todo => core.routing = cfg[c].routing
        BY <1>3 DEF Applied
      <3>2. CASE op = "route"
        BY <1>4, <1>7, <3>2
      <3>3. CASE op # "route"
        BY <1>1, <1>4, <1>7, <3>1, <3>3
      <3>4. QED
        BY <3>2, <3>3
    <2>a. op = "addInbound" => "dropInbound" \notin todo
      BY <1>1 DEF First, Turn
    <2>5. "dropInbound" \in todo' /\ "addInbound" \notin todo' => cfg'[c].inbound = Absent
      <3>1. "dropInbound" \in todo /\ "addInbound" \notin todo => cfg[c].inbound = Absent
        BY <1>3 DEF Applied
      <3>2. QED
        BY <1>1, <1>7, <2>a, <3>1
    <2>6. {"dropInbound", "addInbound"} \cap todo' = {}
             => pushed' \/ core'.inbound = cfg'[c].inbound
      <3>1. "dropInbound" \in todo /\ "addInbound" \notin todo => cfg[c].inbound = Absent
        BY <1>3 DEF Applied
      <3>2. {"dropInbound", "addInbound"} \cap todo = {}
               => pushed \/ core.inbound = cfg[c].inbound
        BY <1>3 DEF Applied
      <3>3. CASE op = "dropInbound"
        BY <1>1, <1>4, <1>7, <3>1, <3>3
      <3>4. CASE op = "addInbound"
        BY <1>4, <1>7, <3>4
      <3>5. CASE op \notin {"dropInbound", "addInbound"}
        <4>1. ~LastOfInbound(op)
          BY <3>5 DEF LastOfInbound
        <4>2. core'.inbound = core.inbound
          BY <1>4, <3>5
        <4>3. pushed => pushed'
          BY <1>1, <4>1
        <4>4. {"dropInbound", "addInbound"} \cap todo' = {}
                 => {"dropInbound", "addInbound"} \cap todo = {}
          BY <1>1, <3>5
        <4>5. QED
          BY <1>7, <3>2, <4>2, <4>3, <4>4
      <3>6. QED
        BY <3>3, <3>4, <3>5
    <2>7. QED
      BY <2>1, <2>2, <2>3, <2>4, <2>5, <2>6 DEF Applied
  <1>9. HotInv'
    <2>1. \A d \in Caller : pc'[d] = "hot" => d = c
      BY <1>0, OneInside DEF Inside
    <2>2. QED
      BY <1>8, <2>1 DEF HotInv
  <1>10. SnapshotCurrent'
    BY <1>0 DEF SnapshotCurrent, Reconciling
  <1>11. QED
    BY <1>6, <1>9, <1>10

(* The difference is found when the core is as believed.                   *)
LEMMA AttemptBegins ==
    ASSUME XInv, NEW c \in Caller, Decide(c), Goto(c, "hot"), Hot(c),
           todo' = Difference(snap, cfg[c]), UNCHANGED <<lock, cfg>>
    PROVE  XInv'
  <1> USE DEF XInv
  <1>1. /\ UNCHANGED <<db, process, signals, calls, editing, faults, lock, cfg>>
        /\ pc[c] = "decide"
    BY DEF Decide
  <1>2. pc' \in [Caller -> Steps] /\ pc'[c] = "hot" /\ \A d \in Caller : d # c => pc'[d] = pc[d]
    BY DEF Goto, TypeOK, Steps, Inside
  <1>3. \A d \in Caller : pc'[d] \in Inside <=> lock' = d
    BY <1>1, <1>2 DEF TypeOK, Inside
  <1>4. todo' \subseteq Operations
    BY DEF Difference, Operations
  <1>5. TypeOK'
    BY <1>1, <1>2, <1>3, <1>4 DEF TypeOK, Steps, signals, editing, process
  <1>6. Believed /\ cfg[c].static = snap.static
    BY <1>1, HolderBelieves DEF Hot, Inside
  <1>7. /\ snap.outbound \in 0..1 /\ cfg[c].outbound \in 0..1
    BY ConfigFields DEF TypeOK
  <1>8. Applied(c)'
    <2>1. cfg'[c].static = snap'.static /\ core'.static = snap'.static
      BY <1>1, <1>6 DEF process, Believed
    <2>2. /\ "dropOutbound" \in todo' <=> snap.outbound = 1 /\ cfg[c].outbound = 0
          /\ "addOutbound" \in todo' <=> snap.outbound = 0 /\ cfg[c].outbound = 1
          /\ "route" \in todo' <=> snap.routing # cfg[c].routing
          /\ "dropInbound" \in todo' <=> snap.inbound # cfg[c].inbound /\ snap.inbound # Absent
          /\ "addInbound" \in todo' <=> snap.inbound # cfg[c].inbound /\ cfg[c].inbound # Absent
      BY DEF Difference
    <2>3. /\ core'.outbound = snap.outbound /\ core'.routing = snap.routing
          /\ pushed' \/ core'.inbound = snap.inbound
          /\ cfg' = cfg
      BY <1>1, <1>6 DEF process, Believed
    <2>4. {"dropOutbound", "addOutbound"} \cap todo' = {} => core'.outbound = cfg'[c].outbound
      BY <1>7, <2>2, <2>3
    <2>5. {"dropInbound", "addInbound"} \cap todo' = {}
             => pushed' \/ core'.inbound = cfg'[c].inbound
      BY <2>2, <2>3
    <2>6. QED
      BY <2>1, <2>2, <2>3, <2>4, <2>5 DEF Applied
  <1>9. HotInv'
    <2>1. \A d \in Caller : pc'[d] = "hot" => d = c
      BY <1>1, <1>2, OneInside DEF Inside
    <2>2. QED
      BY <1>8, <2>1 DEF HotInv
  <1>10. SnapshotCurrent'
    BY <1>2 DEF SnapshotCurrent, Reconciling
  <1>11. QED
    BY <1>5, <1>9, <1>10

(* RestartXray and StopXray under the mutex.                               *)
LEMMA InsideKeeps ==
    ASSUME XInv, NEW c \in Caller,
           \/ Locking(c) \/ Build(c) \/ Decide(c) \/ HotCall(c) \/ SetConfig(c) \/ HotFails(c)
           \/ StopCore(c) \/ StartCore(c) \/ Halt(c)
    PROVE  XInv'
  <1> USE DEF XInv
  <1>0. /\ db \in Config /\ snap \in Config /\ core \in Config /\ cfg \in [Caller -> Config]
        /\ up \in BOOLEAN /\ pushed \in BOOLEAN /\ faults \in 0..MaxFaults
        /\ todo \subseteq Operations
    BY DEF TypeOK
  <1>a. \A kind : Fault(kind) => faults' \in 0..MaxFaults
    BY <1>0, XraySupervisorAssumption DEF Fault
  <1>b. Down => core' \in Config /\ up' = FALSE /\ up' \in BOOLEAN /\ pushed' \in BOOLEAN
    BY EmptyIsOne DEF Down
  <1>1. CASE Acquire(c)
    BY <1>1, MutexTaken DEF Acquire, Inside
  <1>2. CASE AcquireStop(c)
    BY <1>2, MutexTaken DEF AcquireStop, Inside
  <1>3. CASE Build(c)
    <2>1. /\ UNCHANGED <<snap, core, up, pushed, db, signals, todo, calls, editing>>
          /\ pc[c] = "build"
      BY <1>3 DEF Build, process
    <2>2. up' => Believed'
      BY <2>1, HolderBelieves DEF Believed, Inside
    <2>3. CASE Goto(c, "decide") /\ UNCHANGED <<lock, faults>> /\ cfg' = [cfg EXCEPT ![c] = db]
      <3>1. cfg' \in [Caller -> Config]
        BY <1>0, <2>3
      <3>2. QED
        BY <1>0, <2>1, <2>2, <2>3, <3>1, HolderMoves DEF Inside
    <2>4. CASE Return(c, "failed") /\ Fault("build")
      BY <1>0, <1>a, <2>1, <2>2, <2>4, MutexReturned DEF Inside
    <2>5. QED
      BY <1>3, <2>3, <2>4 DEF Build
  <1>4. CASE Decide(c)
    <2>1. /\ UNCHANGED <<snap, core, up, pushed, db, signals, calls, edit, edits, faults>>
          /\ UNCHANGED editing /\ UNCHANGED process /\ pc[c] = "decide"
      BY <1>4 DEF Decide, process, editing
    <2>2. up' => Believed'
      BY <2>1, HolderBelieves DEF Believed, Inside
    <2>3. CASE Return(c, "done") /\ UNCHANGED todo
      BY <1>0, <2>1, <2>2, <2>3, MutexReturned DEF Inside
    <2>4. ASSUME NEW step \in {"stop", "start"}, Goto(c, step), UNCHANGED <<lock, cfg>>, todo' = {}
          PROVE  XInv'
      <3>1. /\ flag' \in BOOLEAN /\ manual' \in BOOLEAN /\ ticks' \in 0..2
            /\ calls' \in [Caller -> 0..MaxCalls] /\ faults' \in 0..MaxFaults
        BY <2>1 DEF TypeOK, signals
      <3>2. QED
        BY <2>1, <2>4, <3>1, CallerMoves DEF Steps, Inside
    <2>5. CASE /\ Goto(c, IF Hot(c) THEN "hot" ELSE IF up THEN "stop" ELSE "start")
               /\ todo' = IF Hot(c) THEN Difference(snap, cfg[c]) ELSE {}
               /\ UNCHANGED <<lock, cfg>>
      <3>1. CASE Hot(c)
        BY <1>4, <2>5, <3>1, AttemptBegins
      <3>2. CASE ~Hot(c) /\ up
        BY <2>4, <2>5, <3>2
      <3>3. CASE ~Hot(c) /\ ~up
        BY <2>4, <2>5, <3>3
      <3>4. QED
        BY <3>1, <3>2, <3>3
    <2>6. QED
      BY <1>4, <2>3, <2>5 DEF Decide
  <1>5. CASE SetConfig(c)
    <2>1. /\ UNCHANGED <<db, core, up, pushed, signals, todo, calls, editing, faults>>
          /\ pc[c] = "hot" /\ todo = {} /\ snap' = cfg[c] /\ Return(c, "done")
      BY <1>5 DEF SetConfig
    <2>2. ASSUME up
          PROVE  Believed'
      <3>1. Applied(c)
        BY <2>1, <2>2 DEF HotInv
      <3>2. QED
        BY <2>1, <3>1 DEF Applied, Believed
    <2>3. QED
      BY <1>0, <2>1, <2>2, MutexReturned DEF Inside
  <1>6. CASE HotFails(c)
    <2>1. /\ UNCHANGED <<db, snap, up, pushed, signals, lock, cfg, calls, editing>>
          /\ pc[c] \in Inside /\ Goto(c, "stop") /\ todo' \subseteq Operations
      BY <1>6 DEF HotFails, Inside
    <2>2. PICK op \in todo : CallFails(c, op)
      BY <1>6 DEF HotFails
    <2>3. faults' \in 0..MaxFaults
      BY <1>0, <2>2, <1>a DEF CallFails
    <2>4. core' \in Config
      <3>1. core' \in {core, Called(op, cfg[c]), [core EXCEPT !.inbound = Absent]}
        BY <2>2 DEF CallFails
      <3>2. Called(op, cfg[c]) \in Config
        BY <1>0, <2>2, CallChanges
      <3>3. [core EXCEPT !.inbound = Absent] \in Config
        BY <1>0, EmptyIsOne, InboundChanged
      <3>4. QED
        BY <1>0, <3>1, <3>2, <3>3
    <2>5. QED
      BY <1>0, <2>1, <2>3, <2>4, HolderMoves
  <1>7. CASE StopCore(c)
    BY <1>0, <1>7, <1>b, HolderMoves DEF StopCore, Inside
  <1>8. CASE StartCore(c)
    <2>1. /\ snap' = cfg[c] /\ cfg[c] \in Config /\ pc[c] \in Inside
          /\ UNCHANGED <<db, signals, todo, calls, editing>>
      BY <1>0, <1>8 DEF StartCore, Inside
    <2>2. CASE /\ up' = TRUE /\ core' = cfg[c] /\ pushed' = FALSE
               /\ Return(c, "done") /\ UNCHANGED faults
      <3>1. Believed'
        BY <2>1, <2>2 DEF Believed
      <3>2. QED
        BY <1>0, <2>1, <2>2, <3>1, MutexReturned
    <2>3. CASE Fault("start") /\ Down /\ Return(c, "failed")
      BY <1>0, <1>a, <1>b, <2>1, <2>3, MutexReturned
    <2>4. QED
      BY <1>8, <2>2, <2>3 DEF StartCore
  <1>9. CASE Halt(c)
    BY <1>0, <1>9, <1>b, MutexReturned DEF Halt, Inside
  <1>10. QED
    BY <1>1, <1>2, <1>3, <1>4, <1>5, <1>6, <1>7, <1>8, <1>9, HotCallKeeps DEF Locking

-----------------------------------------------------------------------------
(* Edits: what one of them makes of the core is its inbound only, and it is*)
(* remembered.                                                             *)
LEMMA PushedPast ==
    ASSUME XInv, NEW i \in Inbounds, Pushes(i), UNCHANGED <<snap, up, pc, cfg, todo>>
    PROVE  core' \in Config /\ pushed' \in BOOLEAN /\ HotInv' /\ SnapshotCurrent'
  <1>1. /\ core' \in Config /\ pushed' = TRUE
        /\ core'.outbound = core.outbound /\ core'.routing = core.routing
        /\ core'.static = core.static
    BY InboundChanged DEF Pushes, XInv, TypeOK
  <1>2. HotInv'
    BY <1>1 DEF XInv, HotInv, Applied
  <1>3. SnapshotCurrent'
    BY <1>1 DEF XInv, SnapshotCurrent, Reconciling
  <1>4. QED
    BY <1>1, <1>2, <1>3

LEMMA CoreKept ==
    ASSUME XInv, UNCHANGED <<core, pushed, snap, up, pc, cfg, todo>>
    PROVE  core' \in Config /\ pushed' \in BOOLEAN /\ HotInv' /\ SnapshotCurrent'
  BY DEF XInv, TypeOK, HotInv, Applied, SnapshotCurrent, Reconciling

LEMMA EditKeeps ==
    ASSUME XInv, StartEdit \/ FinishEdit \/ CoreCrash \/ UNCHANGED vars
    PROVE  XInv'
  <1>0. /\ db \in Config /\ core \in Config /\ edits \in 0..MaxEdits /\ faults \in 0..MaxFaults
        /\ MaxEdits \in Nat /\ MaxFaults \in Nat /\ flag \in BOOLEAN
        /\ db.inbound \in Inbounds /\ core.inbound \in Inbounds
        /\ edit \in Edits /\ edit.inbound \in Inbounds
    BY ConfigFields, XraySupervisorAssumption DEF XInv, TypeOK, Edits
  <1>a. \A kind : Fault(kind) => faults' \in 0..MaxFaults
    BY <1>0 DEF Fault
  <1>b. \A refused : PushFails(refused) => faults' \in 0..MaxFaults /\ UNCHANGED <<core, pushed>>
    BY <1>0, <1>a DEF PushFails
  <1>c. \A i \in Inbounds : [db EXCEPT !.inbound = i] \in Config
    BY <1>0, InboundChanged
  <1>d. NoEdit \in Edits
    BY EmptyIsOne DEF NoEdit, Edits
  <1>e. ASSUME NEW at \in {"remove", "add", "commit", "ask"}, NEW failed \in BOOLEAN
        PROVE  /\ [edit EXCEPT !.at = at, !.failed = failed] \in Edits
               /\ [edit EXCEPT !.at = at] \in Edits
    BY <1>0 DEF Edits
  (* Every step but a crash.                                               *)
  <1>f. ASSUME UNCHANGED <<snap, up, manual, ticks, lock, pc, cfg, todo, calls>>,
               db' \in Config, flag' \in BOOLEAN, edit' \in Edits,
               edits' \in 0..MaxEdits, faults' \in 0..MaxFaults,
               \/ UNCHANGED <<core, pushed>>
               \/ \E i \in Inbounds : Pushes(i)
        PROVE  XInv'
    <2>1. core' \in Config /\ pushed' \in BOOLEAN /\ HotInv' /\ SnapshotCurrent'
      BY <1>f, PushedPast, CoreKept
    <2>2. TypeOK'
      BY <1>f, <2>1 DEF XInv, TypeOK
    <2>3. QED
      BY <2>1, <2>2 DEF XInv
  <1>1. CASE PushClient
    <2>1. /\ UNCHANGED <<db, snap, up, flag, manual, ticks, lock, pc, cfg, todo, calls>>
          /\ edits' \in 0..MaxEdits /\ db.inbound # Absent
      BY <1>0, <1>1 DEF PushClient, signals
    <2> DEFINE Swapped(u, users) == IF u \in db.inbound.users THEN users \ {u} ELSE users \cup {u}
    <2>2. PICK u \in Client, failed \in BOOLEAN :
            /\ edit' = [at |-> "commit", way |-> "client", failed |-> failed,
                        inbound |-> [db.inbound EXCEPT !.users = Swapped(u, @)]]
            /\ \/ /\ core.inbound # Absent
                  /\ Pushes([core.inbound EXCEPT !.users = Swapped(u, @)])
                  /\ UNCHANGED faults
               \/ PushFails(core.inbound = Absent)
      BY <1>1 DEF PushClient
    <2>3. \A users \in SUBSET Client : Swapped(u, users) \in SUBSET Client
      OBVIOUS
    <2>4. ASSUME NEW i \in Inbounds, i # Absent
          PROVE  [i EXCEPT !.users = Swapped(u, @)] \in Inbounds
      <3>1. Swapped(u, i.users) \in SUBSET Client
        BY <2>3, InboundUsers
      <3>2. QED
        BY <2>4, <3>1, UsersChanged
    <2>5. [db.inbound EXCEPT !.users = Swapped(u, @)] \in Inbounds
      BY <1>0, <2>1, <2>4
    <2>6. edit' \in Edits
      BY <2>2, <2>5 DEF Edits
    <2>7. /\ faults' \in 0..MaxFaults
          /\ UNCHANGED <<core, pushed>> \/ \E i \in Inbounds : Pushes(i)
      <3>1. CASE /\ core.inbound # Absent
                 /\ Pushes([core.inbound EXCEPT !.users = Swapped(u, @)])
                 /\ UNCHANGED faults
        <4>1. [core.inbound EXCEPT !.users = Swapped(u, @)] \in Inbounds
          BY <1>0, <2>4, <3>1
        <4>2. QED
          BY <1>0, <3>1, <4>1
      <3>2. CASE PushFails(core.inbound = Absent)
        BY <1>b, <3>2
      <3>3. QED
        BY <2>2, <3>1, <3>2
    <2>8. QED
      BY <1>0, <1>f, <2>1, <2>6, <2>7
  <1>2. CASE EditInbound
    <2>1. /\ UNCHANGED <<snap, core, pushed, up, flag, manual, ticks, lock, pc, cfg, todo, calls, faults>>
          /\ edits' \in 0..MaxEdits
      BY <1>0, <1>2 DEF EditInbound, signals, process
    <2>2. PICK new \in Inbounds, way \in {"add", "delete", "update", "switch"} :
            /\ edit' = [at |-> IF way = "add" THEN "add" ELSE "remove",
                        way |-> way, inbound |-> new, failed |-> FALSE]
            /\ db' = IF way = "switch" THEN [db EXCEPT !.inbound = new] ELSE db
      BY <1>2 DEF EditInbound
    <2>3. edit' \in Edits
      BY <2>2 DEF Edits
    <2>4. db' \in Config
      BY <1>0, <1>c, <2>2
    <2>5. QED
      BY <1>0, <1>f, <2>1, <2>3, <2>4
  <1>3. CASE RemoveInbound
    <2>1. UNCHANGED <<db, snap, up, flag, manual, ticks, lock, pc, cfg, todo, calls, edits>>
      BY <1>3 DEF RemoveInbound, signals
    <2>2. PICK failed \in BOOLEAN :
            /\ edit' = [edit EXCEPT !.at = IF edit.inbound = Absent THEN "commit" ELSE "add",
                                    !.failed = failed]
            /\ \/ Pushes(Absent) /\ UNCHANGED faults
               \/ PushFails(core.inbound = Absent)
      BY <1>3 DEF RemoveInbound
    <2>3. edit' \in Edits
      BY <1>e, <2>2
    <2>4. /\ faults' \in 0..MaxFaults
          /\ UNCHANGED <<core, pushed>> \/ \E i \in Inbounds : Pushes(i)
      BY <1>0, <1>b, <2>2, EmptyIsOne
    <2>5. QED
      BY <1>0, <1>f, <2>1, <2>3, <2>4
  <1>4. CASE AddInbound
    <2>1. UNCHANGED <<db, snap, up, flag, manual, ticks, lock, pc, cfg, todo, calls, edits>>
      BY <1>4 DEF AddInbound, signals
    <2>2. PICK failed \in BOOLEAN :
            /\ edit' = [edit EXCEPT !.at = "commit", !.failed = failed]
            /\ \/ Pushes(edit.inbound) /\ UNCHANGED faults
               \/ PushFails(core.inbound # Absent)
      <3>1. edit.failed \in BOOLEAN
        BY <1>0 DEF Edits
      <3>2. QED
        BY <1>4, <3>1 DEF AddInbound
    <2>3. edit' \in Edits
      BY <1>e, <2>2
    <2>4. /\ faults' \in 0..MaxFaults
          /\ UNCHANGED <<core, pushed>> \/ \E i \in Inbounds : Pushes(i)
      BY <1>0, <1>b, <2>2
    <2>5. QED
      BY <1>0, <1>f, <2>1, <2>3, <2>4
  <1>5. CASE CommitEdit
    <2>1. UNCHANGED <<snap, core, pushed, up, flag, manual, ticks, lock, pc, cfg, todo, calls, edits>>
      BY <1>5 DEF CommitEdit, process, signals
    <2>2. edit' \in {NoEdit, [edit EXCEPT !.at = "ask"]}
      BY <1>5 DEF CommitEdit
    <2>3. edit' \in Edits
      BY <1>d, <1>e, <2>2
    <2>4. db' \in Config /\ faults' \in 0..MaxFaults
      BY <1>0, <1>a, <1>c, <1>5 DEF CommitEdit
    <2>5. QED
      BY <1>0, <1>f, <2>1, <2>3, <2>4
  <1>6. CASE SetToNeedRestart
    <2>1. /\ UNCHANGED <<db, snap, core, pushed, up, manual, ticks, lock, pc, cfg, todo, calls, edits, faults>>
          /\ flag' = TRUE /\ edit' = NoEdit
      BY <1>6 DEF SetToNeedRestart, process
    <2>2. flag' \in BOOLEAN
      BY <2>1
    <2>3. QED
      BY <1>0, <1>d, <1>f, <2>1, <2>2
  <1>7. CASE CoreCrash
    <2>1. /\ UNCHANGED <<db, snap, flag, manual, ticks, lock, pc, cfg, todo, calls, edit, edits>>
          /\ faults' \in 0..MaxFaults
      BY <1>a, <1>7 DEF CoreCrash, signals, editing
    <2>2. core' \in Config /\ up' = FALSE /\ pushed' = FALSE
      BY <1>7, EmptyIsOne DEF CoreCrash, Down
    <2>3. up' \in BOOLEAN /\ pushed' \in BOOLEAN
      BY <2>2
    <2>4. TypeOK'
      BY <2>1, <2>2, <2>3 DEF XInv, TypeOK
    <2>5. HotInv' /\ SnapshotCurrent'
      BY <2>2 DEF HotInv, SnapshotCurrent
    <2>6. QED
      BY <2>4, <2>5 DEF XInv
  <1>8. CASE UNCHANGED vars
    <2>1. UNCHANGED <<db, snap, up, flag, manual, ticks, lock, pc, cfg, todo, calls,
                      core, pushed, edit, edits, faults>>
      BY <1>8 DEF vars
    <2>2. QED
      BY <1>0, <1>f, <2>1
  <1>9. QED
    BY <1>1, <1>2, <1>3, <1>4, <1>5, <1>6, <1>7, <1>8 DEF StartEdit, FinishEdit

-----------------------------------------------------------------------------
(* The invariant SnapshotCurrent rests on.                                 *)
THEOREM XrayInvariance == Spec => []XInv
  <1>1. XInv /\ [Next]_vars => XInv'
    BY OutsideKeeps, InsideKeeps, EditKeeps DEF Next, Running
  <1>2. QED
    BY <1>1, InitXray, PTL DEF Spec

(* What the panel believes the running core has (p.config, xray.go:914-922)*)
(* is so, whatever callers, crashes, edits pushed past it and attempts that*)
(* fail half-way came before: the next RestartXray(false) compares with the*)
(* truth, in all but an inbound that was pushed since.                     *)
THEOREM SnapshotStaysCurrent == Spec => []SnapshotCurrent
  <1>1. XInv => SnapshotCurrent
    BY DEF XInv
  <1>2. QED
    BY <1>1, XrayInvariance, PTL

-----------------------------------------------------------------------------
(* What a change makes of the page: the text and the value together, or    *)
(* the text alone when it does not parse.                                  *)
ShownTogether == text' = template' \/ text' = Broken \/ UNCHANGED <<text, template>>

(* What the page compares with, what is on its way to it and what the      *)
(* server has: the shapes, and how they agree as long as saves do not      *)
(* overlap.  A save that is done and not answered is all the page misses.  *)
SameSaved(x, y) == x.template = y.template /\ x.url = y.url
Answered(s) == s.state = "done"
Unheard == \E s \in saves : Answered(s)

SavedShape ==
    /\ server = [template |-> server.template, url |-> server.url, subs |-> server.subs]
    /\ \A s \in saves : s = [n |-> s.n, text |-> s.text, url |-> s.url, state |-> s.state]

OldIsServer == oldText = server.template /\ oldUrl = server.url
SavedInv ==
    /\ SavedShape
    /\ ~misled => /\ \A s, t \in saves : s = t
                  /\ \A s \in saves : Answered(s) => s.text = server.template /\ s.url = server.url
                  /\ ~Unheard => OldIsServer
                  /\ ~Unheard /\ fetch.state = "read" => SameSaved(fetch.read, server)

savedVars == <<old, saves, fetch, server, misled>>

(* What no step touches stays as it agreed.                                *)
LEMMA SavedKept ==
    ASSUME SavedInv, UNCHANGED savedVars
    PROVE  SavedInv'
  BY DEF SavedInv, savedVars, old, SavedShape, OldIsServer, SameSaved, Unheard, Answered

(* Neither the sections nor the forms touch what is compared, on its way   *)
(* or stored.                                                              *)
PageKept == ShownTogether /\ UNCHANGED savedVars

(* A change made by hand, on the page or in a form.                        *)
LEMMA EditsKeep ==
    ASSUME NEW next, NEW lost, EditOnPage(next, lost) \/ Edit(next, lost)
    PROVE  PageKept
  BY DEF EditOnPage, Edit, ShowTemplate, ShownTogether, PageKept, savedVars, query, requests

LEMMA ConfirmationsKeep ==
    ASSUME NEW f, NEW next, NEW lost, Confirmed(f, next, lost)
    PROVE  PageKept
  BY EditsKeep DEF Confirmed

(* The page's sections (pages/xray).                                       *)
LEMMA SectionsKeep == Sections => PageKept
  <1> SUFFICES ASSUME Sections PROVE PageKept
    OBVIOUS
  <1>1. CASE \E next \in Typed : Type(next)
    BY <1>1 DEF Type, ShowText, ShownTogether, PageKept, savedVars, query, requests
  <1>2. CASE TypeRules \/ TypeOutbounds \/ TypeObservatory \/ SetStrategy
    BY <1>2, EditsKeep DEF TypeRules, TypeOutbounds, TypeObservatory, SetStrategy
  <1>3. CASE SetUrl \/ Logout
    BY <1>3 DEF SetUrl, Logout, shown, ShownTogether, PageKept, savedVars, query, requests
  <1>4. CASE \/ \E b \in Basics, on \in BOOLEAN : Route(b, on)
             \/ \E i \in DOMAIN template.outbounds : \E j \in DOMAIN template.outbounds : MoveOutbound(i, j)
             \/ \E i \in DOMAIN template.rules : \E j \in DOMAIN template.rules : MoveRule(i, j)
    BY <1>4, EditsKeep DEF Route, MoveOutbound, MoveRule
  <1>5. CASE \/ \E tag \in NordTags : AddNord(tag) \/ ResetNord(tag)
             \/ AddWarp \/ DeleteWarp
             \/ \E o \in Options : SetOption(o)
             \/ SwitchDns
    BY <1>5, EditsKeep DEF AddNord, ResetNord, AddWarp, DeleteWarp, SetOption, SwitchDns
  <1>6. CASE \/ \E f \in DnsFields : SetDnsField(f)
             \/ \E rows \in HostRows : SetHosts(rows)
             \/ \E i \in DOMAIN template.dns.servers : DeleteServer(i)
             \/ EditFakeDns(PoolAdded(template.fakedns))
             \/ \E i \in DOMAIN template.fakedns :
                   EditFakeDns(PoolDeleted(template.fakedns, i)) \/ EditFakeDns(PoolChanged(template.fakedns, i))
    BY <1>6, EditsKeep DEF SetDnsField, SetHosts, DeleteServer, EditDns, EditFakeDns
  <1>7. QED
    BY <1>1, <1>2, <1>3, <1>4, <1>5, <1>6 DEF Sections

(* The forms over the page.                                                *)
LEMMA FormsKeep == Forms => PageKept
  <1> SUFFICES ASSUME Forms PROVE PageKept
    OBVIOUS
  <1>1. CASE \/ \E f \in FormNames : \E i \in 0..Len(Rows(f)) : OpenForm(f, i)
             \/ \E f \in FormNames : \E i \in 1..Len(Rows(f)) : AskDelete(f, i)
             \/ \E f \in ListDialogs : OpenList(f)
             \/ CloseForm
    BY <1>1 DEF OpenForm, AskDelete, OpenList, CloseForm, shown, ShownTogether, PageKept, savedVars,
                query, requests
  <1>2. CASE ConfirmDelete \/ \E tag \in NewTags : ConfirmOutbound(tag)
    BY <1>2, ConfirmationsKeep DEF ConfirmDelete, ConfirmOutbound, ConfirmedAt
  <1>3. CASE \E filled \in {{"ip"}, {"other"}}, to \in Tags \union {""}, via \in {"", "bal", "new"} :
                ConfirmRule(filled, to, via)
    BY <1>3, ConfirmationsKeep DEF ConfirmRule
  <1>4. CASE \E tag \in {"bal", "new"}, strategy \in Strategies, selector \in {{"us"}, {"us", "direct"}},
                tuned \in BOOLEAN : ConfirmBalancer(tag, strategy, selector, tuned)
    <2>1. PICK tag, strategy, selector, tuned : ConfirmBalancer(tag, strategy, selector, tuned)
      BY <1>4
    <2>2. QED
      BY <2>1, ConfirmationsKeep DEF ConfirmBalancer
  <1>5. CASE \/ \E filled \in {{}, {"list"}, {"other", "emptyRow"}} : ConfirmServer(filled)
             \/ InstallPreset \/ ClearServers
    BY <1>5, ConfirmationsKeep DEF ConfirmServer, InstallPreset, ClearServers
  <1>6. QED
    BY <1>1, <1>2, <1>3, <1>4, <1>5 DEF Forms

(* The requests and their answers.                                         *)
LEMMA AnswersTogether == Answers \/ SaveAll \/ ResetDefault \/ ChangeSub \/ Poll => ShownTogether
  <1>1. LoggedOut \/ DefaultArrives => ShownTogether
    BY DEF LoggedOut, DefaultArrives, ShowTemplate, ShownTogether
  <1>2. FetchRead \/ FetchDone \/ FetchFail => ShownTogether
    BY DEF FetchRead, FetchDone, FetchFail, ShowTemplate, shown, ShownTogether
  <1>3. ASSUME NEW s \in saves, NEW stored \in BOOLEAN, NEW ok \in BOOLEAN,
               SaveAnswered(s) \/ SaveHandled(s, stored, ok)
        PROVE  ShownTogether
    BY <1>3 DEF SaveAnswered, SaveHandled, shown, ShownTogether
  <1>4. (\E moved \in BOOLEAN : SubChanged(moved)) \/ SubRefused \/ SubListed => ShownTogether
    BY DEF SubChanged, SubRefused, SubListed, shown, ShownTogether
  <1>5. SaveAll \/ ResetDefault \/ ChangeSub \/ Poll => ShownTogether
    BY DEF SaveAll, ResetDefault, ChangeSub, Poll, shown, ShownTogether
  <1>6. QED
    BY <1>1, <1>2, <1>3, <1>4, <1>5 DEF Answers

(* Whatever is edited, typed, fetched or reset, a text that parses is the  *)
(* template the sections show (useXraySetting.ts keeps both).              *)
THEOREM TextAgreesAlways == EditorSpec => []TextAgrees
  <1>1. EditorInit => TextAgrees
    BY DEF EditorInit, TextAgrees
  <1>2. TextAgrees /\ [EditorNext]_editorVars => TextAgrees'
    <2> SUFFICES ASSUME TextAgrees, [EditorNext]_editorVars PROVE TextAgrees'
      OBVIOUS
    <2>1. ShownTogether
      BY SectionsKeep, FormsKeep, AnswersTogether
         DEF EditorNext, editorVars, shown, ShownTogether, PageKept
    <2>2. QED
      BY <2>1 DEF ShownTogether, TextAgrees
  <1>3. QED
    BY <1>1, <1>2, PTL DEF EditorSpec

-----------------------------------------------------------------------------
(* The server and what the page knows of it.                               *)
LEMMA SaveKeeps ==
    ASSUME SavedInv, SaveAll
    PROVE  SavedInv'
  <1> DEFINE new == [n |-> sent', text |-> text, url |-> url, state |-> "sent"]
  <1>1. /\ saves' = saves \cup {new} /\ misled' = (misled \/ saves # {})
        /\ UNCHANGED <<old, fetch, server>>
    BY DEF SaveAll, query
  <1>2. new = [n |-> new.n, text |-> new.text, url |-> new.url, state |-> new.state] /\ ~Answered(new)
    BY DEF Answered
  <1> HIDE DEF new
  <1>3. SavedShape'
    BY <1>1, <1>2 DEF SavedInv, SavedShape
  <1>4. CASE saves # {}
    BY <1>1, <1>3, <1>4 DEF SavedInv
  <1>5. CASE saves = {}
    <2>1. ~Unheard /\ ~Unheard'
      BY <1>1, <1>2, <1>5 DEF Unheard, Answered
    <2>2. (OldIsServer <=> OldIsServer') /\ (SameSaved(fetch.read, server) <=> SameSaved(fetch.read, server)')
      BY <1>1 DEF OldIsServer, SameSaved, old
    <2>3. \A s \in saves' : s = new
      BY <1>1, <1>5
    <2>4. misled' <=> misled
      BY <1>1, <1>5
    <2>5. QED
      BY <1>1, <1>2, <1>3, <2>1, <2>2, <2>3, <2>4 DEF SavedInv, Answered
  <1>6. QED
    BY <1>4, <1>5

(* The server stores a save, or not, and answers or fails                  *)
(* (updateSetting).                                                        *)
LEMMA HandledKeeps ==
    ASSUME SavedInv, NEW s \in saves, NEW stored \in BOOLEAN, NEW ok \in BOOLEAN,
           SaveHandled(s, stored, ok)
    PROVE  SavedInv'
  <1> DEFINE t == [s EXCEPT !.state = IF ok THEN "done" ELSE "failed"]
  <1>1. /\ s.state = "sent" /\ (ok => stored)
        /\ saves' = (saves \ {s}) \cup {t}
        /\ server' = IF stored THEN [server EXCEPT !.template = s.text, !.url = s.url] ELSE server
        /\ misled' = (misled \/ (stored /\ ~ok))
        /\ UNCHANGED <<old, fetch>>
    BY DEF SaveHandled, query
  <1>2. /\ s = [n |-> s.n, text |-> s.text, url |-> s.url, state |-> s.state]
        /\ server = [template |-> server.template, url |-> server.url, subs |-> server.subs]
    BY DEF SavedInv, SavedShape
  <1>3. /\ t = [n |-> t.n, text |-> t.text, url |-> t.url, state |-> t.state]
        /\ t.text = s.text /\ t.url = s.url
        /\ t.state = IF ok THEN "done" ELSE "failed"
    BY <1>2
  <1> HIDE DEF t
  <1>4. /\ server' = [template |-> server'.template, url |-> server'.url, subs |-> server'.subs]
        /\ stored => server'.template = s.text /\ server'.url = s.url
        /\ ~stored => server' = server
    BY <1>1, <1>2
  <1>5. SavedShape'
    BY <1>1, <1>3, <1>4 DEF SavedInv, SavedShape
  <1>6. CASE misled'
    BY <1>5, <1>6 DEF SavedInv
  <1>7. CASE ~misled'
    <2>1. ~misled /\ (stored <=> ok)
      BY <1>1, <1>7
    <2>2. saves = {s} /\ saves' = {t}
      BY <1>1, <2>1 DEF SavedInv
    <2>3. ~Unheard /\ (Unheard' <=> ok)
      BY <1>1, <1>3, <2>2 DEF Unheard, Answered
    <2>4. OldIsServer /\ (fetch.state = "read" => SameSaved(fetch.read, server))
      BY <2>1, <2>3 DEF SavedInv
    <2>5. CASE ok
      <3>1. \A u \in saves' : u.text = server'.template /\ u.url = server'.url
        BY <1>3, <1>4, <2>1, <2>2, <2>5
      <3>2. QED
        BY <1>5, <2>2, <2>3, <2>5, <3>1 DEF SavedInv
    <2>6. CASE ~ok
      <3>1. UNCHANGED <<old, fetch, server>>
        BY <1>1, <1>4, <2>1, <2>6
      <3>2. OldIsServer' /\ (fetch'.state = "read" => SameSaved(fetch.read, server)')
        BY <2>4, <3>1 DEF OldIsServer, SameSaved, old
      <3>3. \A u \in saves' : ~Answered(u)
        BY <2>3, <2>6 DEF Unheard
      <3>4. QED
        BY <1>5, <2>2, <3>2, <3>3 DEF SavedInv
    <2>7. QED
      BY <2>5, <2>6
  <1>8. QED
    BY <1>6, <1>7

(* The answer to a save: what was sent becomes what is compared with.      *)
LEMMA AnsweredKeeps ==
    ASSUME SavedInv, NEW s \in saves, SaveAnswered(s)
    PROVE  SavedInv'
  <1>1. /\ s.state # "sent" /\ saves' = saves \ {s} /\ UNCHANGED <<server, misled>>
        /\ s.state = "done" => oldText' = s.text /\ oldUrl' = s.url /\ fetch' = Invalidated
        /\ s.state # "done" => UNCHANGED <<old, fetch>>
    BY DEF SaveAnswered, query
  <1>2. SavedShape'
    BY <1>1 DEF SavedInv, SavedShape
  <1>3. CASE misled
    BY <1>1, <1>2, <1>3 DEF SavedInv
  <1>4. CASE ~misled
    <2>1. saves = {s} /\ saves' = {}
      BY <1>1, <1>4 DEF SavedInv
    <2>2. CASE s.state = "done"
      <3>1. s.text = server.template /\ s.url = server.url
        BY <1>4, <2>2 DEF SavedInv, Answered
      <3>2. OldIsServer'
        BY <1>1, <2>2, <3>1 DEF OldIsServer
      <3>3. fetch'.state # "read"
        BY <1>1, <2>2 DEF Invalidated
      <3>4. QED
        BY <1>2, <2>1, <3>2, <3>3 DEF SavedInv
    <2>3. CASE s.state # "done"
      <3>1. ~Unheard
        BY <2>1, <2>3 DEF Unheard, Answered
      <3>2. OldIsServer /\ (fetch.state = "read" => SameSaved(fetch.read, server))
        BY <1>4, <3>1 DEF SavedInv
      <3>3. OldIsServer' /\ (fetch'.state = "read" => SameSaved(fetch.read, server)')
        BY <1>1, <2>3, <3>2 DEF OldIsServer, SameSaved, old
      <3>4. QED
        BY <1>2, <2>1, <3>3 DEF SavedInv
    <2>4. QED
      BY <2>2, <2>3
  <1>5. QED
    BY <1>3, <1>4

(* A fetch of the configuration asks, reads and arrives.                   *)
LEMMA FetchKeeps ==
    ASSUME SavedInv, FetchRead \/ FetchDone \/ FetchFail
    PROVE  SavedInv'
  <1>1. UNCHANGED <<saves, server, misled>>
    BY DEF FetchRead, FetchDone, FetchFail, requests
  <1>2. SavedShape' /\ (Unheard' <=> Unheard)
    BY <1>1 DEF SavedInv, SavedShape, Unheard
  <1>3. /\ \/ UNCHANGED old
           \/ fetch.state = "read" /\ oldText' = fetch.read.template /\ oldUrl' = fetch.read.url
        /\ fetch' = [state |-> "read", read |-> server] \/ fetch'.state # "read"
    BY DEF FetchRead, FetchDone, FetchFail, NoFetch
  <1>4. ~misled /\ ~Unheard => OldIsServer'
    BY <1>1, <1>3 DEF SavedInv, OldIsServer, SameSaved, old
  <1>5. fetch'.state = "read" => SameSaved(fetch.read, server)'
    BY <1>1, <1>3 DEF SameSaved
  <1>6. QED
    BY <1>1, <1>2, <1>4, <1>5 DEF SavedInv, Answered

(* The other answers, and the polls.                                       *)
LEMMA OthersKeepSaved ==
    ASSUME SavedInv,
           \/ LoggedOut \/ DefaultArrives \/ ResetDefault \/ ChangeSub \/ Poll
           \/ (\E moved \in BOOLEAN : SubChanged(moved)) \/ SubRefused \/ SubListed
    PROVE  SavedInv'
  <1>1. CASE LoggedOut \/ DefaultArrives \/ ResetDefault \/ ChangeSub \/ Poll \/ SubRefused
    <2>1. UNCHANGED savedVars
      BY <1>1 DEF LoggedOut, DefaultArrives, ResetDefault, ChangeSub, Poll, SubRefused, savedVars,
                  query, requests
    <2>2. QED
      BY <2>1, SavedKept
  <1>2. CASE SubListed
    <2>1. UNCHANGED <<old, saves, server, misled>> /\ fetch'.state # "read"
      BY <1>2 DEF SubListed, Invalidated
    <2>2. QED
      BY <2>1 DEF SavedInv, SavedShape, OldIsServer, SameSaved, Unheard, Answered, old
  <1>3. CASE \E moved \in BOOLEAN : SubChanged(moved)
    <2>1. /\ UNCHANGED <<old, saves, fetch, misled>>
          /\ server' = server \/ server' = [server EXCEPT !.subs = @ + 1]
      BY <1>3 DEF SubChanged, query
    <2>2. server = [template |-> server.template, url |-> server.url, subs |-> server.subs]
      BY DEF SavedInv, SavedShape
    <2>3. /\ server' = [template |-> server'.template, url |-> server'.url, subs |-> server'.subs]
          /\ server'.template = server.template /\ server'.url = server.url
      BY <2>1, <2>2
    <2>4. QED
      BY <2>1, <2>3 DEF SavedInv, SavedShape, OldIsServer, SameSaved, Unheard, Answered, old
  <1>4. QED
    BY <1>1, <1>2, <1>3

(* The inductive invariant under CleanIsSaved: as long as saves did not    *)
(* overlap and none failed after it was stored, only a save that is done   *)
(* and not answered separates what the page compares with from the server  *)
(* (useXraySetting.ts).                                                    *)
THEOREM SavedInvariance == EditorSpec => []SavedInv
  <1>1. EditorInit => SavedInv
    BY DEF EditorInit, SavedInv, SavedShape, OldIsServer, Unheard, NoFetch
  <1>2. SavedInv /\ [EditorNext]_editorVars => SavedInv'
    <2> SUFFICES ASSUME SavedInv, [EditorNext]_editorVars PROVE SavedInv'
      OBVIOUS
    <2>1. CASE Sections \/ Forms \/ UNCHANGED editorVars
      <3>1. UNCHANGED savedVars
        BY <2>1, SectionsKeep, FormsKeep DEF editorVars, savedVars, query, PageKept
      <3>2. QED
        BY <3>1, SavedKept
    <2>2. CASE SaveAll
      BY <2>2, SaveKeeps
    <2>3. ASSUME NEW s \in saves,
                 SaveAnswered(s) \/ \E stored, ok \in BOOLEAN : SaveHandled(s, stored, ok)
          PROVE  SavedInv'
      BY <2>3, AnsweredKeeps, HandledKeeps
    <2>4. QED
      BY <2>1, <2>2, <2>3, FetchKeeps, OthersKeepSaved DEF EditorNext, Answers
  <1>3. QED
    BY <1>1, <1>2, PTL DEF EditorSpec

(* With nothing under way a page that says all is saved is right about the *)
(* server, unless saves overlapped or one was stored and reported as       *)
(* failed.                                                                 *)
THEOREM CleanIsSavedAlways == EditorSpec => []CleanIsSaved
  <1>1. SavedInv => CleanIsSaved
    BY DEF SavedInv, CleanIsSaved, Idle, Clean, OldIsServer, Unheard
  <1>2. QED
    BY <1>1, SavedInvariance, PTL

-----------------------------------------------------------------------------
(* A part of a list.                                                       *)
LEMMA PartOf ==
    ASSUME NEW S, NEW s \in Seq(S), NEW m \in 1..Len(s) + 1, NEW n \in m - 1..Len(s)
    PROVE  /\ SubSeq(s, m, n) \in Seq(S)
           /\ Len(SubSeq(s, m, n)) = n - m + 1
           /\ \A k \in 1..n - m + 1 : SubSeq(s, m, n)[k] = s[k + (m - 1)]
  <1>1. Len(s) \in Nat /\ m \in Int /\ n \in Int /\ \A k \in m..n : s[k] \in S
    BY ElementOfSeq, LenProperties
  <1>2. /\ SubSeq(s, m, n) \in Seq(S)
        /\ Len(SubSeq(s, m, n)) = IF m <= n THEN n - m + 1 ELSE 0
        /\ \A k \in 1..n - m + 1 : SubSeq(s, m, n)[k] = s[m + k - 1]
    BY <1>1, SubSeqProperties
  <1>3. ASSUME NEW k \in 1..n - m + 1
        PROVE  SubSeq(s, m, n)[k] = s[k + (m - 1)]
    <2>1. m + k - 1 = k + (m - 1)
      BY <1>1
    <2>2. QED
      BY <1>2, <2>1
  <1>4. (IF m <= n THEN n - m + 1 ELSE 0) = n - m + 1
    BY <1>1
  <1>5. QED
    BY <1>2, <1>3, <1>4

(* A list without one of its elements.                                     *)
LEMMA Removed ==
    ASSUME NEW S, NEW s \in Seq(S), NEW i \in 1..Len(s)
    PROVE  /\ RemoveAt(s, i) \in Seq(S)
           /\ Len(RemoveAt(s, i)) = Len(s) - 1
           /\ \A k \in 1..Len(s) - 1 : RemoveAt(s, i)[k] = IF k < i THEN s[k] ELSE s[k + 1]
  <1> DEFINE a == SubSeq(s, 1, i - 1)
             b == SubSeq(s, i + 1, Len(s))
             r == a \o b
  <1>1. Len(s) \in Nat /\ i \in Nat /\ 1 \in 1..Len(s) + 1 /\ i - 1 \in 1 - 1..Len(s)
        /\ i + 1 \in 1..Len(s) + 1 /\ Len(s) \in i + 1 - 1..Len(s)
    BY LenProperties
  <1>2. a \in Seq(S) /\ Len(a) = i - 1 - 1 + 1 /\ \A k \in 1..i - 1 - 1 + 1 : a[k] = s[k + (1 - 1)]
    BY <1>1, PartOf
  <1>3. /\ b \in Seq(S) /\ Len(b) = Len(s) - (i + 1) + 1
        /\ \A k \in 1..Len(s) - (i + 1) + 1 : b[k] = s[k + (i + 1 - 1)]
    BY <1>1, PartOf
  <1>4. RemoveAt(s, i) = r
    BY DEF RemoveAt
  <1> HIDE DEF a, b
  <1>5. /\ r \in Seq(S) /\ Len(r) = Len(a) + Len(b)
        /\ \A k \in 1..Len(a) + Len(b) : r[k] = IF k <= Len(a) THEN a[k] ELSE b[k - Len(a)]
    <2>1. a \in Seq(S) /\ b \in Seq(S)
      BY <1>2, <1>3
    <2>2. QED
      BY <2>1, ConcatProperties
  <1> HIDE DEF r
  <1>6. Len(a) = i - 1 /\ Len(a) + Len(b) = Len(s) - 1
    BY <1>1, <1>2, <1>3
  <1>7. ASSUME NEW k \in 1..Len(s) - 1
        PROVE  r[k] = IF k < i THEN s[k] ELSE s[k + 1]
    <2>1. r[k] = IF k <= i - 1 THEN a[k] ELSE b[k - (i - 1)]
      BY <1>5, <1>6
    <2>2. CASE k < i
      <3>1. k \in 1..i - 1 - 1 + 1 /\ k + (1 - 1) = k /\ k <= i - 1
        BY <1>1, <2>2
      <3>2. QED
        BY <1>2, <2>1, <2>2, <3>1
    <2>3. CASE ~(k < i)
      <3>1. k - (i - 1) \in 1..Len(s) - (i + 1) + 1 /\ (k - (i - 1)) + (i + 1 - 1) = k + 1 /\ ~(k <= i - 1)
        BY <1>1, <2>3
      <3>2. b[k - (i - 1)] = s[(k - (i - 1)) + (i + 1 - 1)]
        BY <1>3, <3>1
      <3>3. QED
        BY <2>1, <2>3, <3>1, <3>2
    <2>4. QED
      BY <2>2, <2>3
  <1>8. QED
    BY <1>4, <1>5, <1>6, <1>7

(* A list of one element.                                                  *)
LEMMA Single ==
    ASSUME NEW S, NEW e \in S
    PROVE  <<e>> \in Seq(S) /\ Len(<<e>>) = 1 /\ <<e>>[1] = e
  OBVIOUS

Only(e) == <<e>>
LEMMA OnlyOne ==
    ASSUME NEW S, NEW e \in S
    PROVE  Only(e) \in Seq(S) /\ Len(Only(e)) = 1 /\ Only(e)[1] = e
  BY Single DEF Only

(* A list with an element put in before one of its places.                 *)
IsInserted(r, s, i, e) ==
    /\ Len(r) = Len(s) + 1
    /\ \A k \in 1..Len(s) + 1 : r[k] = IF k < i THEN s[k] ELSE IF k = i THEN e ELSE s[k - 1]
LEMMA Inserted ==
    ASSUME NEW S, NEW s \in Seq(S), NEW i \in 1..Len(s) + 1, NEW e \in S
    PROVE  InsertAt(s, i, e) \in Seq(S) /\ IsInserted(InsertAt(s, i, e), s, i, e)
  <1> DEFINE a == SubSeq(s, 1, i - 1)
             b == SubSeq(s, i, Len(s))
             c == Only(e)
             t == a \o c
             r == t \o b
  <1>1. Len(s) \in Nat /\ i \in Nat /\ 1 \in 1..Len(s) + 1 /\ i - 1 \in 1 - 1..Len(s)
        /\ i \in 1..Len(s) + 1 /\ Len(s) \in i - 1..Len(s)
    BY LenProperties
  <1>2. a \in Seq(S) /\ Len(a) = i - 1 - 1 + 1 /\ \A k \in 1..i - 1 - 1 + 1 : a[k] = s[k + (1 - 1)]
    BY <1>1, PartOf
  <1>3. /\ b \in Seq(S) /\ Len(b) = Len(s) - i + 1
        /\ \A k \in 1..Len(s) - i + 1 : b[k] = s[k + (i - 1)]
    BY <1>1, PartOf
  <1>4. c \in Seq(S) /\ Len(c) = 1 /\ c[1] = e
    BY OnlyOne
  <1>5. InsertAt(s, i, e) = r
    BY DEF InsertAt, Only
  <1> HIDE DEF a, b, c
  <1>6. /\ t \in Seq(S) /\ Len(t) = Len(a) + Len(c)
        /\ \A k \in 1..Len(a) + Len(c) : t[k] = IF k <= Len(a) THEN a[k] ELSE c[k - Len(a)]
    <2>1. a \in Seq(S) /\ c \in Seq(S)
      BY <1>2, <1>4
    <2>2. QED
      BY <2>1, ConcatProperties
  <1> HIDE DEF t
  <1>7. /\ r \in Seq(S) /\ Len(r) = Len(t) + Len(b)
        /\ \A k \in 1..Len(t) + Len(b) : r[k] = IF k <= Len(t) THEN t[k] ELSE b[k - Len(t)]
    <2>1. t \in Seq(S) /\ b \in Seq(S)
      BY <1>3, <1>6
    <2>2. QED
      BY <2>1, ConcatProperties
  <1> HIDE DEF r
  <1>8. Len(a) = i - 1 /\ Len(t) = i /\ Len(t) + Len(b) = Len(s) + 1
    <2>1. /\ Len(a) = i - 1 - 1 + 1 /\ Len(b) = Len(s) - i + 1 /\ Len(c) = 1
          /\ Len(t) = Len(a) + Len(c) /\ Len(s) \in Nat /\ i \in Nat
      BY <1>1, <1>2, <1>3, <1>4, <1>6
    <2>2. Len(a) = i - 1
      BY <2>1
    <2>3. Len(t) = i
      BY <2>1, <2>2
    <2>4. QED
      BY <2>1, <2>2, <2>3
  <1>9. ASSUME NEW k \in 1..Len(s) + 1
        PROVE  r[k] = IF k < i THEN s[k] ELSE IF k = i THEN e ELSE s[k - 1]
    <2>1. r[k] = IF k <= i THEN t[k] ELSE b[k - i]
      BY <1>7, <1>8
    <2>2. CASE k < i
      <3>1. /\ k \in 1..Len(a) + Len(c) /\ k <= Len(a) /\ k <= i
            /\ k \in 1..i - 1 - 1 + 1 /\ k + (1 - 1) = k
        BY <1>1, <1>4, <1>8, <2>2
      <3>2. t[k] = s[k]
        BY <1>2, <1>6, <3>1
      <3>3. QED
        BY <2>1, <2>2, <3>1, <3>2
    <2>3. CASE k = i
      <3>1. i \in 1..Len(a) + Len(c) /\ ~(i <= Len(a)) /\ i - Len(a) = 1
        BY <1>1, <1>4, <1>8
      <3>2. t[i] = e
        BY <1>4, <1>6, <3>1
      <3>3. i <= i /\ ~(i < i)
        BY <1>1
      <3>4. QED
        BY <2>1, <2>3, <3>2, <3>3
    <2>4. CASE k > i
      <3>1. k - i \in 1..Len(s) - i + 1 /\ (k - i) + (i - 1) = k - 1 /\ ~(k <= i) /\ ~(k < i) /\ k # i
        BY <1>1, <2>4
      <3>2. b[k - i] = s[(k - i) + (i - 1)]
        BY <1>3, <3>1
      <3>3. QED
        BY <2>1, <3>1, <3>2
    <2>5. QED
      BY <1>1, <2>2, <2>3, <2>4
  <1>10. r \in Seq(S) /\ IsInserted(r, s, i, e)
    BY <1>7, <1>8, <1>9 DEF IsInserted
  <1>11. QED
    BY <1>5, <1>10

(* Which elements are in a list after an operation on it.                  *)
LEMMA SetOfList ==
    ASSUME NEW S, NEW s \in Seq(S)
    PROVE  /\ \A x : x \in ToSet(s) <=> \E k \in 1..Len(s) : s[k] = x
           /\ ToSet(s) \subseteq S
  BY DEF ToSet

(* An element removed: the others stay, and nothing comes.                 *)
LEMMA SetRemoved ==
    ASSUME NEW S, NEW s \in Seq(S), NEW i \in 1..Len(s)
    PROVE  /\ RemoveAt(s, i) \in Seq(S)
           /\ ToSet(RemoveAt(s, i)) \subseteq ToSet(s)
           /\ ToSet(s) \subseteq ToSet(RemoveAt(s, i)) \cup {s[i]}
           /\ \A k \in 1..Len(s) : k # i => s[k] \in ToSet(RemoveAt(s, i))
  <1> DEFINE r == RemoveAt(s, i)
  <1>1. /\ r \in Seq(S) /\ Len(r) = Len(s) - 1
        /\ \A k \in 1..Len(s) - 1 : r[k] = IF k < i THEN s[k] ELSE s[k + 1]
    BY Removed
  <1>2. Len(s) \in Nat
    BY LenProperties
  <1> HIDE DEF r
  <1>3. ASSUME NEW k \in 1..Len(s) - 1
        PROVE  r[k] \in ToSet(s)
    <2>1. k \in 1..Len(s) /\ k + 1 \in 1..Len(s)
      BY <1>2
    <2>2. s[k] \in ToSet(s) /\ s[k + 1] \in ToSet(s)
      BY <2>1, SetOfList
    <2>3. QED
      BY <1>1, <2>2
  <1>4. ASSUME NEW k \in 1..Len(s), k # i
        PROVE  s[k] \in ToSet(r)
    <2>1. CASE k < i
      <3>1. k \in 1..Len(s) - 1
        BY <1>2, <2>1
      <3>2. r[k] = s[k]
        BY <1>1, <2>1, <3>1
      <3>3. QED
        BY <1>1, <3>1, <3>2, SetOfList
    <2>2. CASE k > i
      <3>1. k - 1 \in 1..Len(s) - 1 /\ ~(k - 1 < i) /\ (k - 1) + 1 = k
        BY <1>2, <2>2
      <3>2. r[k - 1] = s[k]
        BY <1>1, <3>1
      <3>3. QED
        BY <1>1, <3>1, <3>2, SetOfList
    <2>3. QED
      BY <1>2, <1>4, <2>1, <2>2
  <1>5. ToSet(r) \subseteq ToSet(s)
    BY <1>1, <1>3, SetOfList
  <1>6. ToSet(s) \subseteq ToSet(r) \cup {s[i]}
    BY <1>4, SetOfList
  <1>7. QED
    BY <1>1, <1>4, <1>5, <1>6 DEF r

(* An element inserted: the others stay.                                   *)
LEMMA SetInserted ==
    ASSUME NEW S, NEW s \in Seq(S), NEW i \in 1..Len(s) + 1, NEW e \in S
    PROVE  InsertAt(s, i, e) \in Seq(S) /\ ToSet(InsertAt(s, i, e)) = ToSet(s) \cup {e}
  <1> DEFINE r == InsertAt(s, i, e)
  <1>1. /\ r \in Seq(S) /\ Len(r) = Len(s) + 1
        /\ \A k \in 1..Len(s) + 1 : r[k] = IF k < i THEN s[k] ELSE IF k = i THEN e ELSE s[k - 1]
    <2>1. r \in Seq(S) /\ IsInserted(r, s, i, e)
      BY Inserted
    <2> HIDE DEF r
    <2>2. QED
      BY <2>1 DEF IsInserted
  <1>2. Len(s) \in Nat
    BY LenProperties
  <1> HIDE DEF r
  <1>3. ASSUME NEW k \in 1..Len(s) + 1
        PROVE  r[k] \in ToSet(s) \cup {e}
    <2>1. CASE k < i
      <3>1. k \in 1..Len(s)
        BY <1>2, <2>1
      <3>2. r[k] = s[k]
        BY <1>1, <2>1
      <3>3. QED
        BY <3>1, <3>2, SetOfList
    <2>2. CASE k = i
      <3>1. r[i] = e
        BY <1>1, <1>2
      <3>2. QED
        BY <2>2, <3>1
    <2>3. CASE k > i
      <3>1. k - 1 \in 1..Len(s) /\ ~(k < i) /\ k # i
        BY <1>2, <2>3
      <3>2. r[k] = s[k - 1]
        BY <1>1, <3>1
      <3>3. QED
        BY <3>1, <3>2, SetOfList
    <2>4. QED
      BY <1>2, <2>1, <2>2, <2>3
  <1>4. e \in ToSet(r)
    <2>1. r[i] = e
      BY <1>1, <1>2
    <2>2. QED
      BY <1>1, <2>1, SetOfList
  <1>5. ASSUME NEW k \in 1..Len(s)
        PROVE  s[k] \in ToSet(r)
    <2>1. CASE k < i
      <3>1. k \in 1..Len(s) + 1
        BY <1>2
      <3>2. r[k] = s[k]
        BY <1>1, <2>1, <3>1
      <3>3. QED
        BY <1>1, <3>1, <3>2, SetOfList
    <2>2. CASE ~(k < i)
      <3>1. k + 1 \in 1..Len(s) + 1 /\ ~(k + 1 < i) /\ k + 1 # i /\ (k + 1) - 1 = k
        BY <1>2, <2>2
      <3>2. r[k + 1] = s[k]
        BY <1>1, <3>1
      <3>3. QED
        BY <1>1, <3>1, <3>2, SetOfList
    <2>3. QED
      BY <2>1, <2>2
  <1>6. ToSet(r) \subseteq ToSet(s) \cup {e}
    BY <1>1, <1>3, SetOfList
  <1>7. ToSet(s) \subseteq ToSet(r)
    BY <1>5, SetOfList
  <1>8. QED
    BY <1>1, <1>4, <1>6, <1>7 DEF r

-----------------------------------------------------------------------------
(* The least number of a set.                                              *)
LEMMA LeastNatural ==
    ASSUME NEW I \in SUBSET Nat, I # {}
    PROVE  Min(I) \in I /\ \A n \in I : Min(I) <= n
  <1> DEFINE T == {0..n : n \in I}
  <1>1. T \in SUBSET FiniteSubsetsOf(Nat) /\ T # {}
    <2>1. \A n \in I : IsFiniteSet(0..n) /\ 0..n \in SUBSET Nat
      BY FS_Interval
    <2>2. QED
      BY <2>1 DEF FiniteSubsetsOf
  <1> HIDE DEF T
  <1>2. PICK x \in T : \A y \in T : ~(<<y, x>> \in StrictSubsetOrdering(Nat))
    BY <1>1, FS_StrictSubsetOrderingWellFounded, WFMin, Zenon
  <1>3. PICK m \in I : x = 0..m
    BY DEF T
  <1>4. ASSUME NEW n \in I, n < m
        PROVE  FALSE
    <2>1. 0..n \in T /\ 0..n \subseteq 0..m /\ 0..n # 0..m
      BY <1>4 DEF T
    <2>2. QED
      BY <1>1, <1>2, <1>3, <2>1 DEF StrictSubsetOrdering, FiniteSubsetsOf
  <1>5. \A n \in I : m <= n
    BY <1>4
  <1>6. QED
    BY <1>5 DEF Min

(* An element appended.                                                    *)
LEMMA SetAppended ==
    ASSUME NEW S, NEW s \in Seq(S), NEW e \in S
    PROVE  Append(s, e) \in Seq(S) /\ ToSet(Append(s, e)) = ToSet(s) \cup {e}
  <1> DEFINE r == Append(s, e)
  <1>1. Len(s) \in Nat /\ Len(s) + 1 \in 1..Len(s) + 1 /\ 1..Len(s) \subseteq 1..Len(s) + 1
    BY LenProperties
  <1>2. r \in Seq(S) /\ Len(r) = Len(s) + 1 /\ (\A k \in 1..Len(s) : r[k] = s[k]) /\ r[Len(s) + 1] = e
    BY AppendProperties
  <1> HIDE DEF r
  <1>3. \A k \in 1..Len(s) + 1 : k \in 1..Len(s) \/ k = Len(s) + 1
    BY <1>1
  <1>4. \A x : x \in ToSet(r) <=> \E k \in 1..Len(s) + 1 : r[k] = x
    BY <1>2, SetOfList
  <1>5. \A x : x \in ToSet(s) <=> \E k \in 1..Len(s) : s[k] = x
    BY SetOfList
  <1>6. ToSet(r) \subseteq ToSet(s) \cup {e}
    BY <1>2, <1>3, <1>4, <1>5
  <1>7. ToSet(s) \cup {e} \subseteq ToSet(r)
    BY <1>1, <1>2, <1>4, <1>5
  <1>8. QED
    BY <1>2, <1>6, <1>7 DEF r

(* An element moved: the list has the same elements.                       *)
LEMMA SetMoved ==
    ASSUME NEW S, NEW s \in Seq(S), NEW i \in 1..Len(s), NEW j \in 1..Len(s)
    PROVE  Moved(s, i, j) \in Seq(S) /\ ToSet(Moved(s, i, j)) = ToSet(s)
  <1> DEFINE r == RemoveAt(s, i)
  <1>1. r \in Seq(S) /\ Len(r) = Len(s) - 1
    BY Removed
  <1>2. ToSet(r) \subseteq ToSet(s) /\ ToSet(s) \subseteq ToSet(r) \cup {s[i]}
    BY SetRemoved
  <1> DEFINE e == s[i]
  <1>3. Moved(s, i, j) = InsertAt(r, j, e)
    BY DEF Moved
  <1> HIDE DEF r
  <1>4. e \in S /\ e \in ToSet(s)
    BY ElementOfSeq, SetOfList
  <1>5. j \in 1..Len(r) + 1
    BY <1>1, LenProperties
  <1> HIDE DEF e
  <1>6. InsertAt(r, j, e) \in Seq(S) /\ ToSet(InsertAt(r, j, e)) = ToSet(r) \cup {e}
    BY <1>1, <1>4, <1>5, SetInserted
  <1>7. QED
    BY <1>2, <1>3, <1>4, <1>6 DEF e

(* An element put at a place, which may leave holes before it.             *)
LEMMA SetPut ==
    ASSUME NEW S, NEW s \in Seq(S), NEW i \in Nat \ {0}, NEW v \in S, NEW hole \in S
    PROVE  /\ Put(s, i, v, hole) \in Seq(S)
           /\ ToSet(Put(s, i, v, hole)) \subseteq ToSet(s) \cup {v, hole}
           /\ v \in ToSet(Put(s, i, v, hole))
           /\ \A j \in 1..Len(s) : j # i => s[j] \in ToSet(Put(s, i, v, hole))
  <1> DEFINE n == IF i > Len(s) THEN i ELSE Len(s)
             p == [k \in 1..n |-> IF k = i THEN v ELSE IF k \in DOMAIN s THEN s[k] ELSE hole]
  <1>1. n \in Nat /\ i \in 1..n /\ 1..Len(s) \subseteq 1..n /\ DOMAIN s = 1..Len(s)
    BY LenProperties
  <1>2. Put(s, i, v, hole) = p
    BY DEF Put
  <1> HIDE DEF n
  <1>3. /\ DOMAIN p = 1..n /\ p[i] = v
        /\ \A k \in 1..Len(s) : k # i => p[k] = s[k]
        /\ \A k \in 1..n : p[k] = v \/ p[k] = hole \/ p[k] \in ToSet(s)
        /\ \A k \in 1..n : p[k] \in S
    BY <1>1, ElementOfSeq DEF ToSet
  <1>4. p = [k \in 1..n |-> p[k]]
    OBVIOUS
  <1> HIDE DEF p
  <1>5. p \in Seq(S)
    BY <1>1, <1>3, <1>4
  <1>6. \A x : x \in ToSet(p) <=> \E k \in 1..n : p[k] = x
    BY <1>3 DEF ToSet
  <1>7. QED
    BY <1>1, <1>2, <1>3, <1>5, <1>6

(* Ranks: every number up to a set's size is the rank of one of its        *)
(* elements, so that a filtered list has only elements of the list.        *)
Below(places, i) == {j \in places : j <= i}
Rank(places, i) == Cardinality(Below(places, i))

(* The places of a list are finitely many.                                 *)
LEMMA FinitePlaces ==
    ASSUME NEW n \in Nat, NEW places \in SUBSET (1..n)
    PROVE  IsFiniteSet(places) /\ Cardinality(places) \in Nat
  <1>1. IsFiniteSet(1..n)
    BY FS_Interval
  <1>2. IsFiniteSet(places)
    BY <1>1, FS_Subset
  <1>3. QED
    BY <1>2, FS_CardinalityType

(* The rank grows by one at each place.                                    *)
LEMMA RankSteps ==
    ASSUME NEW n \in Nat, NEW places \in SUBSET (1..n), NEW i \in Nat
    PROVE  /\ Rank(places, i) \in Nat
           /\ Rank(places, i + 1) = IF i + 1 \in places THEN Rank(places, i) + 1 ELSE Rank(places, i)
  <1> DEFINE low == Below(places, i)
             high == Below(places, i + 1)
             next == i + 1
  <1>1. \A j \in places : j \in Int /\ (j <= next <=> j <= i \/ j = next)
    OBVIOUS
  <1>2. /\ \A j : j \in low <=> j \in places /\ j <= i
        /\ \A j : j \in high <=> j \in places /\ j <= next
        /\ next \in Int /\ ~(next <= i)
    BY DEF Below
  <1>3. low \in SUBSET (1..n)
    BY <1>2
  <1>4. Rank(places, i) = Cardinality(low) /\ Rank(places, i + 1) = Cardinality(high)
    BY DEF Rank
  <1> HIDE DEF low, high
  <1>5. IsFiniteSet(low) /\ Cardinality(low) \in Nat
    BY <1>3, FinitePlaces
  <1>6. CASE next \in places
    <2>1. \A j : j \in high <=> j \in low \/ j = next
      BY <1>1, <1>2, <1>6
    <2>2. high = low \cup {next} /\ next \notin low
      BY <1>2, <2>1
    <2> HIDE DEF next
    <2>3. Cardinality(high) = Cardinality(low) + 1
      BY <1>5, <2>2, FS_AddElement
    <2>4. QED
      BY <1>4, <1>5, <1>6, <2>3 DEF next
  <1>7. CASE next \notin places
    <2>1. \A j : j \in high <=> j \in low
      BY <1>1, <1>2, <1>7
    <2>2. high = low
      BY <2>1
    <2>3. QED
      BY <1>4, <1>5, <1>7, <2>2
  <1>8. QED
    BY <1>6, <1>7

(* It begins at 0 and ends at the number of places.                        *)
LEMMA RankEnds ==
    ASSUME NEW n \in Nat, NEW places \in SUBSET (1..n)
    PROVE  Rank(places, 0) = 0 /\ Rank(places, n) = Cardinality(places)
  <1>1. \A j \in places : j \in Int /\ ~(j <= 0) /\ j <= n
    OBVIOUS
  <1>2. \A j : (j \notin Below(places, 0)) /\ (j \in Below(places, n) <=> j \in places)
    BY <1>1 DEF Below
  <1>3. Below(places, 0) = {} /\ Below(places, n) = places
    BY <1>2
  <1>4. QED
    BY <1>3, FS_EmptySet DEF Rank

(* So every number between is the rank of a place.                         *)
LEMMA Ranked ==
    ASSUME NEW n \in Nat, NEW places \in SUBSET (1..n), NEW k \in 1..Cardinality(places)
    PROVE  \E i \in places : Rank(places, i) = k
  <1>a. Cardinality(places) \in Nat
    BY FinitePlaces
  <1>0. Cardinality(places) \in Nat /\ k \in Int /\ 1 <= k /\ k <= Cardinality(places)
    BY <1>a
  <1>1. \A i \in Nat : Rank(places, i) \in Nat
    BY RankSteps
  <1> DEFINE I == {i \in Nat : Rank(places, i) >= k}
  <1>2. n \in I /\ I \in SUBSET Nat /\ 0 \notin I
    BY <1>0, <1>1, RankEnds
  <1>3. PICK m \in I : \A i \in I : m <= i
    BY <1>2, LeastNatural
  <1>4. m \in Nat /\ m # 0
    BY <1>2, <1>3
  <1> DEFINE p == m - 1
  <1>5. p \in Nat /\ p + 1 = m /\ ~(m <= p)
    BY <1>4
  <1> HIDE DEF p
  <1>6. p \notin I
    BY <1>3, <1>5
  <1>7. Rank(places, p) < k /\ Rank(places, m) >= k
    BY <1>0, <1>1, <1>3, <1>5, <1>6
  <1> HIDE DEF I
  <1>8. Rank(places, p + 1) = IF p + 1 \in places THEN Rank(places, p) + 1 ELSE Rank(places, p)
    BY <1>5, RankSteps
  <1>9. Rank(places, m) = IF m \in places THEN Rank(places, p) + 1 ELSE Rank(places, p)
    BY <1>5, <1>8
  <1>10. QED
    BY <1>0, <1>1, <1>4, <1>5, <1>7, <1>9

(* A filtered list has only elements of the list.                          *)
LEMMA SetKept ==
    ASSUME NEW S, NEW s \in Seq(S), NEW places \in SUBSET (DOMAIN s)
    PROVE  Kept(s, places) \in Seq(S) /\ ToSet(Kept(s, places)) \subseteq ToSet(s)
  <1> DEFINE at(k) == CHOOSE i \in places : Rank(places, i) = k
             n == Cardinality(places)
             f == [k \in 1..n |-> s[at(k)]]
  <1>1. places \in SUBSET (1..Len(s)) /\ Len(s) \in Nat
    BY LenProperties
  <1>2. ASSUME NEW k \in 1..n PROVE at(k) \in places
    <2>1. \E i \in places : Rank(places, i) = k
      BY <1>1, Ranked
    <2>2. QED
      BY <2>1
  <1>3. n \in Nat
    BY <1>1, FinitePlaces
  <1>4. Kept(s, places) = f
    BY DEF Kept, Rank, Below
  <1> HIDE DEF at, n
  <1>5. \A k \in 1..n : s[at(k)] \in ToSet(s) /\ s[at(k)] \in S
    BY <1>1, <1>2, ElementOfSeq DEF ToSet
  <1>6. DOMAIN f = 1..n /\ \A k \in 1..n : f[k] \in ToSet(s) /\ f[k] \in S
    BY <1>5
  <1>7. f = [k \in 1..n |-> f[k]]
    OBVIOUS
  <1> HIDE DEF f
  <1>8. f \in Seq(S)
    BY <1>3, <1>6, <1>7
  <1>9. ToSet(f) \subseteq ToSet(s)
    BY <1>6 DEF ToSet
  <1>10. QED
    BY <1>4, <1>8, <1>9

-----------------------------------------------------------------------------
(* Templates, as far as tags go.                                           *)
TemplateFields == {"outbounds", "rules", "balancers", "observatory", "burstObservatory",
                   "dns", "fakedns", "options"}
OutboundTag == Tags \cup {""}
BalancerTag == {"bal", "new", ""}
RuleType == [props : SUBSET RuleProps, to : OutboundTag, via : BalancerTag]
BalancerType == [tag : BalancerTag, strategy : Strategies \cup {"none"},
                 selector : SUBSET Tags, tuned : BOOLEAN]

IsTemplate(t) ==
    /\ t = [f \in TemplateFields |-> t[f]]
    /\ t.outbounds \in Seq(OutboundTag)
    /\ t.rules \in Seq(RuleType)
    /\ t.balancers \in Seq(BalancerType)

BalancersOf(t) == {b.tag : b \in ToSet(t.balancers)}

(* The observatories watch what the balancers choose from.                 *)
Watched(t) ==
    /\ t.observatory = Selected(t, {"leastPing"})
    /\ t.burstObservatory = Selected(t, {"leastLoad", "random", "roundRobin"})

(* What a rule names is there, was taken away by hand, or is blank; and    *)
(* so is what the routing basics name, unless they add it themselves.      *)
RuleResolved(r, t, g) == /\ r.to \in ToSet(t.outbounds) \cup g \cup {""}
                         /\ r.via \in BalancersOf(t) \cup g \cup {""}
Resolved(t, g) ==
    /\ \A r \in ToSet(t.rules) : RuleResolved(r, t, g)
    /\ "blocked" \in ToSet(t.outbounds) \cup g
    /\ "observatory" \notin g => Watched(t)
Sound(t, g) == IsTemplate(t) /\ Resolved(t, g)

(* The tags of outbounds and of balancers are different ones.              *)
LEMMA TagsApart ==
    /\ OutboundTag \cap BalancerTag = {""}
    /\ "blocked" \in OutboundTag /\ "blocked" # "" /\ "blocked" \notin NordTags
    /\ NordTags \subseteq OutboundTag /\ NewTags \subseteq OutboundTag
    /\ {"direct", "warp", "IPv4"} \subseteq OutboundTag
  BY DEF OutboundTag, BalancerTag, Tags, NewTags, NordTags

(* One field of a template replaced.                                       *)
LEMMA FieldSet ==
    ASSUME NEW t, IsTemplate(t), NEW f \in TemplateFields, NEW x
    PROVE  /\ [t EXCEPT ![f] = x] = [h \in TemplateFields |-> IF h = f THEN x ELSE t[h]]
           /\ \A h \in TemplateFields : [t EXCEPT ![f] = x][h] = IF h = f THEN x ELSE t[h]
  BY DEF IsTemplate

(* The outbounds replaced.                                                 *)
LEMMA OutboundsSet ==
    ASSUME NEW t, IsTemplate(t), NEW x \in Seq(OutboundTag)
    PROVE  LET n == [t EXCEPT !.outbounds = x]
           IN  /\ IsTemplate(n) /\ n.outbounds = x /\ n.rules = t.rules /\ n.balancers = t.balancers
               /\ n.observatory = t.observatory /\ n.burstObservatory = t.burstObservatory
  BY FieldSet DEF IsTemplate, TemplateFields

(* The rules replaced.                                                     *)
LEMMA RulesSet ==
    ASSUME NEW t, IsTemplate(t), NEW x \in Seq(RuleType)
    PROVE  LET n == [t EXCEPT !.rules = x]
           IN  /\ IsTemplate(n) /\ n.outbounds = t.outbounds /\ n.rules = x /\ n.balancers = t.balancers
               /\ n.observatory = t.observatory /\ n.burstObservatory = t.burstObservatory
  BY FieldSet DEF IsTemplate, TemplateFields

(* The balancers replaced.                                                 *)
LEMMA BalancersSet ==
    ASSUME NEW t, IsTemplate(t), NEW x \in Seq(BalancerType)
    PROVE  LET n == [t EXCEPT !.balancers = x]
           IN  IsTemplate(n) /\ n.outbounds = t.outbounds /\ n.rules = t.rules /\ n.balancers = x
  BY FieldSet DEF IsTemplate, TemplateFields

(* A field that names no tag replaced.                                     *)
LEMMA OtherSet ==
    ASSUME NEW t, IsTemplate(t), NEW f \in {"dns", "fakedns", "options"}, NEW x
    PROVE  LET n == [t EXCEPT ![f] = x]
           IN  /\ IsTemplate(n) /\ n.outbounds = t.outbounds /\ n.rules = t.rules
               /\ n.balancers = t.balancers
               /\ n.observatory = t.observatory /\ n.burstObservatory = t.burstObservatory
  BY FieldSet DEF IsTemplate, TemplateFields

(* The observatories of templates with the same balancers.                 *)
LEMMA SameWatched ==
    ASSUME NEW t, NEW n, n.balancers = t.balancers, n.observatory = t.observatory,
           n.burstObservatory = t.burstObservatory
    PROVE  Watched(n) <=> Watched(t)
  BY DEF Watched, Selected

(* What a template becomes when the observatories are synchronised.        *)
LEMMA Synced ==
    ASSUME NEW t, IsTemplate(t)
    PROVE  /\ IsTemplate(Sync(t)) /\ Watched(Sync(t))
           /\ Sync(t).outbounds = t.outbounds /\ Sync(t).rules = t.rules
           /\ Sync(t).balancers = t.balancers
           /\ Watched(t) <=> t = Sync(t)
  <1> DEFINE p == Selected(t, {"leastPing"})
             b == Selected(t, {"leastLoad", "random", "roundRobin"})
             n == Sync(t)
  <1>1. n = [[t EXCEPT !.observatory = p] EXCEPT !.burstObservatory = b]
    BY DEF Sync
  <1>2. t = [f \in TemplateFields |-> t[f]]
    BY DEF IsTemplate
  <1> HIDE DEF p, b, n
  <1>3. /\ n = [f \in TemplateFields |-> n[f]]
        /\ n.observatory = p /\ n.burstObservatory = b
        /\ \A f \in TemplateFields : f \notin {"observatory", "burstObservatory"} => n[f] = t[f]
    BY <1>1, <1>2 DEF TemplateFields
  <1>4. n.outbounds = t.outbounds /\ n.rules = t.rules /\ n.balancers = t.balancers
    BY <1>3 DEF TemplateFields
  <1>5. IsTemplate(n)
    BY <1>3, <1>4 DEF IsTemplate
  <1>6. p = Selected(n, {"leastPing"}) /\ b = Selected(n, {"leastLoad", "random", "roundRobin"})
    BY <1>4 DEF Selected, p, b
  <1>7. Watched(n)
    BY <1>3, <1>6 DEF Watched
  <1>8. Watched(t) <=> t.observatory = p /\ t.burstObservatory = b
    BY DEF Watched, p, b
  <1>9. Watched(t) => t = n
    <2> SUFFICES ASSUME Watched(t) PROVE t = n
      OBVIOUS
    <2>1. \A f \in TemplateFields : n[f] = t[f]
      BY <1>3, <1>8 DEF TemplateFields
    <2>2. QED
      BY <1>2, <1>3, <2>1
  <1>10. t = n => Watched(t)
    BY <1>3, <1>8
  <1>11. QED
    BY <1>4, <1>5, <1>7, <1>9, <1>10 DEF n

-----------------------------------------------------------------------------
(* Soundness through the changes of one field.                             *)
LEMMA SoundLater ==
    ASSUME NEW t, NEW g, NEW h, Sound(t, g), g \subseteq h
    PROVE  Sound(t, h)
  BY DEF Sound, Resolved, RuleResolved

(* A field that names no tag.                                              *)
LEMMA OtherKept ==
    ASSUME NEW t, NEW g, NEW h, Sound(t, g), g \subseteq h,
           NEW f \in {"dns", "fakedns", "options"}, NEW x
    PROVE  Sound([t EXCEPT ![f] = x], h)
  <1> DEFINE n == [t EXCEPT ![f] = x]
  <1>1. /\ IsTemplate(n) /\ n.outbounds = t.outbounds /\ n.rules = t.rules
        /\ n.balancers = t.balancers
        /\ n.observatory = t.observatory /\ n.burstObservatory = t.burstObservatory
    BY OtherSet DEF Sound
  <1> HIDE DEF n
  <1>2. Watched(n) <=> Watched(t)
    BY <1>1, SameWatched
  <1>3. Sound(t, h)
    BY SoundLater
  <1>4. Sound(n, h)
    BY <1>1, <1>2, <1>3 DEF Sound, Resolved, RuleResolved, BalancersOf
  <1>5. QED
    BY <1>4 DEF n

(* The rules, when each was there or is resolved.                          *)
LEMMA RulesKept ==
    ASSUME NEW t, NEW g, NEW h, Sound(t, g), g \subseteq h,
           NEW x \in Seq(RuleType), \A r \in ToSet(x) : r \in ToSet(t.rules) \/ RuleResolved(r, t, h)
    PROVE  Sound([t EXCEPT !.rules = x], h)
  <1> DEFINE n == [t EXCEPT !.rules = x]
  <1>1. /\ IsTemplate(n) /\ n.outbounds = t.outbounds /\ n.rules = x /\ n.balancers = t.balancers
        /\ n.observatory = t.observatory /\ n.burstObservatory = t.burstObservatory
    BY RulesSet DEF Sound
  <1> HIDE DEF n
  <1>2. Watched(n) <=> Watched(t)
    BY <1>1, SameWatched
  <1>3. Sound(t, h)
    BY SoundLater
  <1>4. \A r \in ToSet(x) : RuleResolved(r, t, h)
    BY <1>3 DEF Sound, Resolved
  <1>5. \A r \in ToSet(x) : RuleResolved(r, n, h)
    BY <1>1, <1>4 DEF RuleResolved, BalancersOf
  <1>6. Sound(n, h)
    BY <1>1, <1>2, <1>3, <1>5 DEF Sound, Resolved
  <1>7. QED
    BY <1>6 DEF n

(* An outbound that goes was taken away by hand, or no rule names it.      *)
Unused(o, t) == o # "blocked" /\ \A r \in ToSet(t.rules) : r.to # o
LEMMA OutboundsKept ==
    ASSUME NEW t, NEW g, NEW h, Sound(t, g), g \subseteq h, NEW x \in Seq(OutboundTag),
           \A o \in ToSet(t.outbounds) : o \in ToSet(x) \cup h \cup {""} \/ Unused(o, t)
    PROVE  Sound([t EXCEPT !.outbounds = x], h)
  <1> DEFINE n == [t EXCEPT !.outbounds = x]
  <1>1. /\ IsTemplate(n) /\ n.outbounds = x /\ n.rules = t.rules /\ n.balancers = t.balancers
        /\ n.observatory = t.observatory /\ n.burstObservatory = t.burstObservatory
    BY OutboundsSet DEF Sound
  <1> HIDE DEF n
  <1>2. Watched(n) <=> Watched(t)
    BY <1>1, SameWatched
  <1>3. Sound(t, h)
    BY SoundLater
  <1>4. ASSUME NEW r \in ToSet(t.rules) PROVE RuleResolved(r, n, h)
    <2>1. RuleResolved(r, t, h)
      BY <1>3 DEF Sound, Resolved
    <2>2. r.to \in ToSet(x) \cup h \cup {""}
      BY <2>1 DEF RuleResolved, Unused
    <2>3. QED
      BY <1>1, <2>1, <2>2 DEF RuleResolved, BalancersOf
  <1>5. "blocked" \in ToSet(x) \cup h
    BY <1>3, TagsApart DEF Sound, Resolved, Unused
  <1>6. Sound(n, h)
    BY <1>1, <1>2, <1>3, <1>4, <1>5 DEF Sound, Resolved
  <1>7. QED
    BY <1>6 DEF n

(* The tags a replaced template no longer has count as taken away.         *)
LEMMA LostCovers ==
    ASSUME NEW t, NEW n, IsTemplate(t), IsTemplate(n)
    PROVE  /\ \A o \in ToSet(t.outbounds) : o \in ToSet(n.outbounds) \cup Lost(t, n) \cup {""}
           /\ \A b \in BalancersOf(t) : b \in BalancersOf(n) \cup Lost(t, n) \cup {""}
  <1>1. \A m : IsTemplate(m) => /\ Names(m) = ToSet(m.outbounds) \cup BalancersOf(m)
                                /\ ToSet(m.outbounds) \subseteq OutboundTag
                                /\ BalancersOf(m) \subseteq BalancerTag
    <2> SUFFICES ASSUME NEW m, IsTemplate(m)
                 PROVE  /\ Names(m) = ToSet(m.outbounds) \cup BalancersOf(m)
                        /\ ToSet(m.outbounds) \subseteq OutboundTag
                        /\ BalancersOf(m) \subseteq BalancerTag
      OBVIOUS
    <2>1. ToSet(m.outbounds) \subseteq OutboundTag
      BY DEF IsTemplate, ToSet
    <2>2. ToSet(m.balancers) \subseteq BalancerType
      BY DEF IsTemplate, ToSet
    <2>3. BalancersOf(m) \subseteq BalancerTag
      BY <2>2 DEF BalancersOf, BalancerType
    <2>4. Names(m) = ToSet(m.outbounds) \cup BalancersOf(m)
      BY DEF Names, Outbounds, BalancersOf, ToSet
    <2>5. QED
      BY <2>1, <2>3, <2>4
  <1>2. Lost(t, n) = Names(t) \ Names(n)
    BY DEF Lost
  <1>3. QED
    BY <1>1, <1>2, TagsApart

(* The property itself.                                                    *)
LEMMA SoundResolves ==
    ASSUME Sound(template, gone)
    PROVE  TagsResolve
  <1>1. \A i \in DOMAIN template.rules : template.rules[i] \in ToSet(template.rules)
    BY DEF ToSet
  <1>2. Outbounds(template) = ToSet(template.outbounds)
    BY DEF Outbounds
  <1>3. BalancersOf(template) \subseteq Names(template)
    BY DEF BalancersOf, Names, ToSet
  <1>4. \A i \in DOMAIN template.rules : RuleResolved(template.rules[i], template, gone)
    BY <1>1 DEF Sound, Resolved
  <1>5. "observatory" \notin gone => template = Sync(template)
    BY Synced DEF Sound, Resolved
  <1>6. QED
    BY <1>2, <1>3, <1>4, <1>5 DEF TagsResolve, RuleResolved

-----------------------------------------------------------------------------
(* What each change of the sections makes of a sound template.             *)
LEMMA ListOf ==
    ASSUME NEW S, NEW s \in Seq(S)
    PROVE  /\ DOMAIN s = 1..Len(s)
           /\ \A i \in DOMAIN s : s[i] \in S
           /\ \A i \in DOMAIN s : s[i] \in ToSet(s)
  BY DEF ToSet

(* The lists of a template.                                                *)
LEMMA SoundLists ==
    ASSUME NEW t, IsTemplate(t)
    PROVE  /\ DOMAIN t.outbounds = 1..Len(t.outbounds)
           /\ DOMAIN t.rules = 1..Len(t.rules)
           /\ DOMAIN t.balancers = 1..Len(t.balancers)
           /\ \A i \in DOMAIN t.outbounds : t.outbounds[i] \in OutboundTag
           /\ \A i \in DOMAIN t.rules : t.rules[i] \in RuleType
           /\ \A i \in DOMAIN t.balancers : t.balancers[i] \in BalancerType
           /\ \A i \in DOMAIN t.outbounds : t.outbounds[i] \in ToSet(t.outbounds)
           /\ \A i \in DOMAIN t.rules : t.rules[i] \in ToSet(t.rules)
           /\ \A i \in DOMAIN t.balancers : t.balancers[i] \in ToSet(t.balancers)
  <1>1. /\ t.outbounds \in Seq(OutboundTag) /\ t.rules \in Seq(RuleType)
        /\ t.balancers \in Seq(BalancerType)
    BY DEF IsTemplate
  <1>2. QED
    BY <1>1, ListOf

(* A rule is one.                                                          *)
LEMMA RuleIs ==
    ASSUME NEW props \in SUBSET RuleProps, NEW to \in OutboundTag, NEW via \in BalancerTag
    PROVE  /\ Rule(props, to, via) \in RuleType
           /\ Rule(props, to, via).to = to /\ Rule(props, to, via).via = via
  BY DEF Rule, RuleType

(* The rule of a basic.                                                    *)
LEMMA RuleOfProp ==
    ASSUME NEW prop \in RuleProps, NEW to \in OutboundTag
    PROVE  /\ Rule({prop}, to, "") \in RuleType
           /\ Rule({prop}, to, "").to = to /\ Rule({prop}, to, "").via = ""
  BY DEF Rule, RuleType, BalancerTag

(* An outbound added when there is none of its tag.                        *)
LEMMA WithOutboundSound ==
    ASSUME NEW t, NEW g, NEW h, Sound(t, g), g \subseteq h, NEW tag \in OutboundTag
    PROVE  /\ Sound(WithOutbound(t, tag), h)
           /\ WithOutbound(t, tag).rules = t.rules
           /\ WithOutbound(t, tag).balancers = t.balancers
           /\ tag \in ToSet(WithOutbound(t, tag).outbounds)
  <1>1. CASE tag \in ToSet(t.outbounds)
    <2>1. WithOutbound(t, tag) = t
      BY <1>1 DEF WithOutbound, Outbounds
    <2>2. QED
      BY <1>1, <2>1, SoundLater
  <1>2. CASE tag \notin ToSet(t.outbounds)
    <2> DEFINE x == Append(t.outbounds, tag)
    <2>1. WithOutbound(t, tag) = [t EXCEPT !.outbounds = x]
      BY <1>2 DEF WithOutbound, Outbounds
    <2>2. IsTemplate(t) /\ t.outbounds \in Seq(OutboundTag)
      BY DEF Sound, IsTemplate
    <2>3. x \in Seq(OutboundTag) /\ ToSet(x) = ToSet(t.outbounds) \cup {tag}
      BY <2>2, SetAppended
    <2> HIDE DEF x
    <2>4. Sound([t EXCEPT !.outbounds = x], h)
      BY <2>3, OutboundsKept
    <2>5. /\ [t EXCEPT !.outbounds = x].rules = t.rules /\ [t EXCEPT !.outbounds = x].outbounds = x
          /\ [t EXCEPT !.outbounds = x].balancers = t.balancers
      BY <2>2, <2>3, OutboundsSet
    <2>6. QED
      BY <2>1, <2>3, <2>4, <2>5
  <1>3. QED
    BY <1>1, <1>2

(* An outbound removed at an index, if there is one there.                 *)
LEMMA WithoutOutboundIs ==
    ASSUME NEW t, IsTemplate(t), NEW i
    PROVE  /\ IsTemplate(WithoutOutbound(t, i))
           /\ WithoutOutbound(t, i).rules = t.rules
           /\ WithoutOutbound(t, i).balancers = t.balancers
  <1>1. CASE i \notin DOMAIN t.outbounds
    BY <1>1 DEF WithoutOutbound
  <1>2. CASE i \in DOMAIN t.outbounds
    <2> DEFINE x == RemoveAt(t.outbounds, i)
    <2>1. WithoutOutbound(t, i) = [t EXCEPT !.outbounds = x]
      BY <1>2 DEF WithoutOutbound
    <2>2. t.outbounds \in Seq(OutboundTag) /\ i \in 1..Len(t.outbounds)
      BY <1>2, SoundLists DEF IsTemplate
    <2>3. x \in Seq(OutboundTag)
      BY <2>2, SetRemoved
    <2> HIDE DEF x
    <2>4. QED
      BY <2>1, <2>3, OutboundsSet
  <1>3. QED
    BY <1>1, <1>2

(* Only what is there goes.                                                *)
LEMMA WithoutOutboundKeeps ==
    ASSUME NEW t, IsTemplate(t), NEW i
    PROVE  \A j \in DOMAIN t.outbounds : j # i => t.outbounds[j] \in ToSet(WithoutOutbound(t, i).outbounds)
  <1> SUFFICES ASSUME NEW j \in DOMAIN t.outbounds, j # i
               PROVE  t.outbounds[j] \in ToSet(WithoutOutbound(t, i).outbounds)
    OBVIOUS
  <1>1. CASE i \notin DOMAIN t.outbounds
    BY <1>1, SoundLists DEF WithoutOutbound
  <1>2. CASE i \in DOMAIN t.outbounds
    <2> DEFINE x == RemoveAt(t.outbounds, i)
    <2>1. WithoutOutbound(t, i) = [t EXCEPT !.outbounds = x]
      BY <1>2 DEF WithoutOutbound
    <2>2. t.outbounds \in Seq(OutboundTag) /\ i \in 1..Len(t.outbounds) /\ j \in 1..Len(t.outbounds)
      BY <1>2, SoundLists DEF IsTemplate
    <2>3. x \in Seq(OutboundTag) /\ t.outbounds[j] \in ToSet(x)
      BY <2>2, SetRemoved
    <2> HIDE DEF x
    <2>4. WithoutOutbound(t, i).outbounds = x
      BY <2>1, <2>3, OutboundsSet
    <2>5. QED
      BY <2>3, <2>4
  <1>3. QED
    BY <1>1, <1>2

(* That is sound when the tag is still there, was taken away or is         *)
(* unused.                                                                 *)
LEMMA WithoutOutboundSound ==
    ASSUME NEW t, NEW g, NEW h, Sound(t, g), g \subseteq h, NEW i,
           i \in DOMAIN t.outbounds =>
              \/ t.outbounds[i] \in ToSet(WithoutOutbound(t, i).outbounds) \cup h \cup {""}
              \/ Unused(t.outbounds[i], t)
    PROVE  Sound(WithoutOutbound(t, i), h)
  <1>1. CASE i \notin DOMAIN t.outbounds
    <2>1. WithoutOutbound(t, i) = t
      BY <1>1 DEF WithoutOutbound
    <2>2. QED
      BY <2>1, SoundLater
  <1>2. CASE i \in DOMAIN t.outbounds
    <2> DEFINE x == RemoveAt(t.outbounds, i)
               o == t.outbounds[i]
    <2>1. WithoutOutbound(t, i) = [t EXCEPT !.outbounds = x]
      BY <1>2 DEF WithoutOutbound
    <2>2. IsTemplate(t) /\ t.outbounds \in Seq(OutboundTag) /\ i \in 1..Len(t.outbounds)
      BY <1>2, SoundLists DEF Sound, IsTemplate
    <2>3. x \in Seq(OutboundTag) /\ ToSet(t.outbounds) \subseteq ToSet(x) \cup {o}
      BY <2>2, SetRemoved
    <2> HIDE DEF x
    <2>4. WithoutOutbound(t, i).outbounds = x
      <3>1. IsTemplate(t) /\ x \in Seq(OutboundTag)
        BY <2>2, <2>3
      <3>2. [t EXCEPT !.outbounds = x].outbounds = x
        BY <3>1, OutboundsSet
      <3>3. QED
        BY <2>1, <3>2
    <2>5. o \in ToSet(x) \cup h \cup {""} \/ Unused(o, t)
      BY <1>2, <2>4
    <2> HIDE DEF o
    <2>6. \A p \in ToSet(t.outbounds) : p \in ToSet(x) \cup h \cup {""} \/ Unused(p, t)
      BY <2>3, <2>5
    <2>7. Sound([t EXCEPT !.outbounds = x], h)
      BY <2>3, <2>6, OutboundsKept
    <2>8. QED
      BY <2>1, <2>7
  <1>3. QED
    BY <1>1, <1>2

(* The index of a tag, where there is one, is an index of that tag.        *)
LEMMA IndexFinds ==
    ASSUME NEW t, IsTemplate(t), NEW tag
    PROVE  /\ IndexOf(t, tag) \in Nat
           /\ IndexOf(t, tag) # 0 => /\ IndexOf(t, tag) \in DOMAIN t.outbounds
                                     /\ t.outbounds[IndexOf(t, tag)] = tag
  <1> DEFINE I == {i \in 1..Len(t.outbounds) : t.outbounds[i] = tag}
  <1>1. IndexOf(t, tag) = IF I # {} THEN Min(I) ELSE 0
    BY DEF IndexOf, SelectInSeq
  <1>2. I \in SUBSET Nat /\ DOMAIN t.outbounds = 1..Len(t.outbounds)
    BY SoundLists
  <1>3. I # {} => Min(I) \in I
    BY <1>2, LeastNatural
  <1>4. QED
    BY <1>1, <1>2, <1>3

(* The index of NordVPN's outbound is an index of one of its tags.         *)
LEMMA NordIndexFinds ==
    ASSUME IsTemplate(template)
    PROVE  /\ NordIndex \in Nat
           /\ NordIndex # 0 => /\ NordIndex \in DOMAIN template.outbounds
                               /\ template.outbounds[NordIndex] \in NordTags
  <1> DEFINE I == {i \in 1..Len(template.outbounds) : template.outbounds[i] \in NordTags}
  <1>1. NordIndex = IF I # {} THEN Min(I) ELSE 0
    BY DEF NordIndex, SelectInSeq
  <1>2. I \in SUBSET Nat /\ DOMAIN template.outbounds = 1..Len(template.outbounds)
    BY SoundLists
  <1>3. I # {} => Min(I) \in I
    BY <1>2, LeastNatural
  <1>4. QED
    BY <1>1, <1>2, <1>3

(* The routing basics: rules come and go, and the outbound with them.      *)
LEMMA RuleSetterSound ==
    ASSUME NEW t, NEW g, Sound(t, g), NEW tag \in OutboundTag, NEW prop \in RuleProps,
           NEW on \in BOOLEAN
    PROVE  LET n == RuleSetter(t, tag, prop, on)
           IN  /\ IsTemplate(n)
               /\ n.outbounds = t.outbounds /\ n.balancers = t.balancers
               /\ n.observatory = t.observatory /\ n.burstObservatory = t.burstObservatory
               /\ \A r \in ToSet(n.rules) : \/ r \in ToSet(t.rules)
                                            \/ r.to = tag /\ r.via = "" /\ r \in RuleType
  <1> DEFINE hits == {i \in DOMAIN t.rules : Matches(t.rules[i], tag, prop)}
             first == {i \in hits : on /\ \A j \in hits : i <= j}
             places == DOMAIN t.rules \ (hits \ first)
             rule == Rule({prop}, tag, "")
             x == IF hits = {} THEN Append(t.rules, rule) ELSE Kept(t.rules, places)
             n == [t EXCEPT !.rules = x]
  <1>1. RuleSetter(t, tag, prop, on) = n
    BY DEF RuleSetter
  <1>2. IsTemplate(t) /\ t.rules \in Seq(RuleType)
    BY DEF Sound, IsTemplate
  <1>3. rule \in RuleType /\ rule.to = tag /\ rule.via = ""
    BY RuleOfProp
  <1>4. places \in SUBSET (DOMAIN t.rules)
    OBVIOUS
  <1> HIDE DEF hits, first, places, rule
  <1>5. Append(t.rules, rule) \in Seq(RuleType) /\ ToSet(Append(t.rules, rule)) = ToSet(t.rules) \cup {rule}
    <2>1. t.rules \in Seq(RuleType) /\ rule \in RuleType
      BY <1>2, <1>3
    <2>2. QED
      BY <2>1, SetAppended
  <1>6. Kept(t.rules, places) \in Seq(RuleType) /\ ToSet(Kept(t.rules, places)) \subseteq ToSet(t.rules)
    BY <1>2, <1>4, SetKept
  <1>7. x \in Seq(RuleType) /\ ToSet(x) \subseteq ToSet(t.rules) \cup {rule}
    BY <1>5, <1>6
  <1> HIDE DEF x
  <1>8. /\ IsTemplate(n) /\ n.outbounds = t.outbounds /\ n.rules = x /\ n.balancers = t.balancers
        /\ n.observatory = t.observatory /\ n.burstObservatory = t.burstObservatory
    BY <1>2, <1>7, RulesSet
  <1> HIDE DEF n
  <1>9. QED
    BY <1>1, <1>3, <1>7, <1>8

(* With the outbound the basics route to, or without what no rule names.   *)
LEMMA SetBasicSound ==
    ASSUME NEW t, NEW g, Sound(t, g), NEW b \in Basics, NEW on \in BOOLEAN
    PROVE  Sound(SetBasic(t, b, on), g)
  <1> DEFINE tag == b[1]
             prop == b[2]
             n == RuleSetter(t, tag, prop, on)
  <1>1. tag \in OutboundTag /\ prop \in RuleProps /\ tag # "observatory" /\ tag # ""
    <2>1. tag \in {"blocked", "direct", "IPv4"} /\ prop \in RuleProps
      BY DEF Basics, RuleProps
    <2> HIDE DEF tag
    <2>2. QED
      BY <2>1 DEF OutboundTag, Tags
  <1>2. SetBasic(t, b, on) = IF tag = "blocked" THEN n ELSE SyncOutbound(n, tag)
    BY DEF SetBasic
  <1> HIDE DEF tag, prop
  <1>3. /\ IsTemplate(n)
        /\ n.outbounds = t.outbounds /\ n.balancers = t.balancers
        /\ n.observatory = t.observatory /\ n.burstObservatory = t.burstObservatory
        /\ \A r \in ToSet(n.rules) : \/ r \in ToSet(t.rules)
                                     \/ r.to = tag /\ r.via = "" /\ r \in RuleType
    BY <1>1, RuleSetterSound
  <1> HIDE DEF n
  <1>4. Watched(n) <=> Watched(t)
    BY <1>3, SameWatched
  <1>5. \A r \in ToSet(n.rules) : /\ r.to \in ToSet(n.outbounds) \cup g \cup {"", tag}
                                  /\ r.via \in BalancersOf(n) \cup g \cup {""}
    <2>1. \A r \in ToSet(t.rules) : RuleResolved(r, t, g)
      BY DEF Sound, Resolved
    <2>2. QED
      BY <1>3, <2>1 DEF RuleResolved, BalancersOf
  <1>6. tag # "observatory" /\ tag \in OutboundTag
    BY <1>1
  <1>7. "blocked" \in ToSet(n.outbounds) \cup g /\ ("observatory" \notin g => Watched(n))
    BY <1>3, <1>4 DEF Sound, Resolved
  <1>8. tag \in ToSet(n.outbounds) \cup g => Sound(n, g)
    <2> SUFFICES ASSUME tag \in ToSet(n.outbounds) \cup g PROVE Sound(n, g)
      OBVIOUS
    <2>1. \A r \in ToSet(n.rules) : RuleResolved(r, n, g)
      BY <1>5 DEF RuleResolved
    <2>2. QED
      BY <1>3, <1>7, <2>1 DEF Sound, Resolved
  <1>9. CASE tag = "blocked"
    BY <1>2, <1>7, <1>8, <1>9
  <1>10. CASE tag # "blocked"
    <2> DEFINE used == \E i \in DOMAIN n.rules : n.rules[i].to = tag
               k == IndexOf(n, tag)
    <2>1. SetBasic(t, b, on) = IF ~used /\ k > 1 THEN WithoutOutbound(n, k)
                               ELSE IF used THEN WithOutbound(n, tag) ELSE n
      BY <1>2, <1>10 DEF SyncOutbound
    <2>2. ToSet(n.rules) = {n.rules[i] : i \in DOMAIN n.rules}
      BY DEF ToSet
    <2>3. used <=> \E r \in ToSet(n.rules) : r.to = tag
      BY <2>2
    <2> HIDE DEF used
    <2>4. CASE used
      <3> DEFINE m == WithOutbound(n, tag)
                 h == g \cup {tag}
      <3>a. h = g \cup {tag}
        OBVIOUS
      <3> HIDE DEF h
      <3>b. \A r \in ToSet(n.rules) : RuleResolved(r, n, h)
        BY <1>5, <3>a DEF RuleResolved
      <3>1. Sound(n, h)
        BY <1>3, <1>6, <1>7, <3>a, <3>b DEF Sound, Resolved
      <3>2. /\ Sound(m, h) /\ m.rules = n.rules /\ m.balancers = n.balancers
            /\ tag \in ToSet(m.outbounds)
        BY <1>6, <3>1, WithOutboundSound
      <3> HIDE DEF m
      <3>c. \A r \in ToSet(m.rules) : RuleResolved(r, m, g)
        <4> SUFFICES ASSUME NEW r \in ToSet(m.rules) PROVE RuleResolved(r, m, g)
          OBVIOUS
        <4>1. r.to \in ToSet(m.outbounds) \cup h \cup {""}
          BY <3>2 DEF Sound, Resolved, RuleResolved
        <4>2. r.via \in BalancersOf(m) \cup g \cup {""}
          BY <1>5, <3>2 DEF BalancersOf
        <4>3. QED
          BY <3>2, <3>a, <4>1, <4>2 DEF RuleResolved
      <3>3. Sound(m, g)
        BY <1>6, <1>10, <3>2, <3>a, <3>c DEF Sound, Resolved
      <3>4. QED
        BY <2>1, <2>4, <3>3 DEF m
    <2>5. CASE ~used
      <3>1. \A r \in ToSet(n.rules) : r.to # tag
        BY <2>3, <2>5
      <3>2. \A r \in ToSet(n.rules) : RuleResolved(r, n, g)
        <4>1. \A r \in ToSet(t.rules) : RuleResolved(r, t, g)
          BY DEF Sound, Resolved
        <4>2. QED
          BY <1>3, <3>1, <4>1 DEF RuleResolved, BalancersOf
      <3>3. Sound(n, g)
        BY <1>3, <1>7, <3>2 DEF Sound, Resolved
      <3>4. k # 0 => n.outbounds[k] = tag
        BY <1>3, IndexFinds
      <3>5. Unused(tag, n)
        BY <1>10, <3>1 DEF Unused
      <3>6. k > 1 => Sound(WithoutOutbound(n, k), g)
        <4> SUFFICES ASSUME k > 1 PROVE Sound(WithoutOutbound(n, k), g)
          OBVIOUS
        <4>1. k \in Nat
          BY <1>3, IndexFinds
        <4>2. n.outbounds[k] = tag
          BY <3>4, <4>1
        <4> HIDE DEF k
        <4>3. QED
          BY <3>3, <3>5, <4>2, WithoutOutboundSound
      <3>7. QED
        BY <2>1, <2>5, <3>3, <3>6
    <2>6. QED
      BY <2>4, <2>5
  <1>11. QED
    BY <1>9, <1>10

-----------------------------------------------------------------------------
(* A balancer is one.                                                      *)
LEMMA BalancerIs ==
    ASSUME NEW tag \in BalancerTag, NEW strategy \in Strategies \cup {"none"},
           NEW selector \in SUBSET Tags, NEW tuned \in BOOLEAN
    PROVE  LET b == Balancer(tag, strategy, selector, tuned)
           IN  /\ b \in BalancerType
               /\ b.tag = tag /\ b.strategy = strategy /\ b.selector = selector
  BY DEF Balancer, BalancerType

(* Lists of a few elements.                                                *)
LEMMA Pair ==
    ASSUME NEW S, NEW a \in S, NEW b \in S
    PROVE  /\ <<a, b>> \in Seq(S) /\ DOMAIN <<a, b>> = {1, 2}
           /\ <<a, b>>[1] = a /\ <<a, b>>[2] = b
  OBVIOUS

LEMMA Triple ==
    ASSUME NEW S, NEW a \in S, NEW b \in S, NEW c \in S
    PROVE  /\ <<a, b, c>> \in Seq(S) /\ DOMAIN <<a, b, c>> = {1, 2, 3}
           /\ <<a, b, c>>[1] = a /\ <<a, b, c>>[2] = b /\ <<a, b, c>>[3] = c
  OBVIOUS

LEMMA NoElements == ASSUME NEW S PROVE <<>> \in Seq(S) /\ DOMAIN <<>> = {}
  OBVIOUS


-----------------------------------------------------------------------------
(* The templates that come whole: the default, and what may be typed.      *)
LEMMA DefaultSound == Sound(Default, {})
  <1>1. /\ Default.outbounds = <<"direct", "blocked">> /\ Default.balancers = <<>>
        /\ Default.rules = <<Rule({"ip"}, "blocked", ""), Rule({"protocol"}, "blocked", "")>>
        /\ Default.observatory = NoneSeen /\ Default.burstObservatory = NoneSeen
        /\ Default = [f \in TemplateFields |-> Default[f]]
    BY DEF Default, TemplateFields
  <1>2. "blocked" \in OutboundTag /\ "direct" \in OutboundTag
    BY TagsApart
  <1>3. "ip" \in RuleProps /\ "protocol" \in RuleProps
    BY DEF RuleProps
  <1> DEFINE a == Rule({"ip"}, "blocked", "")
             b == Rule({"protocol"}, "blocked", "")
  <1>4. a \in RuleType /\ b \in RuleType /\ a.to = "blocked" /\ a.via = "" /\ b.to = "blocked" /\ b.via = ""
    BY <1>2, <1>3, RuleOfProp
  <1>5. Default.rules = <<a, b>>
    BY <1>1
  <1> HIDE DEF a, b
  <1>6. <<a, b>> \in Seq(RuleType) /\ DOMAIN <<a, b>> = {1, 2} /\ <<a, b>>[1] = a /\ <<a, b>>[2] = b
    <2>1. a \in RuleType /\ b \in RuleType
      BY <1>4
    <2>2. QED
      BY <2>1, Pair
  <1>7. IsTemplate(Default)
    <2>1. <<"direct", "blocked">> \in Seq(OutboundTag)
      BY <1>2
    <2>2. <<>> \in Seq(BalancerType)
      OBVIOUS
    <2>3. QED
      BY <1>1, <1>5, <1>6, <2>1, <2>2 DEF IsTemplate
  <1>8. "blocked" \in ToSet(Default.outbounds) /\ \A r \in ToSet(Default.rules) : r = a \/ r = b
    <2>1. Default.outbounds[2] = "blocked" /\ 2 \in DOMAIN Default.outbounds
      <3>1. DOMAIN <<"direct", "blocked">> = {1, 2} /\ <<"direct", "blocked">>[2] = "blocked"
        BY <1>2, Pair
      <3>2. QED
        BY <1>1, <3>1
    <2>2. DOMAIN Default.rules = {1, 2} /\ Default.rules[1] = a /\ Default.rules[2] = b
      BY <1>5, <1>6
    <2>3. QED
      BY <2>1, <2>2 DEF ToSet
  <1>9. Watched(Default)
    <2>1. ASSUME NEW k PROVE Selected(Default, k) = NoneSeen
      <3> DEFINE of == {i \in DOMAIN Default.balancers : Default.balancers[i].strategy \in k}
      <3>1. DOMAIN Default.balancers = {}
        BY <1>1, NoElements
      <3>2. of = {}
        BY <3>1
      <3>3. Selected(Default, k) = [on |-> of # {}, of |-> UNION {Default.balancers[i].selector : i \in of}]
        BY DEF Selected
      <3> HIDE DEF of
      <3>4. UNION {Default.balancers[i].selector : i \in {}} = {}
        OBVIOUS
      <3>5. QED
        BY <3>2, <3>3, <3>4 DEF NoneSeen
    <2>2. QED
      BY <1>1, <2>1 DEF Watched
  <1>10. QED
    BY <1>4, <1>7, <1>8, <1>9 DEF Sound, Resolved, RuleResolved

(* An edited template.                                                     *)
LEMMA StartSound == Sound(Start, {})
  <1> DEFINE bal == Balancer("bal", "leastPing", {"us"}, FALSE)
             a == Rule({"domain"}, "direct", "")
             b == Rule({"other"}, "nord-a", "")
             c == Rule({"ip"}, "", "bal")
             tags == <<"blocked", "direct", "us", "nord-a">>
  <1>1. /\ Start.outbounds = tags /\ Start.balancers = <<bal>> /\ Start.rules = <<a, b, c>>
        /\ Start.observatory = [on |-> TRUE, of |-> {"us"}] /\ Start.burstObservatory = NoneSeen
        /\ Start = [f \in TemplateFields |-> Start[f]]
    BY DEF Start, TemplateFields
  <1>2. {"blocked", "direct", "us", "nord-a"} \subseteq OutboundTag
    BY DEF OutboundTag, Tags, NewTags, NordTags
  <1>3. a \in RuleType /\ b \in RuleType /\ c \in RuleType
    BY DEF Rule, RuleType, RuleProps, OutboundTag, Tags, NewTags, NordTags, BalancerTag
  <1>4. /\ a.to = "direct" /\ a.via = "" /\ b.to = "nord-a" /\ b.via = ""
        /\ c.to = "" /\ c.via = "bal"
    BY DEF Rule
  <1>5. /\ bal \in BalancerType /\ bal.tag = "bal" /\ bal.strategy = "leastPing"
        /\ bal.selector = {"us"}
    <2> DEFINE us == {"us"}
               off == FALSE
               made == Balancer("bal", "leastPing", us, off)
    <2>1. us \in SUBSET Tags
      BY DEF Tags, NewTags
    <2>2. "bal" \in BalancerTag /\ "leastPing" \in Strategies \cup {"none"} /\ off \in BOOLEAN
      BY DEF BalancerTag, Strategies
    <2> HIDE DEF us, off
    <2>3. made \in BalancerType /\ made.tag = "bal" /\ made.strategy = "leastPing" /\ made.selector = us
      BY <2>1, <2>2, BalancerIs
    <2> HIDE DEF made
    <2>4. bal = made /\ us = {"us"}
      BY DEF made, us, off
    <2>5. QED
      BY <2>3, <2>4
  <1> HIDE DEF bal, a, b, c
  <1>6. <<a, b, c>> \in Seq(RuleType) /\ <<bal>> \in Seq(BalancerType)
    <2>1. <<a, b, c>> \in Seq(RuleType)
      BY <1>3, Triple
    <2>2. <<bal>> \in Seq(BalancerType)
      BY <1>5
    <2>3. QED
      BY <2>1, <2>2
  <1>7. tags \in Seq(OutboundTag)
    BY <1>2
  <1>8. IsTemplate(Start)
    BY <1>1, <1>6, <1>7 DEF IsTemplate
  <1>9. {"blocked", "direct", "nord-a"} \subseteq ToSet(Start.outbounds)
    <2>1. /\ 1 \in DOMAIN Start.outbounds /\ Start.outbounds[1] = "blocked"
          /\ 2 \in DOMAIN Start.outbounds /\ Start.outbounds[2] = "direct"
          /\ 4 \in DOMAIN Start.outbounds /\ Start.outbounds[4] = "nord-a"
      BY <1>1
    <2>2. QED
      BY <2>1 DEF ToSet
  <1>10. (\A r \in ToSet(Start.rules) : r = a \/ r = b \/ r = c) /\ bal \in ToSet(Start.balancers)
    <2>1. /\ DOMAIN Start.rules = {1, 2, 3} /\ Start.rules[1] = a /\ Start.rules[2] = b
          /\ Start.rules[3] = c
      BY <1>1, <1>3, Triple
    <2>2. 1 \in DOMAIN Start.balancers /\ Start.balancers[1] = bal
      BY <1>1
    <2>3. QED
      BY <2>1, <2>2 DEF ToSet
  <1>11. "bal" \in BalancersOf(Start)
    BY <1>5, <1>10 DEF BalancersOf
  <1>12. Watched(Start)
    <2>1. DOMAIN Start.balancers = {1} /\ Start.balancers[1] = bal
      BY <1>1
    <2> DEFINE of(k) == {i \in DOMAIN Start.balancers : Start.balancers[i].strategy \in k}
    <2>2. /\ of({"leastPing"}) = {1}
          /\ of({"leastLoad", "random", "roundRobin"}) = {}
      BY <1>5, <2>1
    <2>3. \A k : Selected(Start, k) = [on |-> of(k) # {}, of |-> UNION {Start.balancers[i].selector : i \in of(k)}]
      BY DEF Selected
    <2> HIDE DEF of
    <2>4. UNION {Start.balancers[i].selector : i \in {1}} = {"us"}
      BY <1>5, <2>1
    <2>5. UNION {Start.balancers[i].selector : i \in {}} = {}
      OBVIOUS
    <2>6. QED
      BY <1>1, <2>2, <2>3, <2>4, <2>5 DEF Watched, NoneSeen
  <1>13. QED
    BY <1>1, <1>4, <1>8, <1>9, <1>10, <1>11, <1>12 DEF Sound, Resolved, RuleResolved

(* The rules all removed.                                                  *)
LEMMA NoRules ==
    ASSUME NEW t, NEW g, Sound(t, g)
    PROVE  Sound([t EXCEPT !.rules = <<>>], g)
  <1>1. <<>> \in Seq(RuleType) /\ \A r \in ToSet(<<>>) : r \in ToSet(t.rules)
    BY DEF ToSet
  <1>2. QED
    BY <1>1, RulesKept

(* A text that may be typed is broken or sound.                            *)
LEMMA TypedSound ==
    ASSUME NEW next \in Typed
    PROVE  next = Broken \/ Sound(next, {})
  BY DefaultSound, StartSound, NoRules DEF Typed

-----------------------------------------------------------------------------
(* The sections' other changes.                                            *)
LEMMA OutboundsLost ==
    ASSUME NEW t, NEW g, Sound(t, g), NEW x \in Seq(OutboundTag)
    PROVE  LET n == [t EXCEPT !.outbounds = x] IN Sound(n, g \cup Lost(t, n))
  <1> DEFINE n == [t EXCEPT !.outbounds = x]
             h == g \cup Lost(t, n)
  <1>1. IsTemplate(t) /\ IsTemplate(n) /\ n.outbounds = x
    BY OutboundsSet DEF Sound
  <1> HIDE DEF n
  <1>2. \A o \in ToSet(t.outbounds) : o \in ToSet(x) \cup h \cup {""}
    BY <1>1, LostCovers
  <1> HIDE DEF h
  <1>3. g \subseteq h
    BY DEF h
  <1>4. Sound([t EXCEPT !.outbounds = x], h)
    BY <1>2, <1>3, OutboundsKept
  <1>5. QED
    BY <1>4 DEF n, h

(* An outbound moved.                                                      *)
LEMMA MovedOutboundSound ==
    ASSUME NEW t, NEW g, Sound(t, g), NEW i \in DOMAIN t.outbounds, NEW j \in DOMAIN t.outbounds
    PROVE  Sound([t EXCEPT !.outbounds = Moved(t.outbounds, i, j)], g)
  <1>1. /\ t.outbounds \in Seq(OutboundTag)
        /\ i \in 1..Len(t.outbounds) /\ j \in 1..Len(t.outbounds)
    BY SoundLists DEF Sound, IsTemplate
  <1> DEFINE x == Moved(t.outbounds, i, j)
  <1>2. x \in Seq(OutboundTag) /\ ToSet(x) = ToSet(t.outbounds)
    BY <1>1, SetMoved
  <1> HIDE DEF x
  <1>3. Sound([t EXCEPT !.outbounds = x], g)
    BY <1>2, OutboundsKept
  <1>4. QED
    BY <1>3 DEF x

(* A rule deleted.                                                         *)
LEMMA RemovedRuleSound ==
    ASSUME NEW t, NEW g, Sound(t, g), NEW i \in DOMAIN t.rules
    PROVE  Sound([t EXCEPT !.rules = RemoveAt(t.rules, i)], g)
  <1>1. t.rules \in Seq(RuleType) /\ i \in 1..Len(t.rules)
    BY SoundLists DEF Sound, IsTemplate
  <1> DEFINE x == RemoveAt(t.rules, i)
  <1>2. x \in Seq(RuleType) /\ ToSet(x) \subseteq ToSet(t.rules)
    BY <1>1, SetRemoved
  <1> HIDE DEF x
  <1>3. Sound([t EXCEPT !.rules = x], g)
    BY <1>2, RulesKept
  <1>4. QED
    BY <1>3 DEF x

(* A rule moved.                                                           *)
LEMMA MovedRuleSound ==
    ASSUME NEW t, NEW g, Sound(t, g), NEW i \in DOMAIN t.rules, NEW j \in DOMAIN t.rules
    PROVE  Sound([t EXCEPT !.rules = Moved(t.rules, i, j)], g)
  <1>1. t.rules \in Seq(RuleType) /\ i \in 1..Len(t.rules) /\ j \in 1..Len(t.rules)
    BY SoundLists DEF Sound, IsTemplate
  <1> DEFINE x == Moved(t.rules, i, j)
  <1>2. x \in Seq(RuleType) /\ ToSet(x) = ToSet(t.rules)
    BY <1>1, SetMoved
  <1> HIDE DEF x
  <1>3. Sound([t EXCEPT !.rules = x], g)
    BY <1>2, RulesKept
  <1>4. QED
    BY <1>3 DEF x

(* A balancer deleted, whose tag is still there or was taken away: the     *)
(* observatories follow.                                                   *)
LEMMA DeletedBalancerSound ==
    ASSUME NEW t, NEW g, NEW h, Sound(t, g), g \subseteq h, NEW i \in DOMAIN t.balancers,
           t.balancers[i].tag \in
              BalancersOf(Sync([t EXCEPT !.balancers = RemoveAt(t.balancers, i)])) \cup h \cup {""}
    PROVE  Sound(Sync([t EXCEPT !.balancers = RemoveAt(t.balancers, i)]), h)
  <1> DEFINE x == RemoveAt(t.balancers, i)
             n == [t EXCEPT !.balancers = x]
             m == Sync(n)
             b == t.balancers[i]
  <1>0. b.tag \in BalancersOf(m) \cup h \cup {""}
    OBVIOUS
  <1>1. IsTemplate(t) /\ t.balancers \in Seq(BalancerType) /\ i \in 1..Len(t.balancers)
    BY SoundLists DEF Sound, IsTemplate
  <1>2. x \in Seq(BalancerType) /\ ToSet(t.balancers) \subseteq ToSet(x) \cup {b}
    BY <1>1, SetRemoved
  <1> HIDE DEF x, b
  <1>3. IsTemplate(n) /\ n.outbounds = t.outbounds /\ n.rules = t.rules /\ n.balancers = x
    BY <1>1, <1>2, BalancersSet
  <1> HIDE DEF n
  <1>4. /\ IsTemplate(m) /\ Watched(m)
        /\ m.outbounds = n.outbounds /\ m.rules = n.rules /\ m.balancers = n.balancers
    BY <1>3, Synced
  <1> HIDE DEF m
  <1>5. BalancersOf(t) \subseteq BalancersOf(m) \cup h \cup {""}
    <2>1. BalancersOf(t) \subseteq BalancersOf(m) \cup {b.tag}
      BY <1>2, <1>3, <1>4 DEF BalancersOf
    <2>2. QED
      BY <1>0, <2>1
  <1>6. \A r \in ToSet(m.rules) : RuleResolved(r, m, h)
    BY <1>3, <1>4, <1>5 DEF Sound, Resolved, RuleResolved
  <1>7. "blocked" \in ToSet(m.outbounds) \cup h
    BY <1>3, <1>4 DEF Sound, Resolved
  <1>8. Sound(m, h)
    BY <1>4, <1>6, <1>7 DEF Sound, Resolved
  <1>9. QED
    BY <1>8 DEF m, n, x, b

(* The observatory written by hand no longer has to follow.                *)
LEMMA WrittenObservatorySound ==
    ASSUME NEW t, NEW g, Sound(t, g)
    PROVE  Sound([t EXCEPT !.observatory.of = {"direct"}], g \cup {"observatory"})
  <1> DEFINE y == [t.observatory EXCEPT !.of = {"direct"}]
             n == [t EXCEPT !.observatory = y]
             h == g \cup {"observatory"}
  <1>1. [t EXCEPT !.observatory.of = {"direct"}] = n
    OBVIOUS
  <1> HIDE DEF y
  <1>2. IsTemplate(t)
    BY DEF Sound
  <1>3. IsTemplate(n) /\ n.outbounds = t.outbounds /\ n.rules = t.rules /\ n.balancers = t.balancers
    BY <1>2, FieldSet DEF IsTemplate, TemplateFields
  <1> HIDE DEF n
  <1>4. \A r \in ToSet(n.rules) : RuleResolved(r, n, h)
    BY <1>3 DEF Sound, Resolved, RuleResolved, BalancersOf
  <1>5. Sound(n, h)
    BY <1>3, <1>4 DEF Sound, Resolved
  <1>6. QED
    BY <1>1, <1>5

-----------------------------------------------------------------------------
(* The changes that touch rules and lists together.                        *)
LEMMA OthersSound ==
    ASSUME NEW t, NEW g, Sound(t, g), NEW x
    PROVE  /\ Sound([t EXCEPT !.dns = x], g)
           /\ Sound([t EXCEPT !.fakedns = x], g)
           /\ Sound([t EXCEPT !.options = x], g)
  <1>1. ASSUME NEW f \in {"dns", "fakedns", "options"} PROVE Sound([t EXCEPT ![f] = x], g)
    BY OtherKept
  <1>2. QED
    BY <1>1

(* NordVPN's outbound replaced: the rules that named it follow.            *)
LEMMA RetargetedSound ==
    ASSUME NEW t, NEW g, Sound(t, g), NEW i \in DOMAIN t.outbounds, t.outbounds[i] \in NordTags,
           NEW tag \in NordTags
    PROVE  Sound(Retargeted([t EXCEPT !.outbounds[i] = tag], t.outbounds[i], tag), g)
  <1> DEFINE from == t.outbounds[i]
             x == [t.outbounds EXCEPT ![i] = tag]
             m == [t EXCEPT !.outbounds = x]
             y == [k \in DOMAIN m.rules |-> IF m.rules[k].to = from THEN [m.rules[k] EXCEPT !.to = tag]
                                            ELSE m.rules[k]]
             n == [m EXCEPT !.rules = y]
  <1>1. /\ IsTemplate(t) /\ t.outbounds \in Seq(OutboundTag) /\ t.rules \in Seq(RuleType)
        /\ tag \in OutboundTag /\ from # "blocked"
    BY TagsApart DEF Sound, IsTemplate
  <1>2. Retargeted([t EXCEPT !.outbounds[i] = tag], from, tag) = n
    BY DEF Retargeted
  <1>3. x \in Seq(OutboundTag) /\ DOMAIN x = DOMAIN t.outbounds
        /\ \A k \in DOMAIN x : x[k] = IF k = i THEN tag ELSE t.outbounds[k]
    BY <1>1
  <1>4. tag \in ToSet(x) /\ \A o \in ToSet(t.outbounds) : o = from \/ o \in ToSet(x)
    BY <1>3 DEF ToSet
  <1> HIDE DEF x
  <1>5. /\ IsTemplate(m) /\ m.outbounds = x /\ m.rules = t.rules /\ m.balancers = t.balancers
        /\ m.observatory = t.observatory /\ m.burstObservatory = t.burstObservatory
    BY <1>1, <1>3, OutboundsSet
  <1> HIDE DEF m, from
  <1>6. \A k \in DOMAIN m.rules : /\ m.rules[k] \in RuleType /\ RuleResolved(m.rules[k], t, g)
                                  /\ m.rules[k].to \in ToSet(t.outbounds) \cup g \cup {""}
                                  /\ m.rules[k].via \in BalancersOf(t) \cup g \cup {""}
    BY <1>5, SoundLists DEF Sound, Resolved, RuleResolved
  <1>7. \A k \in DOMAIN m.rules : /\ y[k] \in RuleType /\ y[k].via = m.rules[k].via
                                  /\ y[k].to = IF m.rules[k].to = from THEN tag ELSE m.rules[k].to
    BY <1>1, <1>6 DEF RuleType
  <1>8. y \in Seq(RuleType) /\ DOMAIN y = DOMAIN m.rules
    <2>1. DOMAIN m.rules = 1..Len(t.rules) /\ Len(t.rules) \in Nat
      BY <1>1, <1>5
    <2>2. DOMAIN y = DOMAIN m.rules /\ y = [k \in 1..Len(t.rules) |-> y[k]]
      BY <2>1
    <2> HIDE DEF y
    <2>3. \A k \in 1..Len(t.rules) : y[k] \in RuleType
      BY <1>7, <2>1
    <2>4. y \in Seq(RuleType)
      BY <2>1, <2>2, <2>3
    <2>5. QED
      BY <2>2, <2>4
  <1> HIDE DEF y
  <1>9. /\ IsTemplate(n) /\ n.outbounds = x /\ n.rules = y /\ n.balancers = t.balancers
        /\ n.observatory = t.observatory /\ n.burstObservatory = t.burstObservatory
    BY <1>5, <1>8, RulesSet
  <1> HIDE DEF n
  <1>10. ASSUME NEW r \in ToSet(n.rules) PROVE RuleResolved(r, n, g)
    <2>1. PICK k \in DOMAIN m.rules : r = y[k]
      BY <1>8, <1>9 DEF ToSet
    <2>2. r.to \in ToSet(x) \cup g \cup {""} /\ r.via \in BalancersOf(t) \cup g \cup {""}
      BY <1>4, <1>6, <1>7, <2>1
    <2>3. QED
      BY <1>9, <2>2 DEF RuleResolved, BalancersOf
  <1>11. Watched(n) <=> Watched(t)
    BY <1>9, SameWatched
  <1>12. "blocked" \in ToSet(x) \cup g
    BY <1>1, <1>4 DEF Sound, Resolved
  <1>13. Sound(n, g)
    BY <1>9, <1>10, <1>11, <1>12 DEF Sound, Resolved
  <1>14. QED
    BY <1>2, <1>13 DEF from

(* The balancers replaced, with rules that name only what is there: the    *)
(* observatories follow.                                                   *)
LEMMA RebalancedSound ==
    ASSUME NEW t, NEW g, Sound(t, g), NEW z \in Seq(BalancerType), NEW y \in Seq(RuleType),
           \A r \in ToSet(y) : /\ r.to \in ToSet(t.outbounds) \cup g \cup {""}
                               /\ r.via \in {b.tag : b \in ToSet(z)} \cup g \cup {""}
    PROVE  Sound(Sync([[t EXCEPT !.balancers = z] EXCEPT !.rules = y]), g)
  <1> DEFINE m == [t EXCEPT !.balancers = z]
             n == [m EXCEPT !.rules = y]
             s == Sync(n)
  <1>1. IsTemplate(t)
    BY DEF Sound
  <1>2. IsTemplate(m) /\ m.outbounds = t.outbounds /\ m.balancers = z
    BY <1>1, BalancersSet
  <1> HIDE DEF m
  <1>3. IsTemplate(n) /\ n.outbounds = t.outbounds /\ n.rules = y /\ n.balancers = z
    BY <1>2, RulesSet
  <1> HIDE DEF n
  <1>4. /\ IsTemplate(s) /\ Watched(s)
        /\ s.outbounds = t.outbounds /\ s.rules = y /\ s.balancers = z
    BY <1>3, Synced
  <1> HIDE DEF s
  <1>5. \A r \in ToSet(s.rules) : RuleResolved(r, s, g)
    BY <1>4 DEF RuleResolved, BalancersOf
  <1>6. "blocked" \in ToSet(s.outbounds) \cup g
    BY <1>4 DEF Sound, Resolved
  <1>7. Sound(s, g)
    BY <1>4, <1>5, <1>6 DEF Sound, Resolved
  <1>8. QED
    BY <1>7 DEF s, n, m

(* The rules of a renamed balancer follow it.                              *)
LEMMA ViasFollow ==
    ASSUME NEW t, NEW g, Sound(t, g), NEW from, NEW tag \in BalancerTag, NEW z \in Seq(BalancerType),
           \A b \in BalancersOf(t) : b = from \/ b \in {c.tag : c \in ToSet(z)},
           tag \in {c.tag : c \in ToSet(z)}
    PROVE  Sound(Sync(Rebalanced([t EXCEPT !.balancers = z], from, tag)), g)
  <1> DEFINE m == [t EXCEPT !.balancers = z]
             y == [k \in DOMAIN m.rules |-> IF m.rules[k].via = from THEN [m.rules[k] EXCEPT !.via = tag]
                                            ELSE m.rules[k]]
             tags == {c.tag : c \in ToSet(z)}
  <1>1. IsTemplate(t) /\ t.rules \in Seq(RuleType)
    BY DEF Sound, IsTemplate
  <1>2. Rebalanced(m, from, tag) = [m EXCEPT !.rules = y]
    BY DEF Rebalanced
  <1>3. m.rules = t.rules
    BY <1>1, BalancersSet
  <1>4. \A k \in DOMAIN t.rules : /\ t.rules[k] \in RuleType
                                  /\ t.rules[k].to \in ToSet(t.outbounds) \cup g \cup {""}
                                  /\ t.rules[k].via \in BalancersOf(t) \cup g \cup {""}
    BY <1>1, SoundLists DEF Sound, Resolved, RuleResolved
  <1> HIDE DEF m, tags
  <1>5. \A k \in DOMAIN t.rules : /\ y[k] \in RuleType /\ y[k].to = t.rules[k].to
                                  /\ y[k].via = IF t.rules[k].via = from THEN tag ELSE t.rules[k].via
    BY <1>3, <1>4 DEF RuleType
  <1>6. y \in Seq(RuleType) /\ DOMAIN y = DOMAIN t.rules
    <2>1. DOMAIN m.rules = 1..Len(t.rules) /\ Len(t.rules) \in Nat
      BY <1>1, <1>3
    <2>2. DOMAIN y = DOMAIN m.rules /\ y = [k \in 1..Len(t.rules) |-> y[k]]
      BY <2>1
    <2> HIDE DEF y
    <2>3. \A k \in 1..Len(t.rules) : y[k] \in RuleType
      BY <1>3, <1>5, <2>1
    <2>4. y \in Seq(RuleType)
      BY <2>1, <2>2, <2>3
    <2>5. QED
      BY <1>3, <2>2, <2>4
  <1> HIDE DEF y
  <1>7. (\A b \in BalancersOf(t) : b = from \/ b \in tags) /\ tag \in tags
    BY DEF tags
  <1>8. ASSUME NEW r \in ToSet(y)
        PROVE  r.to \in ToSet(t.outbounds) \cup g \cup {""} /\ r.via \in tags \cup g \cup {""}
    <2>1. PICK k \in DOMAIN t.rules : r = y[k]
      BY <1>6 DEF ToSet
    <2>2. QED
      BY <1>4, <1>5, <1>7, <2>1
  <1>9. Sound(Sync([[t EXCEPT !.balancers = z] EXCEPT !.rules = y]), g)
    BY <1>6, <1>8, RebalancedSound DEF tags
  <1>10. QED
    BY <1>2, <1>9 DEF m

(* A balancer added: no rule loses its own.                                *)
LEMMA MoreBalancersSound ==
    ASSUME NEW t, NEW g, Sound(t, g), NEW z \in Seq(BalancerType),
           \A b \in BalancersOf(t) : b \in {c.tag : c \in ToSet(z)}
    PROVE  Sound(Sync([t EXCEPT !.balancers = z]), g)
  <1> DEFINE n == [t EXCEPT !.balancers = z]
             s == Sync(n)
  <1>1. IsTemplate(n) /\ n.outbounds = t.outbounds /\ n.rules = t.rules /\ n.balancers = z
    BY BalancersSet DEF Sound
  <1> HIDE DEF n
  <1>2. /\ IsTemplate(s) /\ Watched(s)
        /\ s.outbounds = t.outbounds /\ s.rules = t.rules /\ s.balancers = z
    BY <1>1, Synced
  <1> HIDE DEF s
  <1>3. \A b \in BalancersOf(t) : b \in BalancersOf(s)
    BY <1>2 DEF BalancersOf
  <1>4. \A r \in ToSet(s.rules) : RuleResolved(r, s, g)
    BY <1>2, <1>3 DEF Sound, Resolved, RuleResolved
  <1>5. Sound(s, g)
    BY <1>2, <1>4 DEF Sound, Resolved
  <1>6. QED
    BY <1>5 DEF s, n

-----------------------------------------------------------------------------
(* Every template the page may come to show is sound, and so is the rule   *)
(* an open form was opened on.                                             *)
Held(g) ==
    /\ Sound(server.template, g) /\ Sound(cached.template, g)
    /\ \A s \in saves : Sound(s.text, g)
    /\ fetch.state = "read" => Sound(fetch.read.template, g)
FormKept ==
    /\ dialog.form \in {"outbound", "rule", "balancer"} => dialog.at \in Nat
    /\ dialog.form = "rule" => dialog.was \in RuleType /\ RuleResolved(dialog.was, template, gone)
TagsInv == Sound(template, gone) /\ Held(gone) /\ FormKept

-----------------------------------------------------------------------------
(* What the sections and the forms do to the page.                         *)
LEMMA Replaced ==
    ASSUME TagsInv, UNCHANGED <<cached, fetch, saves, server>>, Sound(template', gone'),
           gone \subseteq gone', FormKept'
    PROVE  TagsInv'
  <1>1. ASSUME NEW t, Sound(t, gone) PROVE Sound(t, gone')
    BY <1>1, SoundLater
  <1>2. Held(gone)'
    BY <1>1 DEF TagsInv, Held
  <1>3. QED
    BY <1>2 DEF TagsInv

(* A change on the page.                                                   *)
LEMMA Edited ==
    ASSUME TagsInv, NEW next, NEW lost, EditOnPage(next, lost), Sound(next, gone \cup lost)
    PROVE  TagsInv'
  <1>1. /\ dialog.form = "none" /\ dialog' = dialog /\ template' = next
        /\ gone' = gone \cup lost /\ UNCHANGED <<cached, fetch, saves, server>>
    BY DEF EditOnPage, Edit, ShowTemplate, query, requests
  <1>2. FormKept'
    BY <1>1 DEF FormKept
  <1>3. QED
    BY <1>1, <1>2, Replaced

(* A change on the page that takes nothing away.                           *)
LEMMA EditedOnly ==
    ASSUME TagsInv, NEW next, EditOnPage(next, {}), Sound(next, gone)
    PROVE  TagsInv'
  <1> DEFINE lost == {}
  <1>1. EditOnPage(next, lost) /\ gone \cup lost = gone
    OBVIOUS
  <1> HIDE DEF lost
  <1>2. Sound(next, gone \cup lost)
    BY <1>1
  <1>3. QED
    BY <1>1, <1>2, Edited

(* A form confirmed.                                                       *)
LEMMA ConfirmedSound ==
    ASSUME TagsInv, NEW f, NEW next, NEW lost, Confirmed(f, next, lost), Sound(next, gone \cup lost)
    PROVE  TagsInv'
  <1>1. /\ dialog' = Closed /\ template' = next
        /\ gone' = gone \cup lost /\ UNCHANGED <<cached, fetch, saves, server>>
    BY DEF Confirmed, Edit, ShowTemplate, query, requests
  <1>2. FormKept'
    BY <1>1 DEF FormKept, Closed
  <1>3. QED
    BY <1>1, <1>2, Replaced

(* A form confirmed that takes nothing away.                               *)
LEMMA ConfirmedOnly ==
    ASSUME TagsInv, NEW f, NEW next, Confirmed(f, next, {}), Sound(next, gone)
    PROVE  TagsInv'
  <1> DEFINE lost == {}
  <1>1. Confirmed(f, next, lost) /\ gone \cup lost = gone
    OBVIOUS
  <1> HIDE DEF lost
  <1>2. Sound(next, gone \cup lost)
    BY <1>1
  <1>3. QED
    BY <1>1, <1>2, ConfirmedSound

(* A page whose templates stay, and whose form was not opened on a rule.   *)
LEMMA PageStays ==
    ASSUME TagsInv, UNCHANGED <<template, gone, cached, fetch, saves, server>>,
           dialog' = dialog \/ dialog'.form \notin {"outbound", "rule", "balancer"}
    PROVE  TagsInv'
  BY DEF TagsInv, Held, FormKept

-----------------------------------------------------------------------------
(* The JSON editor.                                                        *)
LEMMA TypeSound ==
    ASSUME TagsInv, NEW next \in Typed, Type(next)
    PROVE  TagsInv'
  <1>1. /\ dialog.form = "none" /\ dialog' = dialog
        /\ template' = IF next = Broken THEN template ELSE next
        /\ gone' = gone \cup Lost(template, template') /\ UNCHANGED <<cached, fetch, saves, server>>
    BY DEF Type, ShowText, query, requests
  <1>2. Sound(template', gone')
    <2>1. Sound(template, gone')
      BY <1>1, SoundLater DEF TagsInv
    <2>2. next = Broken \/ Sound(next, gone')
      <3>1. next = Broken \/ Sound(next, {})
        BY TypedSound
      <3> DEFINE none == {}
      <3>2. next = Broken \/ Sound(next, none)
        BY <3>1
      <3>3. none \subseteq gone'
        OBVIOUS
      <3> HIDE DEF none
      <3>4. QED
        BY <3>2, <3>3, SoundLater
    <2>3. QED
      BY <1>1, <2>1, <2>2
  <1>3. FormKept'
    BY <1>1 DEF FormKept
  <1>4. QED
    BY <1>1, <1>2, <1>3, Replaced

(* The editors of parts of the template.                                   *)
LEMMA TypesSound ==
    ASSUME TagsInv, TypeRules \/ TypeOutbounds \/ TypeObservatory
    PROVE  TagsInv'
  <1>1. CASE TypeRules
    BY <1>1, NoRules, EditedOnly DEF TypeRules, TagsInv
  <1>2. CASE TypeOutbounds
    <2> DEFINE x == <<"direct">>
               n == [template EXCEPT !.outbounds = x]
    <2>1. x \in Seq(OutboundTag)
      <3>1. "direct" \in OutboundTag
        BY TagsApart
      <3>2. QED
        BY <3>1
    <2>2. EditOnPage(n, Lost(template, n))
      BY <1>2 DEF TypeOutbounds
    <2> HIDE DEF x
    <2>3. Sound(n, gone \cup Lost(template, n))
      BY <2>1, OutboundsLost DEF TagsInv
    <2> HIDE DEF n
    <2>4. QED
      BY <2>2, <2>3, Edited
  <1>3. CASE TypeObservatory
    <2> DEFINE n == [template EXCEPT !.observatory.of = {"direct"}]
               lost == {"observatory"}
    <2>1. EditOnPage(n, lost)
      BY <1>3 DEF TypeObservatory
    <2>2. Sound(n, gone \cup lost)
      BY WrittenObservatorySound DEF TagsInv
    <2> HIDE DEF n, lost
    <2>3. QED
      BY <2>1, <2>2, Edited
  <1>4. QED
    BY <1>1, <1>2, <1>3

(* The direct outbound's settings and the routing basics.                  *)
LEMMA BasicsSound ==
    ASSUME TagsInv, SetStrategy \/ \E b \in Basics, on \in BOOLEAN : Route(b, on)
    PROVE  TagsInv'
  <1>1. CASE SetStrategy
    <2> DEFINE w == WithOutbound(template, "direct")
    <2>1. Sound(w, gone)
      BY WithOutboundSound, TagsApart DEF TagsInv
    <2> HIDE DEF w
    <2>2. Sound([w EXCEPT !.options = Toggled(w.options, "freedom")], gone)
      BY <2>1, OthersSound
    <2>3. Sound(WithDirect(template), gone)
      BY <2>2 DEF WithDirect, w
    <2>4. QED
      BY <1>1, <2>3, EditedOnly DEF SetStrategy
  <1>2. ASSUME NEW b \in Basics, NEW on \in BOOLEAN, Route(b, on) PROVE TagsInv'
    <2>1. Sound(SetBasic(template, b, on), gone)
      BY SetBasicSound DEF TagsInv
    <2>2. QED
      BY <1>2, <2>1, EditedOnly DEF Route
  <1>3. QED
    BY <1>1, <1>2

(* What is moved within them.                                              *)
LEMMA MovesSound ==
    ASSUME TagsInv,
           \/ \E i \in DOMAIN template.outbounds : \E j \in DOMAIN template.outbounds : MoveOutbound(i, j)
           \/ \E i \in DOMAIN template.rules : \E j \in DOMAIN template.rules : MoveRule(i, j)
    PROVE  TagsInv'
  <1>1. ASSUME NEW i \in DOMAIN template.outbounds, NEW j \in DOMAIN template.outbounds,
               MoveOutbound(i, j)
        PROVE  TagsInv'
    <2>1. Sound([template EXCEPT !.outbounds = Moved(template.outbounds, i, j)], gone)
      BY MovedOutboundSound DEF TagsInv
    <2>2. QED
      BY <1>1, <2>1, EditedOnly DEF MoveOutbound
  <1>2. ASSUME NEW i \in DOMAIN template.rules, NEW j \in DOMAIN template.rules, MoveRule(i, j)
        PROVE  TagsInv'
    <2>1. Sound([template EXCEPT !.rules = Moved(template.rules, i, j)], gone)
      BY MovedRuleSound DEF TagsInv
    <2>2. QED
      BY <1>2, <2>1, EditedOnly DEF MoveRule
  <1>3. QED
    BY <1>1, <1>2

(* NordVPN and WARP.                                                       *)
LEMMA VpnsSound ==
    ASSUME TagsInv,
           (\E tag \in NordTags : AddNord(tag) \/ ResetNord(tag)) \/ AddWarp \/ DeleteWarp
    PROVE  TagsInv'
  <1> DEFINE list == template.outbounds
  <1>1. IsTemplate(template) /\ list \in Seq(OutboundTag) /\ Sound(template, gone)
    BY DEF TagsInv, Sound, IsTemplate
  <1>2. ASSUME NEW tag \in NordTags, AddNord(tag) PROVE TagsInv'
    <2> DEFINE x == Append(list, tag)
    <2>1. tag \in OutboundTag
      BY TagsApart
    <2>2. x \in Seq(OutboundTag) /\ ToSet(x) = ToSet(list) \cup {tag}
      BY <1>1, <2>1, SetAppended
    <2> HIDE DEF x
    <2>3. Sound([template EXCEPT !.outbounds = x], gone)
      BY <1>1, <2>2, OutboundsKept
    <2>4. EditOnPage([template EXCEPT !.outbounds = x], {})
      BY <1>2 DEF AddNord, x
    <2>5. QED
      BY <2>3, <2>4, EditedOnly
  <1>3. ASSUME NEW tag \in NordTags, ResetNord(tag) PROVE TagsInv'
    <2> DEFINE n == Retargeted([template EXCEPT !.outbounds[NordIndex] = tag],
                               template.outbounds[NordIndex], tag)
    <2>1. NordIndex > 0 /\ EditOnPage(n, {})
      BY <1>3 DEF ResetNord
    <2>2. NordIndex \in DOMAIN template.outbounds /\ template.outbounds[NordIndex] \in NordTags
      BY <1>1, <2>1, NordIndexFinds
    <2>3. Sound(n, gone)
      BY <1>1, <2>2, RetargetedSound
    <2> HIDE DEF n
    <2>4. QED
      BY <2>1, <2>3, EditedOnly
  <1>4. CASE AddWarp
    <2>1. Sound(WithOutbound(template, "warp"), gone)
      BY <1>1, WithOutboundSound, TagsApart
    <2>2. QED
      BY <1>4, <2>1, EditedOnly DEF AddWarp
  <1>5. CASE DeleteWarp
    <2> DEFINE k == IndexOf(template, "warp")
               lost == {"warp"}
               h == gone \cup lost
    <2>1. EditOnPage(WithoutOutbound(template, k), lost)
      BY <1>5 DEF DeleteWarp
    <2>2. DOMAIN template.outbounds = 1..Len(template.outbounds)
      BY <1>1, SoundLists
    <2>3. k \in DOMAIN template.outbounds => template.outbounds[k] = "warp"
      BY <1>1, <2>2, IndexFinds
    <2> HIDE DEF k
    <2>4. gone \subseteq h /\ "warp" \in h
      OBVIOUS
    <2> HIDE DEF h
    <2>5. Sound(WithoutOutbound(template, k), h)
      BY <1>1, <2>3, <2>4, WithoutOutboundSound
    <2>6. Sound(WithoutOutbound(template, k), gone \cup lost)
      BY <2>5 DEF h
    <2> HIDE DEF lost
    <2>7. QED
      BY <2>1, <2>6, Edited
  <1>6. QED
    BY <1>2, <1>3, <1>4, <1>5

(* The options and the DNS section.                                        *)
LEMMA OptionsSound ==
    ASSUME TagsInv,
           \/ \E o \in Options : SetOption(o)
           \/ SwitchDns
           \/ \E f \in DnsFields : SetDnsField(f)
           \/ \E rows \in HostRows : SetHosts(rows)
           \/ \E i \in DOMAIN template.dns.servers : DeleteServer(i)
           \/ EditFakeDns(PoolAdded(template.fakedns))
           \/ \E i \in DOMAIN template.fakedns :
                 EditFakeDns(PoolDeleted(template.fakedns, i)) \/ EditFakeDns(PoolChanged(template.fakedns, i))
    PROVE  TagsInv'
  <1>1. Sound(template, gone)
    BY DEF TagsInv
  <1>2. ASSUME NEW o, SetOption(o) PROVE TagsInv'
    <2>1. Sound([template EXCEPT !.options = Toggled(template.options, o)], gone)
      BY <1>1, OthersSound
    <2>2. QED
      BY <1>2, <2>1, EditedOnly DEF SetOption
  <1>3. ASSUME NEW dns, EditDns(dns) PROVE TagsInv'
    <2>1. Sound([template EXCEPT !.dns = dns], gone)
      BY <1>1, OthersSound
    <2>2. QED
      BY <1>3, <2>1, EditedOnly DEF EditDns
  <1>4. ASSUME NEW list, EditFakeDns(list) PROVE TagsInv'
    <2>1. Sound([template EXCEPT !.fakedns = list], gone)
      BY <1>1, OthersSound
    <2>2. QED
      BY <1>4, <2>1, EditedOnly DEF EditFakeDns
  <1>5. CASE SwitchDns
    <2> DEFINE off == [DnsOff EXCEPT !.on = ~template.dns.on]
               m == [template EXCEPT !.dns = off]
    <2>1. Sound(m, gone)
      BY <1>1, OthersSound
    <2>2. DnsSwitched(template) = [m EXCEPT !.fakedns = <<>>]
      BY DEF DnsSwitched
    <2> HIDE DEF m
    <2>3. Sound([m EXCEPT !.fakedns = <<>>], gone)
      BY <2>1, OthersSound
    <2>4. EditOnPage(DnsSwitched(template), {})
      BY <1>5 DEF SwitchDns
    <2>5. QED
      BY <2>2, <2>3, <2>4, EditedOnly
  <1>6. QED
    BY <1>2, <1>3, <1>4, <1>5 DEF SetDnsField, SetHosts, DeleteServer

(* All the sections.                                                       *)
LEMMA SectionsSound == TagsInv /\ Sections => TagsInv'
  <1> SUFFICES ASSUME TagsInv, Sections PROVE TagsInv'
    OBVIOUS
  <1>1. CASE SetUrl \/ Logout
    <2>1. /\ UNCHANGED <<template, gone, cached, fetch, saves, server>>
          /\ dialog' = dialog \/ dialog' = [form |-> "nord", at |-> 0]
      BY <1>1 DEF SetUrl, Logout, query, requests, shown
    <2>2. QED
      BY <2>1, PageStays
  <1>2. QED
    BY <1>1, TypeSound, TypesSound, BasicsSound, MovesSound, VpnsSound, OptionsSound
       DEF Sections

-----------------------------------------------------------------------------
(* What a form makes of its list: an entry added, or written at its place. *)
Entered(list, i, v, hole) == IF i = 0 THEN Append(list, v) ELSE Put(list, i, v, hole)
LEMMA SetEntered ==
    ASSUME NEW S, NEW s \in Seq(S), NEW i \in Nat, NEW v \in S, NEW hole \in S
    PROVE  /\ Entered(s, i, v, hole) \in Seq(S)
           /\ ToSet(Entered(s, i, v, hole)) \subseteq ToSet(s) \cup {v, hole}
           /\ v \in ToSet(Entered(s, i, v, hole))
           /\ \A j \in DOMAIN s : j # i => s[j] \in ToSet(Entered(s, i, v, hole))
  <1>1. DOMAIN s = 1..Len(s) /\ \A j \in DOMAIN s : s[j] \in ToSet(s)
    BY ListOf
  <1>2. CASE i = 0
    <2>1. Append(s, v) \in Seq(S) /\ ToSet(Append(s, v)) = ToSet(s) \cup {v}
      BY SetAppended
    <2>2. QED
      BY <1>1, <1>2, <2>1 DEF Entered
  <1>3. CASE i # 0
    <2>1. i \in Nat \ {0}
      BY <1>3
    <2>2. /\ Put(s, i, v, hole) \in Seq(S)
          /\ ToSet(Put(s, i, v, hole)) \subseteq ToSet(s) \cup {v, hole}
          /\ v \in ToSet(Put(s, i, v, hole))
          /\ \A j \in 1..Len(s) : j # i => s[j] \in ToSet(Put(s, i, v, hole))
      BY <2>1, SetPut
    <2>3. QED
      BY <1>1, <1>3, <2>2 DEF Entered
  <1>4. QED
    BY <1>2, <1>3

(* The rule a hole in the list stands for.                                 *)
LEMMA BlankRule ==
    Rule({}, "", "") \in RuleType /\ Rule({}, "", "").to = "" /\ Rule({}, "", "").via = ""
  <1> DEFINE blank == {}
  <1>1. "" \in OutboundTag /\ "" \in BalancerTag /\ blank \in SUBSET RuleProps
    BY DEF OutboundTag, BalancerTag
  <1> HIDE DEF blank
  <1>2. /\ Rule(blank, "", "") \in RuleType
        /\ Rule(blank, "", "").to = "" /\ Rule(blank, "", "").via = ""
    BY <1>1 DEF Rule, RuleType
  <1>3. QED
    BY <1>2 DEF blank

(* The balancer a hole in the list stands for.                             *)
LEMMA BlankBalancer == Balancer("", "none", {}, FALSE) \in BalancerType
  <1> DEFINE none == {}
             off == FALSE
  <1>1. /\ off \in BOOLEAN /\ none \in SUBSET Tags /\ "" \in BalancerTag
        /\ "none" \in Strategies \cup {"none"}
    BY DEF BalancerTag
  <1> HIDE DEF none, off
  <1>2. Balancer("", "none", none, off) \in BalancerType
    BY <1>1, BalancerIs
  <1>3. QED
    BY <1>2 DEF none, off

-----------------------------------------------------------------------------
(* The forms.                                                              *)
LEMMA OpensSound ==
    ASSUME TagsInv,
           \/ \E f \in FormNames : \E i \in 0..Len(Rows(f)) : OpenForm(f, i)
           \/ \E f \in FormNames : \E i \in 1..Len(Rows(f)) : AskDelete(f, i)
           \/ \E f \in ListDialogs : OpenList(f)
           \/ CloseForm
    PROVE  TagsInv'
  <1>1. ASSUME NEW f \in FormNames, NEW i \in 0..Len(Rows(f)), OpenForm(f, i) PROVE TagsInv'
    <2> DEFINE taken == {template.outbounds[j] : j \in DOMAIN template.outbounds \ {i}}
               was == IF f = "rule" /\ i > 0 THEN template.rules[i] ELSE Rule({}, "", "")
    <2>1. /\ i \in {0} \cup DOMAIN Rows(f)
          /\ dialog' = [form |-> f, at |-> i, tag |-> TagAt(template, f, i), taken |-> taken, was |-> was]
          /\ UNCHANGED <<template, gone, cached, fetch, saves, server>>
      BY <1>1 DEF OpenForm, shown, query, requests
    <2> HIDE DEF taken
    <2>2. i \in Nat
      OBVIOUS
    <2>3. f = "rule" => was \in RuleType /\ RuleResolved(was, template, gone)
      <3> SUFFICES ASSUME f = "rule" PROVE was \in RuleType /\ RuleResolved(was, template, gone)
        OBVIOUS
      <3>1. Rows(f) = template.rules
        BY DEF Rows
      <3>2. CASE i > 0
        <4>1. i \in DOMAIN template.rules /\ was = template.rules[i]
          BY <2>1, <3>1, <3>2
        <4>2. template.rules[i] \in RuleType /\ template.rules[i] \in ToSet(template.rules)
          BY <4>1, SoundLists DEF TagsInv, Sound
        <4>3. QED
          BY <4>1, <4>2 DEF TagsInv, Sound, Resolved
      <3>3. CASE ~(i > 0)
        <4>1. was = Rule({}, "", "")
          BY <3>3
        <4> HIDE DEF was
        <4>2. QED
          BY <4>1, BlankRule DEF RuleResolved
      <3>4. QED
        BY <3>2, <3>3
    <2> HIDE DEF was
    <2>4. dialog'.form = f /\ dialog'.at = i /\ dialog'.was = was
      BY <2>1
    <2>5. RuleResolved(was, template', gone') <=> RuleResolved(was, template, gone)
      BY <2>1 DEF RuleResolved
    <2>6. FormKept'
      BY <2>2, <2>3, <2>4, <2>5 DEF FormKept
    <2>7. Sound(template', gone') /\ gone \subseteq gone'
      BY <2>1 DEF TagsInv
    <2>8. QED
      BY <2>1, <2>6, <2>7, Replaced
  <1>2. CASE \/ \E f \in FormNames : \E i \in 1..Len(Rows(f)) : AskDelete(f, i)
             \/ \E f \in ListDialogs : OpenList(f)
             \/ CloseForm
    <2>1. /\ UNCHANGED <<template, gone, cached, fetch, saves, server>>
          /\ dialog'.form \notin {"outbound", "rule", "balancer"}
      BY <1>2 DEF AskDelete, OpenList, CloseForm, Closed, ListDialogs, shown, query, requests
    <2>2. QED
      BY <2>1, PageStays
  <1>3. QED
    BY <1>1, <1>2

(* The place a dialog was opened at has what it had then, or nothing, as   *)
(* long as none is used when something else stands there.                  *)
LEMMA AtItsPlace ==
    ASSUME NEW f, NEW list, NEW next, ConfirmedAt(f, list, next), ~astray'
    PROVE  /\ Confirmed(f, next, Lost(template, next) \cap {dialog.tag})
           /\ TagAt(template, list, dialog.at) \in {dialog.tag, ""}
  BY DEF ConfirmedAt, Strayed

(* The outbound form: the tag it was opened on counts as taken away when   *)
(* it is renamed.                                                          *)
LEMMA OutboundFormSound ==
    ASSUME TagsInv, NEW tag \in NewTags, ConfirmOutbound(tag), ~astray'
    PROVE  TagsInv'
  <1> DEFINE i == dialog.at
             list == template.outbounds
             x == Entered(list, i, tag, "")
             n == [template EXCEPT !.outbounds = x]
             lost == Lost(template, n) \cap {dialog.tag}
             h == gone \cup lost
  <1>1. dialog.form = "outbound" /\ ConfirmedAt("outbound", "outbound", n)
    BY DEF ConfirmOutbound, Entered
  <1>2. /\ i \in Nat /\ tag \in OutboundTag /\ "" \in OutboundTag /\ list \in Seq(OutboundTag)
        /\ IsTemplate(template)
    BY <1>1, TagsApart DEF TagsInv, FormKept, Sound, IsTemplate, OutboundTag
  <1>3. Confirmed("outbound", n, lost) /\ (i \in DOMAIN list => list[i] \in {dialog.tag, ""})
    BY <1>1, AtItsPlace DEF TagAt
  <1> HIDE DEF i
  <1>4. x \in Seq(OutboundTag) /\ \A j \in DOMAIN list : j # i => list[j] \in ToSet(x)
    BY <1>2, SetEntered
  <1> HIDE DEF x
  <1>5. IsTemplate(n) /\ n.outbounds = x
    BY <1>2, <1>4, OutboundsSet
  <1> HIDE DEF n
  <1>6. ASSUME NEW o \in ToSet(list) PROVE o \in ToSet(x) \cup h \cup {""}
    <2>1. PICK j \in DOMAIN list : o = list[j]
      BY DEF ToSet
    <2>2. o \in ToSet(x) \cup Lost(template, n) \cup {""}
      BY <1>2, <1>5, LostCovers
    <2>3. CASE j = i
      BY <1>3, <2>1, <2>2, <2>3
    <2>4. CASE j # i
      BY <1>4, <2>1, <2>4
    <2>5. QED
      BY <2>3, <2>4
  <1>7. gone \subseteq h /\ Sound(template, gone)
    BY DEF TagsInv
  <1> HIDE DEF h
  <1>8. Sound([template EXCEPT !.outbounds = x], h)
    BY <1>4, <1>6, <1>7, OutboundsKept DEF list
  <1>9. Sound(n, gone \cup lost)
    BY <1>8 DEF n, h
  <1> HIDE DEF lost
  <1>10. QED
    BY <1>3, <1>9, ConfirmedSound

(* What is deleted from the lists, once that is confirmed.                 *)
LEMMA DeletesSound ==
    ASSUME TagsInv, ConfirmDelete, ~astray'
    PROVE  TagsInv'
  <1> DEFINE k == dialog.at
  <1>0. IsTemplate(template) /\ Sound(template, gone)
    BY DEF TagsInv, Sound
  <1>1. CASE dialog.of = "outbound" /\ ConfirmedAt("delete", "outbound", WithoutOutbound(template, dialog.at))
    <2> DEFINE n == WithoutOutbound(template, k)
               lost == Lost(template, n) \cap {dialog.tag}
               h == gone \cup lost
    <2>1. /\ Confirmed("delete", n, lost)
          /\ k \in DOMAIN template.outbounds => template.outbounds[k] \in {dialog.tag, ""}
      BY <1>1, AtItsPlace DEF TagAt
    <2> HIDE DEF k
    <2>2. IsTemplate(n)
      BY <1>0, WithoutOutboundIs
    <2>3. k \in DOMAIN template.outbounds =>
             template.outbounds[k] \in ToSet(n.outbounds) \cup Lost(template, n) \cup {""}
      BY <1>0, <2>2, LostCovers, SoundLists
    <2>4. k \in DOMAIN template.outbounds => template.outbounds[k] \in ToSet(n.outbounds) \cup h \cup {""}
      BY <2>1, <2>3
    <2>5. gone \subseteq h
      OBVIOUS
    <2> HIDE DEF h
    <2>6. Sound(WithoutOutbound(template, k), h)
      BY <1>0, <2>4, <2>5, WithoutOutboundSound
    <2>7. Sound(n, gone \cup lost)
      BY <2>6 DEF h
    <2> HIDE DEF n, lost
    <2>8. QED
      BY <2>1, <2>7, ConfirmedSound
  <1>2. CASE /\ dialog.of = "balancer"
             /\ ConfirmedAt("delete", "balancer", Sync([template EXCEPT !.balancers = Without(@, dialog.at)]))
    <2> DEFINE n == Sync([template EXCEPT !.balancers = Without(template.balancers, k)])
               lost == Lost(template, n) \cap {dialog.tag}
               h == gone \cup lost
    <2>1. /\ Confirmed("delete", n, lost)
          /\ k \in DOMAIN template.balancers => template.balancers[k].tag \in {dialog.tag, ""}
      BY <1>2, AtItsPlace DEF TagAt
    <2> HIDE DEF k
    <2>2. gone \subseteq h
      OBVIOUS
    <2>3. CASE k \in DOMAIN template.balancers
      <3>1. n = Sync([template EXCEPT !.balancers = RemoveAt(template.balancers, k)])
        BY <2>3 DEF Without
      <3>2. IsTemplate(n)
        <4> DEFINE z == RemoveAt(template.balancers, k)
        <4>1. template.balancers \in Seq(BalancerType) /\ k \in 1..Len(template.balancers)
          BY <1>0, <2>3, SoundLists DEF IsTemplate
        <4>2. z \in Seq(BalancerType)
          BY <4>1, SetRemoved
        <4> HIDE DEF z
        <4>3. IsTemplate([template EXCEPT !.balancers = z])
          BY <1>0, <4>2, BalancersSet
        <4>4. QED
          BY <3>1, <4>3, Synced DEF z
      <3> HIDE DEF n
      <3>3. template.balancers[k].tag \in BalancersOf(template)
        BY <1>0, <2>3, SoundLists DEF BalancersOf
      <3>4. template.balancers[k].tag \in BalancersOf(n) \cup h \cup {""}
        BY <1>0, <2>1, <2>3, <3>2, <3>3, LostCovers
      <3> HIDE DEF h
      <3>5. Sound(n, h)
        BY <1>0, <2>2, <2>3, <3>1, <3>4, DeletedBalancerSound
      <3>6. Sound(n, gone \cup lost)
        BY <3>5 DEF h
      <3> HIDE DEF lost
      <3>7. QED
        BY <2>1, <3>6, ConfirmedSound
    <2>4. CASE k \notin DOMAIN template.balancers
      <3> DEFINE z == template.balancers
      <3>1. Without(template.balancers, k) = z
        BY <2>4 DEF Without
      <3>2. n = Sync([template EXCEPT !.balancers = z])
        BY <3>1
      <3> HIDE DEF n
      <3>3. z \in Seq(BalancerType) /\ \A b \in BalancersOf(template) : b \in {c.tag : c \in ToSet(z)}
        BY <1>0 DEF IsTemplate, BalancersOf
      <3> HIDE DEF z
      <3>4. Sound(n, gone)
        BY <1>0, <3>2, <3>3, MoreBalancersSound
      <3>5. Sound(n, h)
        BY <2>2, <3>4, SoundLater
      <3> HIDE DEF lost
      <3>6. QED
        BY <2>1, <3>5, ConfirmedSound
    <2>5. QED
      BY <2>3, <2>4
  <1>3. CASE /\ dialog.of = "rule"
             /\ Confirmed("delete", [template EXCEPT !.rules = Without(@, dialog.at)], {})
    <2> DEFINE n == [template EXCEPT !.rules = Without(template.rules, k)]
    <2>1. Confirmed("delete", n, {})
      BY <1>3
    <2> HIDE DEF k
    <2>2. Sound(n, gone)
      <3>1. CASE k \in DOMAIN template.rules
        BY <1>0, <3>1, RemovedRuleSound DEF Without
      <3>2. CASE k \notin DOMAIN template.rules
        <4> DEFINE x == template.rules
        <4>1. n = [template EXCEPT !.rules = x]
          BY <3>2 DEF Without
        <4>2. x \in Seq(RuleType) /\ \A r \in ToSet(x) : r \in ToSet(template.rules)
          BY <1>0 DEF IsTemplate
        <4> HIDE DEF n, x
        <4>3. QED
          BY <1>0, <4>1, <4>2, RulesKept
      <3>3. QED
        BY <3>1, <3>2
    <2> HIDE DEF n
    <2>3. QED
      BY <2>1, <2>2, ConfirmedOnly
  <1>4. QED
    BY <1>1, <1>2, <1>3 DEF ConfirmDelete

(* The rule form: what it offers is there, or the rule named it.           *)
LEMMA RuleFormSound ==
    ASSUME TagsInv, NEW filled, NEW to \in Tags \cup {""}, NEW via \in {"", "bal", "new"},
           ConfirmRule(filled, to, via)
    PROVE  TagsInv'
  <1> DEFINE i == dialog.at
             list == template.rules
             rule == RuleMade(filled, to, via)
             hole == Rule({}, "", "")
             x == Entered(list, i, rule, hole)
             n == [template EXCEPT !.rules = x]
  <1>1. /\ dialog.form = "rule" /\ Confirmed("rule", n, {})
        /\ to \in Offered(Outbounds(template), dialog.was.to)
        /\ via \in Offered({template.balancers[j].tag : j \in DOMAIN template.balancers}, dialog.was.via)
    BY DEF ConfirmRule, Entered
  <1>2. i \in Nat /\ RuleResolved(dialog.was, template, gone)
    BY <1>1 DEF TagsInv, FormKept
  <1>3. list \in Seq(RuleType) /\ Sound(template, gone)
    BY DEF TagsInv, Sound, IsTemplate
  <1>4. rule \in RuleType /\ rule.to = to /\ rule.via = via
    <2> DEFINE props == filled \cap RuleProps
    <2>1. props \in SUBSET RuleProps /\ to \in OutboundTag /\ via \in BalancerTag
      BY DEF OutboundTag, BalancerTag
    <2>2. rule = Rule(props, to, via)
      BY DEF RuleMade
    <2> HIDE DEF props, rule
    <2>3. /\ Rule(props, to, via) \in RuleType
          /\ Rule(props, to, via).to = to /\ Rule(props, to, via).via = via
      BY <2>1, RuleIs
    <2>4. QED
      BY <2>2, <2>3
  <1>5. hole \in RuleType /\ hole.to = "" /\ hole.via = ""
    BY BlankRule
  <1>6. RuleResolved(rule, template, gone)
    <2>1. Outbounds(template) = ToSet(template.outbounds)
      BY DEF Outbounds
    <2>2. {template.balancers[j].tag : j \in DOMAIN template.balancers} = BalancersOf(template)
      BY DEF BalancersOf, ToSet
    <2> HIDE DEF rule
    <2>3. QED
      BY <1>1, <1>2, <1>4, <2>1, <2>2 DEF Offered, RuleResolved
  <1>7. RuleResolved(hole, template, gone)
    BY <1>5 DEF RuleResolved
  <1> HIDE DEF i, rule, hole, list
  <1>8. x \in Seq(RuleType) /\ ToSet(x) \subseteq ToSet(list) \cup {rule, hole}
    <2>1. list \in Seq(RuleType) /\ i \in Nat /\ rule \in RuleType /\ hole \in RuleType
      BY <1>2, <1>3, <1>4, <1>5
    <2>2. QED
      BY <2>1, SetEntered
  <1> HIDE DEF x
  <1>9. \A r \in ToSet(x) : r \in ToSet(template.rules) \/ RuleResolved(r, template, gone)
    BY <1>6, <1>7, <1>8 DEF list
  <1>10. Sound(n, gone)
    BY <1>3, <1>8, <1>9, RulesKept
  <1> HIDE DEF n
  <1>11. QED
    BY <1>1, <1>10, ConfirmedOnly

(* The balancer form: the rules of a renamed balancer follow it.           *)
LEMMA BalancerFormSound ==
    ASSUME TagsInv, NEW tag \in {"bal", "new"}, NEW strategy \in Strategies,
           NEW selector \in SUBSET Tags, NEW tuned \in BOOLEAN,
           ConfirmBalancer(tag, strategy, selector, tuned)
    PROVE  TagsInv'
  <1> DEFINE i == dialog.at
             list == template.balancers
             wire == BalancerMade(tag, strategy, selector, tuned)
             hole == Balancer("", "none", {}, FALSE)
             z == Entered(list, i, wire, hole)
             m == [template EXCEPT !.balancers = z]
             from == list[i].tag
             n == Sync(IF i \in DOMAIN list THEN Rebalanced(m, from, tag) ELSE m)
             tags == {c.tag : c \in ToSet(z)}
  <1>1. dialog.form = "balancer" /\ Confirmed("balancer", n, {})
    BY DEF ConfirmBalancer, Entered
  <1>2. /\ i \in Nat /\ list \in Seq(BalancerType) /\ DOMAIN list = 1..Len(list)
        /\ tag \in BalancerTag /\ Sound(template, gone)
    BY <1>1, SoundLists DEF TagsInv, FormKept, Sound, IsTemplate, BalancerTag
  <1>3. wire \in BalancerType /\ wire.tag = tag
    <2> DEFINE kept == strategy = "leastLoad" /\ tuned
    <2>1. kept \in BOOLEAN /\ strategy \in Strategies \cup {"none"} /\ tag \in BalancerTag
      BY <1>2
    <2>2. wire = Balancer(tag, strategy, selector, kept)
      BY DEF BalancerMade
    <2> HIDE DEF kept
    <2>3. QED
      BY <2>1, <2>2, BalancerIs
  <1>4. hole \in BalancerType
    BY BlankBalancer
  <1> HIDE DEF i, wire, hole, list
  <1>5. /\ z \in Seq(BalancerType) /\ wire \in ToSet(z)
        /\ \A j \in DOMAIN list : j # i => list[j] \in ToSet(z)
    <2>1. list \in Seq(BalancerType) /\ i \in Nat /\ wire \in BalancerType /\ hole \in BalancerType
      BY <1>2, <1>3, <1>4
    <2>2. QED
      BY <2>1, SetEntered
  <1> HIDE DEF z
  <1>6. tag \in tags
    BY <1>3, <1>5
  <1>7. BalancersOf(template) = {list[j].tag : j \in DOMAIN list}
    BY DEF BalancersOf, ToSet, list
  <1>8. \A b \in BalancersOf(template) : b \in tags \/ (i \in DOMAIN list /\ b = from)
    <2> SUFFICES ASSUME NEW b \in BalancersOf(template), b \notin tags
                 PROVE  i \in DOMAIN list /\ b = from
      OBVIOUS
    <2>1. PICK j \in DOMAIN list : b = list[j].tag
      BY <1>7
    <2>2. QED
      BY <1>5, <2>1
  <1>9. Sound(n, gone)
    <2>1. CASE i \in DOMAIN list
      <3>1. (\A b \in BalancersOf(template) : b = from \/ b \in tags) /\ tag \in tags
        BY <1>6, <1>8
      <3> HIDE DEF from
      <3>2. Sound(Sync(Rebalanced([template EXCEPT !.balancers = z], from, tag)), gone)
        BY <1>2, <1>5, <3>1, ViasFollow
      <3>3. QED
        BY <2>1, <3>2
    <2>2. CASE i \notin DOMAIN list
      <3>1. \A b \in BalancersOf(template) : b \in tags
        BY <1>8, <2>2
      <3>2. Sound(Sync([template EXCEPT !.balancers = z]), gone)
        BY <1>2, <1>5, <3>1, MoreBalancersSound
      <3>3. QED
        BY <2>2, <3>2
    <2>3. QED
      BY <2>1, <2>2
  <1> HIDE DEF n
  <1>10. QED
    BY <1>1, <1>9, ConfirmedOnly

(* The dialogs on the DNS servers.                                         *)
LEMMA ServerFormsSound ==
    ASSUME TagsInv, (\E filled : ConfirmServer(filled)) \/ InstallPreset \/ ClearServers
    PROVE  TagsInv'
  <1>1. \A servers : Sound(WithServers(servers), gone)
    <2> SUFFICES ASSUME NEW servers PROVE Sound(WithServers(servers), gone)
      OBVIOUS
    <2> DEFINE dns == [template.dns EXCEPT !.servers = servers]
    <2>1. WithServers(servers) = IF template.dns.on THEN [template EXCEPT !.dns = dns] ELSE template
      BY DEF WithServers
    <2> HIDE DEF dns
    <2>2. Sound(template, gone) /\ Sound([template EXCEPT !.dns = dns], gone)
      BY OthersSound DEF TagsInv
    <2>3. QED
      BY <2>1, <2>2
  <1>2. PICK f, servers : Confirmed(f, WithServers(servers), {})
    BY DEF ConfirmServer, InstallPreset, ClearServers
  <1>3. QED
    BY <1>1, <1>2, ConfirmedOnly

(* All the forms.                                                          *)
LEMMA FormsSound == TagsInv /\ Forms /\ ~astray' => TagsInv'
  <1> SUFFICES ASSUME TagsInv, Forms, ~astray' PROVE TagsInv'
    OBVIOUS
  <1>1. CASE \E filled \in {{"ip"}, {"other"}}, to \in Tags \union {""}, via \in {"", "bal", "new"} :
                ConfirmRule(filled, to, via)
    BY <1>1, RuleFormSound
  <1>2. CASE \E tag \in {"bal", "new"}, strategy \in Strategies, selector \in {{"us"}, {"us", "direct"}},
                tuned \in BOOLEAN : ConfirmBalancer(tag, strategy, selector, tuned)
    <2>1. PICK tag \in {"bal", "new"}, strategy \in Strategies, selector \in {{"us"}, {"us", "direct"}},
               tuned \in BOOLEAN : ConfirmBalancer(tag, strategy, selector, tuned)
      BY <1>2
    <2>2. selector \in SUBSET Tags
      BY DEF Tags, NewTags
    <2>3. QED
      BY <2>1, <2>2, BalancerFormSound
  <1>3. CASE \/ \E filled \in {{}, {"list"}, {"other", "emptyRow"}} : ConfirmServer(filled)
             \/ InstallPreset \/ ClearServers
    BY <1>3, ServerFormsSound
  <1>4. QED
    BY <1>1, <1>2, <1>3, OpensSound, OutboundFormSound, DeletesSound DEF Forms

-----------------------------------------------------------------------------
(* The answers.  What goes with a replaced template was taken away.        *)
Covered(t, n, h) ==
    /\ \A o \in ToSet(t.outbounds) : o \in ToSet(n.outbounds) \cup h \cup {""}
    /\ \A b \in BalancersOf(t) : b \in BalancersOf(n) \cup h \cup {""}

(* A template replaced by one that covers it, with a form open or not.     *)
LEMMA ReplacedSound ==
    ASSUME TagsInv, NEW next, NEW h, gone \subseteq h, Sound(next, h), Covered(template, next, h),
           template' = next, gone' = h, dialog' = dialog \/ dialog' = Closed,
           UNCHANGED <<cached, fetch, saves, server>>
    PROVE  TagsInv'
  <1>1. \A r : RuleResolved(r, template, gone) => RuleResolved(r, template', gone')
    BY DEF RuleResolved, Covered
  <1>2. FormKept'
    BY <1>1 DEF TagsInv, FormKept, Closed
  <1>3. QED
    BY <1>2, Replaced

(* NordVPN's logout takes its rules along, and its outbound.               *)
LEMMA LogoutSound == TagsInv /\ LoggedOut /\ ~astray' => TagsInv'
  <1> SUFFICES ASSUME TagsInv, LoggedOut, ~astray' PROVE TagsInv'
    OBVIOUS
  <1> DEFINE w == WithoutOutbound(template, logout)
             places == {i \in DOMAIN w.rules : w.rules[i].to \notin NordTags}
             x == Kept(w.rules, places)
             n == [w EXCEPT !.rules = x]
             h == gone \cup (Lost(template, n) \cap NordTags)
  <1>1. /\ template' = n /\ gone' = h
        /\ dialog' = dialog \/ dialog' = Closed
        /\ UNCHANGED <<cached, fetch, saves, server>>
        /\ logout \in DOMAIN template.outbounds => template.outbounds[logout] \in NordTags \cup {""}
    BY DEF LoggedOut, ShowTemplate, TagAt, query
  <1>2. IsTemplate(template) /\ Sound(template, gone)
    BY DEF TagsInv, Sound
  <1>3. IsTemplate(w) /\ w.rules \in Seq(RuleType) /\ w.balancers = template.balancers
    BY <1>2, WithoutOutboundIs DEF IsTemplate
  <1>4. \A j \in DOMAIN template.outbounds : j # logout => template.outbounds[j] \in ToSet(w.outbounds)
    BY <1>2, WithoutOutboundKeeps
  <1> HIDE DEF w
  <1>5. x \in Seq(RuleType) /\ ToSet(x) \subseteq ToSet(w.rules)
    <2>1. places \in SUBSET (DOMAIN w.rules)
      OBVIOUS
    <2> HIDE DEF places
    <2>2. QED
      BY <1>3, <2>1, SetKept
  <1> HIDE DEF x
  <1>6. IsTemplate(n) /\ n.outbounds = w.outbounds /\ n.balancers = template.balancers
    BY <1>3, <1>5, RulesSet
  <1> HIDE DEF n
  <1>7. ASSUME NEW o \in ToSet(template.outbounds) PROVE o \in ToSet(w.outbounds) \cup h \cup {""}
    <2>1. PICK j \in DOMAIN template.outbounds : o = template.outbounds[j]
      BY DEF ToSet
    <2>2. o \in ToSet(w.outbounds) \cup Lost(template, n) \cup {""}
      BY <1>2, <1>6, LostCovers
    <2>3. CASE j = logout
      BY <1>1, <2>1, <2>2, <2>3
    <2>4. CASE j # logout
      BY <1>4, <2>1, <2>4
    <2>5. QED
      BY <2>3, <2>4
  <1>8. gone \subseteq h
    OBVIOUS
  <1> HIDE DEF h
  <1>9. Sound(w, h)
    <2>1. logout \in DOMAIN template.outbounds =>
             template.outbounds[logout] \in ToSet(WithoutOutbound(template, logout).outbounds) \cup h \cup {""}
      BY <1>2, <1>7, SoundLists DEF w
    <2>2. QED
      BY <1>2, <1>8, <2>1, WithoutOutboundSound DEF w
  <1>10. Sound([w EXCEPT !.rules = x], h)
    BY <1>5, <1>9, RulesKept
  <1>11. Sound(n, h)
    BY <1>10 DEF n
  <1>12. Covered(template, n, h)
    BY <1>6, <1>7 DEF BalancersOf, Covered
  <1>13. QED
    BY <1>1, <1>8, <1>11, <1>12, ReplacedSound

(* The default template arrives.                                           *)
LEMMA DefaultsSound == TagsInv /\ DefaultArrives => TagsInv'
  <1> SUFFICES ASSUME TagsInv, DefaultArrives PROVE TagsInv'
    OBVIOUS
  <1> DEFINE none == {}
             n == Default
  <1>1. /\ template' = n /\ gone' = gone \cup Lost(template, n) /\ dialog' = dialog
        /\ UNCHANGED <<cached, fetch, saves, server>>
    BY DEF DefaultArrives, ShowTemplate, query
  <1>2. Sound(n, none)
    BY DefaultSound
  <1>3. none \subseteq gone \cup Lost(template, n)
    OBVIOUS
  <1> HIDE DEF none, n
  <1> DEFINE h == gone \cup Lost(template, n)
  <1>4. gone \subseteq h /\ Sound(n, h)
    BY <1>2, <1>3, SoundLater
  <1>5. IsTemplate(template) /\ IsTemplate(n)
    BY <1>4 DEF TagsInv, Sound
  <1>6. Covered(template, n, h)
    BY <1>5, LostCovers DEF Covered
  <1> HIDE DEF h
  <1>7. gone' = h
    BY <1>1 DEF h
  <1>8. QED
    BY <1>1, <1>4, <1>6, <1>7, ReplacedSound

(* A fetch brings what the server had.                                     *)
LEMMA FetchedSound == TagsInv /\ (FetchRead \/ FetchDone \/ FetchFail) => TagsInv'
  <1> SUFFICES ASSUME TagsInv, FetchRead \/ FetchDone \/ FetchFail PROVE TagsInv'
    OBVIOUS
  <1>1. CASE FetchRead
    <2>1. /\ fetch' = [state |-> "read", read |-> server]
          /\ UNCHANGED <<template, gone, dialog, cached, saves, server>>
      BY <1>1 DEF FetchRead, shown, requests
    <2>2. QED
      BY <2>1 DEF TagsInv, Held, FormKept
  <1>2. CASE FetchFail
    <2>1. fetch'.state = "none" /\ UNCHANGED <<template, gone, dialog, cached, saves, server>>
      BY <1>2 DEF FetchFail, NoFetch, shown, requests
    <2>2. QED
      BY <2>1 DEF TagsInv, Held, FormKept
  <1>3. CASE FetchDone
    <2>1. /\ fetch.state = "read" /\ fetch'.state = "none" /\ cached' = fetch.read
          /\ \/ UNCHANGED <<template, gone>>
             \/ template' = fetch.read.template /\ gone' = gone \cup Lost(template, template')
          /\ UNCHANGED <<dialog, saves, server>>
      BY <1>3 DEF FetchDone, NoFetch, ShowTemplate, shown, requests
    <2>2. Sound(fetch.read.template, gone)
      BY <2>1 DEF TagsInv, Held
    <2>3. gone \subseteq gone'
      BY <2>1
    <2>4. Sound(template', gone')
      BY <2>1, <2>2, <2>3, SoundLater DEF TagsInv
    <2>5. Held(gone)'
      <3>1. ASSUME NEW t, Sound(t, gone) PROVE Sound(t, gone')
        BY <2>3, <3>1, SoundLater
      <3>2. QED
        BY <2>1, <2>2, <3>1 DEF TagsInv, Held
    <2>6. FormKept'
      <3>1. ASSUME NEW r, RuleResolved(r, template, gone) PROVE RuleResolved(r, template', gone')
        <4>1. CASE UNCHANGED <<template, gone>>
          BY <3>1, <4>1 DEF RuleResolved
        <4>2. CASE template' = fetch.read.template /\ gone' = gone \cup Lost(template, template')
          <5>1. IsTemplate(template) /\ IsTemplate(template')
            BY <2>4 DEF TagsInv, Sound
          <5>2. /\ \A o \in ToSet(template.outbounds) :
                      o \in ToSet(template'.outbounds) \cup Lost(template, template') \cup {""}
                /\ \A b \in BalancersOf(template) :
                      b \in BalancersOf(template') \cup Lost(template, template') \cup {""}
            BY <5>1, LostCovers
          <5>3. QED
            BY <3>1, <4>2, <5>2 DEF RuleResolved
        <4>3. QED
          BY <2>1, <4>1, <4>2
      <3>2. QED
        BY <2>1, <3>1 DEF TagsInv, FormKept
    <2>7. QED
      BY <2>4, <2>5, <2>6 DEF TagsInv
  <1>4. QED
    BY <1>1, <1>2, <1>3

(* A save is of what the page shows (TextAgrees), and the server stores    *)
(* it.                                                                     *)
LEMMA SavesSound ==
    ASSUME TagsInv, SavedShape, TextAgrees,
           SaveAll \/ \E s \in saves : SaveAnswered(s) \/ \E stored, ok \in BOOLEAN : SaveHandled(s, stored, ok)
    PROVE  TagsInv'
  <1>1. CASE SaveAll
    <2> DEFINE new == [n |-> sent', text |-> text, url |-> url, state |-> "sent"]
    <2>1. /\ text # Broken /\ saves' = saves \cup {new}
          /\ UNCHANGED <<template, gone, dialog, cached, fetch, server>>
      BY <1>1 DEF SaveAll, shown, query
    <2>2. new.text = template
      BY <2>1 DEF TextAgrees
    <2> HIDE DEF new
    <2>3. QED
      BY <2>1, <2>2 DEF TagsInv, Held, FormKept
  <1>2. ASSUME NEW s \in saves, SaveAnswered(s) PROVE TagsInv'
    <2>1. /\ saves' = saves \ {s} /\ UNCHANGED <<template, gone, dialog, cached, server>>
          /\ fetch' = fetch \/ fetch'.state = "asked"
      BY <1>2 DEF SaveAnswered, Invalidated, shown, query
    <2>2. QED
      BY <2>1 DEF TagsInv, Held, FormKept
  <1>3. ASSUME NEW s \in saves, NEW stored \in BOOLEAN, NEW ok \in BOOLEAN, SaveHandled(s, stored, ok)
        PROVE  TagsInv'
    <2> DEFINE t == [s EXCEPT !.state = IF ok THEN "done" ELSE "failed"]
    <2>1. /\ saves' = (saves \ {s}) \cup {t}
          /\ server' = IF stored THEN [server EXCEPT !.template = s.text, !.url = s.url] ELSE server
          /\ UNCHANGED <<template, gone, dialog, cached, fetch>>
      BY <1>3 DEF SaveHandled, shown, query
    <2>2. /\ s = [n |-> s.n, text |-> s.text, url |-> s.url, state |-> s.state]
          /\ server = [template |-> server.template, url |-> server.url, subs |-> server.subs]
      BY DEF SavedShape
    <2>3. t.text = s.text /\ (server'.template = s.text \/ server'.template = server.template)
      BY <2>1, <2>2
    <2> HIDE DEF t
    <2>4. QED
      BY <2>1, <2>3 DEF TagsInv, Held, FormKept
  <1>4. QED
    BY <1>1, <1>2, <1>3

(* The requests that touch no template.                                    *)
LEMMA OthersKeepTags ==
    ASSUME TagsInv, SavedShape,
           \/ ResetDefault \/ ChangeSub \/ Poll \/ UNCHANGED editorVars
           \/ (\E moved \in BOOLEAN : SubChanged(moved)) \/ SubRefused \/ SubListed
    PROVE  TagsInv'
  <1>1. CASE ResetDefault \/ ChangeSub \/ Poll \/ UNCHANGED editorVars \/ SubRefused
    <2>1. UNCHANGED <<template, gone, dialog, cached, fetch, saves, server>>
      BY <1>1 DEF ResetDefault, ChangeSub, Poll, SubRefused, editorVars, shown, query, requests
    <2>2. QED
      BY <2>1, PageStays
  <1>2. CASE SubListed
    <2>1. fetch'.state = "asked" /\ UNCHANGED <<template, gone, dialog, cached, saves, server>>
      BY <1>2 DEF SubListed, Invalidated, shown
    <2>2. QED
      BY <2>1 DEF TagsInv, Held, FormKept
  <1>3. CASE \E moved \in BOOLEAN : SubChanged(moved)
    <2>1. /\ server' = server \/ server' = [server EXCEPT !.subs = @ + 1]
          /\ UNCHANGED <<template, gone, dialog, cached, fetch, saves>>
      BY <1>3 DEF SubChanged, shown, query
    <2>2. server = [template |-> server.template, url |-> server.url, subs |-> server.subs]
      BY DEF SavedShape
    <2>3. server'.template = server.template
      BY <2>1, <2>2
    <2>4. QED
      BY <2>1, <2>3 DEF TagsInv, Held, FormKept
  <1>4. QED
    BY <1>1, <1>2, <1>3

-----------------------------------------------------------------------------
(* A place that was used when something else stood there stays used.       *)
LEMMA AstrayStays == EditorNext /\ astray => astray'
  <1> SUFFICES ASSUME EditorNext, astray PROVE astray'
    OBVIOUS
  <1>1. CASE Sections
    <2>1. ASSUME NEW next, NEW lost, EditOnPage(next, lost) PROVE astray'
      BY <2>1 DEF EditOnPage
    <2>2. CASE (\E next \in Typed : Type(next)) \/ SetUrl \/ Logout
      BY <2>2 DEF Type, SetUrl, Logout
    <2>3. CASE \/ TypeRules \/ TypeOutbounds \/ TypeObservatory \/ SetStrategy
               \/ \E b \in Basics, on \in BOOLEAN : Route(b, on)
      BY <2>1, <2>3 DEF TypeRules, TypeOutbounds, TypeObservatory, SetStrategy, Route
    <2>4. CASE \/ \E i \in DOMAIN template.outbounds :
                     \E j \in DOMAIN template.outbounds : MoveOutbound(i, j)
               \/ \E i \in DOMAIN template.rules : \E j \in DOMAIN template.rules : MoveRule(i, j)
      BY <2>1, <2>4 DEF MoveOutbound, MoveRule
    <2>5. CASE (\E tag \in NordTags : AddNord(tag) \/ ResetNord(tag)) \/ AddWarp \/ DeleteWarp
      BY <2>1, <2>5 DEF AddNord, ResetNord, AddWarp, DeleteWarp
    <2>6. CASE \/ (\E o \in Options : SetOption(o)) \/ SwitchDns
               \/ \E f \in DnsFields : SetDnsField(f)
               \/ \E rows \in HostRows : SetHosts(rows)
               \/ \E i \in DOMAIN template.dns.servers : DeleteServer(i)
      BY <2>1, <2>6 DEF SetOption, SwitchDns, SetDnsField, SetHosts, DeleteServer, EditDns
    <2>7. ASSUME NEW list, EditFakeDns(list) PROVE astray'
      BY <2>1, <2>7 DEF EditFakeDns
    <2>8. QED
      BY <1>1, <2>2, <2>3, <2>4, <2>5, <2>6, <2>7 DEF Sections
  <1>2. CASE Forms
    <2>1. CASE \/ \E f \in FormNames : \E i \in 0..Len(Rows(f)) : OpenForm(f, i)
               \/ \E f \in FormNames : \E i \in 1..Len(Rows(f)) : AskDelete(f, i)
               \/ \E f \in ListDialogs : OpenList(f)
               \/ CloseForm
      BY <2>1 DEF OpenForm, AskDelete, OpenList, CloseForm
    <2>2. CASE ConfirmDelete \/ \E tag \in NewTags : ConfirmOutbound(tag)
      BY <2>2 DEF ConfirmDelete, ConfirmOutbound, ConfirmedAt
    <2>3. ASSUME NEW filled, NEW to, NEW via, ConfirmRule(filled, to, via) PROVE astray'
      BY <2>3 DEF ConfirmRule
    <2>4. ASSUME NEW tag, NEW strategy, NEW selector, NEW tuned,
                 ConfirmBalancer(tag, strategy, selector, tuned)
          PROVE  astray'
      BY <2>4 DEF ConfirmBalancer
    <2>5. CASE (\E filled : ConfirmServer(filled)) \/ InstallPreset \/ ClearServers
      BY <2>5 DEF ConfirmServer, InstallPreset, ClearServers
    <2>6. QED
      BY <1>2, <2>1, <2>2, <2>3, <2>4, <2>5 DEF Forms
  <1>3. CASE Answers
    <2>1. LoggedOut \/ DefaultArrives \/ FetchRead \/ FetchDone \/ FetchFail => astray'
      BY DEF LoggedOut, DefaultArrives, FetchRead, FetchDone, FetchFail
    <2>2. ASSUME NEW s \in saves,
                 SaveAnswered(s) \/ \E stored, ok \in BOOLEAN : SaveHandled(s, stored, ok)
          PROVE  astray'
      BY <2>2 DEF SaveAnswered, SaveHandled
    <2>3. (\E moved \in BOOLEAN : SubChanged(moved)) \/ SubRefused \/ SubListed => astray'
      BY DEF SubChanged, SubRefused, SubListed
    <2>4. QED
      BY <1>3, <2>1, <2>2, <2>3 DEF Answers
  <1>4. CASE SaveAll \/ ResetDefault \/ ChangeSub \/ Poll
    BY <1>4 DEF SaveAll, ResetDefault, ChangeSub, Poll
  <1>5. QED
    BY <1>1, <1>2, <1>3, <1>4 DEF EditorNext

TagsHold == ~astray => TagsInv

(* Every template the page holds is sound, until a place held across an    *)
(* await takes away the wrong entry: the inductive invariant, with what    *)
(* SavedInvariance and TextAgreesAlways say of a step's first state.       *)
THEOREM TagsInvariance == EditorSpec => []TagsHold
  <1>1. EditorInit => TagsHold
    <2> SUFFICES ASSUME EditorInit PROVE TagsInv
      BY DEF TagsHold
    <2>1. /\ template = Start \/ template = Default
          /\ server = [template |-> template, url |-> 0, subs |-> 0] /\ cached = server
          /\ fetch.state = "none" /\ saves = {} /\ gone = {} /\ dialog.form = "none"
      BY DEF EditorInit, NoFetch, Closed
    <2>2. server.template = template /\ cached.template = template
      BY <2>1
    <2>3. Sound(template, gone)
      BY <2>1, StartSound, DefaultSound
    <2>4. QED
      BY <2>1, <2>2, <2>3 DEF TagsInv, Held, FormKept
  <1>2. TagsHold /\ SavedInv /\ TextAgrees /\ [EditorNext]_editorVars => TagsHold'
    <2> SUFFICES ASSUME TagsHold, SavedInv, TextAgrees, [EditorNext]_editorVars, ~astray'
                 PROVE  TagsInv'
      BY DEF TagsHold
    <2>1. TagsInv
      BY AstrayStays DEF TagsHold, editorVars
    <2>2. SavedShape
      BY DEF SavedInv
    <2>3. QED
      BY <2>1, <2>2, SectionsSound, FormsSound, LogoutSound, DefaultsSound, FetchedSound, SavesSound,
         OthersKeepTags DEF EditorNext, Answers
  <1>3. QED
    BY <1>1, <1>2, SavedInvariance, TextAgreesAlways, PTL DEF EditorSpec

(* No rule is left without the outbound or the balancer it names, but for  *)
(* tags taken away on purpose, and the observatories watch what balancers  *)
(* choose from, once none was written by hand, until a place held across   *)
(* an await takes away the wrong entry (OutboundsTab.tsx, BalancersTab.tsx,*)
(* NordModal.tsx).                                                         *)
THEOREM TagsResolveAlways == EditorSpec => []TagsResolve
  <1>1. TagsHold => TagsResolve
    <2>1. CASE astray
      BY <2>1 DEF TagsResolve
    <2>2. CASE ~astray
      BY <2>2, SoundResolves DEF TagsHold, TagsInv
    <2>3. QED
      BY <2>1, <2>2
  <1>2. QED
    BY <1>1, TagsInvariance, PTL
=============================================================================
