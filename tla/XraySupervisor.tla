--------------------------- MODULE XraySupervisor ---------------------------
(***************************************************************************)
(* service/xray.go and its callers: the panel keeps one Xray core running  *)
(* with the configuration the database describes.  RestartXray and         *)
(* StopXray run under the package mutex; the flags isNeedXrayRestart and   *)
(* isManuallyStopped, and IsXrayRunning, are read without it.  Edits of    *)
(* the inbound and of its clients bypass RestartXray: they are pushed to   *)
(* the core over its API, mostly before they are committed, and only a     *)
(* failed push asks for a restart.                                         *)
(*                                                                         *)
(* A configuration is an inbound (or none: deleted or disabled), whether   *)
(* there is a second outbound, the routing rules, and the rest (logs, DNS, *)
(* the first outbound...).  Only the rest takes a new process.             *)
(***************************************************************************)
EXTENDS Naturals, FiniteSets

CONSTANTS Client,
          Shapes,      \* number of shapes of the inbound, its clients aside
          Initial,     \* configurations the database may start with
          Templates,   \* configurations a saver may save the template of
          Caller,      \* goroutines that call RestartXray or StopXray
          Role,        \* what each caller is
          Nobody,
          Faults,      \* what may fail: build, hot, start, push, commit, crash
          MaxFaults,   \* bound on the failures
          MaxCalls,    \* bound on the requests of an admin, saver or traffic job
          MaxEdits     \* bound on the edits of the inbound and its clients

VARIABLES db,       \* the configuration the database describes
          snap,     \* p.config: what the panel believes the core has
          core,     \* what the process has, while it is up
          up,       \* p.IsRunning()
          flag,     \* isNeedXrayRestart
          manual,   \* isManuallyStopped
          ticks,    \* CheckXrayRunningJob.checkTime
          lock,     \* who holds the package mutex
          pc,       \* each caller's step
          cfg,      \* the configuration a caller built
          todo,     \* what tryHotApply has still to do
          calls,    \* requests each caller may still make
          edit,     \* the edit under way
          edits, faults, \* edits and failures still allowed
          pushed    \* history: was an edit pushed past the inbound of p.config?

vars == <<db, snap, core, up, flag, manual, ticks, lock, pc, cfg, todo, calls,
          edit, edits, faults, pushed>>

process == <<snap, core, up, pushed>>
signals == <<flag, manual, ticks>>
editing == <<edit, edits>>

Absent   == [form |-> 0, users |-> {}]
Inbounds == {Absent} \cup [form : 1..Shapes, users : SUBSET Client]
Config   == [inbound : Inbounds, outbound : 0..1, routing : 0..1, static : 0..1]
Empty    == [inbound |-> Absent, outbound |-> 0, routing |-> 0, static |-> 0]
NoEdit   == [at |-> "none", way |-> "none", inbound |-> Absent, failed |-> FALSE]

ASSUME XraySupervisorAssumption ==
    /\ Shapes \in Nat
    /\ Initial \subseteq Config /\ Templates \subseteq Config
    /\ Nobody \notin Caller
    /\ Role \in [Caller -> {"checker", "flagjob", "admin", "saver", "traffic"}]
    /\ {MaxFaults, MaxCalls, MaxEdits} \subseteq Nat

(* A core started on what the database held then.                          *)
Init == /\ db \in Initial
        /\ snap = db /\ core = db
        /\ up = TRUE /\ pushed = FALSE /\ todo = {}
        /\ flag = FALSE /\ manual = FALSE /\ ticks = 0
        /\ lock = Nobody
        /\ pc = [c \in Caller |-> "idle"]
        /\ cfg = [c \in Caller |-> Empty]
        /\ calls = [c \in Caller |-> MaxCalls]
        /\ edit = NoEdit /\ edits = MaxEdits /\ faults = MaxFaults

Fault(kind) == /\ kind \in Faults /\ faults > 0
               /\ faults' = faults - 1

Goto(c, step) == pc' = [pc EXCEPT ![c] = step]
Asks(c, role) == /\ Role[c] = role /\ pc[c] = "idle" /\ calls[c] > 0
                 /\ calls' = [calls EXCEPT ![c] = @ - 1]
Forced(c) == Role[c] \in {"admin", "traffic"}
-----------------------------------------------------------------------------
(* The callers.  CheckXrayRunningJob restarts a core that two checks in a  *)
(* row found down and not stopped by hand; cron does not wait for a run    *)
(* before the next, so runs share checkTime.                               *)
Check(c) ==
    /\ Role[c] = "checker" /\ pc[c] = "idle"
    /\ \/ /\ up \/ manual
          /\ ticks' = 0
          /\ UNCHANGED pc
       \/ /\ ~up /\ ~manual
          /\ ticks' = IF ticks < 2 THEN ticks + 1 ELSE ticks
          /\ IF ticks >= 1 THEN Goto(c, "lock") ELSE UNCHANGED pc
    /\ UNCHANGED <<db, process, flag, manual, lock, cfg, todo, calls, editing, faults>>

(* The 30-second job consumes the flag, then reconciles.                   *)
ConsumeFlag(c) ==
    /\ Role[c] = "flagjob" /\ pc[c] = "idle"
    /\ flag
    /\ flag' = FALSE
    /\ Goto(c, "lock")
    /\ UNCHANGED <<db, process, manual, ticks, lock, cfg, todo, calls, editing, faults>>

(* An administrator restarts or stops the core; the traffic job restarts it*)
(* after it has disabled clients.                                          *)
AskRestart(c) ==
    /\ Asks(c, "admin") \/ (up /\ Asks(c, "traffic"))
    /\ Goto(c, "lock")
    /\ UNCHANGED <<db, process, signals, lock, cfg, todo, editing, faults>>

AskStop(c) ==
    /\ Asks(c, "admin")
    /\ Goto(c, "lockstop")
    /\ UNCHANGED <<db, process, signals, lock, cfg, todo, editing, faults>>

(* updateSetting saves the template, and reconciles a core it sees running.*)
Save(c) ==
    /\ Asks(c, "saver")
    /\ \E new \in Templates : db' = [new EXCEPT !.inbound = db.inbound]
    /\ db' # db
    /\ Goto(c, "saved")
    /\ UNCHANGED <<process, signals, lock, cfg, todo, editing, faults>>

SeeRunning(c) ==
    /\ pc[c] = "saved"
    /\ Goto(c, IF up THEN "lock" ELSE "idle")
    /\ UNCHANGED <<db, process, signals, lock, cfg, todo, calls, editing, faults>>
-----------------------------------------------------------------------------
(* RestartXray: the mutex, and the core is no longer stopped by hand ...   *)
Acquire(c) ==
    /\ pc[c] = "lock"
    /\ lock = Nobody
    /\ lock' = c
    /\ manual' = FALSE
    /\ Goto(c, "build")
    /\ UNCHANGED <<db, process, flag, ticks, cfg, todo, calls, editing, faults>>

Return(c, result) == /\ lock' = Nobody
                     /\ cfg' = [cfg EXCEPT ![c] = Empty]
                     /\ Goto(c, result)

(* ... GetXrayConfig ...                                                   *)
Build(c) ==
    /\ pc[c] = "build"
    /\ \/ /\ cfg' = [cfg EXCEPT ![c] = db]
          /\ Goto(c, "decide")
          /\ UNCHANGED <<lock, faults>>
       \/ /\ Fault("build")
          /\ Return(c, "failed")
    /\ UNCHANGED <<db, process, signals, todo, calls, editing>>

(* Mutated: a core that is down but was configured so needs nothing.       *)
SettledDown(c) == ~Forced(c) /\ cfg[c] = snap /\ ~flag

Settled(c) == up /\ ~Forced(c) /\ cfg[c] = snap /\ ~flag

(* ComputeHotDiff: only the parts the API can change differ.               *)
Hot(c) == up /\ ~Forced(c) /\ cfg[c] # snap /\ cfg[c].static = snap.static

(* What it finds to do: the difference between the two configurations, not *)
(* between the new one and what the core has.  A changed inbound is removed*)
(* and added.                                                              *)
Difference(old, new) ==
    {op \in {"dropInbound", "dropOutbound", "addOutbound", "addInbound", "route"} :
       \/ op = "dropInbound"  /\ old.inbound # new.inbound /\ old.inbound # Absent
       \/ op = "dropOutbound" /\ old.outbound = 1 /\ new.outbound = 0
       \/ op = "addOutbound"  /\ old.outbound = 0 /\ new.outbound = 1
       \/ op = "addInbound"   /\ old.inbound # new.inbound /\ new.inbound # Absent
       \/ op = "route"        /\ old.routing # new.routing}

(* ... nothing to do, an attempt to apply the difference over the API, or a*)
(* new process ...                                                         *)
Decide(c) ==
    /\ pc[c] = "decide"
    /\ \/ Settled(c) /\ Return(c, "done") /\ UNCHANGED todo
       \/ /\ ~Settled(c)
          /\ Goto(c, IF Hot(c) THEN "hot" ELSE IF up THEN "stop" ELSE "start")
          /\ todo' = IF Hot(c) THEN Difference(snap, cfg[c]) ELSE {}
          /\ UNCHANGED <<lock, cfg>>
    /\ UNCHANGED <<db, process, signals, calls, editing, faults>>

(* tryHotApply makes one call after the other: removals first, routing     *)
(* last ...                                                                *)
Turn(op) == CASE op = "dropInbound"  -> 1
              [] op = "dropOutbound" -> 2
              [] op = "addOutbound"  -> 3
              [] op = "addInbound"   -> 4
              [] op = "route"        -> 5

First(op) == op \in todo /\ \A other \in todo : Turn(op) <= Turn(other)

(* What a call makes of the core; an inbound pushed meanwhile is replaced  *)
(* (addInboundReconciling).                                                *)
Called(op, new) ==
    CASE op = "dropInbound"  -> [core EXCEPT !.inbound = Absent]
      [] op = "dropOutbound" -> [core EXCEPT !.outbound = 0]
      [] op = "addOutbound"  -> [core EXCEPT !.outbound = 1]
      [] op = "addInbound"   -> [core EXCEPT !.inbound = new.inbound]
      [] op = "route"        -> [core EXCEPT !.routing = new.routing]

(* The last call about the inbound puts what was pushed before it right.   *)
LastOfInbound(op) == \/ op = "addInbound"
                     \/ op = "dropInbound" /\ "addInbound" \notin todo

HotCall(c) ==
    /\ pc[c] = "hot"
    /\ up
    /\ \E op \in todo : /\ First(op)
                        /\ core' = Called(op, cfg[c])
                        /\ todo' = todo \ {op}
                        /\ pushed' = (pushed /\ ~LastOfInbound(op))
    /\ UNCHANGED <<db, snap, up, signals, lock, pc, cfg, calls, editing, faults>>

(* ... and p.SetConfig(newCfg) when all are made.                          *)
SetConfig(c) ==
    /\ pc[c] = "hot"
    /\ todo = {}
    /\ snap' = cfg[c]
    /\ Return(c, "done")
    /\ UNCHANGED <<db, core, up, pushed, signals, todo, calls, editing, faults>>

(* A call fails, with or without having had its effect, or the core is     *)
(* gone: what the calls before it changed is left to a full restart.  An   *)
(* inbound that could not be added may have been removed first.            *)
CallFails(c, op) ==
    \/ /\ up /\ Fault("hot")
       /\ \/ core' \in {core, Called(op, cfg[c])}
          \/ op = "addInbound" /\ core' = [core EXCEPT !.inbound = Absent]
    \/ ~up /\ UNCHANGED <<core, faults>>

(* Mutated: a failed attempt is reported and nothing more.                 *)
HotGivesUp(c) ==
    /\ pc[c] = "hot"
    /\ \E op \in todo : First(op) /\ CallFails(c, op)
    /\ todo' = {}
    /\ Return(c, "failed")
    /\ UNCHANGED <<db, snap, up, pushed, signals, calls, editing>>

HotFails(c) ==
    /\ pc[c] = "hot"
    /\ \E op \in todo : First(op) /\ CallFails(c, op)
    /\ todo' = {}
    /\ Goto(c, "stop")
    /\ UNCHANGED <<db, snap, up, pushed, signals, lock, cfg, calls, editing>>

(* A process that is gone has nothing.                                     *)
Down == up' = FALSE /\ core' = Empty /\ pushed' = FALSE

StopCore(c) ==
    /\ pc[c] = "stop"
    /\ Down
    /\ Goto(c, "start")
    /\ UNCHANGED <<db, snap, signals, lock, cfg, todo, calls, editing, faults>>

(* xray.NewProcess(xrayConfig) and p.Start().                              *)
StartCore(c) ==
    /\ pc[c] = "start"
    /\ snap' = cfg[c]
    /\ \/ /\ up' = TRUE
          /\ core' = cfg[c] /\ pushed' = FALSE
          /\ Return(c, "done")
          /\ UNCHANGED faults
       \/ /\ Fault("start")
          /\ Down
          /\ Return(c, "failed")
    /\ UNCHANGED <<db, signals, todo, calls, editing>>

(* Back in the caller: the checker counts anew, the traffic job asks for   *)
(* the restart it did not get, the others log or report the error.         *)
Resume(c) ==
    /\ pc[c] \in {"done", "failed"}
    /\ ticks' = IF Role[c] = "checker" THEN 0 ELSE ticks
    /\ flag' = (flag \/ (Role[c] = "traffic" /\ pc[c] = "failed"))
    /\ Goto(c, "idle")
    /\ UNCHANGED <<db, process, manual, lock, cfg, todo, calls, editing, faults>>

(* StopXray.                                                               *)
AcquireStop(c) ==
    /\ pc[c] = "lockstop"
    /\ lock = Nobody
    /\ lock' = c
    /\ manual' = TRUE
    /\ Goto(c, "halt")
    /\ UNCHANGED <<db, process, flag, ticks, cfg, todo, calls, editing, faults>>

Halt(c) ==
    /\ pc[c] = "halt"
    /\ Down
    /\ Return(c, "idle")
    /\ UNCHANGED <<db, snap, signals, todo, calls, editing, faults>>
-----------------------------------------------------------------------------
(* Edits of a local inbound, one at a time.  Whatever is pushed goes past  *)
(* p.config.                                                               *)
Pushes(inbound) == core' = [core EXCEPT !.inbound = inbound] /\ pushed' = TRUE

(* A call that the core refuses, that fails, or that finds no core.        *)
PushFails(refused) == /\ IF up /\ ~refused THEN Fault("push") ELSE UNCHANGED faults
                      /\ UNCHANGED <<core, pushed>>

(* addInboundClient / DelInboundClientByEmail: AddUser or RemoveUser, and  *)
(* the commit is still to come.                                            *)
PushClient ==
    /\ edit = NoEdit /\ edits > 0
    /\ db.inbound # Absent
    /\ edits' = edits - 1
    /\ \E u \in Client :
         LET Toggled(users) == IF u \in db.inbound.users THEN users \ {u} ELSE users \cup {u}
             next(failed) == [at |-> "commit", way |-> "client", failed |-> failed,
                              inbound |-> [db.inbound EXCEPT !.users = Toggled(@)]]
             gone == core.inbound = Absent
         IN  \/ /\ up /\ ~gone
                /\ Pushes([core.inbound EXCEPT !.users = Toggled(@)])
                /\ edit' = next(FALSE)
                /\ UNCHANGED faults
             \/ PushFails(gone) /\ edit' = next(TRUE)
    /\ UNCHANGED <<db, snap, up, signals, lock, pc, cfg, todo, calls>>

(* AddInbound adds the inbound to the core, DelInbound removes it,         *)
(* UpdateInbound does both, all before they commit; SetInboundEnable       *)
(* commits, then removes and perhaps adds.                                 *)
EditInbound ==
    /\ edit = NoEdit /\ edits > 0
    /\ edits' = edits - 1
    /\ \E new \in Inbounds \ {db.inbound}, way \in {"add", "delete", "update", "switch"} :
         /\ way = "add" => db.inbound = Absent
         /\ way = "delete" => new = Absent
         /\ way = "switch" => new = Absent \/ db.inbound = Absent
         /\ edit' = [at |-> IF way = "add" THEN "add" ELSE "remove",
                     way |-> way, inbound |-> new, failed |-> FALSE]
         /\ db' = IF way = "switch" THEN [db EXCEPT !.inbound = new] ELSE db
    /\ UNCHANGED <<process, signals, lock, pc, cfg, todo, calls, faults>>

(* UpdateInbound overlooks a removal that failed.  An inbound that is not  *)
(* there: an error only DelInbound minds.                                  *)
RemoveInbound ==
    /\ edit.at = "remove"
    /\ LET next(failed) == [edit EXCEPT !.at = IF edit.inbound = Absent THEN "commit" ELSE "add",
                                        !.failed = failed]
           missing == core.inbound = Absent
       IN  \/ /\ up /\ ~missing
              /\ Pushes(Absent)
              /\ edit' = next(FALSE)
              /\ UNCHANGED faults
           \/ /\ PushFails(missing)
              /\ edit' = next(\/ edit.way = "delete"
                              \/ edit.way = "switch" /\ ~(up /\ missing))
    /\ UNCHANGED <<db, snap, up, signals, lock, pc, cfg, todo, calls, edits>>

(* The core refuses an inbound whose tag it has.                           *)
AddInbound ==
    /\ edit.at = "add"
    /\ LET next(failed) == [edit EXCEPT !.at = "commit", !.failed = failed]
           exists == core.inbound # Absent
       IN  \/ /\ up /\ ~exists
              /\ Pushes(edit.inbound)
              /\ edit' = next(edit.failed)
              /\ UNCHANGED faults
           \/ PushFails(exists) /\ edit' = next(TRUE)
    /\ UNCHANGED <<db, snap, up, signals, lock, pc, cfg, todo, calls, edits>>

(* ... the commit, whose failure leaves what was pushed in the core ...    *)
CommitEdit ==
    /\ edit.at = "commit"
    /\ LET After == IF edit.failed THEN [edit EXCEPT !.at = "ask"] ELSE NoEdit
       IN  \/ /\ db' = [db EXCEPT !.inbound = edit.inbound]
              /\ edit' = After
              /\ UNCHANGED faults
           \/ /\ edit.way # "switch" /\ Fault("commit")
              /\ edit' \in {NoEdit, After}
              /\ UNCHANGED db
    /\ UNCHANGED <<process, signals, lock, pc, cfg, todo, calls, edits>>

(* ... and SetToNeedRestart in the handler when the push had failed.       *)
SetToNeedRestart ==
    /\ edit.at = "ask"
    /\ flag' = TRUE
    /\ edit' = NoEdit
    /\ UNCHANGED <<db, process, manual, ticks, lock, pc, cfg, todo, calls, edits, faults>>

(* The core dies on its own.                                               *)
CoreCrash ==
    /\ up
    /\ Fault("crash")
    /\ Down
    /\ UNCHANGED <<db, snap, signals, lock, pc, cfg, todo, calls, editing>>
-----------------------------------------------------------------------------
Request(c) == AskRestart(c) \/ AskStop(c) \/ Save(c)

Running(c) == \/ SeeRunning(c) \/ Build(c) \/ Decide(c)
              \/ HotCall(c) \/ SetConfig(c) \/ HotFails(c)
              \/ StopCore(c) \/ StartCore(c) \/ Resume(c) \/ Halt(c)

Locking(c) == Acquire(c) \/ AcquireStop(c)

StartEdit == PushClient \/ EditInbound

FinishEdit == RemoveInbound \/ AddInbound \/ CommitEdit \/ SetToNeedRestart

Next == \/ \E c \in Caller : \/ Check(c) \/ ConsumeFlag(c) \/ Request(c)
                             \/ Locking(c) \/ Running(c)
        \/ StartEdit \/ FinishEdit
        \/ CoreCrash

Spec == Init /\ [][Next]_vars

(* cron keeps starting the jobs and goroutines keep running.  Weak fairness*)
(* is enough for those that wait for the mutex: calls and failures are     *)
(* bounded, so it is free for good in the end.  Nothing makes a request, an*)
(* edit or a failure happen.                                               *)
Proceed(c) == Check(c) \/ ConsumeFlag(c) \/ Locking(c) \/ Running(c)

FairSpec == /\ Spec
            /\ \A c \in Caller : WF_vars(Proceed(c))
            /\ WF_vars(FinishEdit)
-----------------------------------------------------------------------------
(* The types of the state, and the mutex: only its holder is inside.       *)
Inside == {"build", "decide", "hot", "stop", "start", "halt"}

Operations == {"dropInbound", "dropOutbound", "addOutbound", "addInbound", "route"}

Edits == [at : {"none", "remove", "add", "commit", "ask"},
          way : {"none", "client", "add", "delete", "update", "switch"},
          inbound : Inbounds, failed : BOOLEAN]

TypeOK ==
    /\ {db, snap, core} \subseteq Config
    /\ up \in BOOLEAN /\ flag \in BOOLEAN /\ manual \in BOOLEAN /\ pushed \in BOOLEAN
    /\ ticks \in 0..2
    /\ lock \in Caller \cup {Nobody}
    /\ pc \in [Caller -> Inside \cup {"idle", "lock", "lockstop", "saved", "done", "failed"}]
    /\ \A c \in Caller : pc[c] \in Inside <=> lock = c
    /\ cfg \in [Caller -> Config]
    /\ todo \subseteq Operations
    /\ calls \in [Caller -> 0..MaxCalls]
    /\ edit \in Edits
    /\ edits \in 0..MaxEdits /\ faults \in 0..MaxFaults

(* p.config, with which the next RestartXray(false) compares, describes the*)
(* running core: in its outbounds, its routing and the rest, and in its    *)
(* inbound unless an edit was pushed past it (xray.go:914-922).  Only while*)
(* a difference is being applied, or a failed attempt waits for the restart*)
(* that "cleans up whatever was partially applied" (xray.go:941), may it   *)
(* differ.                                                                 *)
Reconciling == \E c \in Caller : pc[c] \in {"hot", "stop"}

SnapshotCurrent ==
    up /\ ~Reconciling =>
        /\ core.static = snap.static
        /\ core.outbound = snap.outbound
        /\ core.routing = snap.routing
        /\ pushed \/ core.inbound = snap.inbound

(* "CheckXrayRunningJob monitors Xray process health and restarts it if it *)
(* crashes" (check_xray_running_job.go:12): a core that is down is up again*)
(* in the end, unless an administrator has stopped it.                     *)
CrashedComesBack == ~up /\ ~manual ~> up \/ manual
=============================================================================
