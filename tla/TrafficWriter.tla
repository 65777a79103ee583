---------------------------- MODULE TrafficWriter ----------------------------
(***************************************************************************)
(* service/traffic_writer.go: writes of traffic counters are queued to one *)
(* goroutine, which StartTrafficWriter spawns and StopTrafficWriter        *)
(* cancels and waits for.  Each start has a queue, a context and a done    *)
(* channel of its own, here an epoch.  twMu is held while a caller looks   *)
(* at the package state and, with a full queue, while it waits for room.   *)
(***************************************************************************)
EXTENDS Naturals, Sequences, FiniteSets

CONSTANTS Write,       \* calls of submitTrafficWrite, each with its caller
          Controller,  \* goroutines that start and stop the writer
          Nobody,
          QueueSize,   \* trafficWriterQueueSize
          MaxStarts    \* bound on the epochs

ASSUME TrafficWriterAssumption ==
    /\ QueueSize \in Nat \ {0}
    /\ MaxStarts \in Nat
    /\ Nobody \notin Write
    /\ Write \cap Controller = {}

Epoch == 1..MaxStarts

VARIABLES twMu,       \* who holds the mutex
          current,    \* the epoch of the package variables, 0 when nil
          starts,     \* epochs made so far
          queue,      \* the channel of each epoch
          cancelled,  \* epochs whose context is cancelled
          closed,     \* epochs whose done channel is closed
          writer,     \* the goroutine of each epoch: off, serving, draining
          applying,   \* the request it is applying
          pc,         \* each caller's step
          epoch,      \* the package state a caller saw
          applied,    \* how often each write was applied
          replied,    \* writes whose req.done holds the result
          ctl,        \* each controller's step
          target      \* the epoch a controller is stopping

vars == <<twMu, current, starts, queue, cancelled, closed, writer, applying,
          pc, epoch, applied, replied, ctl, target>>

package   == <<current, starts>>
channels  == <<queue, cancelled, closed>>
goroutine == <<writer, applying>>
caller    == <<pc, epoch>>
control   == <<ctl, target>>

Init == /\ twMu = Nobody
        /\ current = 0
        /\ starts = 0
        /\ queue = [e \in Epoch |-> <<>>]
        /\ cancelled = {}
        /\ closed = {}
        /\ writer = [e \in Epoch |-> "off"]
        /\ applying = [e \in Epoch |-> Nobody]
        /\ pc = [w \in Write |-> "new"]
        /\ epoch = [w \in Write |-> 0]
        /\ applied = [w \in Write |-> 0]
        /\ replied = {}
        /\ ctl = [c \in Controller |-> "idle"]
        /\ target = [c \in Controller |-> 0]
-----------------------------------------------------------------------------
(* submitTrafficWrite takes twMu and looks: with no writer, or one that is *)
(* being stopped, the caller applies the write itself.                     *)
Submit(w) ==
    /\ pc[w] = "new"
    /\ twMu = Nobody
    /\ \/ /\ current = 0 \/ current \in cancelled
          /\ pc' = [pc EXCEPT ![w] = "inline"]
          /\ UNCHANGED <<twMu, epoch>>
       \/ /\ current # 0 /\ current \notin cancelled
          /\ twMu' = w
          /\ epoch' = [epoch EXCEPT ![w] = current]
          /\ pc' = [pc EXCEPT ![w] = "enqueue"]
    /\ UNCHANGED <<package, channels, goroutine, applied, replied, control>>

Enqueue(w) ==
    /\ pc[w] = "enqueue"
    /\ Len(queue[epoch[w]]) < QueueSize
    /\ queue' = [queue EXCEPT ![epoch[w]] = Append(@, w)]
    /\ twMu' = Nobody
    /\ pc' = [pc EXCEPT ![w] = "wait"]
    /\ UNCHANGED <<package, cancelled, closed, goroutine, epoch, applied, replied, control>>

(* The queue stayed full for trafficWriterSubmitTimeout.                   *)
QueueFull(w) ==
    /\ pc[w] = "enqueue"
    /\ Len(queue[epoch[w]]) = QueueSize
    /\ twMu' = Nobody
    /\ pc' = [pc EXCEPT ![w] = "full"]
    /\ UNCHANGED <<package, channels, goroutine, epoch, applied, replied, control>>

(* safeApply in the caller's goroutine; InlineReturn is its end.           *)
InlineApply(w) ==
    /\ pc[w] = "inline"
    /\ applied' = [applied EXCEPT ![w] = @ + 1]
    /\ pc' = [pc EXCEPT ![w] = "applying"]
    /\ UNCHANGED <<twMu, package, channels, goroutine, epoch, replied, control>>

InlineReturn(w) ==
    /\ pc[w] = "applying"
    /\ pc' = [pc EXCEPT ![w] = "ok"]
    /\ UNCHANGED <<twMu, package, channels, goroutine, epoch, applied, replied, control>>

(* Mutated: no second look at the result, and a second attempt.            *)
AwaitOneLook(w) ==
    /\ pc[w] = "wait"
    /\ \/ w \in replied /\ pc' = [pc EXCEPT ![w] = "ok"]
       \/ epoch[w] \in closed /\ pc' = [pc EXCEPT ![w] = "stopped"]
    /\ UNCHANGED <<twMu, package, channels, goroutine, epoch, applied, replied, control>>

(* The result, or, once the writer is gone, one more look for it.          *)
Await(w) ==
    /\ pc[w] = "wait"
    /\ \/ w \in replied /\ pc' = [pc EXCEPT ![w] = "ok"]
       \/ /\ epoch[w] \in closed /\ w \notin replied
          /\ pc' = [pc EXCEPT ![w] = "stopped"]
    /\ UNCHANGED <<twMu, package, channels, goroutine, epoch, applied, replied, control>>
-----------------------------------------------------------------------------
(* runTrafficWriter: the select takes a request or notices the cancelled   *)
(* context, either when both are ready ...                                 *)
Take(e) ==
    /\ writer[e] # "off" /\ applying[e] = Nobody
    /\ queue[e] # <<>>
    /\ applying' = [applying EXCEPT ![e] = Head(queue[e])]
    /\ queue' = [queue EXCEPT ![e] = Tail(@)]
    /\ UNCHANGED <<twMu, package, cancelled, closed, writer, caller, applied, replied, control>>

NoticeCancel(e) ==
    /\ writer[e] = "serving" /\ applying[e] = Nobody
    /\ e \in cancelled
    /\ writer' = [writer EXCEPT ![e] = "draining"]
    /\ UNCHANGED <<twMu, package, channels, applying, caller, applied, replied, control>>

ExitUnclosed(e) ==
    /\ writer[e] = "draining" /\ applying[e] = Nobody
    /\ queue[e] = <<>>
    /\ writer' = [writer EXCEPT ![e] = "off"]
    /\ UNCHANGED <<twMu, package, channels, applying, caller, applied, replied, control>>

(* ... and after it, drains until the queue is empty.                      *)
Exit(e) ==
    /\ writer[e] = "draining" /\ applying[e] = Nobody
    /\ queue[e] = <<>>
    /\ writer' = [writer EXCEPT ![e] = "off"]
    /\ closed' = closed \cup {e}
    /\ UNCHANGED <<twMu, package, queue, cancelled, applying, caller, applied, replied, control>>

(* Mutated: a panic is not recovered into a result.                        *)
ReplyLost(e) ==
    /\ applying[e] # Nobody
    /\ applying' = [applying EXCEPT ![e] = Nobody]
    /\ UNCHANGED <<twMu, package, channels, writer, caller, applied, replied, control>>

(* safeApply returns, with an error after a panic, and req.done has it.    *)
Reply(e) ==
    /\ applying[e] # Nobody
    /\ applied' = [applied EXCEPT ![applying[e]] = @ + 1]
    /\ replied' = replied \cup {applying[e]}
    /\ applying' = [applying EXCEPT ![e] = Nobody]
    /\ UNCHANGED <<twMu, package, channels, writer, caller, control>>
-----------------------------------------------------------------------------
(* StartTrafficWriter: nothing to do while a writer runs or drains.        *)
Spawn(e) ==
    /\ current' = e
    /\ starts' = e
    /\ writer' = [writer EXCEPT ![e] = "serving"]

Start(c) ==
    /\ ctl[c] \in {"idle", "started"}
    /\ twMu = Nobody
    /\ \/ /\ current # 0 /\ current \notin closed
          /\ UNCHANGED <<package, writer>>
       \/ /\ current = 0 \/ current \in closed
          /\ starts < MaxStarts
          /\ Spawn(starts + 1)
    /\ ctl' = [ctl EXCEPT ![c] = "started"]
    /\ UNCHANGED <<twMu, channels, applying, caller, applied, replied, target>>

(* StopTrafficWriter cancels under the mutex ...                           *)
Stop(c) ==
    /\ ctl[c] \in {"idle", "started"}
    /\ twMu = Nobody
    /\ \/ /\ current = 0
          /\ ctl' = [ctl EXCEPT ![c] = "idle"]
          /\ UNCHANGED <<cancelled, target>>
       \/ /\ current # 0
          /\ cancelled' = cancelled \cup {current}
          /\ target' = [target EXCEPT ![c] = current]
          /\ ctl' = [ctl EXCEPT ![c] = "waiting"]
    /\ UNCHANGED <<twMu, package, queue, closed, goroutine, caller, applied, replied>>

(* Mutated: it does not wait.                                              *)
WaitedNot(c) ==
    /\ ctl[c] = "waiting"
    /\ ctl' = [ctl EXCEPT ![c] = "clearing"]
    /\ UNCHANGED <<twMu, package, channels, goroutine, caller, applied, replied, target>>

(* ... waits for the goroutine without it ...                              *)
Waited(c) ==
    /\ ctl[c] = "waiting"
    /\ target[c] \in closed
    /\ ctl' = [ctl EXCEPT ![c] = "clearing"]
    /\ UNCHANGED <<twMu, package, channels, goroutine, caller, applied, replied, target>>

(* ... and clears the package state unless it is of another writer by now. *)
Clear(c) ==
    /\ ctl[c] = "clearing"
    /\ twMu = Nobody
    /\ current' = IF current = target[c] THEN 0 ELSE current
    /\ ctl' = [ctl EXCEPT ![c] = "idle"]
    /\ UNCHANGED <<twMu, starts, channels, goroutine, caller, applied, replied, target>>
-----------------------------------------------------------------------------
Call(w) == \/ Submit(w) \/ Enqueue(w) \/ QueueFull(w)
           \/ InlineApply(w) \/ InlineReturn(w) \/ Await(w)

Run(e) == Take(e) \/ NoticeCancel(e) \/ Exit(e) \/ Reply(e)

Finishing(c) == Waited(c) \/ Clear(c)

Next == \/ \E w \in Write : Call(w)
        \/ \E e \in Epoch : Run(e)
        \/ \E c \in Controller : Start(c) \/ Stop(c) \/ Finishing(c)

Spec == Init /\ [][Next]_vars

(* The scheduler runs every goroutine.  Weak fairness is enough for those  *)
(* that wait for twMu: each caller takes it once, so it is free for good in*)
(* the end.                                                                *)
FairSpec == /\ Spec
            /\ \A w \in Write : WF_vars(Call(w))
            /\ \A e \in Epoch : WF_vars(Run(e))
            /\ \A c \in Controller : WF_vars(Finishing(c))
-----------------------------------------------------------------------------
(* The types of the state, and the mutex: a caller holds it while it waits *)
(* for room in the queue, and only then.                                   *)
TypeOK ==
    /\ twMu \in Write \cup {Nobody}
    /\ \A w \in Write : pc[w] = "enqueue" <=> twMu = w
    /\ current \in 0..starts
    /\ starts \in 0..MaxStarts
    /\ queue \in [Epoch -> Seq(Write)]
    /\ cancelled \subseteq Epoch
    /\ closed \subseteq Epoch
    /\ writer \in [Epoch -> {"off", "serving", "draining"}]
    /\ applying \in [Epoch -> Write \cup {Nobody}]
    /\ pc \in [Write -> {"new", "enqueue", "wait", "inline", "applying",
                         "ok", "full", "stopped"}]
    /\ epoch \in [Write -> 0..MaxStarts]
    /\ applied \in [Write -> Nat]
    /\ replied \subseteq Write
    /\ ctl \in [Controller -> {"idle", "started", "waiting", "clearing"}]
    /\ target \in [Controller -> 0..MaxStarts]

(* At most one goroutine serves writes, whatever starts and stops overlap: *)
(* a new one is spawned only when the one before has closed its channel.   *)
OneWriter ==
    Cardinality({e \in Epoch : writer[e] # "off"}) <= 1

(* submitTrafficWrite returns (it "blocked forever on <-req.done", says    *)
(* traffic_writer.go:35, before each start had channels of its own), and   *)
(* the drain after a cancel (traffic_writer.go:99-107) strands nobody: no  *)
(* caller is told "traffic writer stopped before write completed".         *)
EveryWriteAnswered == \A w \in Write : <>(pc[w] \in {"ok", "full"})

(* So does StopTrafficWriter: the writer it waits for notices and ends.    *)
StopReturns == \A c \in Controller : ctl[c] = "waiting" ~> ctl[c] = "idle"

(* Each write is applied once, by the writer or by its caller and never by *)
(* both (a counter moved twice, traffic_writer.go:129-143), and the caller *)
(* is told the truth: the writer implements WriteService.                  *)
Fate(w) == IF applied[w] = 1 THEN "applied"
           ELSE IF applied[w] > 1 THEN "applied twice"
           ELSE IF pc[w] \in {"full", "stopped"} THEN "refused" ELSE "open"
Told(w) == IF pc[w] = "ok" THEN "ok"
           ELSE IF pc[w] \in {"full", "stopped"} THEN "error" ELSE "none"

fates   == [w \in Write |-> Fate(w)]
answers == [w \in Write |-> Told(w)]

Promise == INSTANCE WriteService WITH fate <- fates, answer <- answers
AppliedAndTold == Promise!Spec
=============================================================================
