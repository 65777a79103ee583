------------------------- MODULE TrafficWriterProofs -------------------------
(***************************************************************************)
(* Proofs about TrafficWriter for every set of callers and controllers,    *)
(* every length of the queue and every number of starts.  EpochInv ties the*)
(* package state to the goroutines and gives OneWriter.  With PlaceInv --  *)
(* a write that is not answered yet is in one place: its caller, its queue *)
(* or its goroutine -- it also gives the refinement of WriteService.       *)
(***************************************************************************)
EXTENDS TrafficWriter, SequenceTheorems, FiniteSetTheorems, TLAPS

Queued(w, e) == \E i \in 1..Len(queue[e]) : queue[e][i] = w

(* A goroutine that lives is the one of the package state; an epoch closes *)
(* cancelled, drained and idle, and only then does a stop clear it; a      *)
(* caller waits for room in the queue of an epoch nobody has cancelled.    *)
EpochInv ==
    /\ cancelled \subseteq 1..starts
    /\ closed \subseteq cancelled
    /\ \A e \in Epoch :
          /\ writer[e] # "off" => e = current /\ e \notin closed
          /\ writer[e] = "draining" => e \in cancelled
          /\ e \in closed => queue[e] = <<>> /\ applying[e] = Nobody
    /\ \A c \in Controller : ctl[c] = "clearing" => target[c] \in closed
    /\ \A w \in Write : pc[w] = "enqueue" => epoch[w] \in Epoch \ cancelled

(* A write in a queue or in a goroutine waits for it, and has no result.   *)
PlaceInv ==
    \A e \in Epoch :
        /\ \A w \in Write :
              Queued(w, e) \/ applying[e] = w =>
                 pc[w] = "wait" /\ epoch[w] = e /\ w \notin replied /\ applied[w] = 0
        /\ \A i, j \in 1..Len(queue[e]) : queue[e][i] = queue[e][j] => i = j
        /\ \A i \in 1..Len(queue[e]) : queue[e][i] # applying[e]

(* A caller that waits is waited for, or has its result.                   *)
WaitInv ==
    \A w \in Write : pc[w] = "wait" =>
        /\ epoch[w] \in Epoch
        /\ \/ w \in replied /\ applied[w] = 1
           \/ Queued(w, epoch[w])
           \/ applying[epoch[w]] = w

CountInv ==
    \A w \in Write :
        /\ pc[w] \in {"new", "enqueue", "inline", "full"} => applied[w] = 0 /\ w \notin replied
        /\ pc[w] \in {"applying", "ok"} => applied[w] = 1
        /\ pc[w] # "stopped"

TWInv == TypeOK /\ EpochInv /\ PlaceInv /\ WaitInv /\ CountInv

-----------------------------------------------------------------------------
(* What appending a write to a queue, and taking one, does to it.          *)
LEMMA AppendQueue ==
    ASSUME NEW s \in Seq(Write), NEW w \in Write
    PROVE  /\ Append(s, w) \in Seq(Write)
           /\ Len(s) \in Nat
           /\ Len(Append(s, w)) = Len(s) + 1
           /\ \A i \in 1..Len(s) : Append(s, w)[i] = s[i]
           /\ Append(s, w)[Len(s) + 1] = w
  BY AppendProperties, LenProperties

LEMMA TakeQueue ==
    ASSUME NEW s \in Seq(Write), s # <<>>
    PROVE  /\ Tail(s) \in Seq(Write)
           /\ Len(s) \in Nat \ {0}
           /\ Head(s) = s[1] /\ Head(s) \in Write
           /\ Len(Tail(s)) = Len(s) - 1
           /\ \A i \in 1..(Len(s) - 1) : Tail(s)[i] = s[i + 1]
  <1>1. Len(s) \in Nat \ {0}
    BY EmptySeq, LenProperties
  <1>2. QED
    BY <1>1, HeadTailProperties, ElementOfSeq

LEMMA InitWriter == Init => TWInv
  <1> SUFFICES ASSUME Init
               PROVE  TWInv
    OBVIOUS
  <1>1. TypeOK
    BY TrafficWriterAssumption, EmptySeq DEF Init, TypeOK
  <1>2. \A e \in Epoch : 1..Len(queue[e]) = {}
    BY EmptySeq DEF Init
  <1>3. EpochInv
    BY DEF Init, EpochInv
  <1>4. PlaceInv
    BY <1>2, TrafficWriterAssumption DEF Init, PlaceInv, Queued
  <1>5. WaitInv /\ CountInv
    BY DEF Init, WaitInv, CountInv
  <1>6. QED
    BY <1>1, <1>3, <1>4, <1>5 DEF TWInv

-----------------------------------------------------------------------------
(* A caller that stops waiting has its result: nobody is told that the     *)
(* writer stopped.                                                         *)
LEMMA AwaitAnswered ==
    ASSUME TWInv, NEW w \in Write, Await(w)
    PROVE  /\ w \in replied /\ applied[w] = 1
           /\ \A e \in Epoch : ~Queued(w, e) /\ applying[e] # w
           /\ pc' = [pc EXCEPT ![w] = "ok"]
  <1> USE DEF TWInv
  <1>1. PICK e \in Epoch : /\ e = epoch[w]
                           /\ \/ w \in replied /\ applied[w] = 1
                              \/ Queued(w, e)
                              \/ applying[e] = w
    BY DEF WaitInv, Await
  <1>2. e \in closed => w \in replied
    <2> SUFFICES ASSUME e \in closed
                 PROVE  w \in replied
      OBVIOUS
    <2>1. queue[e] = <<>> /\ applying[e] = Nobody
      BY DEF EpochInv
    <2>2. ~Queued(w, e)
      <3>1. Len(queue[e]) = 0
        BY <2>1, EmptySeq
      <3>2. QED
        BY <3>1 DEF Queued
    <2>3. QED
      BY <1>1, <2>1, <2>2, TrafficWriterAssumption
  <1>3. w \in replied /\ pc' = [pc EXCEPT ![w] = "ok"]
    BY <1>1, <1>2 DEF Await
  <1>4. QED
    BY <1>1, <1>3 DEF PlaceInv

(* A caller's steps that move nothing but the caller.                      *)
LEMMA CallerKeeps ==
    ASSUME TWInv, NEW w \in Write,
           Submit(w) \/ QueueFull(w) \/ InlineApply(w) \/ InlineReturn(w) \/ Await(w)
    PROVE  TWInv'
  <1> USE DEF TWInv
  <1>0. /\ pc \in [Write -> {"new", "enqueue", "wait", "inline", "applying",
                              "ok", "full", "stopped"}]
        /\ epoch \in [Write -> 0..MaxStarts] /\ applied \in [Write -> Nat]
        /\ twMu \in Write \cup {Nobody} /\ \A v \in Write : pc[v] = "enqueue" <=> twMu = v
        /\ current \in 0..starts /\ starts \in 0..MaxStarts /\ Nobody \notin Write
    BY TrafficWriterAssumption DEF TypeOK
  <1>1. /\ UNCHANGED <<current, starts, queue, cancelled, closed, writer, applying, replied,
                       ctl, target>>
        /\ \A v \in Write : v # w => /\ pc'[v] = pc[v] /\ epoch'[v] = epoch[v]
                                     /\ applied'[v] = applied[v]
    BY DEF Submit, QueueFull, InlineApply, InlineReturn, Await, package, channels, goroutine,
           caller, control, TypeOK
  <1>2. pc[w] = "wait" => w \in replied /\ applied[w] = 1 /\ pc'[w] = "ok" /\ applied' = applied
    BY <1>0, AwaitAnswered DEF Submit, QueueFull, InlineApply, InlineReturn, Await
  <1>3. TypeOK'
    <2> DEFINE Moved == /\ twMu' \in Write \cup {Nobody}
                        /\ \A v \in Write : pc'[v] = "enqueue" <=> twMu' = v
                        /\ pc' \in [Write -> {"new", "enqueue", "wait", "inline", "applying",
                                              "ok", "full", "stopped"}]
                        /\ epoch' \in [Write -> 0..MaxStarts]
                        /\ applied' \in [Write -> Nat]
    <2>1. ASSUME Submit(w) PROVE Moved
      <3>1. current \in 0..MaxStarts
        BY <1>0, TrafficWriterAssumption
      <3>2. QED
        BY <1>0, <2>1, <3>1 DEF Submit
    <2>2. ASSUME QueueFull(w) PROVE Moved
      BY <1>0, <2>2 DEF QueueFull
    <2>3. ASSUME InlineApply(w) PROVE Moved
      BY <1>0, <2>3 DEF InlineApply
    <2>4. ASSUME InlineReturn(w) PROVE Moved
      BY <1>0, <2>4 DEF InlineReturn
    <2>5. ASSUME Await(w) PROVE Moved
      BY <1>0, <2>5, AwaitAnswered DEF Await
    <2>6. Moved
      BY <2>1, <2>2, <2>3, <2>4, <2>5
    <2>7. QED
      BY <1>1, <2>6 DEF TypeOK
  <1>4. pc'[w] = "enqueue" => epoch'[w] \in Epoch \ cancelled
    BY TrafficWriterAssumption
    DEF Submit, QueueFull, InlineApply, InlineReturn, Await, TypeOK, Epoch
  <1>5. EpochInv'
    BY <1>1, <1>4 DEF EpochInv
  <1>6. \A e \in Epoch : (~Queued(w, e) /\ applying[e] # w) \/ w \in replied
    BY <1>2 DEF PlaceInv, CountInv, Submit, QueueFull, InlineApply, InlineReturn
  <1>7. PlaceInv'
    <2>1. \A e \in Epoch : ~Queued(w, e) /\ applying[e] # w
      BY <1>6 DEF PlaceInv
    <2>2. \A e \in Epoch, v \in Write : Queued(v, e)' <=> Queued(v, e)
      BY <1>1 DEF Queued
    <2>3. QED
      BY <1>1, <2>1, <2>2 DEF PlaceInv
  <1>8. WaitInv'
    <2>1. pc'[w] # "wait"
      BY <1>2 DEF Submit, QueueFull, InlineApply, InlineReturn, Await, TypeOK
    <2>2. \A e \in Epoch, v \in Write : Queued(v, e)' <=> Queued(v, e)
      BY <1>1 DEF Queued
    <2>3. QED
      BY <1>1, <2>1, <2>2 DEF WaitInv
  <1>9. CountInv'
    <2>1. /\ pc'[w] \in {"enqueue", "inline", "full"} => applied'[w] = 0 /\ w \notin replied
          /\ pc'[w] \in {"applying", "ok"} => applied'[w] = 1
          /\ pc'[w] \in {"enqueue", "inline", "full", "applying", "ok"}
      BY <1>2 DEF Submit, QueueFull, InlineApply, InlineReturn, Await, caller, TypeOK, CountInv,
                  WaitInv, PlaceInv
    <2>2. QED
      BY <1>1, <2>1 DEF CountInv
  <1>10. QED
    BY <1>3, <1>5, <1>7, <1>8, <1>9

LEMMA EnqueueKeeps ==
    ASSUME TWInv, NEW w \in Write, Enqueue(w)
    PROVE  TWInv'
  <1> USE DEF TWInv
  <1>. PICK e \in Epoch : e = epoch[w]
    BY DEF Enqueue, EpochInv
  <1>1. /\ e \notin cancelled /\ pc[w] = "enqueue"
        /\ applied[w] = 0 /\ w \notin replied
        /\ queue \in [Epoch -> Seq(Write)] /\ queue[e] \in Seq(Write)
    BY DEF Enqueue, EpochInv, CountInv, TypeOK
  <1>. PICK n \in Nat : n = Len(queue[e])
    BY <1>1, LenProperties
  <1>2. /\ UNCHANGED <<current, starts, cancelled, closed, writer, applying, epoch, applied,
                       replied, ctl, target>>
        /\ twMu' = Nobody
        /\ pc' = [pc EXCEPT ![w] = "wait"]
        /\ queue' = [queue EXCEPT ![e] = Append(@, w)]
    BY DEF Enqueue, package, goroutine, control
  <1>3. /\ queue'[e] = Append(queue[e], w) /\ \A d \in Epoch : d # e => queue'[d] = queue[d]
        /\ queue'[e] \in Seq(Write)
        /\ Len(queue'[e]) = n + 1
        /\ \A i \in 1..n : queue'[e][i] = queue[e][i]
        /\ queue'[e][n + 1] = w
    BY <1>1, <1>2, AppendQueue
  <1>4. /\ pc'[w] = "wait" /\ \A v \in Write : v # w => pc'[v] = pc[v]
        /\ \A v \in Write : pc'[v] # "enqueue"
    BY <1>1, <1>2 DEF TypeOK
  <1>5. TypeOK'
    <2>1. queue' \in [Epoch -> Seq(Write)]
      BY <1>1, <1>2, <1>3
    <2>2. \A v \in Write : pc'[v] = "enqueue" <=> twMu' = v
      BY <1>2, <1>4, TrafficWriterAssumption
    <2>3. QED
      BY <1>2, <2>1, <2>2 DEF TypeOK
  <1>6. EpochInv'
    <2>1. \A d \in Epoch : d \in closed => queue'[d] = <<>> /\ applying'[d] = Nobody
      BY <1>1, <1>2, <1>3 DEF EpochInv
    <2>2. QED
      BY <1>2, <1>4, <2>1 DEF EpochInv
  <1>7. \A d \in Epoch : ~Queued(w, d) /\ applying[d] # w
    BY <1>1 DEF PlaceInv
  <1>8. \A v \in Write, d \in Epoch : Queued(v, d)' <=> Queued(v, d) \/ (v = w /\ d = e)
    <2>1. \A v \in Write : Queued(v, e)' <=> Queued(v, e) \/ v = w
      <3>1. \A i : i \in 1..(n + 1) <=> i \in 1..n \/ i = n + 1
        OBVIOUS
      <3>2. QED
        BY <1>3, <3>1 DEF Queued
    <2>2. \A v \in Write, d \in Epoch : d # e => (Queued(v, d)' <=> Queued(v, d))
      BY <1>3 DEF Queued
    <2>3. QED
      BY <2>1, <2>2
  <1>9. PlaceInv'
    <2>1. ASSUME NEW d \in Epoch, NEW v \in Write, Queued(v, d)' \/ applying'[d] = v
          PROVE  pc'[v] = "wait" /\ epoch'[v] = d /\ v \notin replied' /\ applied'[v] = 0
      BY <1>1, <1>2, <1>4, <1>7, <1>8, <2>1 DEF PlaceInv
    <2>2. /\ \A i, j \in 1..Len(queue'[e]) : queue'[e][i] = queue'[e][j] => i = j
          /\ \A i \in 1..Len(queue'[e]) : queue'[e][i] # applying'[e]
      <3>1. \A i \in 1..n : queue[e][i] # w
        BY <1>1, <1>7 DEF Queued
      <3>2. \A i \in 1..(n + 1) : i \in 1..n \/ i = n + 1
        OBVIOUS
      <3>3. QED
        BY <1>1, <1>2, <1>3, <1>7, <3>1, <3>2 DEF PlaceInv
    <2>3. ASSUME NEW d \in Epoch, d # e
          PROVE  /\ \A i, j \in 1..Len(queue'[d]) : queue'[d][i] = queue'[d][j] => i = j
                 /\ \A i \in 1..Len(queue'[d]) : queue'[d][i] # applying'[d]
      <3>1. queue'[d] = queue[d] /\ applying'[d] = applying[d]
        BY <1>2, <1>3, <2>3
      <3>2. QED
        BY <3>1 DEF PlaceInv
    <2>4. QED
      BY <2>1, <2>2, <2>3 DEF PlaceInv
  <1>10. WaitInv'
    BY <1>1, <1>2, <1>4, <1>8 DEF WaitInv
  <1>11. CountInv'
    BY <1>2, <1>4 DEF CountInv
  <1>12. QED
    BY <1>5, <1>6, <1>9, <1>10, <1>11

-----------------------------------------------------------------------------
LEMMA TakeKeeps ==
    ASSUME TWInv, NEW e \in Epoch, Take(e)
    PROVE  TWInv'
  <1> USE DEF TWInv
  <1>1. /\ UNCHANGED <<twMu, current, starts, cancelled, closed, writer, pc, epoch, applied,
                       replied, ctl, target>>
        /\ applying' = [applying EXCEPT ![e] = Head(queue[e])]
        /\ queue' = [queue EXCEPT ![e] = Tail(queue[e])]
        /\ queue[e] # <<>> /\ applying[e] = Nobody /\ writer[e] # "off"
    BY DEF Take, package, caller, control
  <1>2. /\ queue \in [Epoch -> Seq(Write)] /\ applying \in [Epoch -> Write \cup {Nobody}]
        /\ queue[e] \in Seq(Write)
    BY DEF TypeOK
  <1>. PICK n \in Nat \ {0} : n = Len(queue[e])
    BY <1>1, <1>2, TakeQueue
  <1>3. /\ queue'[e] \in Seq(Write)
        /\ Len(queue'[e]) = n - 1
        /\ \A i \in 1..(n - 1) : queue'[e][i] = queue[e][i + 1]
        /\ applying'[e] = queue[e][1] /\ applying'[e] \in Write
        /\ \A d \in Epoch : d # e => queue'[d] = queue[d] /\ applying'[d] = applying[d]
    BY <1>1, <1>2, TakeQueue
  <1>4. TypeOK'
    <2>1. queue' \in [Epoch -> Seq(Write)] /\ applying' \in [Epoch -> Write \cup {Nobody}]
      BY <1>1, <1>2, <1>3
    <2>2. QED
      BY <1>1, <2>1 DEF TypeOK
  <1>5. EpochInv'
    BY <1>1, <1>3 DEF EpochInv
  <1>6. \A v \in Write : Queued(v, e)' \/ applying'[e] = v <=> Queued(v, e)
    <2>1. \A i \in 1..n : i = 1 \/ (i - 1 \in 1..(n - 1) /\ queue[e][i] = queue'[e][i - 1])
      BY <1>3
    <2>2. 1 \in 1..n /\ \A i \in 1..(n - 1) : i + 1 \in 1..n
      OBVIOUS
    <2>3. ASSUME NEW v \in Write, Queued(v, e)
          PROVE  Queued(v, e)' \/ applying'[e] = v
      <3>1. PICK i \in 1..n : queue[e][i] = v
        BY <2>3 DEF Queued
      <3>2. i = 1 \/ (i - 1 \in 1..(n - 1) /\ queue'[e][i - 1] = v)
        BY <2>1, <3>1
      <3>3. QED
        BY <1>3, <3>1, <3>2 DEF Queued
    <2>4. ASSUME NEW v \in Write, Queued(v, e)' \/ applying'[e] = v
          PROVE  Queued(v, e)
      <3>1. ASSUME Queued(v, e)'
            PROVE  Queued(v, e)
        <4>1. PICK i \in 1..(n - 1) : queue'[e][i] = v
          BY <1>3, <3>1 DEF Queued
        <4>2. i + 1 \in 1..n /\ queue[e][i + 1] = v
          BY <1>3, <2>2, <4>1
        <4>3. QED
          BY <4>2 DEF Queued
      <3>2. ASSUME applying'[e] = v
            PROVE  Queued(v, e)
        BY <1>3, <2>2, <3>2 DEF Queued
      <3>3. QED
        BY <2>4, <3>1, <3>2
    <2>5. QED
      BY <2>3, <2>4
  <1>7. \A v \in Write, d \in Epoch : d # e => (Queued(v, d)' <=> Queued(v, d))
    BY <1>3 DEF Queued
  <1>8. PlaceInv'
    <2>1. ASSUME NEW d \in Epoch, NEW v \in Write, Queued(v, d)' \/ applying'[d] = v
          PROVE  pc'[v] = "wait" /\ epoch'[v] = d /\ v \notin replied' /\ applied'[v] = 0
      BY <1>1, <1>3, <1>6, <1>7, <2>1 DEF PlaceInv
    <2>2. /\ \A i, j \in 1..Len(queue'[e]) : queue'[e][i] = queue'[e][j] => i = j
          /\ \A i \in 1..Len(queue'[e]) : queue'[e][i] # applying'[e]
      <3>1. \A i, j \in 1..n : queue[e][i] = queue[e][j] => i = j
        BY DEF PlaceInv
      <3>2. 1 \in 1..n /\ \A i \in 1..(n - 1) : i + 1 \in 1..n /\ i + 1 # 1
        OBVIOUS
      <3>3. ASSUME NEW i \in 1..(n - 1), NEW j \in 1..(n - 1), queue'[e][i] = queue'[e][j]
            PROVE  i = j
        <4>1. i + 1 = j + 1
          BY <1>3, <3>1, <3>2, <3>3
        <4>2. QED
          BY <4>1
      <3>4. ASSUME NEW i \in 1..(n - 1), queue'[e][i] = applying'[e]
            PROVE  FALSE
        BY <1>3, <3>1, <3>2, <3>4
      <3>5. QED
        BY <1>3, <3>3, <3>4
    <2>3. ASSUME NEW d \in Epoch, d # e
          PROVE  /\ \A i, j \in 1..Len(queue'[d]) : queue'[d][i] = queue'[d][j] => i = j
                 /\ \A i \in 1..Len(queue'[d]) : queue'[d][i] # applying'[d]
      <3>1. queue'[d] = queue[d] /\ applying'[d] = applying[d]
        BY <1>3, <2>3
      <3>2. QED
        BY <3>1 DEF PlaceInv
    <2>4. QED
      BY <2>1, <2>2, <2>3 DEF PlaceInv
  <1>9. WaitInv'
    <2>1. \A v \in Write : applying[e] # v
      BY <1>1, TrafficWriterAssumption
    <2>2. QED
      BY <1>1, <1>3, <1>6, <1>7, <2>1 DEF WaitInv
  <1>10. CountInv'
    BY <1>1 DEF CountInv
  <1>11. QED
    BY <1>4, <1>5, <1>8, <1>9, <1>10

LEMMA ReplyKeeps ==
    ASSUME TWInv, NEW e \in Epoch, Reply(e)
    PROVE  TWInv'
  <1> USE DEF TWInv
  <1>. PICK w \in Write : w = applying[e]
    BY DEF Reply, TypeOK
  <1>1. /\ UNCHANGED <<twMu, current, starts, queue, cancelled, closed, writer, pc, epoch,
                       ctl, target>>
        /\ applied' = [applied EXCEPT ![w] = @ + 1]
        /\ replied' = replied \cup {w}
        /\ applying' = [applying EXCEPT ![e] = Nobody]
    BY DEF Reply, package, channels, caller, control
  <1>2. pc[w] = "wait" /\ epoch[w] = e /\ applied[w] = 0
    BY <1>1 DEF PlaceInv
  <1>3. /\ applied'[w] = 1 /\ \A v \in Write : v # w => applied'[v] = applied[v]
        /\ applied' \in [Write -> Nat]
        /\ applying' \in [Epoch -> Write \cup {Nobody}]
        /\ applying'[e] = Nobody /\ \A d \in Epoch : d # e => applying'[d] = applying[d]
    BY <1>1, <1>2 DEF TypeOK
  <1>4. TypeOK'
    BY <1>1, <1>3 DEF TypeOK
  <1>5. EpochInv'
    BY <1>1, <1>3 DEF EpochInv
  <1>6. \A v \in Write, d \in Epoch : Queued(v, d)' <=> Queued(v, d)
    BY <1>1 DEF Queued
  <1>7. \A d \in Epoch : ~Queued(w, d) /\ (d # e => applying[d] # w)
    <2>1. ~Queued(w, e)
      BY DEF PlaceInv, Queued
    <2>2. \A d \in Epoch : d # e => ~Queued(w, d) /\ applying[d] # w
      BY <1>1, <1>2 DEF PlaceInv
    <2>3. QED
      BY <2>1, <2>2
  <1>8. PlaceInv'
    <2>1. ASSUME NEW d \in Epoch, NEW v \in Write, Queued(v, d)' \/ applying'[d] = v
          PROVE  pc'[v] = "wait" /\ epoch'[v] = d /\ v \notin replied' /\ applied'[v] = 0
      <3>1. v # w /\ (Queued(v, d) \/ applying[d] = v)
        BY <1>3, <1>6, <1>7, <2>1, TrafficWriterAssumption
      <3>2. QED
        BY <1>1, <1>3, <3>1 DEF PlaceInv
    <2>2. \A d \in Epoch :
             /\ \A i, j \in 1..Len(queue'[d]) : queue'[d][i] = queue'[d][j] => i = j
             /\ \A i \in 1..Len(queue'[d]) : queue'[d][i] # applying'[d]
      <3>1. \A d \in Epoch : \A i \in 1..Len(queue[d]) : queue[d][i] \in Write
        BY ElementOfSeq DEF TypeOK
      <3>2. QED
        BY <1>1, <1>3, <3>1, TrafficWriterAssumption DEF PlaceInv
    <2>3. QED
      BY <2>1, <2>2 DEF PlaceInv
  <1>9. WaitInv'
    <2>1. ASSUME NEW v \in Write, pc[v] = "wait"
          PROVE  /\ epoch'[v] \in Epoch
                 /\ \/ v \in replied' /\ applied'[v] = 1
                    \/ Queued(v, epoch[v])
                    \/ applying'[epoch[v]] = v
      <3>1. CASE v = w
        BY <1>1, <1>2, <1>3, <3>1
      <3>2. CASE v # w
        BY <1>1, <1>3, <2>1, <3>2 DEF WaitInv
      <3>3. QED
        BY <3>1, <3>2
    <2>2. QED
      BY <1>1, <1>6, <2>1 DEF WaitInv
  <1>10. CountInv'
    BY <1>1, <1>2, <1>3 DEF CountInv
  <1>11. QED
    BY <1>4, <1>5, <1>8, <1>9, <1>10

-----------------------------------------------------------------------------
(* The steps that touch no write: the goroutine's life and the controllers.*)
LEMMA ControlKeeps ==
    ASSUME TWInv,
           \/ \E e \in Epoch : NoticeCancel(e) \/ Exit(e)
           \/ \E c \in Controller : Start(c) \/ Stop(c) \/ Finishing(c)
           \/ UNCHANGED vars
    PROVE  TWInv'
  <1> USE DEF TWInv
  <1>1. UNCHANGED <<twMu, queue, applying, pc, epoch, applied, replied>>
    BY DEF NoticeCancel, Exit, Start, Stop, Finishing, Waited, Clear, channels, goroutine,
           caller, vars
  <1>2. PlaceInv' /\ WaitInv' /\ CountInv'
    <2>1. \A v \in Write, d \in Epoch : Queued(v, d)' <=> Queued(v, d)
      BY <1>1 DEF Queued
    <2>2. QED
      BY <1>1, <2>1 DEF PlaceInv, WaitInv, CountInv
  <1>3. ASSUME NEW e \in Epoch, NoticeCancel(e)
        PROVE  TypeOK' /\ EpochInv'
    BY <1>1, <1>3 DEF NoticeCancel, package, channels, control, TypeOK, EpochInv
  <1>4. ASSUME NEW e \in Epoch, Exit(e)
        PROVE  TypeOK' /\ EpochInv'
    <2>1. /\ UNCHANGED <<current, starts, cancelled, ctl, target>>
          /\ writer[e] = "draining" /\ applying[e] = Nobody /\ queue[e] = <<>>
          /\ closed' = closed \cup {e}
      BY <1>4 DEF Exit, package, control
    <2>2. /\ writer' \in [Epoch -> {"off", "serving", "draining"}]
          /\ writer'[e] = "off" /\ \A d \in Epoch : d # e => writer'[d] = writer[d]
      BY <1>4 DEF Exit, TypeOK
    <2>3. TypeOK'
      <3>1. closed' \subseteq Epoch
        BY <2>1 DEF TypeOK
      <3>2. QED
        BY <1>1, <2>1, <2>2, <3>1 DEF TypeOK
    <2>4. EpochInv'
      <3>1. closed' \subseteq cancelled
        BY <2>1, <2>2 DEF TypeOK, EpochInv
      <3>2. QED
        BY <1>1, <2>1, <2>2, <3>1 DEF EpochInv
    <2>5. QED
      BY <2>3, <2>4
  <1>5. ASSUME NEW c \in Controller, Start(c)
        PROVE  TypeOK' /\ EpochInv'
    <2>1. /\ UNCHANGED <<cancelled, closed, target>>
          /\ ctl' = [ctl EXCEPT ![c] = "started"]
      BY <1>5 DEF Start, channels
    <2>2. CASE UNCHANGED <<current, starts, writer>>
      BY <1>1, <2>1, <2>2 DEF TypeOK, EpochInv
    <2>3. CASE (current = 0 \/ current \in closed) /\ starts < MaxStarts /\ Spawn(starts + 1)
      <3>1. starts + 1 \in Epoch /\ starts \in Nat /\ starts + 1 \notin cancelled
        BY <2>3, TrafficWriterAssumption DEF TypeOK, EpochInv, Epoch
      <3>2. \A e \in Epoch : writer[e] = "off"
        BY <2>3 DEF EpochInv, TypeOK, Epoch
      <3>3. /\ writer' \in [Epoch -> {"off", "serving", "draining"}]
            /\ writer'[starts + 1] = "serving"
            /\ \A e \in Epoch : e # starts + 1 => writer'[e] = "off"
            /\ current' = starts + 1 /\ starts' = starts + 1
        BY <2>3, <3>1, <3>2 DEF Spawn, TypeOK
      <3>4. TypeOK'
        <4>1. starts' \in 0..MaxStarts /\ current' \in 0..starts'
          BY <2>3, <3>1, <3>3, TrafficWriterAssumption
        <4>2. ctl' \in [Controller -> {"idle", "started", "waiting", "clearing"}]
          BY <2>1 DEF TypeOK
        <4>3. QED
          BY <1>1, <2>1, <3>3, <4>1, <4>2 DEF TypeOK
      <3>5. EpochInv'
        BY <1>1, <2>1, <3>1, <3>3 DEF EpochInv, TypeOK
      <3>6. QED
        BY <3>4, <3>5
    <2>4. QED
      BY <1>5, <2>2, <2>3 DEF Start, package
  <1>6. ASSUME NEW c \in Controller, Stop(c)
        PROVE  TypeOK' /\ EpochInv'
    <2>1. /\ UNCHANGED <<current, starts, writer, closed>>
          /\ ctl' \in [Controller -> {"idle", "started", "waiting", "clearing"}]
          /\ target' \in [Controller -> 0..MaxStarts]
          /\ \A d \in Controller : ctl'[d] = "clearing" =>
                ctl[d] = "clearing" /\ target'[d] = target[d]
          /\ cancelled' = cancelled \/ (current # 0 /\ cancelled' = cancelled \cup {current})
          /\ \A v \in Write : pc[v] # "enqueue"
      <3>1. /\ ctl \in [Controller -> {"idle", "started", "waiting", "clearing"}]
            /\ target \in [Controller -> 0..MaxStarts] /\ current \in 0..MaxStarts
            /\ \A v \in Write : pc[v] = "enqueue" <=> twMu = v
        BY TrafficWriterAssumption DEF TypeOK
      <3>2. /\ UNCHANGED <<current, starts, writer, closed>>
            /\ \A v \in Write : pc[v] # "enqueue"
            /\ cancelled' = cancelled \/ (current # 0 /\ cancelled' = cancelled \cup {current})
        BY <1>6, <3>1, TrafficWriterAssumption DEF Stop, package, goroutine
      <3>3. PICK now \in {"idle", "waiting"} : ctl' = [ctl EXCEPT ![c] = now]
        BY <1>6 DEF Stop
      <3>4. /\ ctl' \in [Controller -> {"idle", "started", "waiting", "clearing"}]
            /\ \A d \in Controller : ctl'[d] = "clearing" => ctl[d] = "clearing" /\ d # c
        BY <3>1, <3>3
      <3>5. target' = target \/ target' = [target EXCEPT ![c] = current]
        BY <1>6 DEF Stop
      <3>6. /\ target' \in [Controller -> 0..MaxStarts]
            /\ \A d \in Controller : d # c => target'[d] = target[d]
        BY <3>1, <3>5
      <3>7. QED
        BY <3>2, <3>4, <3>6
    <2>2. current # 0 => current \in 1..starts /\ current \in Epoch
      BY TrafficWriterAssumption DEF TypeOK, Epoch
    <2>3. TypeOK'
      BY <1>1, <2>1, <2>2 DEF TypeOK
    <2>4. EpochInv'
      BY <1>1, <2>1, <2>2 DEF EpochInv
    <2>5. QED
      BY <2>3, <2>4
  <1>7. ASSUME NEW c \in Controller, Finishing(c)
        PROVE  TypeOK' /\ EpochInv'
    <2>1. /\ UNCHANGED <<starts, writer, cancelled, closed, target>>
          /\ ctl' \in [Controller -> {"idle", "started", "waiting", "clearing"}]
          /\ \A d \in Controller : ctl'[d] = "clearing" => target[d] \in closed
          /\ current' = current \/ (current' = 0 /\ current \in closed)
      <3>1. /\ ctl \in [Controller -> {"idle", "started", "waiting", "clearing"}]
            /\ \A d \in Controller : ctl[d] = "clearing" => target[d] \in closed
        BY DEF TypeOK, EpochInv
      <3>2. CASE Waited(c)
        BY <3>1, <3>2 DEF Waited, package, channels, goroutine
      <3>3. CASE Clear(c)
        BY <3>1, <3>3 DEF Clear, channels, goroutine
      <3>4. QED
        BY <1>7, <3>2, <3>3 DEF Finishing
    <2>2. TypeOK'
      BY <1>1, <2>1 DEF TypeOK
    <2>3. EpochInv'
      BY <1>1, <2>1 DEF EpochInv
    <2>4. QED
      BY <2>2, <2>3
  <1>8. CASE UNCHANGED vars
    <2>1. /\ UNCHANGED <<current, starts, cancelled>>
          /\ UNCHANGED <<closed, writer, ctl, target>>
      BY <1>8 DEF vars
    <2>2. TypeOK'
      BY <1>1, <2>1 DEF TypeOK
    <2>3. EpochInv'
      BY <1>1, <2>1 DEF EpochInv
    <2>4. QED
      BY <1>2, <2>2, <2>3
  <1>9. QED
    BY <1>2, <1>3, <1>4, <1>5, <1>6, <1>7, <1>8

-----------------------------------------------------------------------------
(* The invariant OneWriter and the refinement rest on.                     *)
THEOREM WriterInvariance == Spec => []TWInv
  <1>1. TWInv /\ [Next]_vars => TWInv'
    BY CallerKeeps, EnqueueKeeps, TakeKeeps, ReplyKeeps, ControlKeeps DEF Next, Call, Run
  <1>2. QED
    BY <1>1, InitWriter, PTL DEF Spec

(* StartTrafficWriter spawns a goroutine only when the one before has      *)
(* closed its channel (traffic_writer.go:38-56): whatever starts and stops *)
(* overlap, at most one goroutine serves writes.                           *)
THEOREM AtMostOneWriter == Spec => []OneWriter
  <1>1. TWInv => OneWriter
    <2> SUFFICES ASSUME TWInv
                 PROVE  OneWriter
      OBVIOUS
    <2> DEFINE S == {e \in Epoch : writer[e] # "off"}
    <2>1. S = {} \/ S = {current}
      BY DEF TWInv, EpochInv
    <2>2. Cardinality(S) = 0 \/ Cardinality(S) = 1
      BY <2>1, FS_EmptySet, FS_Singleton
    <2>3. QED
      BY <2>2 DEF OneWriter
  <1>2. QED
    BY <1>1, WriterInvariance, PTL

-----------------------------------------------------------------------------
(* What became of a write and what its caller was told, by its step.       *)
LEMMA FateByStep ==
    ASSUME TWInv, NEW w \in Write
    PROVE  /\ applied[w] = 1 => Fate(w) = "applied"
           /\ applied[w] = 0 /\ pc[w] # "full" => Fate(w) = "open"
           /\ applied[w] = 0 /\ pc[w] = "full" => Fate(w) = "refused"
           /\ pc[w] = "ok" => Told(w) = "ok"
           /\ pc[w] = "full" => Told(w) = "error"
           /\ pc[w] \notin {"ok", "full"} => Told(w) = "none"
           /\ applied[w] \in {0, 1}
  <1>1. pc[w] # "stopped"
    BY DEF TWInv, CountInv
  <1>2. applied[w] \in {0, 1}
    BY DEF TWInv, TypeOK, CountInv, WaitInv, PlaceInv
  <1>3. QED
    BY <1>1, <1>2 DEF Fate, Told

(* One write moves as WriteService lets it, the others stay.               *)
LEMMA OneWriteMoves ==
    ASSUME NEW w \in Write,
           \A v \in Write : v # w => Fate(v)' = Fate(v) /\ Told(v)' = Told(v),
           \/ Fate(w)' = Fate(w) /\ Told(w)' = Told(w)
           \/ Fate(w) = "open" /\ Fate(w)' = "applied" /\ Told(w)' = Told(w)
           \/ Fate(w) = "open" /\ Fate(w)' = "refused" /\ Told(w)' = "error"
           \/ /\ Fate(w) = "applied" /\ Fate(w)' = Fate(w)
              /\ Told(w) = "none" /\ Told(w)' = "ok"
    PROVE  \/ Promise!Next
           \/ UNCHANGED <<fates, answers>>
  BY DEF fates, answers, Promise!Next, Promise!Apply, Promise!Refuse, Promise!Confirm

LEMMA StepKeepsPromise ==
    ASSUME TWInv, TWInv', [Next]_vars
    PROVE  \/ Promise!Next
           \/ UNCHANGED <<fates, answers>>
  <1>0. /\ pc \in [Write -> {"new", "enqueue", "wait", "inline", "applying",
                              "ok", "full", "stopped"}]
        /\ applied \in [Write -> Nat]
    BY DEF TWInv, TypeOK
  <1>1. ASSUME UNCHANGED applied,
               \A v \in Write : pc'[v] = pc[v] \/ {pc[v], pc'[v]} \cap {"ok", "full"} = {}
        PROVE  UNCHANGED <<fates, answers>>
    <2>1. \A v \in Write : Fate(v)' = Fate(v) /\ Told(v)' = Told(v)
      <3> SUFFICES ASSUME NEW v \in Write
                   PROVE  Fate(v)' = Fate(v) /\ Told(v)' = Told(v)
        OBVIOUS
      <3>1. pc[v] # "stopped" /\ pc'[v] # "stopped"
        BY DEF TWInv, CountInv
      <3>2. QED
        BY <1>1, <3>1 DEF Fate, Told
    <2>2. QED
      BY <2>1 DEF fates, answers
  <1>2. ASSUME NEW w \in Write,
               \A v \in Write : v # w => pc'[v] = pc[v] /\ applied'[v] = applied[v],
               \/ /\ pc[w] = "enqueue" /\ pc'[w] = "full" /\ applied'[w] = applied[w]
               \/ /\ applied[w] = 0 /\ applied'[w] = 1
                  /\ pc[w] \notin {"ok", "full"} /\ pc'[w] \notin {"ok", "full"}
               \/ /\ applied[w] = 1 /\ applied'[w] = 1
                  /\ pc[w] \notin {"ok", "full"} /\ pc'[w] = "ok"
        PROVE  \/ Promise!Next
               \/ UNCHANGED <<fates, answers>>
    <2>1. \A v \in Write : v # w => Fate(v)' = Fate(v) /\ Told(v)' = Told(v)
      BY <1>2 DEF Fate, Told
    <2>2. applied[w] = 0 \/ pc[w] # "enqueue"
      BY DEF TWInv, CountInv
    <2>3. /\ applied'[w] = 1 => Fate(w)' = "applied"
          /\ applied'[w] = 0 /\ pc'[w] = "full" => Fate(w)' = "refused"
          /\ pc'[w] = "ok" => Told(w)' = "ok"
          /\ pc'[w] = "full" => Told(w)' = "error"
          /\ pc'[w] \notin {"ok", "full"} => Told(w)' = "none"
      <3>1. pc'[w] # "stopped"
        BY DEF TWInv, CountInv
      <3>2. QED
        BY <3>1 DEF Fate, Told
    <2>4. QED
      BY <1>2, <2>1, <2>2, <2>3, FateByStep, OneWriteMoves
  <1>3. ASSUME NEW w \in Write, Call(w)
        PROVE  \/ Promise!Next
               \/ UNCHANGED <<fates, answers>>
    <2>1. CASE Submit(w) \/ Enqueue(w)
      BY <1>0, <1>1, <2>1 DEF Submit, Enqueue
    <2>2. CASE QueueFull(w)
      BY <1>0, <1>2, <2>2 DEF QueueFull
    <2>3. CASE InlineApply(w)
      BY <1>0, <1>2, <2>3 DEF InlineApply, TWInv, CountInv
    <2>4. CASE InlineReturn(w)
      BY <1>0, <1>2, <2>4 DEF InlineReturn, TWInv, CountInv
    <2>5. CASE Await(w)
      BY <1>0, <1>2, <2>5, AwaitAnswered DEF Await
    <2>6. QED
      BY <1>3, <2>1, <2>2, <2>3, <2>4, <2>5 DEF Call
  <1>4. ASSUME NEW e \in Epoch, Reply(e)
        PROVE  \/ Promise!Next
               \/ UNCHANGED <<fates, answers>>
    <2>. PICK w \in Write : w = applying[e]
      BY <1>4 DEF Reply, TWInv, TypeOK
    <2>1. pc[w] = "wait" /\ applied[w] = 0
      BY DEF TWInv, PlaceInv
    <2>2. QED
      BY <1>0, <1>2, <1>4, <2>1 DEF Reply, caller
  <1>5. ASSUME UNCHANGED <<pc, applied>>
        PROVE  UNCHANGED <<fates, answers>>
    BY <1>1, <1>5
  <1>6. ASSUME NEW e \in Epoch, Take(e) \/ NoticeCancel(e) \/ Exit(e)
        PROVE  UNCHANGED <<pc, applied>>
    BY <1>6 DEF Take, NoticeCancel, Exit, caller
  <1>7. ASSUME NEW c \in Controller, Start(c) \/ Stop(c) \/ Finishing(c)
        PROVE  UNCHANGED <<pc, applied>>
    BY <1>7 DEF Start, Stop, Finishing, Waited, Clear, caller
  <1>8. CASE UNCHANGED vars
    BY <1>5, <1>8 DEF vars
  <1>9. QED
    BY <1>3, <1>4, <1>5, <1>6, <1>7, <1>8 DEF Next, Run

(* A write is applied once, by the goroutine or by its caller, and its     *)
(* caller is told so, or refused and never applied (traffic_writer.go:     *)
(* 129-160): the queue, the epochs and the drain implement WriteService.   *)
THEOREM WriterKeepsPromise == Spec => AppliedAndTold
  <1>1. Init => Promise!Init
    <2> SUFFICES ASSUME Init
                 PROVE  \A w \in Write : Fate(w) = "open" /\ Told(w) = "none"
      BY DEF fates, answers, Promise!Init
    <2>1. QED
      BY DEF Init, Fate, Told
  <1>2. TWInv /\ TWInv' /\ [Next]_vars =>
           [Promise!Next]_<<fates, answers>>
    BY StepKeepsPromise
  <1>3. QED
    BY <1>1, <1>2, WriterInvariance, PTL DEF Spec, AppliedAndTold, Promise!Spec
=============================================================================
