----------------------------- MODULE PanelPages -----------------------------
(***************************************************************************)
(* One page of the panel under a user's clicks.  Its list is read when it  *)
(* opens and again when it is invalidated; its dialogs send requests, whose*)
(* answers come in any order and write into whatever the page shows by     *)
(* then.                                                                   *)
(***************************************************************************)
EXTENDS AccountPages, ShopPages, ServerPages, SettingsPages, XrayPages, ReportPages, Functions

Catalogue == AccountCatalogue @@ ShopCatalogue @@ ServerCatalogue @@ SettingsCatalogue
             @@ XrayCatalogue @@ ReportCatalogue

CONSTANTS Pages,      \* the pages considered
          Row,        \* the rows there may be
          MaxClicks,  \* clicks and keystrokes considered
          MaxAwaited  \* fetches and requests under way at once considered

ASSUME PanelPagesAssumption == /\ Row \subseteq Nat /\ Odd \in Row
                               /\ MaxClicks \in Nat /\ MaxAwaited \in Nat
                               /\ Pages \subseteq DOMAIN Catalogue

VARIABLES route,    \* the page that is open
          rows,     \* the rows on the server, with the last change of each
          changes,  \* the changes so far
          shown,    \* the rows the list shows
          seed,     \* the answer it was last filled from
          late,     \* the rows an answer older than the server's was swapped into
          loaded,   \* an answer has come
          reads,    \* the answers to the list's query under way
          stale,    \* the list is marked to be read again
          missed,   \* a change came after the last reading, and marked nothing
          broken,   \* the error view stands in place of the list
          open,     \* the dialogs: [slot, op, target, data, no]
          asked,    \* the fetches under way: [op, target, no]
          seen,     \* what the server answered to those that swap: [no, rows]
          sent,     \* the requests under way: [op, target, acts, no, nth]
          busy,     \* per flag the request it was raised for, 0 when down
          picked,   \* the selected rows
          clicks,   \* clicks so far; a dialog is numbered by its click
          landed    \* per dialog, the effects its requests had

table == <<shown, seed, late>>
list == <<table, loaded, reads, stale, missed, broken>>
clicked == <<open, asked, seen, sent, busy, picked, clicks, landed>>
pageVars == <<route, rows, changes, list, clicked>>
-----------------------------------------------------------------------------
P == Catalogue[route]
Covered == broken /\ P.fails = "error"
Waiting == ~loaded /\ (P.waits = "load" \/ (P.waits = "answer" /\ ~broken))
O(op) == P.ops[op]
D(slot) == P.dialogs[slot]
FlagOf(op) == IF O(op).slot \in DOMAIN P.dialogs THEN D(O(op).slot).flag ELSE "-"

Flags == {P.dialogs[s].flag : s \in DOMAIN P.dialogs} \ {"-"}
Raised(flag) == flag # "-" /\ busy[flag] # 0

Slot(slot) == {d \in open : d.slot = slot}
Show(d) == {e \in open : e.slot # d.slot} \cup {d}

(* The page is just opened: its query is sent and not yet answered.        *)
PageInit ==
    /\ route \in Pages
    /\ rows = [r \in {Odd, Odd + 1} |-> 0] /\ changes = 0
    /\ loaded = (P.loads = "none") /\ stale = (P.loads # "none")
    /\ shown = IF loaded THEN rows ELSE <<>>
    /\ seed = shown /\ late = {} /\ reads = {} /\ missed = FALSE /\ broken = FALSE
    /\ open = {} /\ asked = {} /\ seen = {} /\ sent = {} /\ picked = {}
    /\ busy = [f \in Flags |-> 0]
    /\ clicks = 0
    /\ landed = [n \in 1..MaxClicks |-> 0]
-----------------------------------------------------------------------------
(* The list: a query is read again when it is marked, and a mark cancels   *)
(* the read under way, but for a first one, which goes on and leaves it    *)
(* unmarked; a loader just sends another request.                          *)
FirstRead == P.loads = "query" /\ ~loaded /\ reads # {}

Marked == IF FirstRead THEN UNCHANGED <<stale, reads>>
          ELSE /\ stale' = (P.loads # "none")
               /\ reads' = IF P.loads = "query" THEN {} ELSE reads

Read ==
    /\ stale
    /\ stale' = FALSE
    /\ reads' = reads \cup {rows}
    /\ missed' = FALSE
    /\ UNCHANGED <<route, rows, changes, table, loaded, broken, clicked>>

(* An answer fills the list, unless the list is a copy and the answer is   *)
(* the one it was filled from.  A failed read leaves what the list had     *)
(* behind the error view, or nothing.                                      *)
Arrive(answer) ==
    /\ answer \in reads
    /\ reads' = reads \ {answer}
    /\ \/ /\ broken' = FALSE /\ loaded' = TRUE
          /\ IF P.copies /\ loaded /\ answer = seed THEN UNCHANGED table
             ELSE shown' = answer /\ seed' = answer /\ late' = {}
       \/ /\ broken' = TRUE /\ UNCHANGED loaded
          /\ IF P.fails = "empty" THEN shown' = <<>> /\ seed' = <<>> /\ UNCHANGED late
             ELSE UNCHANGED table
    /\ UNCHANGED <<route, rows, changes, stale, missed, clicked>>

ReadAgain ==
    /\ Covered /\ ~stale /\ reads = {}
    /\ stale' = TRUE
    /\ UNCHANGED <<route, rows, changes, table, loaded, reads, missed, broken, clicked>>
-----------------------------------------------------------------------------
Click == /\ clicks < MaxClicks /\ clicks' = clicks + 1
         /\ Cardinality(asked) + Cardinality(sent) < MaxAwaited

(* What a click on op acts on: one row that offers it, the selection, or   *)
(* nothing in particular.                                                  *)
Targets(op) ==
    CASE O(op).on = "row"  -> {{r} : r \in {r \in DOMAIN shown : op \in P.offers[r = Odd]}}
      [] O(op).on = "rows" -> {t \in {picked \cap DOMAIN shown} : t # {}}
      [] O(op).on = "page" -> {{}}

Post(op, target, acts, no) ==
    sent' = sent \cup {[op |-> op, target |-> target, acts |-> acts, no |-> no, nth |-> clicks']}

Reach(on) == /\ Covered => on = "page" /\ P.waits = "-"
             /\ on = "page" => ~Waiting
             /\ \A d \in open : ~D(d.slot).modal

Raise(op) == busy' = [f \in DOMAIN busy |-> IF f = FlagOf(op) THEN clicks' ELSE busy[f]]

(* A click on an operation: an open dialog covers the page, the error view *)
(* the list, and the page's own buttons if they stand behind it.  A draft  *)
(* on the page is there once.                                              *)
Start(op) ==
    /\ Reach(O(op).on) /\ Click
    /\ O(op).opens = "-" => ~Raised(FlagOf(op))
    /\ O(op).opens = "form" /\ O(op).on = "page" => D(O(op).slot).modal \/ Slot(O(op).slot) = {}
    /\ \E t \in Targets(op) :
          LET d == [slot |-> O(op).slot, op |-> op, target |-> t,
                    data |-> IF O(op).shared THEN t ELSE {}, no |-> clicks']
          IN  /\ asked' = IF O(op).from \in {"first", "fetch"}
                          THEN asked \cup {[op |-> op, target |-> t, no |-> clicks']} ELSE asked
              /\ open' = IF O(op).opens = "-" \/ O(op).from = "first" THEN open ELSE Show(d)
              /\ IF O(op).opens = "-" THEN Post(op, t, t, clicks') ELSE UNCHANGED sent
    /\ IF O(op).opens = "-" THEN Raise(op) ELSE UNCHANGED busy
    /\ UNCHANGED <<route, rows, changes, list, seen, picked, landed>>

(* Another target chosen in a view: its answer is asked for, and what is   *)
(* shown stays until it comes unless it is looked up by its target.        *)
Turn(d) ==
    /\ d \in open /\ O(d.op).turns /\ Click
    /\ \E r \in DOMAIN shown \ d.target :
          LET kept == IF O(d.op).guard = "keyed" THEN {} ELSE d.data
          IN  /\ open' = Show([d EXCEPT !.target = {r}, !.data = kept, !.no = clicks'])
              /\ asked' = asked \cup {[op |-> d.op, target |-> {r}, no |-> clicks']}
    /\ UNCHANGED <<route, rows, changes, list, seen, sent, busy, picked, landed>>

(* Whether an answer is still wanted by the view it was asked for.         *)
Wanted(f, d) ==
    CASE O(f.op).guard = "keyed"  -> d.op = f.op /\ d.target = f.target
      [] O(f.op).guard = "latest" -> d.no = f.no
      [] OTHER -> d.op = f.op

(* The server answers a fetch that swaps: with the row, or with them all,  *)
(* as of one moment.                                                       *)
Hydrate(f) ==
    /\ f \in asked /\ O(f.op).swaps /\ f.target \subseteq DOMAIN rows
    /\ \A s \in seen : s.no # f.no
    /\ seen' = seen \cup {[no   |-> f.no,
                          rows |-> IF f.target = {} THEN rows ELSE Restrict(rows, f.target)]}
    /\ UNCHANGED <<route, rows, changes, list, open, asked, sent, busy, picked, clicks, landed>>

(* Such an answer replaces its rows in the list, whatever has been read    *)
(* since.                                                                  *)
Swap(got) ==
    /\ shown' = [r \in DOMAIN shown |-> IF r \in DOMAIN got THEN got[r] ELSE shown[r]]
    /\ late' = (late \ DOMAIN got) \cup {r \in DOMAIN got \cap DOMAIN rows : got[r] # rows[r]}

(* A dialog shown once its answer has come: its data are the page's where  *)
(* they are shared.                                                        *)
Brought(f, data) ==
    LET d == [slot |-> O(f.op).slot, op |-> f.op, target |-> f.target, data |-> data, no |-> f.no]
    IN  open' = {IF O(f.op).shared /\ O(e.op).shared THEN [e EXCEPT !.data = data] ELSE e : e \in Show(d)}

(* The answer to a fetch fills a view, opens the dialog it was awaited for,*)
(* or goes into the request that needed it; a failure changes nothing, or  *)
(* opens the dialog with what the row has.                                 *)
Fetched(f) ==
    /\ f \in asked
    /\ asked' = asked \ {f}
    /\ seen' = {s \in seen : s.no # f.no}
    /\ \/ /\ O(f.op).from = "fetch"
          /\ open' = {IF e.slot = O(f.op).slot /\ Wanted(f, e)
                      THEN [e EXCEPT !.data = f.target] ELSE e : e \in open}
          /\ UNCHANGED <<sent, shown, late>>
       \/ /\ O(f.op).from = "first" /\ Brought(f, f.target)
          /\ IF O(f.op).swaps THEN \E s \in seen : s.no = f.no /\ Swap(s.rows)
             ELSE UNCHANGED <<shown, late>>
          /\ UNCHANGED sent
       \/ /\ O(f.op).from = "first" /\ O(f.op).empty = "opens" /\ Brought(f, {})
          /\ UNCHANGED <<sent, shown, late>>
       \/ /\ O(f.op).from = "late"
          /\ sent' = sent \cup {[op |-> f.op, target |-> f.target, acts |-> f.target,
                                 no |-> f.no, nth |-> f.no]}
          /\ UNCHANGED <<open, shown, late>>
       \/ O(f.op).empty = "stops" /\ UNCHANGED <<open, sent, shown, late>>
    /\ UNCHANGED <<route, rows, changes, seed, loaded, reads, stale, missed, broken,
                   busy, picked, clicks, landed>>

(* A form is submitted by its button while no request is under way, or by  *)
(* Enter, and acts on the data it shares; a confirmation closes first, and *)
(* may fetch before it sends.                                              *)
MaySubmit(d) == ~Raised(D(d.slot).flag) \/ D(d.slot).enter

Submit(d) ==
    /\ d \in open /\ d.slot = O(d.op).slot /\ Click
    /\ \/ /\ O(d.op).opens = "form" /\ O(d.op).does # "nothing" /\ MaySubmit(d)
          /\ Post(d.op, d.target, IF O(d.op).shared THEN d.data ELSE d.target, d.no)
          /\ Raise(d.op)
          /\ UNCHANGED <<open, asked>>
       \/ /\ O(d.op).opens = "ask"
          /\ open' = open \ {d}
          /\ IF O(d.op).from = "late"
             THEN asked' = asked \cup {[op |-> d.op, target |-> d.target, no |-> d.no]} /\ UNCHANGED sent
             ELSE Post(d.op, d.target, d.target, d.no) /\ UNCHANGED asked
          /\ UNCHANGED busy
    /\ UNCHANGED <<route, rows, changes, list, seen, picked, landed>>

Close(d) ==
    /\ d \in open
    /\ ~(D(d.slot).locked /\ Raised(D(d.slot).flag))
    /\ open' = open \ {d}
    /\ UNCHANGED <<route, rows, changes, list, asked, seen, sent, busy, picked, clicks, landed>>

Pick(r) ==
    /\ Reach("row") /\ Click
    /\ r \in DOMAIN shown /\ "pick" \in P.offers[r = Odd]
    /\ picked' = IF r \in picked THEN picked \ {r} ELSE picked \cup {r}
    /\ UNCHANGED <<route, rows, changes, list, open, asked, seen, sent, busy, landed>>
-----------------------------------------------------------------------------
(* The flag a request raised, after its answer.                            *)
Freed(q) ==
    [f \in DOMAIN busy |->
        IF O(q.op).opens \in {"form", "-"} /\ f = FlagOf(q.op)
           /\ (D(O(q.op).slot).latest => busy[f] = q.nth)
        THEN 0 ELSE busy[f]]

Counts(op) == O(op).does \in {"bump", "add", "named", "order"}
Added == {rows @@ (r :> changes + 1) : r \in Row \ DOMAIN rows}

(* What the server makes of a request, if it does not refuse it: it does   *)
(* for a row that has gone, and skips that row among several.              *)
Effect(q) ==
    CASE O(q.op).does = "add"   -> Added
      [] O(q.op).on = "row" /\ ~(q.acts \subseteq DOMAIN rows) -> {}
      [] O(q.op).does = "named" -> IF landed[q.no] = 0 THEN Added ELSE {}
      [] O(q.op).does = "drop"  -> {Restrict(rows, DOMAIN rows \ q.acts)}
      [] O(q.op).does \in {"order", "other"} -> {rows}
      [] OTHER -> {[r \in DOMAIN rows |-> IF r \in q.acts \/ q.acts = {} THEN changes + 1 ELSE rows[r]]}

(* What a success makes of the list: the request invalidates it, or the    *)
(* server's message does if it is not dropped.                             *)
Refreshed(op) ==
    \/ /\ O(op).refresh \in {"success", "always", "push"}
       /\ Marked /\ missed' = (missed \/ FirstRead)
    \/ O(op).refresh = "push" /\ UNCHANGED <<stale, reads>> /\ missed' = TRUE
    \/ O(op).refresh \in {"never", "patch"} /\ UNCHANGED <<stale, reads, missed>>

(* A success: the list is invalidated, the slot emptied whatever dialog it *)
(* holds by now, another dialog shown, the selection dropped.              *)
Succeed(q) ==
    /\ q \in sent
    /\ rows' \in Effect(q) /\ changes' = changes + 1
    /\ sent' = sent \ {q}
    /\ landed' = IF Counts(q.op) THEN [landed EXCEPT ![q.no] = @ + 1] ELSE landed
    /\ Refreshed(q.op)
    /\ shown' = IF O(q.op).refresh = "patch"
                THEN [r \in DOMAIN shown |-> IF r \in q.target THEN changes' ELSE shown[r]] ELSE shown
    /\ LET left == IF O(q.op).opens = "form" /\ O(q.op).closes
                   THEN open \ Slot(O(q.op).slot) ELSE open
           next == [slot |-> O(q.op).shows, op |-> q.op, target |-> q.target, data |-> q.target,
                    no |-> q.no]
       IN  open' = IF O(q.op).shows = "-" THEN left
                   ELSE {e \in left : e.slot # O(q.op).shows} \cup {next}
    /\ busy' = Freed(q)
    /\ picked' = IF O(q.op).clears THEN {} ELSE picked
    /\ UNCHANGED <<route, seed, late, loaded, broken, asked, seen, clicks>>

(* A refusal, shown as a toast: the dialog stays for another try.          *)
Refuse(q) ==
    /\ q \in sent
    /\ sent' = sent \ {q}
    /\ IF O(q.op).refresh = "always" THEN Marked ELSE UNCHANGED <<stale, reads>>
    /\ busy' = Freed(q)
    /\ picked' = IF O(q.op).clears /\ O(q.op).refresh = "always" THEN {} ELSE picked
    /\ UNCHANGED <<route, rows, changes, table, loaded, missed, broken, open, asked, seen,
                   clicks, landed>>
-----------------------------------------------------------------------------
Reading == Read \/ \E answer \in reads : Arrive(answer)
Answering == \E q \in sent : Succeed(q) \/ Refuse(q)

PageNext == \/ Reading \/ ReadAgain
            \/ \E op \in DOMAIN P.ops : Start(op)
            \/ \E f \in asked : Hydrate(f) \/ Fetched(f)
            \/ \E d \in open : Turn(d) \/ Submit(d) \/ Close(d)
            \/ \E r \in Row : Pick(r)
            \/ Answering

PageSpec == PageInit /\ [][PageNext]_pageVars
-----------------------------------------------------------------------------
(* When nothing is under way and the last read did not fail, the list is   *)
(* what the server holds: no handler that changes a row forgets to         *)
(* invalidate the list it changed.  What the code does not promise is left *)
(* out by name: a change that came while the first answer was on its way,  *)
(* or whose message was dropped (missed, until the next reading), and a    *)
(* row of the inbounds an older answer was swapped into (late, until an    *)
(* answer that differs).                                                   *)
ListCurrent ==
    /\ P.loads = "query" /\ loaded /\ ~broken
    /\ ~stale /\ reads = {} /\ sent = {} /\ ~missed
    => DOMAIN shown = DOMAIN rows /\ \A r \in DOMAIN rows \ late : shown[r] = rows[r]

(* One dialog counts once: a balance is adjusted, a product bought, a      *)
(* ticket opened once however often its button is clicked.  A flag that    *)
(* two forms share and Enter evades does not promise it (Services).        *)
Sole(op) == \A s \in DOMAIN P.dialogs :
               P.dialogs[s].flag = FlagOf(op) /\ P.dialogs[s].enter => s = O(op).slot
OnceEach == \A q \in sent : O(q.op).does \in {"bump", "add", "order"} /\ Sole(q.op)
                => landed[q.no] + Cardinality({p \in sent : p.no = q.no}) <= 1

(* A dialog gives way only to one of a later click, and once it shows what *)
(* it was last asked for no answer to an earlier question fills it.  The   *)
(* dialogs an answer brings on the page or writes into do not promise it,  *)
(* a later click's form being replaced when the answer to an earlier one   *)
(* comes: most of the inbounds', the groups' on clients, a workspace's     *)
(* inbounds and key, what a purchase and a new token show; nor do the logs *)
(* and graphs of the home page, a client's addresses and the other views   *)
(* without a guard.                                                        *)
Unkept == {"home", "warp", "nord", "clientIps", "purchase", "nodeForm", "versions"}
ByAnswer(slot) ==
    \E op \in DOMAIN P.ops :
       \/ O(op).slot = slot /\ (O(op).from = "first" \/ O(op).shared)
       \/ O(op).shows = slot
ViewKept ==
    [][\A d \in open, e \in open' :
          route \notin Unkept /\ d.slot = e.slot /\ ~ByAnswer(d.slot)
          => /\ e.no >= d.no
             /\ e.no = d.no /\ d.data = d.target => e.data = e.target]_pageVars
=============================================================================
