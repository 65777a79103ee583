------------------------------- MODULE PageOps -------------------------------
(***************************************************************************)
(* The words the panel's pages are described in.  A page is a list, the    *)
(* handlers of its operations, the operations its columns and header offer *)
(* and the dialogs it may have open; PanelPages gives the words a          *)
(* behaviour.  An operation is a record:                                   *)
(*   opens     what the click shows: a "form", an "ask" (a confirmation), a*)
(*             "view", or "-" when the request is sent at once             *)
(*   slot      the React state that holds the dialog; dialogs of one slot  *)
(*             replace each other                                          *)
(*   from      what fills the dialog: "row", the row as listed; "blank";   *)
(*             "first", an answer waited for before it is shown; "fetch",  *)
(*             an answer that comes while it is shown; or "late", an answer*)
(*             the confirmed operation waits for before it is sent         *)
(*   empty     what a first fetch that failed does: "opens" it all the     *)
(*             same, or "stops"                                            *)
(*   on        what it acts on: the "row", the selected "rows", the "page" *)
(*   does      to its rows on the server: "set", "bump" (done twice it     *)
(*             counts twice), "add", "named" (adds; a second row of the    *)
(*             name is refused), "drop", "order" (counts twice, in another *)
(*             list), "other", what no list shows, or "nothing"            *)
(*   refresh   "success" invalidates the list; "always": so does a failure;*)
(*             "patch" writes the rows as shown instead; "push" leaves it  *)
(*             to the server's message, which may be dropped               *)
(*   closes    a success empties the slot, whatever dialog it holds then   *)
(*   shows     the slot of a dialog a success opens                        *)
(*   clears    a success drops the selection                               *)
(*   guard     of a view: "keyed", its data are looked up by its target;   *)
(*             "latest", the effect of a former target is cancelled;       *)
(*             "none", the last answer to arrive is shown                  *)
(*   turns     the target of the view can be changed while it is shown     *)
(*   swaps     the answer it waits for replaces the row in the list as well*)
(*   shared    its data are one state of the page, which the next answer of*)
(*             such an operation overwrites under every dialog open        *)
(* and a dialog is a record:                                               *)
(*   flag      what disables its submit button meanwhile, "-" if nothing   *)
(*   latest    the flag follows the latest request (a mutation's isPending)*)
(*             instead of falling with the first answer (a finally clause) *)
(*   enter     the Enter key submits it, flag or no flag                   *)
(*   locked    it does not close while the flag is up                      *)
(*   modal     it covers the page                                          *)
(* An operation sent at once from a button that shows its own progress has *)
(* a slot too, for the flag.  A page's list is read by a "query" or by a   *)
(* "loader", the page's own function, or the page has "none"; a failed     *)
(* read puts an "error" view in place of the page, leaves it "empty", or   *)
(* shows what was "kept" of the last one.  waits says what the page's own  *)
(* buttons stand behind: "-" nothing, the "load" of a first list, or the   *)
(* "answer", be it a failure.  A list that copies shows a state that it    *)
(* fills when the answer differs from the one before.                      *)
(***************************************************************************)
EXTENDS Integers, FiniteSets

(* A description is put together from functions, f @@ g giving what f has  *)
(* and else what g has: the operators of TLC's module, in terms that a     *)
(* proof can expand.                                                       *)
k :> v == [x \in {k} |-> v]
Over(f, g) == [k \in DOMAIN f \cup DOMAIN g |-> IF k \in DOMAIN f THEN f[k] ELSE g[k]]
f @@ g == Over(f, g)

Op == [opens |-> "-", slot |-> "-", from |-> "row", empty |-> "stops", on |-> "row",
       does |-> "set", refresh |-> "success", closes |-> TRUE, shows |-> "-", clears |-> FALSE,
       guard |-> "keyed", turns |-> FALSE, swaps |-> FALSE, shared |-> FALSE]

RowForm(slot) == [Op EXCEPT !.opens = "form", !.slot = slot]
NewForm(slot) == [RowForm(slot) EXCEPT !.from = "blank", !.on = "page", !.does = "add"]
Ask           == [Op EXCEPT !.opens = "ask", !.slot = "confirm"]
Delete        == [Ask EXCEPT !.does = "drop"]
View(slot)    == [Op EXCEPT !.opens = "view", !.slot = slot, !.from = "fetch", !.does = "nothing",
                            !.refresh = "never"]

Dialog(flag) == [flag |-> flag, latest |-> TRUE, enter |-> FALSE, locked |-> FALSE,
                 modal |-> TRUE]
HandFlag(flag) == [Dialog(flag) EXCEPT !.latest = FALSE]

(* A view without a button, and the confirmation every page shares: its OK *)
(* closes it before the handler goes on.                                   *)
Plain == Dialog("-")

AtOnce(slot)  == [Op EXCEPT !.slot = slot]
OnPage(op)    == [op EXCEPT !.on = "page", !.from = "blank"]
First(op)     == [op EXCEPT !.from = "first"]
Bump(slot)    == [RowForm(slot) EXCEPT !.from = "blank", !.does = "bump"]
Unlisted(op)   == [op EXCEPT !.does = "other", !.refresh = "never"]
Unguarded(op)  == [op EXCEPT !.guard = "none"]
Shared(op)     == [op EXCEPT !.shared = TRUE]
Inline(dialog) == [dialog EXCEPT !.modal = FALSE]

Listed(loads, fails) == [loads |-> loads, fails |-> fails, waits |-> "-", copies |-> FALSE]
Behind(word, lists) == [lists EXCEPT !.waits = word]
Page(lists, handlers, offers, dialogs) ==
    lists @@ [ops |-> handlers, offers |-> offers, dialogs |-> dialogs @@ ("confirm" :> Plain)]
ForAll(ops) == [odd \in BOOLEAN |-> ops]

(* Rows are numbered; a guard that bars some rows bars the Odd one: the    *)
(* user's own account, the empty group, the offline node.                  *)
Odd == 1
=============================================================================
