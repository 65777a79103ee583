---------------------------- MODULE ClientsPage ----------------------------
(***************************************************************************)
(* The Clients page: pages/clients/ClientsPage.tsx and its dialogs over    *)
(* hooks/useClients.ts.  One administrator works; several of his requests  *)
(* may be under way at once, and each may be refused, fail, or succeed     *)
(* without the page hearing of it.                                         *)
(*                                                                         *)
(* The list is one cache entry per query (page and filter), filled by a    *)
(* fetch that the server answers at one moment and the page receives at    *)
(* another.  Every client is opened for editing, and every switch turned,  *)
(* with a full record fetched for it: a hydration.                         *)
(*                                                                         *)
(* Ghosts: a request or form is "alone" while no other write reached the   *)
(* records since what it holds was read, a form has "tried" the inbounds   *)
(* of a save of its own that failed; hidden says a write reached them  *)
(* that the page was told had failed; overtaken are the entries filled by  *)
(* a fetch the server had answered before a change and that the change did *)
(* not stop.                                                               *)
(***************************************************************************)
EXTENDS ClientRecords

CONSTANTS Clients,   \* the records there are at first
          MaxClicks, \* bound on what the administrator starts, and on lists lost
          MaxUnderway, \* bound on requests under way when he starts another
          Kinds,     \* the operations considered
          None       \* no record or dialog

VARIABLES db,        \* the server's records
          query,     \* the query the list shows, [page, bucket]
          cache,     \* cache[q]: [is: missing, fresh or stale, rows, filtered]
          fetches,   \* fetches[q]: [step: idle, asked or read, page]
          held,      \* what the list shows while its query has no data
          failed,    \* the page shows an error instead of the list
          selected,  \* selectedRowKeys
          options,   \* the inbound options have arrived
          form,      \* ClientFormModal, with what the page hands it
          hydrating, \* edits and switches waiting for their record
          toggling,  \* togglingEmail
          saving,    \* the form's save under way, or NoSave
          dialog,    \* a bulk dialog or confirmation, or None
          requests,  \* deletions, switches and bulk operations under way
          torn,      \* a request tore the inbounds' listing from the records
          hidden, overtaken,
          clicks     \* how many operations were started

server == <<db, torn>>
list == <<query, cache, fetches, held, failed, overtaken>>
vars == <<server, list, selected, options, form, hydrating, toggling, saving, dialog, requests,
          hidden, clicks>>

Queries == [page: 1..2, bucket: {"", "deactive"}]

(* Confirmations hold the clients they were asked about; the modals send   *)
(* what is selected when they are submitted.                               *)
Confirmed == {"delete", "bulkDelete", "ungroup", "delDepleted", "reset", "resetAll"}
Modal == {"group", "adjust", "attach", "detach", "bulkAdd"}
AllKinds == Confirmed \cup Modal
ASSUME KindsAssumption == Kinds \subseteq AllKinds
ForSelection == {"bulkDelete", "ungroup", "group", "adjust", "attach", "detach"}

-----------------------------------------------------------------------------
(* The list.                                                               *)
Missing == [is |-> "missing"]
Entry(page) == [is |-> "fresh", rows |-> page.rows, filtered |-> page.filtered]
Outdated(entry) == IF entry = Missing THEN entry ELSE [entry EXCEPT !.is = "stale"]

Quiet == [step |-> "idle", page |-> None]
Ask == [step |-> "asked", page |-> None]
Shown == IF cache[query] # Missing THEN cache[query] ELSE held
PageCount == IF Shown.filtered = 0 THEN 1 ELSE (Shown.filtered + PageSize - 1) \div PageSize
Pager == Shown.filtered > PageSize

Wanted(q) == fetches[q] = Quiet /\ cache[q].is # "fresh"

(* A query shown for the first time, or stale, is fetched; its rows come   *)
(* under those shown last.                                                 *)
ShowQuery(q) ==
    /\ query' = q
    /\ held' = Shown
    /\ failed' = FALSE
    /\ fetches' = [fetches EXCEPT ![q] = IF Wanted(q) THEN Ask ELSE @]
    /\ UNCHANGED <<cache, overtaken>>

(* The query shown is asked for again from the start, but for a first      *)
(* fetch, which has no data to fall back on and is left to finish.         *)
First(q) == cache[q] = Missing /\ fetches[q] # Quiet
Reasked == [fetches EXCEPT ![query] = IF First(query) THEN @ ELSE Ask]

(* What a narrower key would do: the other pages are left as they are.     *)
InvalidateShown ==
    /\ cache' = [cache EXCEPT ![query] = Outdated(@)]
    /\ fetches' = Reasked
    /\ hidden' = FALSE
    /\ UNCHANGED <<query, held, failed, overtaken>>

(* invalidateAll: every list is stale; the one shown is asked for again,   *)
(* the others when they are shown.  A fetch that is left to finish and was *)
(* answered before makes its list count as fresh again.                    *)
InvalidateAll ==
    /\ cache' = [q \in Queries |-> Outdated(cache[q])]
    /\ fetches' = Reasked
    /\ overtaken' = {q \in Queries : fetches[q].step = "read" /\ (q # query \/ First(q))}
    /\ hidden' = FALSE
    /\ UNCHANGED <<query, held, failed>>

ListRead(q) ==
    /\ fetches[q] = Ask
    /\ fetches' = [fetches EXCEPT ![q] = [step |-> "read", page |-> ListPaged(db, q)]]
    /\ UNCHANGED <<server, query, cache, held, failed, overtaken, selected, options, form, hydrating,
                   toggling, saving, dialog, requests, hidden, clicks>>

ListArrives(q) ==
    /\ fetches[q].step = "read"
    /\ cache' = [cache EXCEPT ![q] = Entry(fetches[q].page)]
    /\ fetches' = [fetches EXCEPT ![q] = Quiet]
    /\ failed' = (failed /\ q # query)
    /\ UNCHANGED <<server, query, held, overtaken, selected, options, form, hydrating, toggling,
                   saving, dialog, requests, hidden, clicks>>

(* A fetch that fails twice shows the error in the list's place.           *)
ListFails ==
    /\ fetches[query] = Ask
    /\ clicks < MaxClicks /\ clicks' = clicks + 1
    /\ fetches' = [fetches EXCEPT ![query] = Quiet]
    /\ failed' = TRUE
    /\ UNCHANGED <<server, query, cache, held, overtaken, selected, options, form, hydrating,
                   toggling, saving, dialog, requests, hidden>>

-----------------------------------------------------------------------------
NoSave == [step |-> "none"]

(* What the administrator may click: nothing under an open dialog.         *)
Underway == Cardinality(requests) + Cardinality(hydrating) + (IF saving = NoSave THEN 0 ELSE 1)
Click == /\ clicks < MaxClicks /\ clicks' = clicks + 1
         /\ ~form.open /\ dialog = None /\ Underway < MaxUnderway
RowClick(row) == Click /\ ~failed /\ row \in Shown.rows

GotoPage(p) ==
    /\ Click /\ ~failed /\ Pager
    /\ p \in 1..PageCount /\ p # query.page
    /\ ShowQuery([query EXCEPT !.page = p])
    /\ UNCHANGED <<server, selected, options, form, hydrating, toggling, saving, dialog, requests,
                   hidden>>

(* Another filter starts at the first page.                                *)
SetFilter(b) ==
    /\ Click /\ ~failed /\ b # query.bucket
    /\ ShowQuery([page |-> 1, bucket |-> b])
    /\ UNCHANGED <<server, selected, options, form, hydrating, toggling, saving, dialog, requests,
                   hidden>>

(* The error card's button.                                                *)
Refresh ==
    /\ Click /\ failed
    /\ InvalidateAll
    /\ UNCHANGED <<server, selected, options, form, hydrating, toggling, saving, dialog, requests>>

ToggleSelect(row) ==
    /\ RowClick(row)
    /\ selected' = IF row.email \in selected THEN selected \ {row.email}
                   ELSE selected \cup {row.email}
    /\ UNCHANGED <<server, list, options, form, hydrating, toggling, saving, dialog, requests, hidden>>

(* The header's box: what is shown, or nothing.                            *)
SelectAll(checked) ==
    /\ Click /\ ~failed
    /\ selected' = IF checked THEN {row.email : row \in Shown.rows} ELSE {}
    /\ selected' # selected
    /\ UNCHANGED <<server, list, options, form, hydrating, toggling, saving, dialog, requests, hidden>>

OptionsArrive ==
    /\ ~options
    /\ options' = TRUE
    /\ UNCHANGED <<server, list, selected, form, hydrating, toggling, saving, dialog, requests,
                   hidden, clicks>>

-----------------------------------------------------------------------------
(* The form.                                                               *)
ShowFlow(ids) == options /\ ids \cap Capable # {}

(* The flow is blanked as soon as no inbound chosen can use it, as far as  *)
(* the options known say.                                                  *)
Blanked(f) == [f EXCEPT !.fields.flow = @ /\ ShowFlow(f.ids)]

Blank == [email |-> None, sub |-> None, limit |-> 0,
          on |-> TRUE, grp |-> FALSE, flow |-> FALSE]
Closed == [open |-> FALSE, isEdit |-> FALSE, client |-> None, attached |-> {}, fields |-> Blank,
           ids |-> {}, alone |-> FALSE, tried |-> {}]

(* A new client is given a random name and random credentials: nobody's,   *)
(* told apart by the number of clicks so far.                              *)
OnAdd ==
    /\ Click /\ ~failed
    /\ \E e \in Emails \ {db[i].email : i \in DOMAIN db} :
           form' = [form EXCEPT !.open = TRUE, !.isEdit = FALSE, !.client = None, !.attached = {},
                                !.fields = [Blank EXCEPT !.email = e, !.sub = -clicks'], !.ids = {},
                                !.alone = TRUE, !.tried = {}]
    /\ UNCHANGED <<server, list, selected, options, hydrating, toggling, saving, dialog, requests,
                   hidden>>

(* onEdit turns the form to editing at once and opens it when the record   *)
(* is there.                                                               *)
OnEdit(row) ==
    /\ RowClick(row)
    /\ form' = [form EXCEPT !.isEdit = TRUE]
    /\ hydrating' = hydrating \cup {[for |-> "edit", n |-> clicks, row |-> row, read |-> FALSE, got |-> None]}
    /\ UNCHANGED <<server, list, selected, options, toggling, saving, dialog, requests, hidden>>

(* setEnable fetches the record as well; the switch waits, if it is the    *)
(* last one turned.                                                        *)
OnToggleEnable(row) ==
    /\ RowClick(row) /\ toggling # row.email
    /\ toggling' = row.email
    /\ hydrating' = hydrating \cup {[for |-> "switch", n |-> clicks, row |-> row, read |-> FALSE, got |-> None]}
    /\ UNCHANGED <<server, list, selected, options, form, saving, dialog, requests, hidden>>

(* A record as clients/get answers it: the flow is the one any inbound     *)
(* uses.                                                                   *)
Full(c) == [email |-> c.email, sub |-> c.sub, limit |-> c.limit, on |-> c.on, grp |-> c.grp,
            flow |-> c.flows # {}, ids |-> c.ids]

HydrateRead(h) ==
    /\ h \in hydrating /\ ~h.read
    /\ LET found == Named(db, {h.row.email})
       IN  \E got \in {Full(db[i]) : i \in found} \cup {None} :
               hydrating' = (hydrating \ {h}) \cup {[h EXCEPT !.read = TRUE, !.got = got]}
    /\ UNCHANGED <<server, list, selected, options, form, toggling, saving, dialog, requests, hidden,
                   clicks>>

Answered(h) == h \in hydrating /\ h.read

(* The client fields of a record, or of a row when the record did not      *)
(* come: a row carries no flow.                                            *)
Fields(r, flow) == [email |-> r.email, sub |-> r.sub, limit |-> r.limit, on |-> r.on,
                    grp |-> r.grp, flow |-> flow]
FieldsOf(h) == IF h.got = None THEN Fields(h.row, FALSE) ELSE Fields(h.got, h.got.flow)
IdsOf(h) == IF h.got = None THEN h.row.ids ELSE h.got.ids

(* The form a save came from is closed, or holds another client.           *)
Left(s) == IF s = NoSave THEN s ELSE [s EXCEPT !.own = FALSE]

Same(email, fields, ids) ==
    \E i \in Named(db, {email}) : /\ ids = db[i].ids
                                  /\ fields = Fields(db[i], db[i].flows # {})

(* The record goes to the form.  Only one that was closed is filled from   *)
(* it: an open one keeps what it shows and changes whose client it saves.  *)
EditOpens(h) ==
    /\ h.for = "edit" /\ Answered(h)
    /\ hydrating' = hydrating \ {h}
    /\ form' = LET handed == [form EXCEPT !.client = FieldsOf(h).email, !.attached = IdsOf(h),
                                          !.open = TRUE, !.alone = FALSE]
               IN  IF form.open THEN handed
                   ELSE Blanked([handed EXCEPT !.fields = FieldsOf(h), !.ids = IdsOf(h),
                                               !.alone = Same(h.row.email, FieldsOf(h), IdsOf(h)),
                                               !.tried = {}])
    /\ saving' = Left(saving)
    /\ UNCHANGED <<server, list, selected, options, toggling, dialog, requests, hidden, clicks>>

(* Typing: one field at a time.  A name is changed to a free one.          *)
Typed(f) == form' = Blanked(f) /\ form' # form

Type ==
    /\ form.open
    /\ clicks < MaxClicks /\ clicks' = clicks + 1
    /\ \/ \E e \in Emails : Typed([form EXCEPT !.fields.email = e])
       \/ Typed([form EXCEPT !.fields.limit = 1 - @])
       \/ form.isEdit /\ Typed([form EXCEPT !.fields.on = ~@])
       \/ options /\ \E b \in Inbounds :
              Typed([form EXCEPT !.ids = IF b \in @ THEN @ \ {b} ELSE @ \cup {b}])
       \/ ShowFlow(form.ids) /\ Typed([form EXCEPT !.fields.flow = ~@])
    /\ UNCHANGED <<server, list, selected, options, hydrating, toggling, saving, dialog, requests,
                   hidden>>

CloseForm ==
    /\ form.open
    /\ form' = [form EXCEPT !.open = FALSE]
    /\ saving' = Left(saving)
    /\ UNCHANGED <<server, list, selected, options, hydrating, toggling, dialog, requests, hidden,
                   clicks>>

(* onSubmit: the schema wants an inbound for a new client only; the        *)
(* button is busy while a save is under way.  What to attach and detach    *)
(* comes from the inbounds the record had.                                 *)
OnSubmit ==
    /\ form.open /\ saving = NoSave
    /\ form.isEdit \/ form.ids # {}
    /\ saving' = [step |-> IF form.isEdit /\ form.client # None THEN "update" ELSE "create",
                  served |-> FALSE, ok |-> FALSE,
                  client |-> form.client, fields |-> form.fields, ids |-> form.ids,
                  attach |-> form.ids \ form.attached, detach |-> form.attached \ form.ids,
                  alone |-> form.alone /\ form.tried \subseteq {form.ids}, linked |-> TRUE,
                  own |-> TRUE]
    /\ form' = [form EXCEPT !.alone = @ /\ form.tried \subseteq {form.ids}]
    /\ UNCHANGED <<server, list, selected, options, hydrating, toggling, dialog, requests,
                   hidden, clicks>>

-----------------------------------------------------------------------------
(* The server takes a request: it answers, fails before doing anything, or *)
(* does it and the answer is lost.                                         *)
Taken(reply, ok) ==
    \/ /\ db' = reply.db /\ torn' = (torn \/ reply.torn)
       /\ ok \in {reply.ok, FALSE}
    \/ UNCHANGED server /\ ok = FALSE

(* Whatever else was read before a write is no longer alone with it.       *)
Alone(r) == IF r = NoSave \/ db' = db THEN r ELSE [r EXCEPT !.alone = FALSE]
AllAlone(rs) == {Alone(r) : r \in rs}

SaveReply(s) ==
    CASE s.step = "create" -> Create(db, s.fields, s.ids)
      [] s.step = "update" -> UpdateByEmail(db, s.client, s.fields)
      [] s.step = "attach" -> AttachByEmail(db, s.client, s.attach)
      [] s.step = "detach" -> DetachByEmailMany(db, s.client, s.detach)

SaveServed ==
    /\ saving # NoSave /\ ~saving.served
    /\ \E ok \in BOOLEAN :
        /\ Taken(SaveReply(saving), ok)
        /\ saving' = [saving EXCEPT !.served = TRUE, !.ok = ok,
               !.linked = @ /\ (saving.step = "update" =>
                   \E i \in Named(db, {saving.client}) :
                       /\ db[i].ids # {}
                       /\ saving.fields.flow => db[i].ids \cap Capable # {})]
        /\ hidden' = (hidden \/ (~ok /\ db' # db))
    /\ requests' = AllAlone(requests)
    /\ form' = IF saving.own THEN form ELSE Alone(form)
    /\ UNCHANGED <<list, selected, options, hydrating, toggling, dialog, clicks>>

(* onSave, were it to end after one step more.                             *)
OneStepLeft(s) ==
    IF s.step # "update" THEN {}
    ELSE IF s.attach # {} THEN {"attach"} ELSE IF s.detach # {} THEN {"detach"} ELSE {}

(* onSave: update, then attach, then detach, under the client's name of    *)
(* the beginning; the first failure ends it.                               *)
StepsLeft(s) ==
    CASE s.step = "update" -> (IF s.attach # {} THEN {"attach"} ELSE {})
                              \cup (IF s.detach # {} THEN {"detach"} ELSE {})
      [] s.step = "attach" -> IF s.detach # {} THEN {"detach"} ELSE {}
      [] OTHER -> {}

Finished(s) == s # NoSave /\ s.served /\ s.ok /\ StepsLeft(s) = {}

(* Each step that succeeded invalidates; a save that did closes the form   *)
(* that is open.                                                           *)
SaveAnswered ==
    /\ saving # NoSave /\ saving.served
    /\ IF saving.ok THEN InvalidateAll ELSE UNCHANGED <<list, hidden>>
    /\ saving' = IF ~saving.ok \/ StepsLeft(saving) = {} THEN NoSave
                 ELSE [saving EXCEPT !.served = FALSE, !.ok = FALSE,
                       !.step = IF "attach" \in StepsLeft(saving) THEN "attach" ELSE "detach"]
    /\ form' = [form EXCEPT !.open = @ /\ ~Finished(saving),
                            !.tried = IF saving.own /\ ~saving.ok THEN {saving.ids} ELSE @]
    /\ UNCHANGED <<server, selected, options, hydrating, toggling, dialog, requests, clicks>>

-----------------------------------------------------------------------------
(* The rest of the writes.                                                 *)
Request(kind, emails) == [kind |-> kind, emails |-> emails, n |-> clicks, ids |-> {},
                          fields |-> None, served |-> FALSE, ok |-> FALSE, alone |-> TRUE]

(* The switch, were it sent with the list's row.                           *)
SwitchPayloadOfRow(h) == [Fields(h.row, FALSE) EXCEPT !.on = ~h.row.on]

(* setEnable sends the whole record back with the switch turned; without   *)
(* the record it sends nothing.                                            *)
SwitchPayload(h) == [FieldsOf(h) EXCEPT !.on = ~h.row.on]

SwitchSends(h) ==
    /\ h.for = "switch" /\ Answered(h)
    /\ hydrating' = hydrating \ {h}
    /\ IF h.got = None
       THEN toggling' = None /\ UNCHANGED requests
       ELSE /\ requests' = requests \cup
                   {[Request("switch", {h.row.email}) EXCEPT
                        !.n = h.n, !.fields = SwitchPayload(h),
                        !.alone = Same(h.row.email, Fields(h.got, h.got.flow), h.got.ids)]}
            /\ UNCHANGED toggling
    /\ UNCHANGED <<server, list, selected, options, form, saving, dialog, hidden, clicks>>

(* What asks first: a row's action about that row, a bulk action about     *)
(* what is selected, the others about nobody in particular.                *)
AskFirst(kind, emails) ==
    /\ Click /\ ~failed /\ kind \in Kinds
    /\ dialog' = [kind |-> kind, emails |-> emails]
    /\ UNCHANGED <<server, list, selected, options, form, hydrating, toggling, saving, requests, hidden>>

OnDelete(row) == row \in Shown.rows /\ AskFirst("delete", {row.email})
OnResetTraffic(row) == row \in Shown.rows /\ AskFirst("reset", {row.email})
OnDelDepleted == selected = {} /\ AskFirst("delDepleted", {})
OnResetAll == selected = {} /\ AskFirst("resetAll", {})
OnBulkUngroup == selected # {} /\ AskFirst("ungroup", selected)
OnBulkDelete == selected # {} /\ AskFirst("bulkDelete", selected)

(* The menu and the toolbar: adding many while nobody is selected, the     *)
(* modals for the selection otherwise.                                     *)
OpenModal(kind) ==
    /\ kind \in Modal /\ (selected = {}) <=> (kind = "bulkAdd")
    /\ AskFirst(kind, {})

CloseDialog ==
    /\ dialog # None
    /\ dialog' = None
    /\ UNCHANGED <<server, list, selected, options, form, hydrating, toggling, saving, requests, hidden,
                   clicks>>

Send(request) ==
    /\ requests' = requests \cup {request}
    /\ UNCHANGED <<server, list, selected, options, form, hydrating, toggling, saving, hidden, clicks>>

(* A confirmation closes and sends.                                        *)
Confirm ==
    /\ dialog # None /\ dialog.kind \in Confirmed
    /\ Send(Request(dialog.kind, dialog.emails))
    /\ dialog' = None

(* A modal stays, its button busy until the answer.                        *)
Ready(kind) ==
    /\ dialog # None /\ dialog.kind = kind
    /\ UNCHANGED dialog

Busy(kind) == \E r \in requests : r.kind = kind

(* Enter submits the group's name even while the button is busy.           *)
SubmitGroup ==
    /\ Ready("group") /\ selected # {}
    /\ Cardinality({r \in requests : r.kind = "group"}) < 2
    /\ Send(Request("group", selected))

SubmitAdjust ==
    /\ Ready("adjust") /\ ~Busy("adjust") /\ selected # {}
    /\ Send(Request("adjust", selected))

SubmitAttach(ids) ==
    /\ Ready("attach") /\ ~Busy("attach") /\ selected # {}
    /\ options /\ ids # {}
    /\ Send([Request("attach", selected) EXCEPT !.ids = ids])

SubmitDetach(ids) ==
    /\ Ready("detach") /\ ~Busy("detach") /\ selected # {}
    /\ options /\ ids # {}
    /\ Send([Request("detach", selected) EXCEPT !.ids = ids])

(* Many new clients under fresh names; one here, on one inbound, with the  *)
(* flow where it can have it.                                              *)
SubmitBulkAdd(b) ==
    /\ Ready("bulkAdd") /\ ~Busy("bulkAdd")
    /\ options
    /\ \E e \in Emails \ {db[i].email : i \in DOMAIN db} :
        Send([Request("bulkAdd", {}) EXCEPT
                 !.ids = {b},
                 !.fields = [Blank EXCEPT !.email = e, !.sub = -clicks, !.flow = ShowFlow({b})]])

ReplyTo(r) ==
    CASE r.kind = "switch" -> UpdateByEmail(db, CHOOSE e \in r.emails : TRUE, r.fields)
      [] r.kind = "delete" -> DeleteOne(db, r.emails)
      [] r.kind = "bulkDelete" -> BulkDelete(db, r.emails)
      [] r.kind = "delDepleted" -> DelDepleted(db)
      [] r.kind = "resetAll" -> ResetAllTraffics(db)
      [] r.kind = "reset" -> ResetTraffic(db, r.emails)
      [] r.kind = "ungroup" -> AddToGroup(db, r.emails, FALSE)
      [] r.kind = "group" -> AddToGroup(db, r.emails, TRUE)
      [] r.kind = "adjust" -> BulkAdjust(db, r.emails)
      [] r.kind = "attach" -> BulkAttach(db, r.emails, r.ids)
      [] r.kind = "detach" -> BulkDetach(db, r.emails, r.ids)
      [] r.kind = "bulkAdd" -> [Create(db, r.fields, r.ids) EXCEPT !.ok = TRUE]

Served(r) ==
    /\ r \in requests /\ ~r.served
    /\ \E ok \in BOOLEAN :
        /\ Taken(ReplyTo(r), ok)
        /\ requests' = AllAlone(requests \ {r}) \cup {[r EXCEPT !.served = TRUE, !.ok = ok]}
        /\ hidden' = (hidden \/ (~ok /\ db' # db))
    /\ saving' = Alone(saving)
    /\ form' = Alone(form)
    /\ UNCHANGED <<list, selected, options, hydrating, toggling, dialog, clicks>>

(* Success invalidates and forgets the selection it was for; bulk deletion *)
(* forgets it either way.  A modal's success closes the modal, and adding  *)
(* many closes it either way.                                              *)
AnswerTo(r) ==
    /\ r \in requests /\ r.served
    /\ requests' = requests \ {r}
    /\ IF r.ok THEN InvalidateAll ELSE UNCHANGED <<list, hidden>>
    /\ selected' = IF r.kind \in ForSelection /\ (r.ok \/ r.kind = "bulkDelete") THEN {} ELSE selected
    /\ dialog' = IF dialog # None /\ dialog.kind = r.kind /\ r.kind \in Modal
                    /\ (r.ok \/ r.kind = "bulkAdd")
                 THEN None ELSE dialog
    /\ toggling' = IF r.kind = "switch" THEN None ELSE toggling
    /\ UNCHANGED <<server, options, form, hydrating, saving, clicks>>

-----------------------------------------------------------------------------
Init ==
    /\ \E on \in {f \in [Clients -> Inbounds] : \A i, j \in Clients : i # j => f[i] # f[j]} :
        db = [i \in Clients |->
                 [email |-> i, sub |-> i, limit |-> 0, used |-> i = 1, on |-> TRUE, grp |-> i = 1,
                  ids |-> {on[i]}, flows |-> {on[i]} \cap Capable]]
    /\ query = [page |-> 1, bucket |-> ""]
    /\ cache = [q \in Queries |-> IF q # query THEN Missing ELSE Entry(ListPaged(db, q))]
    /\ fetches = [q \in Queries |-> Quiet]
    /\ held = cache[query] /\ failed = FALSE
    /\ selected = {} /\ options = FALSE /\ form = Closed /\ hydrating = {} /\ toggling = None
    /\ saving = NoSave /\ dialog = None /\ requests = {}
    /\ torn = FALSE /\ hidden = FALSE /\ overtaken = {} /\ clicks = 0

Next ==
    \/ \E q \in Queries : ListRead(q) \/ ListArrives(q)
    \/ ListFails
    \/ \E p \in 1..2 : GotoPage(p)
    \/ \E b \in {"", "deactive"} : SetFilter(b)
    \/ Refresh
    \/ \E row \in Shown.rows : ToggleSelect(row) \/ OnEdit(row) \/ OnToggleEnable(row)
    \/ \E checked \in BOOLEAN : SelectAll(checked)
    \/ OptionsArrive
    \/ OnAdd
    \/ \E h \in hydrating : HydrateRead(h) \/ EditOpens(h) \/ SwitchSends(h)
    \/ Type \/ CloseForm \/ OnSubmit \/ SaveServed \/ SaveAnswered
    \/ \E row \in Shown.rows : OnDelete(row) \/ OnResetTraffic(row)
    \/ OnDelDepleted \/ OnResetAll \/ OnBulkUngroup \/ OnBulkDelete
    \/ \E kind \in Kinds : OpenModal(kind)
    \/ CloseDialog \/ Confirm \/ SubmitGroup \/ SubmitAdjust
    \/ \E ids \in SUBSET Inbounds : SubmitAttach(ids) \/ SubmitDetach(ids)
    \/ \E b \in Inbounds : SubmitBulkAdd(b)
    \/ \E r \in requests : Served(r) \/ AnswerTo(r)

Spec == Init /\ [][Next]_vars

-----------------------------------------------------------------------------
(* Two clients never share a name or an identity, whichever records the    *)
(* form and the switches were handed late: the server's two uniqueness     *)
(* checks hold against a form that saves another client than it shows, and *)
(* against a creation sent again after its answer was lost                 *)
(* (ClientsPage.tsx:498, ClientFormModal.tsx:425, client_crud.go:82, 289). *)
(* The identities are promised until a request tears the listing from the  *)
(* records: the name left in an inbound's settings may then come back as a *)
(* second record of the same subscription.                                 *)
NeverMixed ==
    \A i, j \in DOMAIN db : i # j =>
        /\ db[i].email # db[j].email
        /\ ~torn => db[i].sub # db[j].sub

(* With nothing under way the list shows what the server has for the query *)
(* shown, or an error: every write the page was told of reaches the lists  *)
(* of all pages and filters, not only the one on screen                    *)
(* (useClients.ts:365).  Not promised for a write that was reported as     *)
(* failed, nor until the next change for a list whose first fetch, or      *)
(* whose fetch while another was on screen, the server had answered before *)
(* the write and the page received after it: that answer is not dropped,   *)
(* and with a staleTime of Infinity it stays.                              *)
Idle == /\ \A q \in Queries : fetches[q] = Quiet
        /\ saving = NoSave /\ requests = {} /\ hydrating = {}
ListFresh ==
    Idle /\ ~failed /\ ~hidden /\ query \notin overtaken =>
        ListPaged(db, query) = [rows |-> Shown.rows, filtered |-> Shown.filtered]

(* A save of an edited client that is reported done left the server with   *)
(* the form's fields and the form's inbounds, after any number of attempts *)
(* at the same inbounds that failed half way (ClientsPage.tsx:674): if     *)
(* nobody else wrote in between, the client was on an inbound that could   *)
(* take the fields, and the inbounds list every client as its record says. *)
SavedIsStored ==
    [][ ~torn /\ saving' # saving /\ Finished(saving) /\ saving.step # "create" /\ saving.alone
        /\ saving.linked
        => \E i \in Named(db, {saving.fields.email}) :
               /\ db[i].ids = saving.ids
               /\ Fields(db[i], db[i].flows # {})
                    = [saving.fields EXCEPT !.flow = @ /\ saving.ids \cap Capable # {}] ]_vars

(* A switch turned while nothing else is written changes nothing but the   *)
(* switch, although the whole record is sent back (useClients.ts:703), as  *)
(* long as the inbounds list every client as its record says.              *)
SwitchOnlySwitches ==
    [][ \A r \in requests : ~torn /\ r.kind = "switch" /\ r.alone /\ Served(r) =>
            \A i \in DOMAIN db : /\ i \in DOMAIN db'
                                 /\ db'[i] \in {db[i], [db[i] EXCEPT !.on = ~@]} ]_vars
=============================================================================
