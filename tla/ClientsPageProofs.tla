------------------------- MODULE ClientsPageProofs -------------------------
(***************************************************************************)
(* Proofs about ClientsPage for every set of clients, names and inbounds,  *)
(* every number of requests under way and every number of clicks.          *)
(*                                                                         *)
(* Apart is about the records alone: no request, whatever it carries and   *)
(* whenever it is served, brings two clients together.                     *)
(***************************************************************************)
EXTENDS ClientsPage, TLAPS

(* A record has every field a handler writes, and no other.                *)
IsClient(c) ==
    c = [x \in {"email", "sub", "limit", "used", "on", "grp", "ids", "flows"} |-> c[x]]

Shaped(d) == \A i \in DOMAIN d : IsClient(d[i])

(* No two of the records share a name or an identity.                      *)
Apart(d) ==
    \A i, j \in DOMAIN d : i # j => d[i].email # d[j].email /\ d[i].sub # d[j].sub

Sound(d) == Shaped(d) /\ Apart(d)

-----------------------------------------------------------------------------
(* A handler that only drops clients, or changes what is neither a name nor*)
(* an identity.                                                            *)
Follows(e, d) ==
    /\ DOMAIN e \subseteq DOMAIN d
    /\ \A i \in DOMAIN e : IsClient(e[i]) /\ e[i].email = d[i].email /\ e[i].sub = d[i].sub

LEMMA FollowersStayApart ==
    ASSUME NEW d, NEW e, Sound(d), Follows(e, d)
    PROVE  Sound(e)
  BY DEF Sound, Shaped, Apart, Follows

LEMMA WithoutFollows ==
    ASSUME NEW d, Sound(d), NEW ids
    PROVE  Follows(Without(d, ids), d)
  BY DEF Without, Follows, Sound, Shaped

LEMMA AttachedKeeps ==
    ASSUME NEW c, IsClient(c), NEW ids
    PROVE  /\ IsClient(Attached(c, ids)) /\ IsClient(Detached(c, ids))
           /\ Attached(c, ids).email = c.email /\ Attached(c, ids).sub = c.sub
           /\ Detached(c, ids).email = c.email /\ Detached(c, ids).sub = c.sub
  BY DEF Attached, Detached, IsClient

(* The requests that name the clients they change.                         *)
LEMMA BulkFollows ==
    ASSUME NEW d, Sound(d), NEW emails, NEW ids, NEW in
    PROVE  /\ Follows(AddToGroup(d, emails, in).db, d)
           /\ Follows(BulkAdjust(d, emails).db, d)
           /\ Follows(BulkAttach(d, emails, ids).db, d)
           /\ Follows(BulkDetach(d, emails, ids).db, d)
           /\ Follows(ResetTraffic(d, emails).db, d)
           /\ Follows(ResetAllTraffics(d).db, d)
  <1>1. Follows(AddToGroup(d, emails, in).db, d)
    BY DEF AddToGroup, Each, Reply, Follows, Sound, Shaped, IsClient
  <1>2. Follows(BulkAdjust(d, emails).db, d)
    BY DEF BulkAdjust, Each, Reply, Follows, Sound, Shaped, IsClient
  <1>3. Follows(BulkAttach(d, emails, ids).db, d)
    BY AttachedKeeps DEF BulkAttach, Each, Reply, Follows, Sound, Shaped
  <1>4. Follows(BulkDetach(d, emails, ids).db, d)
    BY AttachedKeeps DEF BulkDetach, Each, Reply, Follows, Sound, Shaped
  <1>5. Follows(ResetTraffic(d, emails).db, d)
    <2>. DEFINE Change(c) == [c EXCEPT !.used = FALSE, !.on = IF c.ids # {} THEN TRUE ELSE @]
    <2>1. ASSUME NEW i \in DOMAIN d
          PROVE  IsClient(Change(d[i])) /\ Change(d[i]).email = d[i].email
                 /\ Change(d[i]).sub = d[i].sub
      <3>. PICK on : on = IF d[i].ids # {} THEN TRUE ELSE d[i].on
        OBVIOUS
      <3>1. Change(d[i]) = [d[i] EXCEPT !.used = FALSE, !.on = on]
        OBVIOUS
      <3>2. IsClient(d[i])
        BY DEF Sound, Shaped
      <3>. HIDE DEF Change
      <3>3. QED
        BY <3>1, <3>2 DEF IsClient
    <2>2. ResetTraffic(d, emails).db = Each(d, emails, Change)
      BY DEF ResetTraffic, Reply
    <2>. HIDE DEF Change
    <2>3. QED
      BY <2>1, <2>2 DEF Each, Follows, Sound, Shaped
  <1>6. Follows(ResetAllTraffics(d).db, d)
    <2>1. ASSUME NEW i \in DOMAIN d
          PROVE  LET e == [d[i] EXCEPT !.used = FALSE]
                 IN  IsClient(e) /\ e.email = d[i].email /\ e.sub = d[i].sub
      BY DEF Sound, Shaped, IsClient
    <2>2. QED
      BY <2>1 DEF ResetAllTraffics, Reply, Follows, Sound, Shaped
  <1>7. QED
    BY <1>1, <1>2, <1>3, <1>4, <1>5, <1>6

(* Those that name one client, by a name somebody has or nobody.           *)
LEMMA OneFollows ==
    ASSUME NEW d, Sound(d), NEW email, NEW ids
    PROVE  /\ Sound(AttachByEmail(d, email, ids).db)
           /\ Sound(DetachByEmailMany(d, email, ids).db)
  <1>1. Follows(d, d)
    BY DEF Follows, Sound, Shaped
  <1>2. Follows(AttachByEmail(d, email, ids).db, d)
    BY <1>1, AttachedKeeps DEF AttachByEmail, Each, Reply, Follows, Sound, Shaped
  <1>3. Follows(DetachByEmailMany(d, email, ids).db, d)
    BY <1>1, AttachedKeeps DEF DetachByEmailMany, Each, Reply, Follows, Sound, Shaped
  <1>4. QED
    BY <1>2, <1>3, FollowersStayApart

LEMMA DeletionsFollow ==
    ASSUME NEW d, Sound(d), NEW emails
    PROVE  /\ Follows(DeleteOne(d, emails).db, d)
           /\ Follows(BulkDelete(d, emails).db, d)
           /\ Follows(DelDepleted(d).db, d)
  BY WithoutFollows DEF DeleteOne, BulkDelete, DelDepleted, Reply

(* What Update writes of the form into a client, and what it leaves.       *)
Filled(w, c, p) ==
    /\ IsClient(w) /\ w.email = c.email /\ w.ids = c.ids /\ w.used = c.used
    /\ w.sub = p.sub /\ w.limit = p.limit /\ w.on = p.on /\ w.grp = p.grp
    /\ w.flows = IF p.flow THEN c.flows \cup (c.ids \cap Capable) ELSE {}

LEMMA WrittenFields ==
    ASSUME NEW c, IsClient(c), NEW p
    PROVE  Filled(Written(c, p), c, p)
  <1>. PICK flows : flows = IF p.flow THEN c.flows \cup (c.ids \cap Capable) ELSE {}
    OBVIOUS
  <1>1. Written(c, p) = [c EXCEPT !.sub = p.sub, !.limit = p.limit, !.on = p.on, !.grp = p.grp,
                                  !.flows = flows]
    BY DEF Written
  <1>2. QED
    BY <1>1 DEF IsClient, Filled

(* Update: the name is taken only from nobody, the identity likewise, and a*)
(* refusal half way has only renamed.                                      *)
LEMMA UpdateStaysApart ==
    ASSUME NEW d, Sound(d), NEW i \in DOMAIN d, NEW p
    PROVE  Sound(Update(d, i, p).db)
  <1>. DEFINE renamed == [d EXCEPT ![i].email = p.email]
              others == DOMAIN d \ {i}
              full == [renamed EXCEPT ![i] = Written(@, p)]
  <1>1. CASE p.email # d[i].email /\ Named(d, {p.email}) # {}
    BY <1>1 DEF Update, Reply
  <1>2. ASSUME ~(p.email # d[i].email /\ Named(d, {p.email}) # {})
        PROVE  \A j \in others : d[j].email # p.email
    BY <1>2 DEF Named, Sound, Apart
  <1>3. /\ DOMAIN renamed = DOMAIN d
        /\ \A j \in others : renamed[j] = d[j]
        /\ IsClient(renamed[i]) /\ renamed[i].email = p.email /\ renamed[i].sub = d[i].sub
    BY DEF Sound, Shaped, IsClient
  <1>4. /\ DOMAIN full = DOMAIN d
        /\ \A j \in others : full[j] = d[j]
        /\ IsClient(full[i]) /\ full[i].email = p.email /\ full[i].sub = p.sub
    <2>. HIDE DEF renamed
    <2>1. /\ DOMAIN full = DOMAIN d
          /\ \A j \in others : full[j] = d[j]
          /\ full[i] = Written(renamed[i], p)
      BY <1>3
    <2>. HIDE DEF full, others
    <2>2. Filled(full[i], renamed[i], p)
      BY <1>3, <2>1, WrittenFields
    <2>3. QED
      BY <1>3, <2>1, <2>2 DEF Filled
  <1>5. ASSUME ~(p.email # d[i].email /\ Named(d, {p.email}) # {})
        PROVE  Sound(renamed)
    BY <1>2, <1>3, <1>5 DEF Sound, Shaped, Apart
  <1>6. ASSUME ~(p.email # d[i].email /\ Named(d, {p.email}) # {}),
               \A j \in others : d[j].sub # p.sub
        PROVE  Sound(full)
    BY <1>2, <1>4, <1>6 DEF Sound, Shaped, Apart
  <1>7. QED
    BY <1>1, <1>5, <1>6 DEF Update, Reply

LEMMA UpdateByEmailStaysApart ==
    ASSUME NEW d, Sound(d), NEW email, NEW p
    PROVE  Sound(UpdateByEmail(d, email, p).db)
  <1>1. CASE Named(d, {email}) = {}
    BY <1>1 DEF UpdateByEmail, Reply
  <1>2. CASE Named(d, {email}) # {}
    BY <1>2, UpdateStaysApart DEF UpdateByEmail, Named
  <1>3. QED
    BY <1>1, <1>2

LEMMA OneMoreStaysApart ==
    ASSUME NEW d, Sound(d), NEW e, NEW new, NEW made,
           DOMAIN e = DOMAIN d \cup {new},
           e[new] = made, IsClient(made),
           \A i \in DOMAIN d : i # new /\ e[i] = d[i],
           \A i \in DOMAIN d : d[i].email # made.email /\ d[i].sub # made.sub
    PROVE  Sound(e)
  BY DEF Sound, Shaped, Apart

(* Create: what it adds is refused unless it clashes with nobody, and the  *)
(* client it writes again keeps its name and identity.                     *)
LEMMA CreateStaysApart ==
    ASSUME NEW d, Sound(d), NEW p, NEW ids
    PROVE  Sound(Create(d, p, ids).db)
  <1>. DEFINE same == Named(d, {p.email})
              new == CHOOSE i \in Ids \ DOMAIN d : TRUE
              made == [email |-> p.email, sub |-> p.sub, limit |-> p.limit, used |-> FALSE,
                       on |-> TRUE, grp |-> p.grp, ids |-> ids,
                       flows |-> IF p.flow THEN ids \cap Capable ELSE {}]
              Again(c) == [c EXCEPT !.limit = p.limit, !.on = TRUE, !.grp = IF p.grp THEN TRUE ELSE @,
                                    !.ids = @ \cup ids,
                                    !.flows = IF p.flow THEN @ \cup ((ids \ c.ids) \cap Capable)
                                                        ELSE @]
              clash == \/ \E i \in same : d[i].sub # p.sub
                       \/ \E i \in DOMAIN d \ same : d[i].sub = p.sub
              added == [i \in DOMAIN d \cup {new} |-> IF i = new THEN made ELSE d[i]]
              again == [i \in DOMAIN d |-> IF d[i].email \in {p.email} THEN Again(d[i]) ELSE d[i]]
  <1>1. CASE ids = {} \/ clash
    BY <1>1 DEF Create, Reply
  <1>2. Follows(again, d)
    <2>1. ASSUME NEW i \in DOMAIN d
          PROVE  IsClient(Again(d[i])) /\ Again(d[i]).email = d[i].email
                 /\ Again(d[i]).sub = d[i].sub
      <3>. PICK grp : grp = IF p.grp THEN TRUE ELSE d[i].grp
        OBVIOUS
      <3>. PICK on : on = d[i].ids \cup ids
        OBVIOUS
      <3>. PICK flows : flows = IF p.flow THEN d[i].flows \cup ((ids \ d[i].ids) \cap Capable)
                                          ELSE d[i].flows
        OBVIOUS
      <3>1. Again(d[i]) = [d[i] EXCEPT !.limit = p.limit, !.on = TRUE, !.grp = grp, !.ids = on,
                                       !.flows = flows]
        OBVIOUS
      <3>2. IsClient(d[i])
        BY DEF Sound, Shaped
      <3>. HIDE DEF Again
      <3>3. QED
        BY <3>1, <3>2 DEF IsClient
    <2>. HIDE DEF Again
    <2>2. QED
      BY <2>1 DEF Follows, Sound, Shaped
  <1>3. ASSUME ~clash, same = {}, Ids \ DOMAIN d # {}
        PROVE  Sound(added)
    <2>1. new \notin DOMAIN d
      BY <1>3
    <2>2. \A i \in DOMAIN d : d[i].email # p.email /\ d[i].sub # p.sub
      BY <1>3 DEF Named
    <2>3. IsClient(made) /\ made.email = p.email /\ made.sub = p.sub
      BY DEF IsClient
    <2>4. /\ DOMAIN added = DOMAIN d \cup {new}
          /\ added[new] = made
          /\ \A i \in DOMAIN d : added[i] = d[i]
      BY <2>1
    <2>5. \A i \in DOMAIN d : i # new
      BY <2>1
    <2>. HIDE DEF made, added, new
    <2>6. \A i \in DOMAIN d : d[i].email # made.email /\ d[i].sub # made.sub
      BY <2>2, <2>3
    <2>7. QED
      BY <2>3, <2>4, <2>5, <2>6, OneMoreStaysApart
  <1>4. CASE ~(ids = {} \/ clash) /\ same # {}
    BY <1>2, <1>4, FollowersStayApart DEF Create, Tearing, Each
  <1>5. CASE ~(ids = {} \/ clash) /\ same = {}
    <2>1. CASE Ids \ DOMAIN d = {}
      BY <1>5, <2>1 DEF Create, Reply
    <2>2. CASE Ids \ DOMAIN d # {}
      <3>1. Create(d, p, ids).db = added
        BY <1>5, <2>2 DEF Create, Reply
      <3>2. QED
        BY <1>3, <1>5, <2>2, <3>1
    <2>3. QED
      BY <2>1, <2>2
  <1>6. QED
    BY <1>1, <1>4, <1>5

-----------------------------------------------------------------------------
(* What the page keeps of the requests under way: enough to tell which     *)
(* handler answers each, and whether it was served.                        *)
IsSave(s) ==
    /\ DOMAIN s = {"step", "served", "ok", "client", "fields", "ids", "attach", "detach", "alone",
                   "linked", "own"}
    /\ s.step \in {"create", "update", "attach", "detach"}

IsRequest(r) ==
    /\ DOMAIN r = {"kind", "emails", "n", "ids", "fields", "served", "ok", "alone"}
    /\ r.kind \in AllKinds \cup {"switch"}

UnderwayInv ==
    /\ saving # NoSave => IsSave(saving)
    /\ \A r \in requests : IsRequest(r)
    /\ dialog # None => dialog.kind \in AllKinds

-----------------------------------------------------------------------------
(* The steps of the page, by what they do to the server, the list and the  *)
(* requests under way.                                                     *)
Rests == UNCHANGED <<server, list, hidden, requests, saving, dialog>>
Lists == UNCHANGED <<server, requests, saving, dialog>>
Leaves == saving' = Left(saving) /\ UNCHANGED <<server, list, hidden, requests, dialog>>
Asks == /\ dialog' # None => dialog'.kind \in AllKinds
        /\ UNCHANGED <<server, list, hidden, requests, saving>>
Sends(r) == /\ requests' = requests \cup {r} /\ dialog' \in {dialog, None}
            /\ UNCHANGED <<server, list, hidden, saving>>

ListMoves ==
    \/ \E q \in Queries : ListRead(q) \/ ListArrives(q)
    \/ ListFails
    \/ \E p \in 1..2 : GotoPage(p)
    \/ \E b \in {"", "deactive"} : SetFilter(b)
    \/ Refresh

LEMMA RestsLemma ==
    ASSUME \/ \E row \in Shown.rows : ToggleSelect(row) \/ OnEdit(row) \/ OnToggleEnable(row)
           \/ \E checked \in BOOLEAN : SelectAll(checked)
           \/ OptionsArrive
           \/ OnAdd
           \/ \E h \in hydrating : HydrateRead(h)
           \/ Type
           \/ UNCHANGED vars
    PROVE  Rests
  BY DEF Rests, ToggleSelect, OnEdit, OnToggleEnable, SelectAll, OptionsArrive, OnAdd, HydrateRead,
         Type, vars

LEMMA ListsLemma ==
    ASSUME ListMoves
    PROVE  Lists
  BY DEF Lists, ListMoves, ListRead, ListArrives, ListFails, GotoPage, SetFilter, Refresh, server

LEMMA LeavesLemma ==
    ASSUME (\E h \in hydrating : EditOpens(h)) \/ CloseForm
    PROVE  Leaves
  BY DEF Leaves, EditOpens, CloseForm

LEMMA AsksLemma ==
    ASSUME \/ \E row \in Shown.rows : OnDelete(row) \/ OnResetTraffic(row)
           \/ OnDelDepleted \/ OnResetAll \/ OnBulkUngroup \/ OnBulkDelete
           \/ \E kind \in Kinds : OpenModal(kind)
           \/ CloseDialog
    PROVE  Asks
  BY KindsAssumption DEF Asks, OnDelete, OnResetTraffic, OnDelDepleted, OnResetAll, OnBulkUngroup, OnBulkDelete,
         OpenModal, CloseDialog, AskFirst

LEMMA RequestShape ==
    ASSUME NEW kind \in AllKinds \cup {"switch"}, NEW emails, NEW ids, NEW fields, NEW n, NEW alone
    PROVE  /\ IsRequest(Request(kind, emails)) /\ ~Request(kind, emails).served
           /\ Request(kind, emails).kind = kind
           /\ IsRequest([Request(kind, emails) EXCEPT !.ids = ids])
           /\ ~[Request(kind, emails) EXCEPT !.ids = ids].served
           /\ [Request(kind, emails) EXCEPT !.ids = ids].kind = kind
           /\ IsRequest([Request(kind, emails) EXCEPT !.ids = ids, !.fields = fields])
           /\ ~[Request(kind, emails) EXCEPT !.ids = ids, !.fields = fields].served
           /\ [Request(kind, emails) EXCEPT !.ids = ids, !.fields = fields].kind = kind
           /\ IsRequest([Request(kind, emails) EXCEPT !.n = n, !.fields = fields, !.alone = alone])
           /\ ~[Request(kind, emails) EXCEPT !.n = n, !.fields = fields, !.alone = alone].served
  BY DEF IsRequest, Request

(* What a switch sends.                                                    *)
SwitchOf(h) == [Request("switch", {h.row.email}) EXCEPT
                   !.n = h.n, !.fields = SwitchPayload(h),
                   !.alone = Same(h.row.email, Fields(h.got, h.got.flow), h.got.ids)]

(* What is sent is yet to be served.                                       *)
New(r) == /\ IsRequest(r) /\ ~r.served /\ Sends(r)
          /\ r.kind = "switch" => \E h \in hydrating : h.got # None /\ r = SwitchOf(h)

LEMMA SwitchShape ==
    ASSUME NEW h
    PROVE  /\ IsRequest(SwitchOf(h)) /\ ~SwitchOf(h).served /\ SwitchOf(h).emails = {h.row.email}
           /\ SwitchOf(h).fields = SwitchPayload(h)
           /\ SwitchOf(h).alone = Same(h.row.email, Fields(h.got, h.got.flow), h.got.ids)
  <1>. PICK p : p = SwitchPayload(h)
    OBVIOUS
  <1>. PICK alone : alone = Same(h.row.email, Fields(h.got, h.got.flow), h.got.ids)
    OBVIOUS
  <1>1. SwitchOf(h) = [Request("switch", {h.row.email}) EXCEPT !.n = h.n, !.fields = p, !.alone = alone]
    BY DEF SwitchOf
  <1>2. QED
    BY <1>1 DEF Request, IsRequest

LEMMA SendsLemma ==
    ASSUME UnderwayInv,
           \/ \E h \in hydrating : SwitchSends(h)
           \/ Confirm \/ SubmitGroup \/ SubmitAdjust
           \/ \E ids \in SUBSET Inbounds : SubmitAttach(ids) \/ SubmitDetach(ids)
           \/ \E b \in Inbounds : SubmitBulkAdd(b)
    PROVE  Rests \/ \E r : New(r)
  <1>1. ASSUME NEW h \in hydrating, SwitchSends(h)
        PROVE  Rests \/ \E r : New(r)
    <2>1. CASE h.got = None
      BY <1>1, <2>1 DEF SwitchSends, Rests
    <2>2. CASE h.got # None
      <3>1. IsRequest(SwitchOf(h)) /\ ~SwitchOf(h).served
        BY SwitchShape
      <3>2. Sends(SwitchOf(h))
        BY <1>1, <2>2 DEF SwitchSends, Sends, SwitchOf
      <3>3. QED
        BY <2>2, <3>1, <3>2 DEF New
    <2>3. QED
      BY <2>1, <2>2
  <1>2. ASSUME Confirm
        PROVE  \E r : New(r)
    <2>1. dialog.kind \in AllKinds /\ dialog.kind # "switch"
      BY <1>2 DEF Confirm, AllKinds, Confirmed
    <2>2. New(Request(dialog.kind, dialog.emails))
      BY <1>2, <2>1, RequestShape DEF Confirm, Send, New, Sends
    <2>3. QED
      BY <2>2
  <1>3. ASSUME SubmitGroup \/ SubmitAdjust
        PROVE  \E r : New(r)
    <2>1. New(Request("group", selected)) \/ New(Request("adjust", selected))
      BY <1>3, RequestShape DEF SubmitGroup, SubmitAdjust, Ready, Send, New, Sends, AllKinds, Modal
    <2>2. QED
      BY <2>1
  <1>4. ASSUME NEW ids \in SUBSET Inbounds, SubmitAttach(ids) \/ SubmitDetach(ids)
        PROVE  \E r : New(r)
    <2>1. \/ New([Request("attach", selected) EXCEPT !.ids = ids])
          \/ New([Request("detach", selected) EXCEPT !.ids = ids])
      BY <1>4, RequestShape DEF SubmitAttach, SubmitDetach, Ready, Send, New, Sends, AllKinds, Modal
    <2>2. QED
      BY <2>1
  <1>5. ASSUME NEW b \in Inbounds, SubmitBulkAdd(b)
        PROVE  \E r : New(r)
    <2>1. PICK fields : Send([Request("bulkAdd", {}) EXCEPT !.ids = {b}, !.fields = fields])
      BY <1>5 DEF SubmitBulkAdd
    <2>2. New([Request("bulkAdd", {}) EXCEPT !.ids = {b}, !.fields = fields])
      BY <1>5, <2>1, RequestShape DEF SubmitBulkAdd, Ready, Send, New, Sends, AllKinds, Modal
    <2>3. QED
      BY <2>2
  <1>6. QED
    BY <1>1, <1>2, <1>3, <1>4, <1>5

LEMMA StepCases ==
    ASSUME UnderwayInv, [Next]_vars
    PROVE  \/ Rests \/ ListMoves \/ Leaves \/ Asks
           \/ \E r : New(r)
           \/ OnSubmit \/ SaveServed \/ SaveAnswered
           \/ \E r \in requests : Served(r) \/ AnswerTo(r)
  <1>1. CASE UNCHANGED vars
    BY <1>1, RestsLemma
  <1>2. CASE Next
    BY <1>2, RestsLemma, LeavesLemma, AsksLemma, SendsLemma DEF Next, ListMoves
  <1>3. QED
    BY <1>1, <1>2

LEMMA SaveShape ==
    ASSUME NEW s, IsSave(s)
    PROVE  /\ IsSave(Left(s)) /\ IsSave(Alone(s))
           /\ s # NoSave /\ Left(s) # NoSave /\ Alone(s) # NoSave
           /\ Left(s).served = s.served /\ Left(s).ok = s.ok
           /\ Alone(s).served = s.served /\ Alone(s).ok = s.ok
  BY DEF IsSave, Left, Alone, NoSave

LEMMA AloneShape ==
    ASSUME NEW r, IsRequest(r)
    PROVE  IsRequest(Alone(r)) /\ Alone(r).served = r.served /\ Alone(r).ok = r.ok
  BY DEF IsRequest, Alone

LEMMA UnderwayPreserved ==
    ASSUME UnderwayInv, [Next]_vars
    PROVE  UnderwayInv'
  <1>1. CASE Rests \/ Lists
    BY <1>1 DEF Rests, Lists, UnderwayInv
  <1>2. CASE Leaves
    <2>1. saving' # NoSave => IsSave(saving')
      BY <1>2, SaveShape DEF Leaves, UnderwayInv, Left
    <2>2. QED
      BY <1>2, <2>1 DEF Leaves, UnderwayInv
  <1>3. CASE Asks
    BY <1>3 DEF Asks, UnderwayInv
  <1>4. ASSUME NEW r, New(r)
        PROVE  UnderwayInv'
    BY <1>4 DEF New, Sends, UnderwayInv
  <1>5. CASE OnSubmit
    <2>1. IsSave(saving')
      BY <1>5 DEF OnSubmit, IsSave
    <2>2. QED
      BY <1>5, <2>1 DEF OnSubmit, UnderwayInv
  <1>6. CASE SaveServed
    <2>1. IsSave(saving')
      BY <1>6 DEF SaveServed, IsSave, UnderwayInv
    <2>2. \A r \in requests' : IsRequest(r)
      BY <1>6, AloneShape DEF SaveServed, AllAlone, UnderwayInv
    <2>3. QED
      BY <1>6, <2>1, <2>2 DEF SaveServed, UnderwayInv
  <1>7. CASE SaveAnswered
    <2>1. saving' # NoSave => IsSave(saving')
      BY <1>7 DEF SaveAnswered, IsSave, UnderwayInv
    <2>2. QED
      BY <1>7, <2>1 DEF SaveAnswered, UnderwayInv
  <1>8. ASSUME NEW r \in requests, Served(r)
        PROVE  UnderwayInv'
    <2>1. saving' # NoSave => IsSave(saving')
      BY <1>8, SaveShape DEF Served, UnderwayInv, Alone
    <2>2. \A q \in requests' : IsRequest(q)
      <3>1. \A q \in AllAlone(requests \ {r}) : IsRequest(q)
        BY AloneShape DEF AllAlone, UnderwayInv
      <3>2. \A ok : IsRequest([r EXCEPT !.served = TRUE, !.ok = ok])
        BY DEF IsRequest, UnderwayInv
      <3>3. QED
        BY <1>8, <3>1, <3>2 DEF Served
    <2>3. QED
      BY <1>8, <2>1, <2>2 DEF Served, UnderwayInv
  <1>9. ASSUME NEW r \in requests, AnswerTo(r)
        PROVE  UnderwayInv'
    BY <1>9 DEF AnswerTo, UnderwayInv
  <1>10. QED
    BY <1>1, <1>2, <1>3, <1>4, <1>5, <1>6, <1>7, <1>8, <1>9, StepCases, ListsLemma

-----------------------------------------------------------------------------
(* Every handler the page calls keeps the clients apart.                   *)
LEMMA SaveStaysApart ==
    ASSUME Sound(db), NEW s, IsSave(s)
    PROVE  Sound(SaveReply(s).db)
  <1>1. CASE s.step = "create"
    BY <1>1, CreateStaysApart DEF SaveReply
  <1>2. CASE s.step = "update"
    BY <1>2, UpdateByEmailStaysApart DEF SaveReply
  <1>3. CASE s.step = "attach"
    BY <1>3, OneFollows DEF SaveReply
  <1>4. CASE s.step = "detach"
    BY <1>4, OneFollows DEF SaveReply
  <1>5. QED
    BY <1>1, <1>2, <1>3, <1>4 DEF IsSave

LEMMA RequestStaysApart ==
    ASSUME Sound(db), NEW r, IsRequest(r)
    PROVE  Sound(ReplyTo(r).db)
  <1>1. CASE r.kind = "switch"
    BY <1>1, UpdateByEmailStaysApart DEF ReplyTo
  <1>2. CASE r.kind \in {"delete", "bulkDelete", "delDepleted"}
    BY <1>2, DeletionsFollow, FollowersStayApart DEF ReplyTo
  <1>3. CASE r.kind \in {"resetAll", "reset", "ungroup", "group", "adjust", "attach", "detach"}
    BY <1>3, BulkFollows, FollowersStayApart DEF ReplyTo
  <1>4. CASE r.kind = "bulkAdd"
    <2>1. ReplyTo(r).db = Create(db, r.fields, r.ids).db
      BY <1>4 DEF ReplyTo, Create, Reply, Tearing
    <2>2. QED
      BY <2>1, CreateStaysApart
  <1>5. QED
    BY <1>1, <1>2, <1>3, <1>4 DEF IsRequest, AllKinds, Confirmed, Modal

LEMMA TakenStaysApart ==
    ASSUME Sound(db), NEW reply, Sound(reply.db), NEW ok, Taken(reply, ok)
    PROVE  Sound(db')
  BY DEF Taken, server

ApartInv == UnderwayInv /\ Sound(db)

LEMMA ApartInit == Init => ApartInv
  <1> SUFFICES ASSUME Init
               PROVE  ApartInv
    OBVIOUS
  <1>1. UnderwayInv
    BY DEF Init, UnderwayInv
  <1>2. PICK on \in [Clients -> Inbounds] :
            db = [i \in Clients |->
                 [email |-> i, sub |-> i, limit |-> 0, used |-> i = 1, on |-> TRUE, grp |-> i = 1,
                  ids |-> {on[i]}, flows |-> {on[i]} \cap Capable]]
    BY DEF Init
  <1>3. Sound(db)
    BY <1>2 DEF Sound, Shaped, Apart, IsClient
  <1>4. QED
    BY <1>1, <1>3 DEF ApartInv

LEMMA ApartNext == ApartInv /\ [Next]_vars => ApartInv'
  <1> SUFFICES ASSUME ApartInv, [Next]_vars
               PROVE  ApartInv'
    OBVIOUS
  <1>. USE DEF ApartInv
  <1>1. UnderwayInv'
    BY UnderwayPreserved
  <1>2. CASE db' = db
    BY <1>1, <1>2
  <1>3. CASE SaveServed
    <2>1. PICK ok \in BOOLEAN : Taken(SaveReply(saving), ok)
      BY <1>3 DEF SaveServed
    <2>2. Sound(db')
      BY <1>3, <2>1, SaveStaysApart, TakenStaysApart DEF SaveServed, UnderwayInv
    <2>3. QED
      BY <1>1, <2>2
  <1>4. ASSUME NEW r \in requests, Served(r)
        PROVE  ApartInv'
    <2>1. PICK ok \in BOOLEAN : Taken(ReplyTo(r), ok)
      BY <1>4 DEF Served
    <2>2. Sound(db')
      BY <1>4, <2>1, RequestStaysApart, TakenStaysApart DEF UnderwayInv
    <2>3. QED
      BY <1>1, <2>2
  <1>5. CASE OnSubmit \/ SaveAnswered \/ (\E r \in requests : AnswerTo(r))
    BY <1>2, <1>5 DEF OnSubmit, SaveAnswered, AnswerTo, server
  <1>6. CASE Rests \/ Lists \/ Leaves \/ Asks \/ \E r : New(r)
    BY <1>2, <1>6 DEF Rests, Lists, Leaves, Asks, New, Sends, server
  <1>7. QED
    BY <1>3, <1>4, <1>5, <1>6, StepCases, ListsLemma

(* No two clients are ever mixed up, whatever was read late and whatever   *)
(* was sent twice: every handler leaves the records apart                  *)
(* (client_crud.go:82, 289).                                               *)
THEOREM ClientsStayApart == Spec => []NeverMixed
  <1>1. ApartInv => NeverMixed
    BY DEF ApartInv, Sound, Apart, NeverMixed
  <1>2. QED
    BY <1>1, ApartInit, ApartNext, PTL DEF Spec

-----------------------------------------------------------------------------
(* A write that was reported done, and whose answer the page is to hear.   *)
Answering ==
    \/ saving # NoSave /\ saving.served /\ saving.ok
    \/ \E r \in requests : r.served /\ r.ok

(* An idle list is fresh, or shows the error.                              *)
ListInv ==
    /\ query \in Queries
    /\ DOMAIN cache = Queries /\ DOMAIN fetches = Queries
    /\ \A q \in Queries : "is" \in DOMAIN cache[q]
    /\ fetches[query] = Quiet /\ ~failed => cache[query].is = "fresh"

(* A list taken for fresh, or on its way, is what the server has now.      *)
Current(q) ==
    /\ cache[q].is = "fresh" =>
           ListPaged(db, q) = [rows |-> cache[q].rows, filtered |-> cache[q].filtered]
    /\ fetches[q].step = "read" => fetches[q].page = ListPaged(db, q)

(* It may be otherwise only until the answer of a write arrives, after a   *)
(* write the page does not know of, or for a fetch a change overtook.      *)
CurrentInv == ~Answering /\ ~hidden => \A q \in Queries \ overtaken : Current(q)

FreshInv == UnderwayInv /\ ListInv /\ CurrentInv

LEMMA FirstPage == \A b \in {"", "deactive"} : [page |-> 1, bucket |-> b] \in Queries
  <1>1. 1 \in 1..2
    OBVIOUS
  <1>2. QED
    BY <1>1 DEF Queries

LEMMA PageShape ==
    ASSUME NEW d, NEW q
    PROVE  ListPaged(d, q) = [rows |-> ListPaged(d, q).rows, filtered |-> ListPaged(d, q).filtered]
  BY DEF ListPaged

LEMMA InvalidateAllFacts ==
    ASSUME ListInv, InvalidateAll
    PROVE  ListInv' /\ CurrentInv'
  <1>1. \A q \in Queries : "is" \in DOMAIN cache'[q] /\ cache'[q].is # "fresh"
    BY DEF InvalidateAll, ListInv, Outdated, Missing
  <1>2. /\ DOMAIN cache' = Queries /\ DOMAIN fetches' = Queries /\ fetches'[query] # Quiet
        /\ \A q \in Queries : fetches'[q] = fetches[q] \/ (q = query /\ fetches'[q] = Ask)
        /\ fetches'[query] = Ask \/ First(query)
    <2>1. /\ DOMAIN cache' = Queries /\ DOMAIN fetches' = Queries
          /\ \A q \in Queries : fetches'[q] = IF q = query /\ ~First(q) THEN Ask ELSE fetches[q]
      BY DEF InvalidateAll, Reasked, ListInv
    <2>2. Ask # Quiet /\ (First(query) => fetches[query] # Quiet)
      BY DEF Ask, Quiet, First
    <2>3. query \in Queries
      BY DEF ListInv
    <2>4. QED
      BY <2>1, <2>2, <2>3
  <1>3. ASSUME NEW q \in Queries \ overtaken' PROVE fetches'[q].step # "read"
    <2>1. Ask.step # "read"
      BY DEF Ask
    <2>2. fetches[q].step = "read" => q = query /\ ~First(q)
      BY DEF InvalidateAll
    <2>3. QED
      BY <1>2, <2>1, <2>2
  <1>4. ListInv'
    BY <1>1, <1>2 DEF InvalidateAll, ListInv, Ask, Quiet
  <1>5. CurrentInv'
    BY <1>1, <1>3 DEF CurrentInv, Current
  <1>6. QED
    BY <1>4, <1>5

LEMMA ListMovesFacts ==
    ASSUME FreshInv, ListMoves
    PROVE  ListInv' /\ CurrentInv'
  <1>. USE DEF FreshInv
  <1>0. Lists /\ db' = db /\ Answering' = Answering
    BY ListsLemma DEF Lists, server, Answering
  <1>1. ASSUME NEW q \in Queries, ListRead(q)
        PROVE  ListInv' /\ CurrentInv'
    <2>1. ListInv'
      BY <1>1 DEF ListRead, ListInv, Quiet
    <2>2. CurrentInv'
      BY <1>0, <1>1 DEF ListRead, ListInv, CurrentInv, Current
    <2>3. QED
      BY <2>1, <2>2
  <1>2. ASSUME NEW q \in Queries, ListArrives(q)
        PROVE  ListInv' /\ CurrentInv'
    <2>1. /\ cache'[q] = Entry(fetches[q].page) /\ fetches'[q] = Quiet
          /\ \A p \in Queries \ {q} : cache'[p] = cache[p] /\ fetches'[p] = fetches[p]
          /\ DOMAIN cache' = Queries /\ DOMAIN fetches' = Queries
      BY <1>2 DEF ListArrives, ListInv
    <2>2. ListInv'
      BY <1>2, <2>1 DEF ListArrives, ListInv, Entry
    <2>3. Current(q) => Current(q)'
      BY <1>0, <1>2, <2>1, PageShape DEF ListArrives, Current, Entry, Quiet
    <2>4. \A p \in Queries \ {q} : Current(p) => Current(p)'
      BY <1>0, <2>1 DEF Current
    <2>5. CurrentInv'
      BY <1>0, <1>2, <2>3, <2>4 DEF ListArrives, CurrentInv
    <2>6. QED
      BY <2>2, <2>5
  <1>3. ASSUME ListFails
        PROVE  ListInv' /\ CurrentInv'
    <2>1. ListInv'
      BY <1>3 DEF ListFails, ListInv
    <2>2. CurrentInv'
      BY <1>0, <1>3 DEF ListFails, ListInv, CurrentInv, Current, Quiet
    <2>3. QED
      BY <2>1, <2>2
  <1>4. ASSUME NEW q \in Queries, ShowQuery(q), UNCHANGED <<server, hidden>>
        PROVE  ListInv' /\ CurrentInv'
    <2>1. ListInv'
      BY <1>4 DEF ShowQuery, ListInv, Wanted, Ask, Quiet
    <2>2. CurrentInv'
      BY <1>0, <1>4 DEF ShowQuery, ListInv, CurrentInv, Current, Ask
    <2>3. QED
      BY <2>1, <2>2
  <1>5. ASSUME NEW p \in 1..2, GotoPage(p)
        PROVE  ListInv' /\ CurrentInv'
    <2>1. [query EXCEPT !.page = p] \in Queries
      BY DEF ListInv, Queries
    <2>2. QED
      BY <1>4, <1>5, <2>1 DEF GotoPage
  <1>6. ASSUME NEW b \in {"", "deactive"}, SetFilter(b)
        PROVE  ListInv' /\ CurrentInv'
    <2>1. [page |-> 1, bucket |-> b] \in Queries
      BY FirstPage
    <2>2. QED
      BY <1>4, <1>6, <2>1 DEF SetFilter
  <1>7. CASE Refresh
    BY <1>7, InvalidateAllFacts DEF Refresh
  <1>8. QED
    BY <1>1, <1>2, <1>3, <1>5, <1>6, <1>7 DEF ListMoves

LEMMA FreshInit == Init => FreshInv
  <1> SUFFICES ASSUME Init
               PROVE  FreshInv
    OBVIOUS
  <1>1. UnderwayInv
    BY DEF Init, UnderwayInv
  <1>2. query = [page |-> 1, bucket |-> ""] /\ query \in Queries
    BY FirstPage DEF Init
  <1>3. /\ cache = [q \in Queries |-> IF q # query THEN Missing ELSE Entry(ListPaged(db, q))]
        /\ fetches = [q \in Queries |-> Quiet]
    BY DEF Init
  <1>4. ListInv
    BY <1>2, <1>3 DEF ListInv, Missing, Entry
  <1>5. CurrentInv
    BY <1>2, <1>3, PageShape DEF CurrentInv, Current, Missing, Entry, Quiet
  <1>6. QED
    BY <1>1, <1>4, <1>5 DEF FreshInv

(* A request that was served without success, or whose answer was lost,    *)
(* leaves the records as they were, or is hidden.                          *)
LEMMA FreshNext == FreshInv /\ [Next]_vars => FreshInv'
  <1> SUFFICES ASSUME FreshInv, [Next]_vars
               PROVE  FreshInv'
    OBVIOUS
  <1>. USE DEF FreshInv
  <1>0. UnderwayInv'
    BY UnderwayPreserved
  <1>1. ASSUME UNCHANGED list, db' = db, ~Answering' /\ ~hidden' => ~Answering /\ ~hidden
        PROVE  FreshInv'
    <2>1. ListInv'
      BY <1>1 DEF list, ListInv
    <2>2. CurrentInv'
      BY <1>1 DEF list, CurrentInv, Current
    <2>3. QED
      BY <1>0, <2>1, <2>2
  <1>2. ASSUME UNCHANGED list, Answering' \/ hidden'
        PROVE  FreshInv'
    BY <1>0, <1>2 DEF list, ListInv, CurrentInv
  <1>3. CASE Rests \/ Asks
    BY <1>1, <1>3 DEF Rests, Asks, server, Answering
  <1>4. CASE Leaves
    <2>1. Answering' <=> Answering
      BY <1>4, SaveShape DEF Leaves, Answering, UnderwayInv, Left
    <2>2. QED
      BY <1>1, <1>4, <2>1 DEF Leaves, server
  <1>5. ASSUME NEW r, New(r)
        PROVE  FreshInv'
    <2>1. Answering' <=> Answering
      BY <1>5 DEF New, Sends, Answering
    <2>2. QED
      BY <1>1, <1>5, <2>1 DEF New, Sends, server
  <1>6. CASE OnSubmit
    <2>1. Answering' <=> Answering
      BY <1>6 DEF OnSubmit, Answering
    <2>2. QED
      BY <1>1, <1>6, <2>1 DEF OnSubmit, server
  <1>7. CASE SaveServed
    <2>1. PICK ok \in BOOLEAN :
              /\ saving'.served /\ saving'.ok = ok /\ saving' # NoSave
              /\ hidden' = (hidden \/ (~ok /\ db' # db))
      BY <1>7 DEF SaveServed, UnderwayInv, IsSave, NoSave
    <2>2. ASSUME db' = db
          PROVE  requests' = requests
      <3>1. \A r : Alone(r) = r
        BY <2>2 DEF Alone
      <3>2. QED
        BY <1>7, <3>1 DEF SaveServed, AllAlone
    <2>3. CASE ok \/ db' # db
      BY <1>2, <1>7, <2>1, <2>3 DEF SaveServed, Answering
    <2>4. CASE ~ok /\ db' = db
      BY <1>1, <1>7, <2>1, <2>2, <2>4 DEF SaveServed, Answering
    <2>5. QED
      BY <2>3, <2>4
  <1>8. CASE SaveAnswered
    <2>1. CASE saving.ok
      BY <1>0, <1>8, <2>1, InvalidateAllFacts DEF SaveAnswered
    <2>2. CASE ~saving.ok
      BY <1>1, <1>8, <2>2 DEF SaveAnswered, Answering, server
    <2>3. QED
      BY <2>1, <2>2
  <1>9. ASSUME NEW r \in requests, Served(r)
        PROVE  FreshInv'
    <2>1. PICK ok \in BOOLEAN :
              /\ requests' = AllAlone(requests \ {r}) \cup {[r EXCEPT !.served = TRUE, !.ok = ok]}
              /\ hidden' = (hidden \/ (~ok /\ db' # db))
      BY <1>9 DEF Served
    <2>. DEFINE answered == [r EXCEPT !.served = TRUE, !.ok = ok]
    <2>2. answered \in requests' /\ answered.served /\ answered.ok = ok
      BY <2>1 DEF UnderwayInv, IsRequest
    <2>3. CASE ok \/ db' # db
      BY <1>2, <1>9, <2>1, <2>2, <2>3 DEF Served, Answering
    <2>4. CASE ~ok /\ db' = db
      <3>1. \A q : Alone(q) = q
        BY <2>4 DEF Alone
      <3>2. requests \ {r} \subseteq requests' /\ saving' = saving
        BY <1>9, <2>1, <3>1 DEF Served, AllAlone
      <3>3. ~Answering' => ~Answering
        BY <1>9, <3>2 DEF Served, Answering
      <3>4. QED
        BY <1>1, <1>9, <2>1, <2>4, <3>3 DEF Served
    <2>5. QED
      BY <2>3, <2>4
  <1>10. ASSUME NEW r \in requests, AnswerTo(r)
         PROVE  FreshInv'
    <2>1. CASE r.ok
      BY <1>0, <1>10, <2>1, InvalidateAllFacts DEF AnswerTo
    <2>2. CASE ~r.ok
      BY <1>1, <1>10, <2>2 DEF AnswerTo, Answering, server
    <2>3. QED
      BY <2>1, <2>2
  <1>11. CASE ListMoves
    BY <1>0, <1>11, ListMovesFacts
  <1>12. QED
    BY <1>3, <1>4, <1>5, <1>6, <1>7, <1>8, <1>9, <1>10, <1>11, StepCases

(* An idle list is what the server has, or an error is shown: every write  *)
(* that is reported done marks every list, and the one shown is asked for  *)
(* again (useClients.ts:365), unless the server had answered a fetch that  *)
(* is left to finish.                                                      *)
THEOREM IdleListIsFresh == Spec => []ListFresh
  <1>1. FreshInv => ListFresh
    <2> SUFFICES ASSUME FreshInv, Idle, ~failed, ~hidden, query \notin overtaken
                 PROVE  ListPaged(db, query) = [rows |-> Shown.rows, filtered |-> Shown.filtered]
      BY DEF ListFresh
    <2>1. ~Answering
      BY DEF Idle, Answering
    <2>2. Current(query) /\ cache[query].is = "fresh"
      BY <2>1 DEF FreshInv, ListInv, CurrentInv, Idle
    <2>3. Shown = cache[query]
      BY <2>2 DEF Shown, Missing
    <2>4. QED
      BY <2>2, <2>3 DEF Current
  <1>2. QED
    BY <1>1, FreshInit, FreshNext, PTL DEF Spec

-----------------------------------------------------------------------------
(* The switch of a record is on or off.                                    *)
Switched(d) == \A i \in DOMAIN d : d[i].on \in BOOLEAN

(* A client uses the flow on all of its inbounds that can, or on none.     *)
Even(d) == \A i \in DOMAIN d : d[i].flows = {} \/ d[i].flows = d[i].ids \cap Capable

Neat(d) == Sound(d) /\ Switched(d)

(* What a handler makes of neat records.                                   *)
Tidies(reply, d) ==
    /\ Neat(reply.db)
    /\ ~reply.torn /\ Even(d) => Even(reply.db)

LEMMA RefusalTidies ==
    ASSUME NEW d, Neat(d), NEW reply, reply.db = d
    PROVE  Tidies(reply, d)
  BY DEF Tidies

EvenClient(c) == c.flows = {} \/ c.flows = c.ids \cap Capable

LEMMA AttachedTidies ==
    ASSUME NEW c, IsClient(c), NEW ids
    PROVE  /\ Attached(c, ids).on = c.on /\ Detached(c, ids).on = c.on
           /\ EvenClient(c) => EvenClient(Attached(c, ids)) /\ EvenClient(Detached(c, ids))
  <1>1. /\ Attached(c, ids).on = c.on /\ Detached(c, ids).on = c.on
        /\ Attached(c, ids).ids = c.ids \cup ids /\ Detached(c, ids).ids = c.ids \ ids
        /\ Attached(c, ids).flows = IF c.flows = {} THEN {} ELSE c.flows \cup ((ids \ c.ids) \cap Capable)
        /\ Detached(c, ids).flows = c.flows \ ids
    BY DEF Attached, Detached, IsClient
  <1>2. QED
    BY <1>1 DEF EvenClient

LEMMA BulkTidies ==
    ASSUME NEW d, Neat(d), NEW emails, NEW ids, NEW in
    PROVE  /\ Tidies(AddToGroup(d, emails, in), d)
           /\ Tidies(BulkAdjust(d, emails), d)
           /\ Tidies(BulkAttach(d, emails, ids), d)
           /\ Tidies(BulkDetach(d, emails, ids), d)
           /\ Tidies(ResetTraffic(d, emails), d)
           /\ Tidies(ResetAllTraffics(d), d)
  <1>. USE DEF Neat, Tidies
  <1>0. /\ Sound(AddToGroup(d, emails, in).db) /\ Sound(BulkAdjust(d, emails).db)
        /\ Sound(BulkAttach(d, emails, ids).db) /\ Sound(BulkDetach(d, emails, ids).db)
        /\ Sound(ResetTraffic(d, emails).db) /\ Sound(ResetAllTraffics(d).db)
    BY BulkFollows, FollowersStayApart
  <1>1. Tidies(AddToGroup(d, emails, in), d)
    BY <1>0 DEF AddToGroup, Each, Reply, Switched, Even, Sound, Shaped, IsClient
  <1>2. Tidies(BulkAdjust(d, emails), d)
    BY <1>0 DEF BulkAdjust, Each, Reply, Switched, Even, Sound, Shaped, IsClient
  <1>3. Tidies(BulkAttach(d, emails, ids), d)
    BY <1>0, AttachedTidies DEF BulkAttach, Each, Reply, Switched, Even, EvenClient, Sound, Shaped
  <1>4. Tidies(BulkDetach(d, emails, ids), d)
    BY <1>0, AttachedTidies DEF BulkDetach, Each, Reply, Switched, Even, EvenClient, Sound, Shaped
  <1>5. Tidies(ResetTraffic(d, emails), d)
    <2>. DEFINE Change(c) == [c EXCEPT !.used = FALSE, !.on = IF c.ids # {} THEN TRUE ELSE @]
    <2>1. ASSUME NEW i \in DOMAIN d
          PROVE  /\ d[i].on \in BOOLEAN => Change(d[i]).on \in BOOLEAN
                 /\ Change(d[i]).ids = d[i].ids /\ Change(d[i]).flows = d[i].flows
      <3>. PICK on : on = IF d[i].ids # {} THEN TRUE ELSE d[i].on
        OBVIOUS
      <3>1. Change(d[i]) = [d[i] EXCEPT !.used = FALSE, !.on = on]
        OBVIOUS
      <3>2. IsClient(d[i]) /\ (d[i].on \in BOOLEAN => on \in BOOLEAN)
        BY DEF Sound, Shaped
      <3>. HIDE DEF Change
      <3>3. QED
        BY <3>1, <3>2 DEF IsClient
    <2>2. ResetTraffic(d, emails) = Reply(Each(d, emails, Change), TRUE)
      BY DEF ResetTraffic
    <2>. HIDE DEF Change
    <2>3. QED
      BY <1>0, <2>1, <2>2 DEF Each, Reply, Switched, Even
  <1>6. Tidies(ResetAllTraffics(d), d)
    BY <1>0 DEF ResetAllTraffics, Reply, Switched, Even, Sound, Shaped, IsClient
  <1>7. QED
    BY <1>1, <1>2, <1>3, <1>4, <1>5, <1>6

LEMMA OneTidies ==
    ASSUME NEW d, Neat(d), NEW email, NEW ids
    PROVE  /\ Tidies(AttachByEmail(d, email, ids), d)
           /\ Tidies(DetachByEmailMany(d, email, ids), d)
  <1>1. \/ AttachByEmail(d, email, ids) = Reply(d, FALSE)
        \/ AttachByEmail(d, email, ids) = BulkAttach(d, {email}, ids)
    BY DEF AttachByEmail, BulkAttach
  <1>2. \/ DetachByEmailMany(d, email, ids) = Reply(d, FALSE)
        \/ DetachByEmailMany(d, email, ids) = BulkDetach(d, {email}, ids)
    BY DEF DetachByEmailMany, BulkDetach
  <1>3. Tidies(Reply(d, FALSE), d)
    BY RefusalTidies DEF Reply
  <1>4. QED
    BY <1>1, <1>2, <1>3, BulkTidies

LEMMA DeletionsTidy ==
    ASSUME NEW d, Neat(d), NEW emails
    PROVE  /\ Tidies(DeleteOne(d, emails), d)
           /\ Tidies(BulkDelete(d, emails), d)
           /\ Tidies(DelDepleted(d), d)
  <1>1. ASSUME NEW ids, NEW ok
        PROVE  Tidies(Reply(Without(d, ids), ok), d)
    <2>1. Sound(Without(d, ids))
      BY WithoutFollows, FollowersStayApart DEF Neat
    <2>2. QED
      BY <2>1 DEF Tidies, Neat, Reply, Without, Switched, Even
  <1>2. QED
    BY <1>1 DEF DeleteOne, BulkDelete, DelDepleted

LEMMA UpdateTidies ==
    ASSUME NEW d, Neat(d), NEW i \in DOMAIN d, NEW p, p.on \in BOOLEAN
    PROVE  Tidies(Update(d, i, p), d)
  <1>. DEFINE renamed == [d EXCEPT ![i].email = p.email]
              others == DOMAIN d \ {i}
              full == [renamed EXCEPT ![i] = Written(@, p)]
  <1>1. Sound(Update(d, i, p).db)
    BY UpdateStaysApart DEF Neat
  <1>2. Update(d, i, p).db \in {d, renamed, full}
    BY DEF Update, Reply
  <1>3. IsClient(d[i])
    BY DEF Neat, Sound, Shaped
  <1>4. /\ DOMAIN renamed = DOMAIN d
        /\ \A j \in others : renamed[j] = d[j]
        /\ IsClient(renamed[i])
        /\ renamed[i].on = d[i].on /\ renamed[i].ids = d[i].ids /\ renamed[i].flows = d[i].flows
    BY <1>3 DEF IsClient
  <1>. HIDE DEF renamed
  <1>5. /\ DOMAIN full = DOMAIN d
        /\ \A j \in others : full[j] = d[j]
        /\ full[i].on = p.on /\ full[i].ids = d[i].ids
        /\ full[i].flows = IF p.flow THEN d[i].flows \cup (d[i].ids \cap Capable) ELSE {}
    <2>1. /\ DOMAIN full = DOMAIN d
          /\ \A j \in others : full[j] = d[j]
          /\ full[i] = Written(renamed[i], p)
      BY <1>4
    <2>. HIDE DEF full, others
    <2>2. Filled(full[i], renamed[i], p)
      BY <1>4, <2>1, WrittenFields
    <2>3. QED
      BY <1>4, <2>1, <2>2 DEF Filled
  <1>. HIDE DEF full
  <1>6. Switched(renamed) /\ (Even(d) => Even(renamed))
    BY <1>4 DEF Neat, Switched, Even
  <1>7. Switched(full) /\ (Even(d) => Even(full))
    BY <1>5 DEF Neat, Switched, Even
  <1>8. QED
    BY <1>1, <1>2, <1>6, <1>7 DEF Neat, Tidies

LEMMA UpdateByEmailTidies ==
    ASSUME NEW d, Neat(d), NEW email, NEW p, p.on \in BOOLEAN
    PROVE  Tidies(UpdateByEmail(d, email, p), d)
  <1>1. CASE Named(d, {email}) = {}
    BY <1>1, RefusalTidies DEF UpdateByEmail, Reply
  <1>2. CASE Named(d, {email}) # {}
    <2>1. (CHOOSE i \in Named(d, {email}) : TRUE) \in DOMAIN d
      BY <1>2 DEF Named
    <2>2. Tidies(Update(d, CHOOSE i \in Named(d, {email}) : TRUE, p), d)
      BY <2>1, UpdateTidies
    <2>3. QED
      BY <1>2, <2>2 DEF UpdateByEmail
  <1>3. QED
    BY <1>1, <1>2

(* A new client is on; one written again is turned on, and tears.          *)
LEMMA CreateTidies ==
    ASSUME NEW d, Neat(d), NEW p, NEW ids
    PROVE  Tidies(Create(d, p, ids), d)
  <1>. DEFINE same == Named(d, {p.email})
              new == CHOOSE i \in Ids \ DOMAIN d : TRUE
              made == [email |-> p.email, sub |-> p.sub, limit |-> p.limit, used |-> FALSE,
                       on |-> TRUE, grp |-> p.grp, ids |-> ids,
                       flows |-> IF p.flow THEN ids \cap Capable ELSE {}]
              Again(c) == [c EXCEPT !.limit = p.limit, !.on = TRUE, !.grp = IF p.grp THEN TRUE ELSE @,
                                    !.ids = @ \cup ids,
                                    !.flows = IF p.flow THEN @ \cup ((ids \ c.ids) \cap Capable)
                                                        ELSE @]
              added == [i \in DOMAIN d \cup {new} |-> IF i = new THEN made ELSE d[i]]
              again == Tearing(Each(d, {p.email}, Again), TRUE)
  <1>1. Sound(Create(d, p, ids).db)
    BY CreateStaysApart DEF Neat
  <1>2. \/ Create(d, p, ids) = Reply(d, FALSE)
        \/ Create(d, p, ids) = again
        \/ Create(d, p, ids) = Reply(added, TRUE)
    BY DEF Create
  <1>3. CASE Create(d, p, ids) = Reply(d, FALSE)
    BY <1>3, RefusalTidies DEF Reply
  <1>4. CASE Create(d, p, ids) = again
    <2>1. ASSUME NEW i \in DOMAIN d
          PROVE  Again(d[i]).on = TRUE
      <3>. PICK grp : grp = IF p.grp THEN TRUE ELSE d[i].grp
        OBVIOUS
      <3>. PICK flows : flows = IF p.flow THEN d[i].flows \cup ((ids \ d[i].ids) \cap Capable)
                                          ELSE d[i].flows
        OBVIOUS
      <3>1. Again(d[i]) = [d[i] EXCEPT !.limit = p.limit, !.on = TRUE, !.grp = grp,
                                       !.ids = d[i].ids \cup ids, !.flows = flows]
        OBVIOUS
      <3>2. IsClient(d[i])
        BY DEF Neat, Sound, Shaped
      <3>. HIDE DEF Again
      <3>3. QED
        BY <3>1, <3>2 DEF IsClient
    <2>. HIDE DEF Again
    <2>2. again.torn /\ Switched(again.db)
      BY <2>1 DEF Tearing, Each, Neat, Switched
    <2>3. QED
      BY <1>1, <1>4, <2>2 DEF Tidies, Neat
  <1>5. CASE Create(d, p, ids) = Reply(added, TRUE)
    <2>1. /\ made.on = TRUE
          /\ made.flows = {} \/ made.flows = made.ids \cap Capable
      OBVIOUS
    <2>. HIDE DEF made
    <2>2. Switched(added) /\ (Even(d) => Even(added))
      BY <2>1 DEF Neat, Switched, Even
    <2>3. QED
      BY <1>1, <1>5, <2>2 DEF Tidies, Neat, Reply
  <1>6. QED
    BY <1>2, <1>3, <1>4, <1>5

-----------------------------------------------------------------------------
(* What the form, a save and a hydration hold, and the rows of the lists.  *)
IsFields(p) == p = [x \in {"email", "sub", "limit", "on", "grp", "flow"} |-> p[x]]

IsForm(f) ==
    /\ DOMAIN f = {"open", "isEdit", "client", "attached", "fields", "ids", "alone", "tried"}
    /\ IsFields(f.fields) /\ f.fields.on \in BOOLEAN

IsHydration(h) ==
    /\ DOMAIN h = {"for", "n", "row", "read", "got"}
    /\ h.row.on \in BOOLEAN /\ (h.got # None => h.got.on \in BOOLEAN)

RowsOn(rows) == \A row \in rows : row.on \in BOOLEAN

RowsInv ==
    /\ RowsOn(held.rows)
    /\ \A q \in Queries :
           /\ cache[q] # Missing => "rows" \in DOMAIN cache[q] /\ RowsOn(cache[q].rows)
           /\ fetches[q].step = "read" => RowsOn(fetches[q].page.rows)

FieldsInv ==
    /\ IsForm(form)
    /\ saving # NoSave => IsFields(saving.fields) /\ saving.fields.on \in BOOLEAN
    /\ \A h \in hydrating : IsHydration(h)
    /\ \A r \in requests : r.kind = "switch" => r.fields.on \in BOOLEAN

(* The steps that touch the form, the save, the hydrations or the records. *)
LEMMA PageCases ==
    ASSUME [Next]_vars
    PROVE  \/ UNCHANGED <<form, hydrating, saving, server>>
           \/ OnAdd \/ Type \/ CloseForm \/ OnSubmit \/ SaveServed \/ SaveAnswered
           \/ \E row \in Shown.rows : OnEdit(row) \/ OnToggleEnable(row)
           \/ \E h \in hydrating : HydrateRead(h) \/ EditOpens(h) \/ SwitchSends(h)
           \/ \E r \in requests : Served(r)
  <1>1. CASE UNCHANGED vars
    BY <1>1 DEF vars
  <1>2. ASSUME ListMoves
        PROVE  UNCHANGED <<form, hydrating, saving, server>>
    BY <1>2 DEF ListMoves, ListRead, ListArrives, ListFails, GotoPage, SetFilter, Refresh
  <1>3. ASSUME \/ \E row \in Shown.rows : OnDelete(row) \/ OnResetTraffic(row)
               \/ OnDelDepleted \/ OnResetAll \/ OnBulkUngroup \/ OnBulkDelete
               \/ \E kind \in Kinds : OpenModal(kind)
               \/ CloseDialog
        PROVE  UNCHANGED <<form, hydrating, saving, server>>
    BY <1>3 DEF OnDelete, OnResetTraffic, OnDelDepleted, OnResetAll, OnBulkUngroup, OnBulkDelete,
                OpenModal, CloseDialog, AskFirst
  <1>4. ASSUME \/ Confirm \/ SubmitGroup \/ SubmitAdjust
               \/ \E ids \in SUBSET Inbounds : SubmitAttach(ids) \/ SubmitDetach(ids)
               \/ \E b \in Inbounds : SubmitBulkAdd(b)
        PROVE  UNCHANGED <<form, hydrating, saving, server>>
    BY <1>4 DEF Confirm, SubmitGroup, SubmitAdjust, SubmitAttach, SubmitDetach, SubmitBulkAdd, Send
  <1>5. ASSUME \/ \E row \in Shown.rows : ToggleSelect(row)
               \/ \E checked \in BOOLEAN : SelectAll(checked)
               \/ OptionsArrive
               \/ \E r \in requests : AnswerTo(r)
        PROVE  UNCHANGED <<form, hydrating, saving, server>>
    BY <1>5 DEF ToggleSelect, SelectAll, OptionsArrive, AnswerTo
  <1>6. CASE Next
    BY <1>2, <1>3, <1>4, <1>5, <1>6 DEF Next, ListMoves
  <1>7. QED
    BY <1>1, <1>6

LEMMA InvalidateAllKeepsRows ==
    ASSUME RowsInv, ListInv, InvalidateAll
    PROVE  RowsInv'
  <1>1. ASSUME NEW q \in Queries
        PROVE  /\ cache'[q] # Missing => "rows" \in DOMAIN cache'[q] /\ RowsOn(cache'[q].rows)
               /\ fetches'[q].step = "read" => RowsOn(fetches'[q].page.rows)
    <2>1. cache'[q] = Outdated(cache[q]) /\ fetches'[q] \in {fetches[q], Ask}
      BY DEF InvalidateAll, Reasked, ListInv
    <2>2. cache'[q] # Missing => "rows" \in DOMAIN cache'[q] /\ cache'[q].rows = cache[q].rows
      BY <2>1 DEF Outdated, RowsInv
    <2>3. QED
      BY <2>1, <2>2 DEF RowsInv, Outdated, Ask
  <1>2. QED
    BY <1>1 DEF RowsInv, InvalidateAll

LEMMA ListedRows ==
    ASSUME Switched(db), NEW q
    PROVE  RowsOn(ListPaged(db, q).rows)
  <1>1. \A row \in ListPaged(db, q).rows : \E i \in DOMAIN db : row = Row(db[i])
    BY DEF ListPaged
  <1>2. \A i \in DOMAIN db : Row(db[i]).on = db[i].on
    BY DEF Row
  <1>3. QED
    BY <1>1, <1>2 DEF RowsOn, Switched

LEMMA RowsNext ==
    ASSUME FreshInv, RowsInv, Switched(db), [Next]_vars
    PROVE  RowsInv'
  <1>. USE DEF FreshInv
  <1>1. ASSUME UNCHANGED list
        PROVE  RowsInv'
    BY <1>1 DEF list, RowsInv
  <1>2. CASE \/ Rests \/ Leaves \/ Asks \/ (\E r : New(r)) \/ OnSubmit \/ SaveServed
             \/ \E r \in requests : Served(r)
    BY <1>1, <1>2 DEF Rests, Leaves, Asks, New, Sends, OnSubmit, SaveServed, Served
  <1>3. CASE SaveAnswered \/ \E r \in requests : AnswerTo(r)
    BY <1>1, <1>3, InvalidateAllKeepsRows DEF SaveAnswered, AnswerTo
  <1>4. ASSUME NEW q \in Queries, ListRead(q)
        PROVE  RowsInv'
    <2>1. RowsOn(ListPaged(db, q).rows)
      BY ListedRows
    <2>2. QED
      BY <1>4, <2>1 DEF ListRead, ListInv, RowsInv
  <1>5. ASSUME NEW q \in Queries, ListArrives(q)
        PROVE  RowsInv'
    BY <1>5 DEF ListArrives, ListInv, RowsInv, Entry, Quiet
  <1>6. CASE ListFails
    BY <1>6 DEF ListFails, ListInv, RowsInv, Quiet
  <1>7. ASSUME NEW q \in Queries, ShowQuery(q)
        PROVE  RowsInv'
    <2>1. RowsOn(Shown.rows)
      BY DEF Shown, RowsInv, ListInv
    <2>2. QED
      BY <1>7, <2>1 DEF ShowQuery, ListInv, RowsInv, Ask
  <1>8. ASSUME NEW p \in 1..2, GotoPage(p)
        PROVE  RowsInv'
    <2>1. [query EXCEPT !.page = p] \in Queries
      BY DEF ListInv, Queries
    <2>2. QED
      BY <1>7, <1>8, <2>1 DEF GotoPage
  <1>9. ASSUME NEW b \in {"", "deactive"}, SetFilter(b)
        PROVE  RowsInv'
    <2>1. [page |-> 1, bucket |-> b] \in Queries
      BY FirstPage
    <2>2. QED
      BY <1>7, <1>9, <2>1 DEF SetFilter
  <1>10. CASE Refresh
    BY <1>10, InvalidateAllKeepsRows DEF Refresh
  <1>11. QED
    BY <1>2, <1>3, <1>4, <1>5, <1>6, <1>8, <1>9, <1>10, StepCases DEF ListMoves

(* What typing leaves alone in a form.                                     *)
Kept(g, f) ==
    /\ g.open = f.open /\ g.isEdit = f.isEdit /\ g.client = f.client
    /\ g.attached = f.attached /\ g.alone = f.alone /\ g.tried = f.tried

LEMMA BlankedShape ==
    ASSUME NEW f, IsForm(f)
    PROVE  IsForm(Blanked(f)) /\ Kept(Blanked(f), f) /\ Blanked(f).ids = f.ids
  <1>. PICK flow : flow = (f.fields.flow /\ ShowFlow(f.ids))
    OBVIOUS
  <1>. DEFINE fields == [f.fields EXCEPT !.flow = flow]
  <1>1. Blanked(f) = [f EXCEPT !.fields = fields]
    BY DEF Blanked
  <1>2. IsFields(fields) /\ fields.on = f.fields.on
    BY DEF IsForm, IsFields
  <1>. HIDE DEF fields
  <1>3. QED
    BY <1>1, <1>2 DEF IsForm, Kept

LEMMA TypeShape ==
    ASSUME IsForm(form), Type
    PROVE  IsForm(form') /\ Kept(form', form)
  <1>1. ASSUME NEW fields, IsFields(fields), fields.on \in BOOLEAN,
               Typed([form EXCEPT !.fields = fields])
        PROVE  IsForm(form') /\ Kept(form', form)
    <2>. DEFINE f == [form EXCEPT !.fields = fields]
    <2>1. IsForm(f) /\ Kept(f, form)
      BY <1>1 DEF IsForm, Kept
    <2>. HIDE DEF f
    <2>2. form' = Blanked(f)
      BY <1>1 DEF Typed, f
    <2>3. QED
      BY <2>1, <2>2, BlankedShape DEF Kept
  <1>2. ASSUME NEW e \in Emails, Typed([form EXCEPT !.fields.email = e])
        PROVE  IsForm(form') /\ Kept(form', form)
    <2>. DEFINE fields == [form.fields EXCEPT !.email = e]
    <2>1. IsFields(fields) /\ fields.on \in BOOLEAN
      BY DEF IsForm, IsFields
    <2>2. Typed([form EXCEPT !.fields = fields])
      BY <1>2
    <2>3. QED
      BY <1>1, <2>1, <2>2
  <1>3. ASSUME Typed([form EXCEPT !.fields.limit = 1 - @])
        PROVE  IsForm(form') /\ Kept(form', form)
    <2>. PICK limit : limit = 1 - form.fields.limit
      OBVIOUS
    <2>. DEFINE fields == [form.fields EXCEPT !.limit = limit]
    <2>1. IsFields(fields) /\ fields.on \in BOOLEAN
      BY DEF IsForm, IsFields
    <2>2. Typed([form EXCEPT !.fields = fields])
      BY <1>3
    <2>3. QED
      BY <1>1, <2>1, <2>2
  <1>4. ASSUME Typed([form EXCEPT !.fields.on = ~@])
        PROVE  IsForm(form') /\ Kept(form', form)
    <2>. PICK on \in BOOLEAN : on = ~form.fields.on
      OBVIOUS
    <2>. DEFINE fields == [form.fields EXCEPT !.on = on]
    <2>1. IsFields(fields) /\ fields.on \in BOOLEAN
      BY DEF IsForm, IsFields
    <2>2. Typed([form EXCEPT !.fields = fields])
      BY <1>4
    <2>3. QED
      BY <1>1, <2>1, <2>2
  <1>5. ASSUME NEW b \in Inbounds, Typed([form EXCEPT !.ids = IF b \in @ THEN @ \ {b} ELSE @ \cup {b}])
        PROVE  IsForm(form') /\ Kept(form', form)
    <2>. PICK ids : ids = IF b \in form.ids THEN form.ids \ {b} ELSE form.ids \cup {b}
      OBVIOUS
    <2>. DEFINE f == [form EXCEPT !.ids = ids]
    <2>1. IsForm(f) /\ Kept(f, form)
      BY DEF IsForm, Kept
    <2>2. form' = Blanked(f)
      BY <1>5 DEF Typed
    <2>. HIDE DEF f
    <2>3. QED
      BY <2>1, <2>2, BlankedShape DEF Kept
  <1>6. ASSUME Typed([form EXCEPT !.fields.flow = ~@])
        PROVE  IsForm(form') /\ Kept(form', form)
    <2>. PICK flow \in BOOLEAN : flow = ~form.fields.flow
      OBVIOUS
    <2>. DEFINE fields == [form.fields EXCEPT !.flow = flow]
    <2>1. IsFields(fields) /\ fields.on \in BOOLEAN
      BY DEF IsForm, IsFields
    <2>2. Typed([form EXCEPT !.fields = fields])
      BY <1>6
    <2>3. QED
      BY <1>1, <2>1, <2>2
  <1>7. QED
    BY <1>2, <1>3, <1>4, <1>5, <1>6 DEF Type

LEMMA FieldsOfShape ==
    ASSUME NEW h, IsHydration(h)
    PROVE  /\ IsFields(FieldsOf(h)) /\ FieldsOf(h).on \in BOOLEAN
           /\ SwitchPayload(h).on \in BOOLEAN
           /\ SwitchPayload(h) = [FieldsOf(h) EXCEPT !.on = SwitchPayload(h).on]
  <1>1. IsFields(FieldsOf(h)) /\ FieldsOf(h).on \in BOOLEAN
    BY DEF FieldsOf, Fields, IsFields, IsHydration
  <1>. PICK on \in BOOLEAN : on = ~h.row.on
    OBVIOUS
  <1>. DEFINE p == FieldsOf(h)
  <1>2. SwitchPayload(h) = [p EXCEPT !.on = on]
    BY DEF SwitchPayload
  <1>. HIDE DEF p
  <1>3. SwitchPayload(h).on = on
    BY <1>1, <1>2 DEF IsFields, p
  <1>4. QED
    BY <1>1, <1>2, <1>3 DEF p

(* A form filled from a record holds what was read.                        *)
LEMMA EditShape ==
    ASSUME IsForm(form), NEW h \in hydrating, IsHydration(h), EditOpens(h)
    PROVE  /\ IsForm(form') /\ form'.open /\ form'.isEdit = form.isEdit
           /\ form'.client = FieldsOf(h).email /\ form'.attached = IdsOf(h)
           /\ form.open => ~form'.alone
           /\ ~form.open => form'.alone = Same(h.row.email, FieldsOf(h), IdsOf(h)) /\ form'.tried = {}
  <1>. PICK p, ids : p = FieldsOf(h) /\ ids = IdsOf(h)
    OBVIOUS
  <1>. PICK same : same = Same(h.row.email, p, ids)
    OBVIOUS
  <1>. DEFINE handed == [form EXCEPT !.client = p.email, !.attached = ids, !.open = TRUE,
                                     !.alone = FALSE]
              filled == [handed EXCEPT !.fields = p, !.ids = ids, !.alone = same, !.tried = {}]
  <1>1. IsFields(p) /\ p.on \in BOOLEAN
    BY FieldsOfShape
  <1>2. form' = IF form.open THEN handed ELSE Blanked(filled)
    BY DEF EditOpens
  <1>3. /\ IsForm(handed) /\ handed.open /\ handed.isEdit = form.isEdit
        /\ handed.client = p.email /\ handed.attached = ids /\ ~handed.alone
    BY DEF IsForm
  <1>. HIDE DEF handed
  <1>4. /\ IsForm(filled) /\ filled.open /\ filled.isEdit = form.isEdit
        /\ filled.client = p.email /\ filled.attached = ids
        /\ filled.alone = same /\ filled.tried = {}
    BY <1>1, <1>3 DEF IsForm
  <1>. HIDE DEF filled
  <1>5. QED
    BY <1>2, <1>3, <1>4, BlankedShape DEF Kept

LEMMA AddShape ==
    ASSUME IsForm(form), OnAdd
    PROVE  /\ IsForm(form') /\ ~form'.isEdit
  <1>1. PICK e : form' = [form EXCEPT !.open = TRUE, !.isEdit = FALSE, !.client = None, !.attached = {},
                                !.fields = [Blank EXCEPT !.email = e, !.sub = -clicks'], !.ids = {},
                                !.alone = TRUE, !.tried = {}]
    BY DEF OnAdd
  <1>. PICK sub : sub = -clicks'
    OBVIOUS
  <1>. DEFINE p == [Blank EXCEPT !.email = e, !.sub = sub]
  <1>2. IsFields(p) /\ p.on \in BOOLEAN
    BY DEF Blank, IsFields
  <1>. HIDE DEF p
  <1>3. form' = [form EXCEPT !.open = TRUE, !.isEdit = FALSE, !.client = None, !.attached = {},
                             !.fields = p, !.ids = {}, !.alone = TRUE, !.tried = {}]
    BY <1>1 DEF p
  <1>4. QED
    BY <1>2, <1>3 DEF IsForm

(* A write leaves what was read but for the ghost.                         *)
LEMMA AloneKeeps ==
    ASSUME NEW r
    PROVE  /\ IsForm(r) => IsForm(Alone(r))
           /\ IsSave(r) => /\ Alone(r).fields = r.fields /\ Left(r).fields = r.fields
                           /\ Alone(r).step = r.step /\ Left(r).step = r.step
           /\ IsRequest(r) => /\ Alone(r).fields = r.fields /\ Alone(r).kind = r.kind
                              /\ Alone(r).emails = r.emails
                              /\ db' # db => ~Alone(r).alone
                              /\ db' = db => Alone(r) = r
  <1>1. IsForm(r) => IsForm(Alone(r))
    BY DEF IsForm, Alone
  <1>2. IsSave(r) => /\ Alone(r).fields = r.fields /\ Left(r).fields = r.fields
                     /\ Alone(r).step = r.step /\ Left(r).step = r.step
    BY DEF IsSave, Alone, Left
  <1>3. IsRequest(r) => r # NoSave
    BY DEF IsRequest, NoSave
  <1>4. IsRequest(r) => /\ Alone(r).fields = r.fields /\ Alone(r).kind = r.kind
                        /\ Alone(r).emails = r.emails
                        /\ db' # db => ~Alone(r).alone
                        /\ db' = db => Alone(r) = r
    BY <1>3 DEF IsRequest, Alone
  <1>5. QED
    BY <1>1, <1>2, <1>4

(* Records read, and rows clicked, have a switch that is on or off.        *)
LEMMA HydratingNext ==
    ASSUME UnderwayInv, ListInv, RowsInv, FieldsInv, Switched(db), [Next]_vars
    PROVE  \A h \in hydrating' : IsHydration(h)
  <1>1. CASE hydrating' \subseteq hydrating
    BY <1>1 DEF FieldsInv
  <1>2. ASSUME NEW row \in Shown.rows, OnEdit(row) \/ OnToggleEnable(row)
        PROVE  \A h \in hydrating' : IsHydration(h)
    <2>1. row.on \in BOOLEAN
      BY DEF Shown, RowsInv, RowsOn, ListInv
    <2>2. PICK for, n : hydrating' = hydrating \cup {[for |-> for, n |-> n, row |-> row, read |-> FALSE,
                                                      got |-> None]}
      BY <1>2 DEF OnEdit, OnToggleEnable
    <2>3. IsHydration([for |-> for, n |-> n, row |-> row, read |-> FALSE, got |-> None])
      BY <2>1 DEF IsHydration
    <2>4. QED
      BY <2>2, <2>3 DEF FieldsInv
  <1>3. ASSUME NEW h \in hydrating, HydrateRead(h)
        PROVE  \A g \in hydrating' : IsHydration(g)
    <2>1. PICK got \in {Full(db[i]) : i \in Named(db, {h.row.email})} \cup {None} :
              hydrating' = (hydrating \ {h}) \cup {[h EXCEPT !.read = TRUE, !.got = got]}
      BY <1>3 DEF HydrateRead
    <2>2. got # None => got.on \in BOOLEAN
      BY <2>1 DEF Full, Named, Switched
    <2>3. IsHydration([h EXCEPT !.read = TRUE, !.got = got])
      BY <2>2 DEF IsHydration, FieldsInv
    <2>4. QED
      BY <2>1, <2>3 DEF FieldsInv
  <1>4. CASE \E h \in hydrating : EditOpens(h) \/ SwitchSends(h)
    BY <1>1, <1>4 DEF EditOpens, SwitchSends
  <1>5. CASE OnAdd \/ Type \/ CloseForm \/ OnSubmit \/ SaveServed \/ SaveAnswered
             \/ \E r \in requests : Served(r)
    BY <1>1, <1>5 DEF OnAdd, Type, CloseForm, OnSubmit, SaveServed, SaveAnswered, Served
  <1>6. QED
    BY <1>1, <1>2, <1>3, <1>4, <1>5, PageCases

LEMMA FormNext ==
    ASSUME UnderwayInv, FieldsInv, [Next]_vars
    PROVE  IsForm(form')
  <1>1. CASE form' = form
    BY <1>1 DEF FieldsInv
  <1>2. CASE \E row \in Shown.rows : OnEdit(row)
    BY <1>2 DEF OnEdit, FieldsInv, IsForm
  <1>3. CASE OnAdd \/ Type \/ \E h \in hydrating : EditOpens(h)
    BY <1>3, AddShape, TypeShape, EditShape DEF FieldsInv
  <1>4. CASE CloseForm \/ OnSubmit \/ SaveAnswered
    BY <1>4 DEF CloseForm, OnSubmit, SaveAnswered, FieldsInv, IsForm
  <1>5. CASE SaveServed \/ \E r \in requests : Served(r)
    BY <1>1, <1>5, AloneKeeps DEF SaveServed, Served, FieldsInv
  <1>6. CASE \/ \E row \in Shown.rows : OnToggleEnable(row)
             \/ \E h \in hydrating : HydrateRead(h) \/ SwitchSends(h)
    BY <1>1, <1>6 DEF OnToggleEnable, HydrateRead, SwitchSends
  <1>7. QED
    BY <1>1, <1>2, <1>3, <1>4, <1>5, <1>6, PageCases

(* What a save carries never changes while it is under way.                *)
LEMMA SavingNext ==
    ASSUME UnderwayInv, FieldsInv, [Next]_vars
    PROVE  saving' # NoSave => IsFields(saving'.fields) /\ saving'.fields.on \in BOOLEAN
  <1>1. CASE saving' = saving \/ (saving # NoSave /\ saving'.fields = saving.fields)
    BY <1>1 DEF FieldsInv
  <1>2. CASE OnSubmit
    BY <1>2 DEF OnSubmit, FieldsInv, IsForm
  <1>3. CASE (\E h \in hydrating : EditOpens(h)) \/ CloseForm
    <2>1. saving' = Left(saving)
      BY <1>3 DEF EditOpens, CloseForm
    <2>2. QED
      BY <1>1, <2>1, AloneKeeps DEF UnderwayInv, Left
  <1>4. ASSUME NEW r \in requests, Served(r)
        PROVE  saving' = saving \/ (saving # NoSave /\ saving'.fields = saving.fields)
    BY <1>4, AloneKeeps DEF Served, Alone, UnderwayInv
  <1>5. CASE SaveServed
    BY <1>1, <1>5 DEF SaveServed, UnderwayInv, IsSave
  <1>6. CASE SaveAnswered
    <2>1. saving' = NoSave \/ saving'.fields = saving.fields
      BY <1>6 DEF SaveAnswered, UnderwayInv, IsSave
    <2>2. QED
      BY <1>1, <1>6, <2>1 DEF SaveAnswered
  <1>7. CASE \/ OnAdd \/ Type
             \/ \E row \in Shown.rows : OnEdit(row) \/ OnToggleEnable(row)
             \/ \E h \in hydrating : HydrateRead(h) \/ SwitchSends(h)
    BY <1>1, <1>7 DEF OnAdd, Type, OnEdit, OnToggleEnable, HydrateRead, SwitchSends
  <1>8. QED
    BY <1>1, <1>2, <1>3, <1>4, <1>5, <1>6, <1>7, PageCases

-----------------------------------------------------------------------------
(* A switch whose record nobody changed since carries that record.         *)
Fits(d, r) ==
    \E i \in DOMAIN d :
        /\ r.emails = {d[i].email}
        /\ r.fields = [Fields(d[i], d[i].flows # {}) EXCEPT !.on = r.fields.on]

SwitchInv == \A r \in requests : r.kind = "switch" /\ ~r.served /\ r.alone => Fits(db, r)

LEMMA NewSwitchFits ==
    ASSUME NEW h, IsHydration(h), h.got # None, SwitchOf(h).alone
    PROVE  Fits(db, SwitchOf(h))
  <1>. DEFINE r == SwitchOf(h)
  <1>1. /\ r.emails = {h.row.email} /\ r.fields = SwitchPayload(h)
        /\ Same(h.row.email, Fields(h.got, h.got.flow), h.got.ids)
    BY SwitchShape
  <1>. HIDE DEF r
  <1>2. PICK i \in Named(db, {h.row.email}) :
            Fields(h.got, h.got.flow) = Fields(db[i], db[i].flows # {})
    BY <1>1 DEF Same
  <1>3. FieldsOf(h) = Fields(db[i], db[i].flows # {})
    BY <1>2 DEF FieldsOf
  <1>4. r.fields = [Fields(db[i], db[i].flows # {}) EXCEPT !.on = r.fields.on]
    BY <1>1, <1>3, FieldsOfShape
  <1>5. i \in DOMAIN db /\ db[i].email = h.row.email
    BY DEF Named
  <1>6. Fits(db, r)
    BY <1>1, <1>4, <1>5 DEF Fits
  <1>7. QED
    BY <1>6 DEF r, Fits

(* The requests of a step: those there were, those but for the ghost, one  *)
(* that was served, and one that was sent.                                 *)
LEMMA SwitchNext ==
    ASSUME UnderwayInv, FieldsInv, SwitchInv, [Next]_vars
    PROVE  /\ \A r \in requests' : r.kind = "switch" => r.fields.on \in BOOLEAN
           /\ SwitchInv'
  <1>. DEFINE Good(r) == r.kind = "switch" => /\ r.fields.on \in BOOLEAN
                                              /\ ~r.served /\ r.alone => Fits(db', r)
  <1>1. ASSUME \A r \in requests' : Good(r)
        PROVE  /\ \A r \in requests' : r.kind = "switch" => r.fields.on \in BOOLEAN
               /\ SwitchInv'
    BY <1>1 DEF SwitchInv
  <1>2. ASSUME db' = db
        PROVE  \A r \in requests : Good(r)
    BY <1>2 DEF SwitchInv, FieldsInv, Fits
  <1>3. ASSUME NEW r \in requests
        PROVE  Good(Alone(r))
    <2>1. IsRequest(r)
      BY DEF UnderwayInv
    <2>2. Alone(r).kind = r.kind /\ Alone(r).fields = r.fields
      BY <2>1, AloneKeeps
    <2>3. CASE db' = db
      BY <1>2, <2>1, <2>3, AloneKeeps
    <2>4. CASE db' # db
      BY <2>1, <2>2, <2>4, AloneKeeps DEF FieldsInv
    <2>5. QED
      BY <2>3, <2>4
  <1>. HIDE DEF Good
  <1>4. CASE requests' \subseteq requests /\ db' = db
    BY <1>1, <1>2, <1>4
  <1>5. CASE Rests \/ Lists \/ Leaves \/ Asks \/ OnSubmit \/ SaveAnswered
             \/ \E r \in requests : AnswerTo(r)
    BY <1>4, <1>5 DEF Rests, Lists, Leaves, Asks, OnSubmit, SaveAnswered, AnswerTo, server
  <1>6. ASSUME NEW r, New(r)
        PROVE  \A q \in requests' : Good(q)
    <2>1. db' = db /\ requests' = requests \cup {r}
      BY <1>6 DEF New, Sends, server
    <2>2. CASE r.kind # "switch"
      BY <1>2, <2>1, <2>2 DEF Good
    <2>3. CASE r.kind = "switch"
      <3>1. PICK h \in hydrating : h.got # None /\ r = SwitchOf(h)
        BY <1>6, <2>3 DEF New
      <3>2. IsHydration(h)
        BY DEF FieldsInv
      <3>3. r.fields.on \in BOOLEAN
        BY <3>1, <3>2, SwitchShape, FieldsOfShape
      <3>4. r.alone => Fits(db', r)
        BY <2>1, <3>1, <3>2, NewSwitchFits
      <3>5. QED
        BY <1>2, <2>1, <3>3, <3>4 DEF Good
    <2>4. QED
      BY <2>2, <2>3
  <1>7. CASE SaveServed
    BY <1>1, <1>3, <1>7 DEF SaveServed, AllAlone
  <1>8. ASSUME NEW r \in requests, Served(r)
        PROVE  \A q \in requests' : Good(q)
    <2>1. PICK ok : requests' = AllAlone(requests \ {r}) \cup {[r EXCEPT !.served = TRUE, !.ok = ok]}
      BY <1>8 DEF Served
    <2>2. Good([r EXCEPT !.served = TRUE, !.ok = ok])
      BY DEF Good, UnderwayInv, IsRequest, FieldsInv
    <2>3. QED
      BY <1>3, <2>1, <2>2 DEF AllAlone
  <1>9. QED
    BY <1>1, <1>5, <1>6, <1>7, <1>8, StepCases, ListsLemma

-----------------------------------------------------------------------------
(* Every request leaves the records neat, and even until it tears them.    *)
LEMMA SaveTidies ==
    ASSUME Neat(db), NEW s, IsSave(s), s.fields.on \in BOOLEAN
    PROVE  Tidies(SaveReply(s), db)
  <1>1. CASE s.step = "create"
    BY <1>1, CreateTidies DEF SaveReply
  <1>2. CASE s.step = "update"
    BY <1>2, UpdateByEmailTidies DEF SaveReply
  <1>3. CASE s.step = "attach"
    BY <1>3, OneTidies DEF SaveReply
  <1>4. CASE s.step = "detach"
    BY <1>4, OneTidies DEF SaveReply
  <1>5. QED
    BY <1>1, <1>2, <1>3, <1>4 DEF IsSave

LEMMA RequestTidies ==
    ASSUME Neat(db), NEW r, IsRequest(r), r.kind = "switch" => r.fields.on \in BOOLEAN
    PROVE  Tidies(ReplyTo(r), db)
  <1>1. CASE r.kind = "switch"
    BY <1>1, UpdateByEmailTidies DEF ReplyTo
  <1>2. CASE r.kind \in {"delete", "bulkDelete", "delDepleted"}
    BY <1>2, DeletionsTidy DEF ReplyTo
  <1>3. CASE r.kind \in {"resetAll", "reset", "ungroup", "group", "adjust", "attach", "detach"}
    BY <1>3, BulkTidies DEF ReplyTo
  <1>4. CASE r.kind = "bulkAdd"
    <2>1. /\ ReplyTo(r).db = Create(db, r.fields, r.ids).db
          /\ ReplyTo(r).torn = Create(db, r.fields, r.ids).torn
      BY <1>4 DEF ReplyTo, Create, Reply, Tearing
    <2>2. QED
      BY <2>1, CreateTidies DEF Tidies
  <1>5. QED
    BY <1>1, <1>2, <1>3, <1>4 DEF IsRequest, AllKinds, Confirmed, Modal

EvenInv == Neat(db) /\ (~torn => Even(db))

LEMMA TakenTidies ==
    ASSUME EvenInv, NEW reply, Tidies(reply, db), NEW ok, Taken(reply, ok)
    PROVE  EvenInv'
  BY DEF Taken, server, Tidies, EvenInv

LEMMA EvenNext ==
    ASSUME UnderwayInv, FieldsInv, EvenInv, [Next]_vars
    PROVE  EvenInv'
  <1>1. CASE UNCHANGED server
    BY <1>1 DEF server, EvenInv
  <1>2. CASE SaveServed
    <2>1. PICK ok \in BOOLEAN : Taken(SaveReply(saving), ok)
      BY <1>2 DEF SaveServed
    <2>2. QED
      BY <1>2, <2>1, SaveTidies, TakenTidies DEF SaveServed, UnderwayInv, FieldsInv, EvenInv
  <1>3. ASSUME NEW r \in requests, Served(r)
        PROVE  EvenInv'
    <2>1. PICK ok \in BOOLEAN : Taken(ReplyTo(r), ok)
      BY <1>3 DEF Served
    <2>2. QED
      BY <2>1, RequestTidies, TakenTidies DEF UnderwayInv, FieldsInv, EvenInv
  <1>4. CASE Rests \/ Lists \/ Leaves \/ Asks \/ OnSubmit \/ SaveAnswered
             \/ (\E r : New(r)) \/ \E r \in requests : AnswerTo(r)
    BY <1>1, <1>4 DEF Rests, Lists, Leaves, Asks, OnSubmit, SaveAnswered, New, Sends, AnswerTo
  <1>5. QED
    BY <1>2, <1>3, <1>4, StepCases, ListsLemma

-----------------------------------------------------------------------------
(* Records with equal fields are equal.                                    *)
LEMMA SameClient ==
    ASSUME NEW b, NEW c, IsClient(b), IsClient(c),
           b.email = c.email, b.sub = c.sub, b.limit = c.limit, b.used = c.used, b.on = c.on,
           b.grp = c.grp, b.ids = c.ids, b.flows = c.flows
    PROVE  b = c
  BY DEF IsClient

LEMMA SwitchedClient ==
    ASSUME NEW c, IsClient(c), c.on \in BOOLEAN, NEW on \in BOOLEAN
    PROVE  [c EXCEPT !.on = on] \in {c, [c EXCEPT !.on = ~@]}
  <1>1. CASE on = c.on
    <2>1. [c EXCEPT !.on = on] = c
      BY <1>1 DEF IsClient
    <2>2. QED
      BY <2>1
  <1>2. CASE on # c.on
    <2>1. on = ~c.on
      BY <1>2
    <2>2. QED
      BY <2>1
  <1>3. QED
    BY <1>1, <1>2

LEMMA RewrittenClient ==
    ASSUME NEW c, IsClient(c), EvenClient(c), NEW p,
           p.sub = c.sub, p.limit = c.limit, p.grp = c.grp, p.flow = (c.flows # {})
    PROVE  Written(c, p) = [c EXCEPT !.on = p.on]
  <1>. DEFINE b == Written(c, p)
              a == [c EXCEPT !.on = p.on]
  <1>0. Filled(b, c, p)
    BY WrittenFields
  <1>. HIDE DEF b
  <1>1. /\ IsClient(b) /\ b.email = c.email /\ b.ids = c.ids /\ b.used = c.used
        /\ b.sub = c.sub /\ b.limit = c.limit /\ b.on = p.on /\ b.grp = c.grp
        /\ b.flows = IF p.flow THEN c.flows \cup (c.ids \cap Capable) ELSE {}
    BY <1>0 DEF Filled
  <1>2. b.flows = c.flows
    BY <1>1 DEF EvenClient
  <1>3. /\ IsClient(a) /\ a.email = c.email /\ a.ids = c.ids /\ a.used = c.used
        /\ a.sub = c.sub /\ a.limit = c.limit /\ a.on = p.on /\ a.grp = c.grp /\ a.flows = c.flows
    BY DEF IsClient
  <1>. HIDE DEF a, b
  <1>4. a = b
    BY <1>1, <1>2, <1>3, SameClient
  <1>5. QED
    BY <1>4 DEF a, b

(* The one client of a name is found under it.                             *)
LEMMA OneNamed ==
    ASSUME NEW d, Sound(d), NEW i \in DOMAIN d
    PROVE  /\ Named(d, {d[i].email}) = {i}
           /\ (CHOOSE j \in Named(d, {d[i].email}) : TRUE) = i
  <1>1. Named(d, {d[i].email}) = {i}
    BY DEF Named, Sound, Apart
  <1>2. QED
    BY <1>1

LEMMA SwitchServed ==
    ASSUME NEW d, Neat(d), Even(d), NEW r, Fits(d, r), r.fields.on \in BOOLEAN,
           NEW email, r.emails = {email}
    PROVE  LET e == UpdateByEmail(d, email, r.fields).db
           IN  \A i \in DOMAIN d : i \in DOMAIN e /\ e[i] \in {d[i], [d[i] EXCEPT !.on = ~@]}
  <1>. PICK p : p = r.fields
    OBVIOUS
  <1>1. PICK i \in DOMAIN d :
            /\ email = d[i].email
            /\ p = [Fields(d[i], d[i].flows # {}) EXCEPT !.on = p.on]
    BY DEF Fits
  <1>2. /\ p.email = d[i].email /\ p.sub = d[i].sub /\ p.limit = d[i].limit /\ p.grp = d[i].grp
        /\ p.flow = (d[i].flows # {})
    BY <1>1 DEF Fields
  <1>3. IsClient(d[i]) /\ d[i].on \in BOOLEAN /\ EvenClient(d[i])
    BY DEF Neat, Sound, Shaped, Switched, Even, EvenClient
  <1>. DEFINE renamed == [d EXCEPT ![i].email = p.email]
              full == [renamed EXCEPT ![i] = Written(@, p)]
              others == DOMAIN d \ {i}
  <1>4. UpdateByEmail(d, email, p) = Update(d, i, p)
    <2>1. Sound(d)
      BY DEF Neat
    <2>2. Named(d, {email}) = {i} /\ (CHOOSE j \in Named(d, {email}) : TRUE) = i
      BY <1>1, <2>1, OneNamed
    <2>. HIDE DEF renamed, full
    <2>3. QED
      BY <2>2 DEF UpdateByEmail
  <1>5. Update(d, i, p).db \in {d, renamed, full}
    BY DEF Update, Reply
  <1>6. DOMAIN renamed = DOMAIN d /\ \A j \in others : renamed[j] = d[j]
    OBVIOUS
  <1>7. renamed[i] = d[i]
    <2>1. renamed[i] = [d[i] EXCEPT !.email = d[i].email]
      BY <1>2
    <2>2. QED
      BY <1>3, <2>1 DEF IsClient
  <1>. HIDE DEF renamed
  <1>8. /\ DOMAIN full = DOMAIN d
        /\ \A j \in others : full[j] = d[j]
        /\ full[i] = Written(d[i], p)
    BY <1>6, <1>7
  <1>. HIDE DEF full
  <1>9. full[i] \in {d[i], [d[i] EXCEPT !.on = ~@]}
    <2>. PICK c : c = d[i]
      OBVIOUS
    <2>1. Written(c, p) = [c EXCEPT !.on = p.on]
      BY <1>2, <1>3, RewrittenClient
    <2>2. [c EXCEPT !.on = p.on] \in {c, [c EXCEPT !.on = ~@]}
      BY <1>3, SwitchedClient
    <2>3. QED
      BY <1>8, <2>1, <2>2
  <1>10. QED
    BY <1>4, <1>5, <1>6, <1>7, <1>8, <1>9

NeatInv == FreshInv /\ RowsInv /\ FieldsInv /\ SwitchInv /\ EvenInv

LEMMA NeatInit == Init => NeatInv
  <1> SUFFICES ASSUME Init
               PROVE  NeatInv
    OBVIOUS
  <1>1. FreshInv /\ Sound(db)
    BY FreshInit, ApartInit DEF ApartInv
  <1>2. PICK on \in [Clients -> Inbounds] :
            db = [i \in Clients |->
                 [email |-> i, sub |-> i, limit |-> 0, used |-> i = 1, on |-> TRUE, grp |-> i = 1,
                  ids |-> {on[i]}, flows |-> {on[i]} \cap Capable]]
    BY DEF Init
  <1>3. EvenInv
    BY <1>1, <1>2 DEF EvenInv, Neat, Switched, Even
  <1>4. /\ cache = [q \in Queries |-> IF q # query THEN Missing ELSE Entry(ListPaged(db, q))]
        /\ fetches = [q \in Queries |-> Quiet] /\ held = cache[query] /\ query \in Queries
    BY <1>1 DEF Init, FreshInv, ListInv
  <1>5. RowsInv
    <2>1. ASSUME NEW q \in Queries
          PROVE  "rows" \in DOMAIN Entry(ListPaged(db, q)) /\ RowsOn(Entry(ListPaged(db, q)).rows)
      BY <1>3, ListedRows DEF Entry, EvenInv, Neat
    <2>2. QED
      BY <1>4, <2>1 DEF RowsInv, Quiet
  <1>6. FieldsInv /\ SwitchInv
    BY DEF Init, FieldsInv, SwitchInv, IsForm, IsFields, Closed, Blank
  <1>7. QED
    BY <1>1, <1>3, <1>5, <1>6 DEF NeatInv

LEMMA NeatNext == NeatInv /\ [Next]_vars => NeatInv'
  <1> SUFFICES ASSUME NeatInv, [Next]_vars
               PROVE  NeatInv'
    OBVIOUS
  <1>. USE DEF NeatInv
  <1>0. UnderwayInv /\ ListInv /\ Switched(db)
    BY DEF FreshInv, EvenInv, Neat
  <1>1. FreshInv'
    BY FreshNext
  <1>2. RowsInv'
    BY <1>0, RowsNext
  <1>3. FieldsInv' /\ SwitchInv'
    BY <1>0, FormNext, SavingNext, HydratingNext, SwitchNext DEF FieldsInv
  <1>4. EvenInv'
    BY <1>0, EvenNext
  <1>5. QED
    BY <1>1, <1>2, <1>3, <1>4

(* A switch turned while nobody else writes changes nothing but the switch:*)
(* what it sends is what the record still holds (useClients.ts:703).       *)
THEOREM OnlyTheSwitch == Spec => SwitchOnlySwitches
  <1>1. ASSUME NeatInv, NEW r \in requests, ~torn, r.kind = "switch", r.alone, Served(r)
        PROVE  \A i \in DOMAIN db : /\ i \in DOMAIN db'
                                    /\ db'[i] \in {db[i], [db[i] EXCEPT !.on = ~@]}
    <2>1. Neat(db) /\ Even(db) /\ r.fields.on \in BOOLEAN /\ Fits(db, r)
      BY <1>1 DEF NeatInv, EvenInv, FieldsInv, SwitchInv, Served
    <2>2. PICK ok : Taken(ReplyTo(r), ok)
      BY <1>1 DEF Served
    <2>3. PICK email : r.emails = {email}
      BY <2>1 DEF Fits
    <2>4. ReplyTo(r) = UpdateByEmail(db, email, r.fields)
      BY <1>1, <2>3 DEF ReplyTo
    <2>5. CASE db' = db
      BY <2>5
    <2>6. CASE db' = UpdateByEmail(db, email, r.fields).db
      BY <2>1, <2>3, <2>6, SwitchServed
    <2>7. QED
      BY <2>2, <2>4, <2>5, <2>6 DEF Taken, server
  <1>. DEFINE Only == \A r \in requests : ~torn /\ r.kind = "switch" /\ r.alone /\ Served(r) =>
                          \A i \in DOMAIN db : /\ i \in DOMAIN db'
                                               /\ db'[i] \in {db[i], [db[i] EXCEPT !.on = ~@]}
  <1>2. NeatInv => [Only]_vars
    BY <1>1
  <1>3. QED
    BY <1>2, NeatInit, NeatNext, PTL DEF Spec, SwitchOnlySwitches

-----------------------------------------------------------------------------
(* A save's way: the inbounds its client had, has while it is under way    *)
(* for what was tried before it, and shall have.                           *)
Before(s) == (s.ids \ s.attach) \cup s.detach

Aimed(s) == s.attach = s.ids \ Before(s) /\ s.detach = Before(s) \ s.ids

Reached(s) ==
    IF s.step = "detach" /\ s.served /\ s.ok THEN {s.ids}
    ELSE IF s.step = "detach" \/ (s.step = "attach" /\ s.served /\ s.ok)
    THEN {s.ids \cup s.detach, s.ids}
    ELSE {Before(s), s.ids \cup s.detach, s.ids}

(* The client it is about, under the name it began with.                   *)
Its(d, s) == Named(d, {s.client})

(* Its update is done.                                                     *)
Past(s) == IF s.step = "update" THEN s.served /\ s.ok ELSE s.served => s.ok

(* The fields it carries are the client's.                                 *)
Stores(d, s, i) ==
    /\ i \in DOMAIN d /\ d[i].email = s.fields.email
    /\ Fields(d[i], s.fields.flow) = s.fields
    /\ d[i].flows = IF s.fields.flow THEN d[i].ids \cap Capable ELSE {}
    /\ s.client = s.fields.email \/ Its(d, s) = {}

Flowing(d, s, i) == s.fields.flow => d[i].ids \cap Capable # {}

Holds(d, s, i) ==
    /\ Stores(d, s, i) /\ d[i].ids \in Reached(s)
    /\ (s.step = "detach" /\ s.served) \/ Flowing(d, s, i)

OnTheWay(d, s) ==
    /\ \A i \in Its(d, s) : d[i].ids \in Reached(s)
    /\ s.linked /\ Past(s) => \E i \in DOMAIN d : Holds(d, s, i)

LEMMA WaySets ==
    ASSUME NEW s, Aimed(s), NEW ids
    PROVE  /\ ids \in {Before(s), s.ids \cup s.detach, s.ids} =>
                  ids \cup s.attach \in {s.ids \cup s.detach, s.ids}
           /\ ids \in {s.ids \cup s.detach, s.ids} => ids \ s.detach = s.ids
           /\ s.attach = {} => Before(s) = s.ids \cup s.detach
           /\ s.detach = {} => s.ids \cup s.detach = s.ids
  BY DEF Aimed

(* An update that did not tear: the client is the one it was, on the       *)
(* inbounds it was on, and if it succeeded and they could take the fields, *)
(* it has them, and nobody has its old name.                               *)
LEMMA UpdateStores ==
    ASSUME NEW d, Sound(d), Even(d), NEW s, IsFields(s.fields),
           NEW reply, reply = UpdateByEmail(d, s.client, s.fields), ~reply.torn
    PROVE  /\ \A j \in Its(reply.db, s) :
                  j \in Its(d, s) /\ reply.db[j].ids = d[j].ids
           /\ reply.ok => \A i \in Its(d, s) :
                  d[i].ids # {} => Stores(reply.db, s, i) /\ reply.db[i].ids = d[i].ids
  <1>. USE DEF Its
  <1>1. CASE Its(d, s) = {}
    BY <1>1 DEF UpdateByEmail, Reply
  <1>2. CASE Its(d, s) # {}
    <2>. PICK p : p = s.fields
      OBVIOUS
    <2>1. PICK i \in DOMAIN d : d[i].email = s.client
      BY <1>2 DEF Named
    <2>2. Its(d, s) = {i} /\ reply = Update(d, i, p)
      <3>1. Named(d, {s.client}) = {i} /\ (CHOOSE j \in Named(d, {s.client}) : TRUE) = i
        BY <2>1, OneNamed
      <3>2. QED
        BY <1>2, <3>1 DEF UpdateByEmail
    <2>3. IsClient(d[i]) /\ EvenClient(d[i])
      BY DEF Sound, Shaped, Even, EvenClient
    <2>. DEFINE renamed == [d EXCEPT ![i].email = p.email]
                full == [renamed EXCEPT ![i] = Written(@, p)]
                others == DOMAIN d \ {i}
    <2>4. \/ reply = Reply(d, FALSE)
          \/ reply.db = renamed /\ ~reply.ok /\ p.email = d[i].email
          \/ reply = Reply(renamed, TRUE) /\ d[i].ids = {}
          \/ reply = Reply(full, TRUE)
      BY <2>2 DEF Update, Reply
    <2>5. /\ DOMAIN renamed = DOMAIN d
          /\ \A j \in others : renamed[j] = d[j]
          /\ IsClient(renamed[i]) /\ renamed[i].email = p.email
          /\ renamed[i].ids = d[i].ids /\ renamed[i].flows = d[i].flows
      BY <2>3 DEF IsClient
    <2>. HIDE DEF renamed
    <2>6. /\ DOMAIN full = DOMAIN d
          /\ \A j \in others : full[j] = d[j]
          /\ full[i] = Written(renamed[i], p)
      BY <2>5
    <2>. HIDE DEF full
    <2>7. /\ full[i].email = p.email /\ full[i].ids = d[i].ids
          /\ Fields(full[i], p.flow) = p
          /\ full[i].flows = IF p.flow THEN d[i].ids \cap Capable ELSE {}
      <3>. HIDE DEF others
      <3>. PICK w : w = full[i]
        OBVIOUS
      <3>1. Filled(w, renamed[i], p)
        BY <2>5, <2>6, WrittenFields
      <3>2. /\ w.email = renamed[i].email /\ w.ids = renamed[i].ids
            /\ w.sub = p.sub /\ w.limit = p.limit /\ w.on = p.on /\ w.grp = p.grp
            /\ w.flows = IF p.flow THEN renamed[i].flows \cup (renamed[i].ids \cap Capable) ELSE {}
        BY <3>1 DEF Filled
      <3>3. /\ w.email = p.email /\ w.ids = d[i].ids
            /\ w.flows = IF p.flow THEN d[i].flows \cup (d[i].ids \cap Capable) ELSE {}
        BY <2>5, <3>2
      <3>4. w.flows = IF p.flow THEN d[i].ids \cap Capable ELSE {}
        BY <2>3, <3>3 DEF EvenClient
      <3>5. Fields(w, p.flow) = p
        BY <3>2, <3>3 DEF Fields, IsFields
      <3>6. QED
        BY <3>3, <3>4, <3>5
    <2>8. CASE reply = Reply(d, FALSE)
      BY <2>8 DEF Reply
    <2>9. CASE reply.db = renamed /\ ~reply.ok /\ p.email = d[i].email
      <3>1. \A j \in Named(renamed, {s.client}) : j \in Its(d, s) /\ renamed[j].ids = d[j].ids
        BY <2>1, <2>2, <2>5 DEF Named
      <3>2. QED
        BY <2>9, <3>1
    <2>10. CASE reply = Reply(renamed, TRUE) /\ d[i].ids = {}
      <3>1. \A j \in Named(renamed, {s.client}) : j \in Its(d, s) /\ renamed[j].ids = d[j].ids
        BY <2>1, <2>2, <2>5 DEF Named
      <3>2. reply.db = renamed
        BY <2>10 DEF Reply
      <3>3. QED
        BY <2>2, <2>10, <3>1, <3>2
    <2>11. CASE reply = Reply(full, TRUE)
      <3>1. reply.db = full
        BY <2>11 DEF Reply
      <3>2. \A j \in Named(full, {s.client}) : j \in Its(d, s) /\ full[j].ids = d[j].ids
        BY <2>1, <2>2, <2>6, <2>7 DEF Named
      <3>3. s.client = p.email \/ Named(full, {s.client}) = {}
        BY <2>1, <2>2, <2>6, <2>7 DEF Named
      <3>4. Stores(full, s, i)
        BY <2>6, <2>7, <3>3 DEF Stores
      <3>5. QED
        BY <2>2, <2>7, <3>1, <3>2, <3>4
    <2>12. QED
      BY <2>4, <2>8, <2>9, <2>10, <2>11
  <1>3. QED
    BY <1>1, <1>2

(* What attaching and detaching make of one client.                        *)
LEMMA AttachedFields ==
    ASSUME NEW c, IsClient(c), NEW ids, NEW flow
    PROVE  Fields(Attached(c, ids), flow) = Fields(c, flow)
  BY DEF Attached, Fields, IsClient

LEMMA DetachedFields ==
    ASSUME NEW c, IsClient(c), NEW ids, NEW flow
    PROVE  Fields(Detached(c, ids), flow) = Fields(c, flow)
  BY DEF Detached, Fields, IsClient

LEMMA AttachedSets ==
    ASSUME NEW c, IsClient(c), NEW ids
    PROVE  /\ Attached(c, ids).email = c.email
           /\ Attached(c, ids).ids = c.ids \cup ids
           /\ Attached(c, ids).flows = IF c.flows = {} THEN {}
                                       ELSE c.flows \cup ((ids \ c.ids) \cap Capable)
  BY DEF Attached, IsClient

LEMMA DetachedSets ==
    ASSUME NEW c, IsClient(c), NEW ids
    PROVE  /\ Detached(c, ids).email = c.email
           /\ Detached(c, ids).ids = c.ids \ ids
           /\ Detached(c, ids).flows = c.flows \ ids
  BY DEF Detached, IsClient

(* Both reach the client only under the name the save began with, and then *)
(* keep its fields.                                                        *)
OnlyAttaches(d, s, ids, reply) ==
    /\ ~reply.ok => reply.db = d
    /\ reply.ok => /\ \A j \in Its(reply.db, s) :
                          j \in Its(d, s) /\ reply.db[j].ids = d[j].ids \cup ids
                   /\ \A i : Stores(d, s, i) /\ Flowing(d, s, i) =>
                          /\ Stores(reply.db, s, i) /\ Flowing(reply.db, s, i)
                          /\ reply.db[i].ids = d[i].ids \cup ids

OnlyDetaches(d, s, ids, reply) ==
    /\ ~reply.ok => reply.db = d
    /\ reply.ok => /\ \A j \in Its(reply.db, s) :
                          j \in Its(d, s) /\ reply.db[j].ids = d[j].ids \ ids
                   /\ \A i : Stores(d, s, i) =>
                          Stores(reply.db, s, i) /\ reply.db[i].ids = d[i].ids \ ids

LEMMA AttachStores ==
    ASSUME NEW d, Sound(d), NEW s, NEW ids, NEW reply, reply = AttachByEmail(d, s.client, ids)
    PROVE  OnlyAttaches(d, s, ids, reply)
  <1>. USE DEF Its, OnlyAttaches
  <1>1. CASE Its(d, s) = {}
    BY <1>1 DEF AttachByEmail, Reply
  <1>2. CASE Its(d, s) # {}
    <2>. DEFINE Change(c) == Attached(c, ids)
                e == Each(d, {s.client}, Change)
    <2>1. reply = Reply(e, TRUE)
      BY <1>2 DEF AttachByEmail
    <2>2. DOMAIN e = DOMAIN d
      BY DEF Each
    <2>3. \A j \in DOMAIN d : e[j] = IF d[j].email = s.client THEN Attached(d[j], ids) ELSE d[j]
      BY DEF Each
    <2>. HIDE DEF e
    <2>4. ASSUME NEW j \in DOMAIN d
          PROVE  /\ e[j].email = d[j].email
                 /\ d[j].email = s.client => e[j].ids = d[j].ids \cup ids
      <3>. PICK c : c = d[j]
        OBVIOUS
      <3>1. IsClient(c)
        BY DEF Sound, Shaped
      <3>2. Attached(c, ids).email = c.email /\ Attached(c, ids).ids = c.ids \cup ids
        BY <3>1, AttachedSets
      <3>3. e[j] = IF c.email = s.client THEN Attached(c, ids) ELSE c
        BY <2>3
      <3>4. QED
        BY <3>2, <3>3
    <2>5. Its(e, s) = Its(d, s)
      BY <2>2, <2>4 DEF Named
    <2>6. \A j \in Its(d, s) : e[j].ids = d[j].ids \cup ids
      BY <2>4 DEF Named
    <2>7. ASSUME NEW i, Stores(d, s, i), Flowing(d, s, i)
          PROVE  Stores(e, s, i) /\ Flowing(e, s, i) /\ e[i].ids = d[i].ids \cup ids
      <3>. PICK c, flow : c = d[i] /\ flow = s.fields.flow
        OBVIOUS
      <3>. DEFINE b == Attached(c, ids)
      <3>1. s.client = s.fields.email /\ IsClient(c) /\ c.email = s.client
        BY <1>2, <2>7 DEF Stores, Sound, Shaped
      <3>2. e[i] = b
        BY <2>3, <2>7, <3>1 DEF Stores
      <3>3. /\ Fields(b, flow) = Fields(c, flow)
            /\ b.ids = c.ids \cup ids
            /\ b.flows = IF c.flows = {} THEN {} ELSE c.flows \cup ((ids \ c.ids) \cap Capable)
        <4>1. Fields(b, flow) = Fields(c, flow)
          BY <3>1, AttachedFields
        <4>2. /\ b.ids = c.ids \cup ids
              /\ b.flows = IF c.flows = {} THEN {} ELSE c.flows \cup ((ids \ c.ids) \cap Capable)
          BY <3>1, AttachedSets
        <4>3. QED
          BY <4>1, <4>2
      <3>. HIDE DEF b
      <3>4. b.flows = IF s.fields.flow THEN b.ids \cap Capable ELSE {}
        BY <2>7, <3>3 DEF Stores, Flowing
      <3>5. Flowing(e, s, i)
        BY <2>7, <3>2, <3>3 DEF Flowing
      <3>6. Stores(e, s, i)
        BY <2>2, <2>4, <2>7, <3>1, <3>2, <3>3, <3>4 DEF Stores, Named
      <3>7. QED
        BY <3>2, <3>3, <3>5, <3>6
    <2>8. reply.ok /\ reply.db = e
      BY <2>1 DEF Reply
    <2>9. QED
      BY <2>5, <2>6, <2>7, <2>8
  <1>3. QED
    BY <1>1, <1>2

LEMMA DetachStores ==
    ASSUME NEW d, Sound(d), NEW s, NEW ids, NEW reply, reply = DetachByEmailMany(d, s.client, ids)
    PROVE  OnlyDetaches(d, s, ids, reply)
  <1>. USE DEF Its, OnlyDetaches
  <1>1. CASE Its(d, s) = {}
    BY <1>1 DEF DetachByEmailMany, Reply
  <1>2. CASE Its(d, s) # {}
    <2>. DEFINE Change(c) == Detached(c, ids)
                e == Each(d, {s.client}, Change)
    <2>1. reply = Reply(e, TRUE)
      BY <1>2 DEF DetachByEmailMany
    <2>2. DOMAIN e = DOMAIN d
      BY DEF Each
    <2>3. \A j \in DOMAIN d : e[j] = IF d[j].email = s.client THEN Detached(d[j], ids) ELSE d[j]
      BY DEF Each
    <2>. HIDE DEF e
    <2>4. ASSUME NEW j \in DOMAIN d
          PROVE  /\ e[j].email = d[j].email
                 /\ d[j].email = s.client => e[j].ids = d[j].ids \ ids
      <3>. PICK c : c = d[j]
        OBVIOUS
      <3>1. IsClient(c)
        BY DEF Sound, Shaped
      <3>2. Detached(c, ids).email = c.email /\ Detached(c, ids).ids = c.ids \ ids
        BY <3>1, DetachedSets
      <3>3. e[j] = IF c.email = s.client THEN Detached(c, ids) ELSE c
        BY <2>3
      <3>4. QED
        BY <3>2, <3>3
    <2>5. Its(e, s) = Its(d, s)
      BY <2>2, <2>4 DEF Named
    <2>6. \A j \in Its(d, s) : e[j].ids = d[j].ids \ ids
      BY <2>4 DEF Named
    <2>7. ASSUME NEW i, Stores(d, s, i)
          PROVE  Stores(e, s, i) /\ e[i].ids = d[i].ids \ ids
      <3>. PICK c, flow : c = d[i] /\ flow = s.fields.flow
        OBVIOUS
      <3>. DEFINE b == Detached(c, ids)
      <3>1. s.client = s.fields.email /\ IsClient(c) /\ c.email = s.client
        BY <1>2, <2>7 DEF Stores, Sound, Shaped
      <3>2. e[i] = b
        BY <2>3, <2>7, <3>1 DEF Stores
      <3>3. /\ Fields(b, flow) = Fields(c, flow)
            /\ b.ids = c.ids \ ids /\ b.flows = c.flows \ ids
        BY <3>1, DetachedFields, DetachedSets
      <3>. HIDE DEF b
      <3>4. b.flows = IF s.fields.flow THEN b.ids \cap Capable ELSE {}
        BY <2>7, <3>3 DEF Stores
      <3>5. Stores(e, s, i)
        BY <2>2, <2>4, <2>7, <3>1, <3>2, <3>3, <3>4 DEF Stores, Named
      <3>6. QED
        BY <3>2, <3>3, <3>5
    <2>8. reply.ok /\ reply.db = e
      BY <2>1 DEF Reply
    <2>9. QED
      BY <2>5, <2>6, <2>7, <2>8
  <1>3. QED
    BY <1>1, <1>2

(* Two states of one save.                                                 *)
SameAim(t, s) ==
    /\ t.client = s.client /\ t.fields = s.fields /\ t.ids = s.ids
    /\ t.attach = s.attach /\ t.detach = s.detach

LEMMA AimKept ==
    ASSUME NEW t, NEW s, SameAim(t, s), NEW d
    PROVE  /\ Before(t) = Before(s) /\ (Aimed(t) <=> Aimed(s)) /\ Its(d, t) = Its(d, s)
           /\ \A i : (Stores(d, t, i) <=> Stores(d, s, i)) /\ (Flowing(d, t, i) <=> Flowing(d, s, i))
  BY DEF SameAim, Before, Aimed, Stores, Flowing, Its

(* A step of a save, served, brings the client on: e is what is left of    *)
(* the records d, t of the save.                                           *)
LEMMA ServedOnTheWay ==
    ASSUME Sound(db), Even(db), NEW s, IsSave(s), IsFields(s.fields), Aimed(s),
           ~s.served, s.step # "create", OnTheWay(db, s),
           NEW t, SameAim(t, s), t.step = s.step, t.served, NEW e,
           \/ e = db /\ ~t.ok
           \/ e = SaveReply(s).db /\ ~SaveReply(s).torn /\ (t.ok => SaveReply(s).ok),
           t.linked => /\ s.linked
                       /\ s.step = "update" => \E i \in Its(db, s) :
                              db[i].ids # {} /\ Flowing(db, s, i)
    PROVE  OnTheWay(e, t)
  <1>0. PICK reply : reply = SaveReply(s)
    OBVIOUS
  <1>. DEFINE three == {Before(s), s.ids \cup s.detach, s.ids}
              two == {s.ids \cup s.detach, s.ids}
  <1>1. Reached(s) = IF s.step = "detach" THEN two ELSE three
    BY DEF Reached
  <1>2. Before(t) = Before(s)
    BY AimKept
  <1>3. ~t.ok => Reached(t) = Reached(s)
    BY <1>2 DEF Reached, SameAim
  <1>4. \A i \in Its(db, s) : db[i].ids \in Reached(s)
    BY DEF OnTheWay
  <1>5. Its(e, t) = Its(e, s)
    BY AimKept
  <1>6. CASE ~t.ok /\ e = db
    <2>1. ~Past(t)
      BY <1>6 DEF Past
    <2>2. QED
      BY <1>3, <1>4, <1>5, <1>6, <2>1 DEF OnTheWay
  <1>7. CASE s.step = "update" /\ e = reply.db /\ ~reply.torn /\ (t.ok => reply.ok)
    <2>1. /\ reply = UpdateByEmail(db, s.client, s.fields)
          /\ Reached(t) = three /\ Reached(s) = three
      BY <1>0, <1>1, <1>2, <1>7 DEF SaveReply, Reached, SameAim
    <2>2. /\ \A j \in Its(e, s) : j \in Its(db, s) /\ e[j].ids = db[j].ids
          /\ reply.ok => \A i \in Its(db, s) :
                 db[i].ids # {} => Stores(e, s, i) /\ e[i].ids = db[i].ids
      <3>. HIDE DEF three, two
      <3>2. /\ \A j \in Its(reply.db, s) :
                    j \in Its(db, s) /\ reply.db[j].ids = db[j].ids
            /\ reply.ok => \A i \in Its(db, s) :
                   db[i].ids # {} => Stores(reply.db, s, i) /\ reply.db[i].ids = db[i].ids
        BY <1>7, <2>1, UpdateStores
      <3>3. QED
        BY <1>7, <3>2
    <2>3. ASSUME t.linked, Past(t)
          PROVE  \E i \in DOMAIN e : Holds(e, t, i)
      <3>1. PICK i \in Its(db, s) : db[i].ids # {} /\ Flowing(db, s, i)
        BY <1>7, <2>3
      <3>2. reply.ok
        BY <1>7, <2>3 DEF Past
      <3>3. Stores(e, s, i) /\ e[i].ids = db[i].ids
        BY <2>2, <3>1, <3>2
      <3>4. e[i].ids \in Reached(t) /\ Flowing(e, s, i)
        BY <1>4, <2>1, <3>1, <3>3 DEF Flowing
      <3>5. Stores(e, t, i) /\ Flowing(e, t, i)
        BY <3>3, <3>4, AimKept
      <3>6. QED
        BY <3>4, <3>5 DEF Holds, Stores
    <2>4. QED
      BY <1>4, <1>5, <2>1, <2>2, <2>3 DEF OnTheWay
  <1>8. CASE s.step = "attach" /\ e = reply.db /\ (t.ok => reply.ok)
    <2>1. /\ reply = AttachByEmail(db, s.client, s.attach)
          /\ Reached(t) = (IF t.ok THEN two ELSE three) /\ Reached(s) = three
      BY <1>0, <1>1, <1>2, <1>8 DEF SaveReply, Reached, SameAim
    <2>2. \A ids : ids \in three => ids \cup s.attach \in two
      BY WaySets
    <2>7. PICK ids : ids = s.attach
      OBVIOUS
    <2>6. OnlyAttaches(db, s, ids, reply)
      <3>1. reply = AttachByEmail(db, s.client, ids)
        BY <2>1, <2>7
      <3>2. QED
        BY <3>1, AttachStores
    <2>3. CASE ~reply.ok
      <3>1. e = db /\ ~t.ok
        BY <1>8, <2>3, <2>6 DEF OnlyAttaches
      <3>2. QED
        BY <1>6, <3>1
    <2>4. CASE reply.ok
      <3>1. \A j \in Its(e, s) :
                j \in Its(db, s) /\ e[j].ids = db[j].ids \cup s.attach
        BY <1>8, <2>4, <2>6, <2>7 DEF OnlyAttaches
      <3>2. \A j \in Its(e, s) : e[j].ids \in Reached(t)
        BY <1>4, <2>1, <2>2, <3>1
      <3>3. ASSUME t.linked, Past(t)
            PROVE  \E i \in DOMAIN e : Holds(e, t, i)
        <4>1. PICK i : Holds(db, s, i)
          BY <1>8, <3>3 DEF OnTheWay, Past
        <4>2. Stores(db, s, i) /\ Flowing(db, s, i) /\ db[i].ids \in three
          BY <1>8, <2>1, <4>1 DEF Holds
        <4>3. Stores(e, s, i) /\ Flowing(e, s, i) /\ e[i].ids = db[i].ids \cup s.attach
          BY <1>8, <2>4, <2>6, <2>7, <4>2 DEF OnlyAttaches
        <4>4. e[i].ids \in Reached(t)
          BY <2>1, <2>2, <4>2, <4>3
        <4>6. Stores(e, t, i) /\ Flowing(e, t, i)
          BY <4>3, AimKept
        <4>5. QED
          BY <4>3, <4>4, <4>6 DEF Holds, Stores
      <3>4. QED
        BY <1>5, <3>2, <3>3 DEF OnTheWay
    <2>5. QED
      BY <2>3, <2>4
  <1>9. CASE s.step = "detach" /\ e = reply.db /\ (t.ok => reply.ok)
    <2>1. /\ reply = DetachByEmailMany(db, s.client, s.detach)
          /\ Reached(t) = (IF t.ok THEN {s.ids} ELSE two) /\ Reached(s) = two
      BY <1>0, <1>1, <1>2, <1>9 DEF SaveReply, Reached, SameAim
    <2>2. \A ids : ids \in two => ids \ s.detach = s.ids
      BY WaySets
    <2>7. PICK ids : ids = s.detach
      OBVIOUS
    <2>6. OnlyDetaches(db, s, ids, reply)
      <3>1. reply = DetachByEmailMany(db, s.client, ids)
        BY <2>1, <2>7
      <3>2. QED
        BY <3>1, DetachStores
    <2>3. CASE ~reply.ok
      <3>1. e = db /\ ~t.ok
        BY <1>9, <2>3, <2>6 DEF OnlyDetaches
      <3>2. QED
        BY <1>6, <3>1
    <2>4. CASE reply.ok
      <3>1. \A j \in Its(e, s) :
                j \in Its(db, s) /\ e[j].ids = db[j].ids \ s.detach
        BY <1>9, <2>4, <2>6, <2>7 DEF OnlyDetaches
      <3>2. \A j \in Its(e, s) : e[j].ids \in Reached(t)
        BY <1>4, <2>1, <2>2, <3>1
      <3>3. ASSUME t.linked, Past(t)
            PROVE  \E i \in DOMAIN e : Holds(e, t, i)
        <4>1. PICK i : Holds(db, s, i)
          BY <1>9, <3>3 DEF OnTheWay, Past
        <4>2. Stores(db, s, i) /\ db[i].ids \in two
          BY <1>9, <2>1, <4>1 DEF Holds
        <4>3. Stores(e, s, i) /\ e[i].ids = db[i].ids \ s.detach
          BY <1>9, <2>4, <2>6, <2>7, <4>2 DEF OnlyDetaches
        <4>4. e[i].ids \in Reached(t)
          BY <2>1, <2>2, <4>2, <4>3
        <4>6. Stores(e, t, i)
          BY <4>3, AimKept
        <4>5. QED
          BY <1>9, <4>3, <4>4, <4>6 DEF Holds, Stores
      <3>4. QED
        BY <1>5, <3>2, <3>3 DEF OnTheWay
    <2>5. QED
      BY <2>3, <2>4
  <1>10. QED
    BY <1>0, <1>6, <1>7, <1>8, <1>9 DEF IsSave

(* What of a save tells how far its client is.                             *)
SameSave(t, s) ==
    /\ SameAim(t, s)
    /\ t.step = s.step /\ t.served = s.served /\ t.ok = s.ok /\ t.linked = s.linked

LEMMA WayKept ==
    ASSUME NEW t, NEW s, SameSave(t, s), NEW d
    PROVE  (Aimed(t) <=> Aimed(s)) /\ (OnTheWay(d, t) <=> OnTheWay(d, s))
  <1>1. SameAim(t, s)
    BY DEF SameSave
  <1>2. /\ (Aimed(t) <=> Aimed(s)) /\ Before(t) = Before(s) /\ Its(d, t) = Its(d, s)
        /\ \A i : (Stores(d, t, i) <=> Stores(d, s, i)) /\ (Flowing(d, t, i) <=> Flowing(d, s, i))
    BY <1>1, AimKept
  <1>3. Reached(t) = Reached(s) /\ (Past(t) <=> Past(s))
    BY <1>2 DEF Reached, Past, SameSave, SameAim
  <1>4. \A i : Holds(d, t, i) <=> Holds(d, s, i)
    BY <1>2, <1>3 DEF Holds, SameSave
  <1>5. QED
    BY <1>2, <1>3, <1>4 DEF OnTheWay, SameSave

LEMMA SameSaves ==
    ASSUME NEW s, IsSave(s)
    PROVE  /\ SameSave(Left(s), s) /\ SameSave(Alone(s), s)
           /\ Left(s).alone = s.alone /\ ~Left(s).own
           /\ Alone(s).own = s.own /\ (Alone(s).alone => s.alone /\ db' = db)
  BY DEF IsSave, Left, Alone, NoSave, SameSave, SameAim

(* A save under way is on it until the records are torn, unless another    *)
(* write reached them.                                                     *)
Tracked(d, tear, s) ==
    s # NoSave => /\ Aimed(s)
                  /\ s.step # "create" /\ s.alone /\ ~tear => OnTheWay(d, s)

WayInv == Tracked(db, torn, saving)

(* It and the form it came from, unless that was closed or was handed      *)
(* another client, are about the same client.                              *)
Editing(f) == f.isEdit /\ f.client # None

Owned(s, f) ==
    s # NoSave /\ s.own => /\ f.open /\ (s.step # "create" <=> Editing(f))
                           /\ s.client = f.client /\ Before(s) = f.attached
                           /\ f.alone => s.alone

OwnInv == Owned(saving, form)

(* The client of a form nobody wrote beside, with no save of it under way, *)
(* has the inbounds it was read with, or what a failed save made of them.  *)
Traced(d, tear, s, f) ==
    f.open /\ Editing(f) /\ f.alone /\ ~tear /\ ~(s # NoSave /\ s.own) =>
        \A i \in Its(d, f) : \/ d[i].ids = f.attached
                             \/ \E T \in f.tried : d[i].ids \in {f.attached \cup T, T}

FormInv == Traced(db, torn, saving, form)

LEMMA TrackedKept ==
    ASSUME NEW s, IsSave(s), NEW t, IsSave(t), SameSave(t, s), t.alone => s.alone,
           NEW d, NEW tear, Tracked(d, tear, s)
    PROVE  Tracked(d, tear, t)
  <1>1. s # NoSave
    BY DEF IsSave, NoSave
  <1>2. (Aimed(t) <=> Aimed(s)) /\ (OnTheWay(d, t) <=> OnTheWay(d, s))
    BY WayKept
  <1>3. QED
    BY <1>1, <1>2 DEF Tracked, SameSave

(* A save begins where its form left the client.                           *)
LEMMA SubmitTracked ==
    ASSUME IsForm(form), FormInv, OnSubmit
    PROVE  WayInv' /\ OwnInv' /\ FormInv'
  <1>0. PICK s : s = saving'
    OBVIOUS
  <1>1. /\ s.step = (IF Editing(form) THEN "update" ELSE "create")
        /\ ~s.served /\ ~s.ok /\ s.own
        /\ s.client = form.client /\ s.ids = form.ids
        /\ s.attach = form.ids \ form.attached /\ s.detach = form.attached \ form.ids
        /\ s.alone <=> form.alone /\ form.tried \subseteq {form.ids}
    BY <1>0 DEF OnSubmit, Editing
  <1>2. /\ form'.open /\ form'.client = form.client /\ form'.attached = form.attached
        /\ Editing(form') <=> Editing(form)
        /\ form'.alone => s.alone
    BY <1>1 DEF OnSubmit, IsForm, Editing
  <1>3. Before(s) = form.attached /\ Aimed(s)
    BY <1>1 DEF Before, Aimed
  <1>4. ASSUME s.step # "create", s.alone, ~torn
        PROVE  OnTheWay(db, s)
    <2>1. form.open /\ Editing(form) /\ form.alone /\ form.tried \subseteq {form.ids} /\ saving = NoSave
      BY <1>1, <1>4 DEF OnSubmit
    <2>2. \A i \in Its(db, form) : \/ db[i].ids = form.attached
                                   \/ \E T \in form.tried : db[i].ids \in {form.attached \cup T, T}
      BY <1>4, <2>1 DEF FormInv, Traced
    <2>3. Reached(s) = {Before(s), s.ids \cup s.detach, s.ids}
      BY <1>1, <1>4 DEF Reached
    <2>4. s.ids \cup s.detach = form.attached \cup form.ids
      BY <1>1
    <2>5. \A i \in Its(db, form) : db[i].ids \in Reached(s)
      BY <1>1, <1>3, <2>1, <2>2, <2>3, <2>4
    <2>6. Its(db, s) = Its(db, form) /\ ~Past(s)
      BY <1>1, <1>4 DEF Its, Past
    <2>7. QED
      BY <2>5, <2>6 DEF OnTheWay
  <1>5. WayInv'
    <2>1. Tracked(db, torn, s)
      BY <1>3, <1>4 DEF Tracked
    <2>2. UNCHANGED <<db, torn>>
      BY DEF OnSubmit, server
    <2>3. QED
      BY <1>0, <2>1, <2>2 DEF WayInv
  <1>6. OwnInv'
    <2>1. Owned(s, form')
      BY <1>1, <1>2, <1>3 DEF Owned
    <2>2. QED
      BY <1>0, <2>1 DEF OwnInv
  <1>7. FormInv'
    <2>1. s # NoSave
      BY <1>0 DEF OnSubmit, NoSave
    <2>2. QED
      BY <1>0, <1>1, <2>1 DEF FormInv, Traced
  <1>8. QED
    BY <1>5, <1>6, <1>7

(* It stays on its way as its steps are served,                            *)
LEMMA ServedTracked ==
    ASSUME UnderwayInv, FieldsInv, EvenInv, WayInv, SaveServed
    PROVE  Tracked(db', torn', saving')
  <1>0. PICK s, t : s = saving /\ t = saving'
    OBVIOUS
  <1>1. /\ IsSave(s) /\ IsFields(s.fields) /\ ~s.served /\ Sound(db) /\ s # NoSave
        /\ ~torn => Even(db)
    BY <1>0 DEF SaveServed, UnderwayInv, FieldsInv, EvenInv, Neat
  <1>2. /\ SameAim(t, s) /\ t.step = s.step /\ t.served /\ t.alone = s.alone
        /\ t.linked => /\ s.linked
                       /\ s.step = "update" => \E i \in Its(db, s) :
                              db[i].ids # {} /\ Flowing(db, s, i)
    BY <1>0, <1>1 DEF SaveServed, IsSave, SameAim, Its, Flowing
  <1>3. \/ UNCHANGED <<db, torn>> /\ ~t.ok
        \/ /\ db' = SaveReply(s).db /\ torn' = (torn \/ SaveReply(s).torn)
           /\ t.ok => SaveReply(s).ok
    <2>1. PICK ok \in BOOLEAN : Taken(SaveReply(s), ok) /\ t.ok = ok
      BY <1>0, <1>1 DEF SaveServed, IsSave
    <2>2. QED
      BY <2>1 DEF Taken, server
  <1>4. Aimed(s) /\ (s.step # "create" /\ s.alone /\ ~torn => OnTheWay(db, s))
    BY <1>0, <1>1 DEF WayInv, Tracked
  <1>5. Aimed(t)
    BY <1>2, <1>4, AimKept
  <1>6. ASSUME t.step # "create", t.alone, ~torn'
        PROVE  OnTheWay(db', t)
    <2>0. ~torn
      <3>1. torn' = torn \/ torn' = (torn \/ SaveReply(s).torn)
        BY <1>3
      <3>2. QED
        BY <1>6, <3>1
    <2>1. ~torn /\ Even(db) /\ OnTheWay(db, s) /\ s.step # "create"
      BY <1>1, <1>2, <1>4, <1>6, <2>0
    <2>2. PICK e : e = db'
      OBVIOUS
    <2>3. \/ e = db /\ ~t.ok
          \/ e = SaveReply(s).db /\ ~SaveReply(s).torn /\ (t.ok => SaveReply(s).ok)
      BY <1>3, <1>6, <2>1, <2>2
    <2>4. OnTheWay(e, t)
      BY <1>1, <1>2, <1>4, <2>1, <2>3, ServedOnTheWay
    <2>5. QED
      BY <2>2, <2>4
  <1>7. QED
    BY <1>0, <1>5, <1>6 DEF Tracked

(* and as one step answered is followed by the next,                       *)
LEMMA NextOnTheWay ==
    ASSUME NEW d, NEW s, NEW t, SameAim(t, s), Aimed(s), s.served, s.ok, ~t.served,
           t.linked = s.linked, OnTheWay(d, s),
           \/ s.step = "update" /\ t.step = "attach"
           \/ s.step = "update" /\ s.attach = {} /\ t.step = "detach"
           \/ s.step = "attach" /\ t.step = "detach"
    PROVE  OnTheWay(d, t)
  <1>1. /\ Before(t) = Before(s) /\ Its(d, t) = Its(d, s)
        /\ \A i : (Stores(d, t, i) <=> Stores(d, s, i)) /\ (Flowing(d, t, i) <=> Flowing(d, s, i))
    BY AimKept
  <1>2. t.ids = s.ids /\ t.detach = s.detach
    BY DEF SameAim
  <1>3. s.attach = {} => Before(s) = s.ids \cup s.detach
    BY DEF Aimed
  <1>4. \A ids \in Reached(s) : ids \in Reached(t)
    <2>1. CASE s.step = "update" /\ t.step = "attach"
      BY <1>1, <1>2, <2>1 DEF Reached
    <2>2. CASE s.step = "update" /\ s.attach = {} /\ t.step = "detach"
      BY <1>1, <1>2, <1>3, <2>2 DEF Reached
    <2>3. CASE s.step = "attach" /\ t.step = "detach"
      BY <1>1, <1>2, <2>3 DEF Reached
    <2>4. QED
      BY <2>1, <2>2, <2>3
  <1>5. \A i \in Its(d, t) : d[i].ids \in Reached(t)
    BY <1>1, <1>4 DEF OnTheWay
  <1>6. ASSUME t.linked
        PROVE  \E i \in DOMAIN d : Holds(d, t, i)
    <2>1. PICK i \in DOMAIN d : Holds(d, s, i)
      BY <1>6 DEF OnTheWay, Past
    <2>2. Stores(d, s, i) /\ d[i].ids \in Reached(s) /\ Flowing(d, s, i)
      BY <2>1 DEF Holds
    <2>3. Stores(d, t, i) /\ d[i].ids \in Reached(t) /\ Flowing(d, t, i)
      BY <1>1, <1>4, <2>2
    <2>4. QED
      BY <2>3 DEF Holds
  <1>7. QED
    BY <1>5, <1>6 DEF OnTheWay

LEMMA NextStep ==
    ASSUME UnderwayInv, SaveAnswered, saving' # NoSave
    PROVE  /\ SameAim(saving', saving) /\ saving.served /\ saving.ok /\ ~saving'.served
           /\ saving'.linked = saving.linked /\ saving'.alone = saving.alone
           /\ saving'.own = saving.own /\ saving # NoSave
           /\ \/ saving.step = "update" /\ saving'.step = "attach"
              \/ saving.step = "update" /\ saving.attach = {} /\ saving'.step = "detach"
              \/ saving.step = "attach" /\ saving'.step = "detach"
  <1>. PICK s, t : s = saving /\ t = saving'
    OBVIOUS
  <1>1. IsSave(s) /\ s.served /\ s.ok /\ s # NoSave /\ StepsLeft(s) # {}
    BY DEF SaveAnswered, UnderwayInv
  <1>2. t = [s EXCEPT !.served = FALSE, !.ok = FALSE,
                      !.step = IF "attach" \in StepsLeft(s) THEN "attach" ELSE "detach"]
    BY DEF SaveAnswered
  <1>3. /\ SameAim(t, s) /\ ~t.served /\ t.linked = s.linked /\ t.alone = s.alone /\ t.own = s.own
        /\ t.step = IF "attach" \in StepsLeft(s) THEN "attach" ELSE "detach"
    BY <1>1, <1>2 DEF IsSave, SameAim
  <1>4. CASE s.step = "update"
    <2>1. "attach" \in StepsLeft(s) <=> s.attach # {}
      BY <1>4 DEF StepsLeft
    <2>2. QED
      BY <1>1, <1>3, <1>4, <2>1
  <1>5. CASE s.step = "attach"
    <2>1. "attach" \notin StepsLeft(s)
      BY <1>5 DEF StepsLeft
    <2>2. QED
      BY <1>1, <1>3, <1>5, <2>1
  <1>6. CASE s.step \in {"create", "detach"}
    BY <1>1, <1>6 DEF StepsLeft
  <1>7. QED
    BY <1>1, <1>4, <1>5, <1>6 DEF IsSave

LEMMA AnsweredTracked ==
    ASSUME UnderwayInv, WayInv, SaveAnswered
    PROVE  WayInv'
  <1>1. UNCHANGED <<db, torn>>
    BY DEF SaveAnswered, server
  <1>2. CASE saving' # NoSave
    <2>. PICK s, t : s = saving /\ t = saving'
      OBVIOUS
    <2>1. /\ SameAim(t, s) /\ s.served /\ s.ok /\ ~t.served
          /\ t.linked = s.linked /\ t.alone = s.alone /\ s # NoSave
          /\ \/ s.step = "update" /\ t.step = "attach"
             \/ s.step = "update" /\ s.attach = {} /\ t.step = "detach"
             \/ s.step = "attach" /\ t.step = "detach"
      BY <1>2, NextStep
    <2>2. Aimed(s) /\ (s.alone /\ ~torn => OnTheWay(db, s))
      BY <2>1 DEF WayInv, Tracked
    <2>3. PICK d : d = db
      OBVIOUS
    <2>4. OnTheWay(d, s) => OnTheWay(d, t)
      BY <2>1, <2>2, NextOnTheWay
    <2>5. Aimed(t)
      BY <2>1, <2>2, AimKept
    <2>6. Tracked(db, torn, t)
      BY <2>1, <2>2, <2>3, <2>4, <2>5 DEF Tracked
    <2>7. QED
      BY <1>1, <2>6 DEF WayInv
  <1>3. QED
    BY <1>2 DEF WayInv, Tracked

LEMMA AloneForm ==
    ASSUME NEW f, IsForm(f)
    PROVE  /\ Alone(f).open = f.open /\ Alone(f).isEdit = f.isEdit /\ Alone(f).client = f.client
           /\ Alone(f).attached = f.attached /\ Alone(f).tried = f.tried
           /\ Alone(f).alone => f.alone /\ db' = db
  BY DEF IsForm, Alone, NoSave

LEMMA TornForGood ==
    ASSUME NEW reply, NEW ok, Taken(reply, ok), ~torn'
    PROVE  ~torn
  <1>1. torn' = torn \/ torn' = (torn \/ reply.torn)
    BY DEF Taken, server
  <1>2. QED
    BY <1>1

LEMMA WayNext ==
    ASSUME NeatInv, WayInv, FormInv, [Next]_vars
    PROVE  WayInv'
  <1>0. UnderwayInv /\ FieldsInv /\ EvenInv /\ IsForm(form)
    BY DEF NeatInv, FreshInv, FieldsInv
  <1>1. CASE UNCHANGED <<saving, server>>
    BY <1>1 DEF WayInv, server
  <1>2. ASSUME NEW d, NEW tear, Tracked(d, tear, saving), NEW t, t \in {saving, Left(saving), Alone(saving)}
        PROVE  Tracked(d, tear, t)
    <2>. PICK s : s = saving
      OBVIOUS
    <2>1. CASE s = NoSave
      <3>1. t = NoSave
        BY <1>2, <2>1 DEF Left, Alone
      <3>2. QED
        BY <3>1 DEF Tracked
    <2>2. CASE s # NoSave
      <3>1. IsSave(s)
        BY <1>0, <2>2 DEF UnderwayInv
      <3>2. CASE t = s
        BY <1>2, <3>2
      <3>3. CASE t = Left(s)
        BY <1>2, <3>1, <3>3, SaveShape, SameSaves, TrackedKept
      <3>4. CASE t = Alone(s)
        BY <1>2, <3>1, <3>4, SaveShape, SameSaves, TrackedKept
      <3>5. QED
        BY <1>2, <3>2, <3>3, <3>4
    <2>3. QED
      BY <2>1, <2>2
  <1>3. CASE (\E h \in hydrating : EditOpens(h)) \/ CloseForm
    <2>1. saving' = Left(saving) /\ UNCHANGED <<db, torn>>
      BY <1>3 DEF EditOpens, CloseForm, server
    <2>2. Tracked(db, torn, Left(saving))
      BY <1>2 DEF WayInv
    <2>3. QED
      BY <2>1, <2>2 DEF WayInv
  <1>4. CASE OnSubmit
    BY <1>0, <1>4, SubmitTracked
  <1>5. CASE SaveServed
    BY <1>0, <1>5, ServedTracked DEF WayInv
  <1>6. CASE SaveAnswered
    BY <1>0, <1>6, AnsweredTracked
  <1>7. ASSUME NEW r \in requests, Served(r)
        PROVE  WayInv'
    <2>1. saving' = Alone(saving)
      BY <1>7 DEF Served
    <2>2. ~torn' => ~torn
      BY <1>7, TornForGood DEF Served
    <2>3. Tracked(db, torn, saving')
      BY <1>2, <2>1 DEF WayInv
    <2>4. saving' # NoSave /\ saving'.alone => db' = db
      <3>1. CASE saving = NoSave
        BY <2>1, <3>1 DEF Alone
      <3>2. CASE saving # NoSave
        BY <1>0, <2>1, <3>2, SameSaves DEF UnderwayInv
      <3>3. QED
        BY <3>1, <3>2
    <2>5. Tracked(db', torn', saving')
      BY <2>2, <2>3, <2>4 DEF Tracked
    <2>6. QED
      BY <2>5 DEF WayInv
  <1>8. CASE \/ OnAdd \/ Type
             \/ \E row \in Shown.rows : OnEdit(row) \/ OnToggleEnable(row)
             \/ \E h \in hydrating : HydrateRead(h) \/ SwitchSends(h)
    BY <1>1, <1>8 DEF OnAdd, Type, OnEdit, OnToggleEnable, HydrateRead, SwitchSends
  <1>9. QED
    BY <1>1, <1>3, <1>4, <1>5, <1>6, <1>7, <1>8, PageCases

LEMMA OwnNext ==
    ASSUME NeatInv, OwnInv, FormInv, [Next]_vars
    PROVE  OwnInv'
  <1>0. UnderwayInv /\ IsForm(form)
    BY DEF NeatInv, FreshInv, FieldsInv
  <1>1. CASE UNCHANGED <<form, saving>>
    BY <1>1 DEF OwnInv
  <1>2. CASE OnAdd \/ \E row \in Shown.rows : OnEdit(row)
    <2>1. saving' = saving /\ ~form.open
      BY <1>2 DEF OnAdd, OnEdit, RowClick, Click
    <2>2. QED
      BY <2>1 DEF OwnInv, Owned
  <1>3. CASE Type
    <2>1. saving' = saving /\ Kept(form', form)
      BY <1>0, <1>3, TypeShape DEF Type
    <2>. PICK f, g : f = form /\ g = form'
      OBVIOUS
    <2>2. Owned(saving, f) => Owned(saving, g)
      BY <2>1 DEF Owned, Kept, Editing
    <2>3. QED
      BY <2>1, <2>2 DEF OwnInv
  <1>4. CASE (\E h \in hydrating : EditOpens(h)) \/ CloseForm
    <2>1. saving' = Left(saving)
      BY <1>4 DEF EditOpens, CloseForm
    <2>2. CASE saving = NoSave
      BY <2>1, <2>2 DEF Left, OwnInv, Owned
    <2>3. CASE saving # NoSave
      <3>1. ~saving'.own
        BY <1>0, <2>1, <2>3, SameSaves DEF UnderwayInv
      <3>2. QED
        BY <3>1 DEF OwnInv, Owned
    <2>4. QED
      BY <2>2, <2>3
  <1>5. CASE OnSubmit
    BY <1>0, <1>5, SubmitTracked
  <1>6. CASE SaveServed
    <2>. PICK s, t : s = saving /\ t = saving'
      OBVIOUS
    <2>1. s # NoSave /\ IsSave(s)
      BY <1>0, <1>6 DEF SaveServed, UnderwayInv
    <2>2. SameAim(t, s) /\ t.step = s.step /\ t.alone = s.alone /\ t.own = s.own
      BY <1>6, <2>1 DEF SaveServed, IsSave, SameAim
    <2>3. s.own => form' = form
      BY <1>6 DEF SaveServed
    <2>4. Before(t) = Before(s) /\ t.client = s.client
      BY <2>2, AimKept DEF SameAim
    <2>5. Owned(s, form) => (t.own => Owned(t, form))
      BY <2>1, <2>2, <2>4 DEF Owned
    <2>6. QED
      BY <2>2, <2>3, <2>5 DEF OwnInv, Owned
  <1>7. CASE SaveAnswered /\ saving' # NoSave
    <2>. PICK s, t : s = saving /\ t = saving'
      OBVIOUS
    <2>1. /\ SameAim(t, s) /\ t.alone = s.alone /\ t.own = s.own /\ s # NoSave
          /\ s.step # "create" /\ t.step # "create" /\ s.ok
      BY <1>0, <1>7, NextStep
    <2>2. Before(t) = Before(s) /\ t.client = s.client
      BY <2>1, AimKept DEF SameAim
    <2>3. ~Finished(s)
      BY <1>7 DEF SaveAnswered, Finished
    <2>4. /\ form'.open <=> form.open
          /\ form'.isEdit = form.isEdit /\ form'.client = form.client
          /\ form'.attached = form.attached /\ form'.alone = form.alone
      BY <1>0, <1>7, <2>3 DEF SaveAnswered, IsForm
    <2>5. Editing(form') <=> Editing(form)
      BY <2>4 DEF Editing
    <2>6. QED
      BY <2>1, <2>2, <2>4, <2>5 DEF OwnInv, Owned
  <1>8. CASE saving' = NoSave
    BY <1>8 DEF OwnInv, Owned
  <1>9. ASSUME NEW r \in requests, Served(r)
        PROVE  OwnInv'
    <2>. PICK s, t : s = saving /\ t = saving'
      OBVIOUS
    <2>1. t = Alone(s) /\ form' = Alone(form)
      BY <1>9 DEF Served
    <2>2. CASE s = NoSave
      BY <2>1, <2>2 DEF Alone, OwnInv, Owned
    <2>3. CASE s # NoSave
      <3>1. SameSave(t, s) /\ t.own = s.own
        BY <1>0, <2>1, <2>3, SameSaves DEF UnderwayInv
      <3>2. /\ SameAim(t, s) /\ t.step = s.step
        BY <3>1 DEF SameSave
      <3>3. Before(t) = Before(s) /\ t.client = s.client
        BY <3>2, AimKept DEF SameAim
      <3>4. /\ form'.open = form.open /\ form'.isEdit = form.isEdit /\ form'.client = form.client
            /\ form'.attached = form.attached
            /\ form'.alone => form.alone /\ db' = db
        BY <1>0, <2>1, AloneForm
      <3>5. db' = db => t = s
        BY <2>1 DEF Alone
      <3>6. Editing(form') <=> Editing(form)
        BY <3>4 DEF Editing
      <3>7. QED
        BY <2>3, <3>1, <3>2, <3>3, <3>4, <3>5, <3>6 DEF OwnInv, Owned
    <2>4. QED
      BY <2>2, <2>3
  <1>10. CASE \/ UNCHANGED <<form, hydrating, saving, server>>
              \/ \E row \in Shown.rows : OnToggleEnable(row)
              \/ \E h \in hydrating : HydrateRead(h) \/ SwitchSends(h)
    BY <1>1, <1>10 DEF OnToggleEnable, HydrateRead, SwitchSends
  <1>11. QED
    BY <1>2, <1>3, <1>4, <1>5, <1>6, <1>7, <1>8, <1>9, <1>10, PageCases

(* A form opened on a record, and found the client's, holds its inbounds.  *)
LEMMA EditTraced ==
    ASSUME Sound(db), IsForm(form), NEW h \in hydrating, IsHydration(h), EditOpens(h),
           form'.alone, NEW i \in Its(db, form')
    PROVE  db[i].ids = form'.attached
  <1>. PICK p, ids : p = FieldsOf(h) /\ ids = IdsOf(h)
    OBVIOUS
  <1>1. Same(h.row.email, p, ids) /\ form'.client = p.email /\ form'.attached = ids
    BY EditShape
  <1>2. PICK j \in Named(db, {h.row.email}) : ids = db[j].ids /\ p = Fields(db[j], db[j].flows # {})
    BY <1>1 DEF Same
  <1>3. p.email = db[j].email /\ j \in DOMAIN db
    BY <1>2 DEF Fields, Named
  <1>4. Named(db, {db[j].email}) = {j}
    BY <1>3, OneNamed
  <1>5. Its(db, form') = {j}
    BY <1>1, <1>3, <1>4 DEF Its
  <1>6. QED
    BY <1>1, <1>2, <1>5

(* A save that failed leaves its client where one of its steps would.      *)
LEMMA FailedTraced ==
    ASSUME IsForm(form), WayInv, OwnInv, SaveAnswered, saving.own, ~saving.ok
    PROVE  FormInv'
  <1>. PICK s : s = saving
    OBVIOUS
  <1>1. /\ s # NoSave /\ UNCHANGED <<db, torn>>
        /\ form'.tried = {s.ids} /\ form'.client = form.client /\ form'.attached = form.attached
        /\ form'.alone = form.alone /\ form'.isEdit = form.isEdit
    BY DEF SaveAnswered, IsForm, server
  <1>2. ASSUME Editing(form'), form'.alone, ~torn'
        PROVE  \A i \in Its(db, form') : db[i].ids \in {form.attached, form.attached \cup s.ids, s.ids}
    <2>1. Editing(form) /\ form.alone
      BY <1>1, <1>2 DEF Editing
    <2>2. s.step # "create" /\ s.client = form.client /\ Before(s) = form.attached /\ s.alone
      BY <1>1, <2>1 DEF OwnInv, Owned
    <2>3. Aimed(s) /\ OnTheWay(db, s)
      BY <1>1, <1>2, <2>2 DEF WayInv, Tracked
    <2>4. s.ids \cup s.detach = form.attached \cup s.ids
      BY <2>2, <2>3 DEF Aimed
    <2>5. \A i \in Its(db, s) : db[i].ids \in {Before(s), s.ids \cup s.detach, s.ids}
      BY <2>3 DEF OnTheWay, Reached
    <2>6. Its(db, form') = Its(db, s)
      BY <1>1, <2>2 DEF Its
    <2>7. QED
      BY <2>2, <2>4, <2>5, <2>6
  <1>3. QED
    BY <1>1, <1>2 DEF FormInv, Traced

LEMMA TracedNext ==
    ASSUME NeatInv, WayInv, OwnInv, FormInv, [Next]_vars
    PROVE  FormInv'
  <1>0. UnderwayInv /\ IsForm(form) /\ FieldsInv /\ Sound(db)
    BY DEF NeatInv, FreshInv, FieldsInv, EvenInv, Neat
  <1>1. ASSUME UNCHANGED <<saving, server>>, Kept(form', form)
        PROVE  FormInv'
    <2>. PICK f, g : f = form /\ g = form'
      OBVIOUS
    <2>1. Its(db, g) = Its(db, f) /\ (Editing(g) <=> Editing(f))
      BY <1>1 DEF Its, Kept, Editing
    <2>2. UNCHANGED <<db, torn, saving>>
      BY <1>1 DEF server
    <2>3. Traced(db, torn, saving, f) => Traced(db, torn, saving, g)
      BY <1>1, <2>1 DEF Traced, Kept
    <2>4. QED
      BY <2>2, <2>3 DEF FormInv
  <1>2. CASE UNCHANGED <<form, saving, server>>
    BY <1>1, <1>2 DEF Kept
  <1>3. CASE Type
    BY <1>0, <1>1, <1>3, TypeShape DEF Type
  <1>4. CASE OnAdd
    BY <1>0, <1>4, AddShape DEF FormInv, Traced, Editing
  <1>5. CASE CloseForm \/ \E row \in Shown.rows : OnEdit(row)
    <2>1. ~form'.open
      BY <1>0, <1>5 DEF CloseForm, OnEdit, RowClick, Click, IsForm
    <2>2. QED
      BY <2>1 DEF FormInv, Traced
  <1>6. ASSUME NEW h \in hydrating, EditOpens(h)
        PROVE  FormInv'
    <2>1. UNCHANGED <<db, torn>>
      BY <1>6 DEF EditOpens, server
    <2>2. ASSUME form'.alone, NEW i \in Its(db, form')
          PROVE  db[i].ids = form'.attached
      BY <1>0, <1>6, <2>2, EditTraced DEF FieldsInv
    <2>3. QED
      BY <2>1, <2>2 DEF FormInv, Traced
  <1>7. CASE OnSubmit
    BY <1>0, <1>7, SubmitTracked
  <1>8. ASSUME ~torn' => ~torn, form' = Alone(form), ~(saving' # NoSave /\ saving'.own) =>
                   ~(saving # NoSave /\ saving.own)
        PROVE  FormInv'
    <2>. PICK f, g : f = form /\ g = form'
      OBVIOUS
    <2>1. /\ g.open = f.open /\ g.isEdit = f.isEdit /\ g.client = f.client
          /\ g.attached = f.attached /\ g.tried = f.tried
          /\ g.alone => f.alone /\ db' = db
      BY <1>0, <1>8, AloneForm
    <2>2. Its(db, g) = Its(db, f) /\ (Editing(g) <=> Editing(f))
      BY <2>1 DEF Its, Editing
    <2>3. QED
      BY <1>8, <2>1, <2>2 DEF FormInv, Traced
  <1>9. CASE SaveServed
    <2>1. ~torn' => ~torn
      BY <1>9, TornForGood DEF SaveServed
    <2>2. saving # NoSave /\ saving'.own = saving.own /\ saving' # NoSave
      <3>1. IsSave(saving)
        BY <1>0, <1>9 DEF SaveServed, UnderwayInv
      <3>2. QED
        BY <1>9, <3>1 DEF SaveServed, IsSave, NoSave
    <2>3. CASE saving.own
      BY <2>2, <2>3 DEF FormInv, Traced
    <2>4. CASE ~saving.own
      BY <1>8, <1>9, <2>1, <2>2, <2>4 DEF SaveServed
    <2>5. QED
      BY <2>3, <2>4
  <1>10. ASSUME NEW r \in requests, Served(r)
         PROVE  FormInv'
    <2>1. ~torn' => ~torn
      BY <1>10, TornForGood DEF Served
    <2>2. form' = Alone(form) /\ saving' = Alone(saving)
      BY <1>10 DEF Served
    <2>3. saving # NoSave => saving' # NoSave /\ saving'.own = saving.own
      BY <1>0, <2>2, SaveShape, SameSaves DEF UnderwayInv
    <2>4. QED
      BY <1>8, <2>1, <2>2, <2>3
  <1>11. CASE SaveAnswered
    <2>1. UNCHANGED <<db, torn>> /\ saving # NoSave
      BY <1>11 DEF SaveAnswered, server
    <2>2. CASE saving.own /\ ~saving.ok
      BY <1>0, <1>11, <2>2, FailedTraced
    <2>3. CASE saving.own /\ saving.ok /\ saving' # NoSave
      <3>1. saving'.own = saving.own
        BY <1>0, <1>11, <2>3, NextStep
      <3>2. QED
        BY <2>3, <3>1 DEF FormInv, Traced
    <2>4. CASE saving.ok /\ saving' = NoSave
      <3>1. Finished(saving)
        <4>1. saving.served /\ IsSave(saving)
          BY <1>0, <1>11 DEF SaveAnswered, UnderwayInv
        <4>2. StepsLeft(saving) = {}
          BY <1>11, <2>4, <4>1 DEF SaveAnswered, IsSave, NoSave
        <4>3. QED
          BY <2>1, <2>4, <4>1, <4>2 DEF Finished
      <3>2. ~form'.open
        BY <1>0, <1>11, <3>1 DEF SaveAnswered, IsForm
      <3>3. QED
        BY <3>2 DEF FormInv, Traced
    <2>5. CASE ~saving.own
      <3>1. /\ form'.open => form.open
            /\ form'.isEdit = form.isEdit /\ form'.client = form.client
            /\ form'.attached = form.attached /\ form'.alone = form.alone
            /\ form'.tried = form.tried
        BY <1>0, <1>11, <2>5 DEF SaveAnswered, IsForm
      <3>2. Its(db, form') = Its(db, form) /\ (Editing(form') <=> Editing(form))
        BY <3>1 DEF Its, Editing
      <3>3. QED
        BY <2>1, <2>5, <3>1, <3>2 DEF FormInv, Traced
    <2>6. QED
      BY <2>2, <2>3, <2>4, <2>5
  <1>12. CASE \/ UNCHANGED <<form, hydrating, saving, server>>
              \/ \E row \in Shown.rows : OnToggleEnable(row)
              \/ \E h \in hydrating : HydrateRead(h) \/ SwitchSends(h)
    BY <1>2, <1>12 DEF OnToggleEnable, HydrateRead, SwitchSends
  <1>13. QED
    BY <1>3, <1>4, <1>5, <1>6, <1>7, <1>9, <1>10, <1>11, <1>12, PageCases

(* A save reported done is stored.                                         *)
LEMMA DoneIsStored ==
    ASSUME NEW d, NEW s, s.step \in {"update", "attach", "detach"}, IsFields(s.fields),
           Aimed(s), OnTheWay(d, s), Finished(s), s.linked
    PROVE  \E i \in Named(d, {s.fields.email}) :
               /\ d[i].ids = s.ids
               /\ Fields(d[i], d[i].flows # {})
                    = [s.fields EXCEPT !.flow = @ /\ s.ids \cap Capable # {}]
  <1>1. s.served /\ s.ok /\ StepsLeft(s) = {}
    BY DEF Finished
  <1>2. PICK i \in DOMAIN d : Holds(d, s, i)
    BY <1>1 DEF OnTheWay, Past
  <1>3. /\ d[i].email = s.fields.email /\ Fields(d[i], s.fields.flow) = s.fields
        /\ d[i].flows = (IF s.fields.flow THEN d[i].ids \cap Capable ELSE {})
        /\ d[i].ids \in Reached(s)
    BY <1>2 DEF Holds, Stores
  <1>4. d[i].ids = s.ids
    <2>1. CASE s.step = "update"
      <3>1. s.attach = {} /\ s.detach = {}
        BY <1>1, <2>1 DEF StepsLeft
      <3>2. Before(s) = s.ids \cup s.detach /\ s.ids \cup s.detach = s.ids
        BY <3>1 DEF Before
      <3>3. Reached(s) = {Before(s), s.ids \cup s.detach, s.ids}
        BY <2>1 DEF Reached
      <3>4. QED
        BY <1>3, <3>2, <3>3
    <2>2. CASE s.step = "attach"
      <3>1. s.detach = {}
        BY <1>1, <2>2 DEF StepsLeft
      <3>2. s.ids \cup s.detach = s.ids
        BY <3>1
      <3>3. Reached(s) = {s.ids \cup s.detach, s.ids}
        BY <1>1, <2>2 DEF Reached
      <3>4. QED
        BY <1>3, <3>2, <3>3
    <2>3. CASE s.step = "detach"
      BY <1>1, <1>3, <2>3 DEF Reached
    <2>4. QED
      BY <2>1, <2>2, <2>3
  <1>5. Fields(d[i], d[i].flows # {}) = [s.fields EXCEPT !.flow = @ /\ s.ids \cap Capable # {}]
    <2>. PICK p, c : p = s.fields /\ c = d[i]
      OBVIOUS
    <2>. PICK flow \in BOOLEAN : flow = (c.flows # {})
      OBVIOUS
    <2>1. c.flows # {} <=> p.flow /\ s.ids \cap Capable # {}
      BY <1>3, <1>4
    <2>2. flow = (p.flow /\ s.ids \cap Capable # {})
      BY <2>1
    <2>3. Fields(c, flow) = [p EXCEPT !.flow = flow]
      BY <1>3 DEF Fields, IsFields
    <2>4. QED
      BY <2>2, <2>3
  <1>6. QED
    BY <1>3, <1>4, <1>5 DEF Named

StoreInv == NeatInv /\ WayInv /\ OwnInv /\ FormInv

(* A save of an edited client that is reported done left it with the       *)
(* fields and the inbounds of the form, however many attempts at the same  *)
(* inbounds failed half way before it (ClientsPage.tsx:674).               *)
THEOREM SaveIsStored == Spec => SavedIsStored
  <1>1. Init => StoreInv
    <2>0. Init => saving = NoSave /\ form = Closed
      BY Zenon DEF Init
    <2>1. Init => saving = NoSave /\ ~form.open
      BY <2>0 DEF Closed
    <2>2. QED
      BY <2>1, NeatInit DEF StoreInv, WayInv, Tracked, OwnInv, Owned, FormInv, Traced
  <1>2. StoreInv /\ [Next]_vars => StoreInv'
    BY NeatNext, WayNext, OwnNext, TracedNext DEF StoreInv
  <1>3. ASSUME StoreInv, ~torn, Finished(saving), saving.step # "create", saving.alone, saving.linked
        PROVE  \E i \in Named(db, {saving.fields.email}) :
                   /\ db[i].ids = saving.ids
                   /\ Fields(db[i], db[i].flows # {})
                        = [saving.fields EXCEPT !.flow = @ /\ saving.ids \cap Capable # {}]
    <2>1. saving # NoSave
      BY <1>3 DEF Finished
    <2>2. IsSave(saving) /\ IsFields(saving.fields)
      BY <1>3, <2>1 DEF StoreInv, NeatInv, FreshInv, UnderwayInv, FieldsInv
    <2>3. saving.step \in {"update", "attach", "detach"}
      BY <1>3, <2>2 DEF IsSave
    <2>4. Aimed(saving) /\ OnTheWay(db, saving)
      BY <1>3, <2>1 DEF StoreInv, WayInv, Tracked
    <2>5. QED
      BY <1>3, <2>2, <2>3, <2>4, DoneIsStored
  <1>. DEFINE Stored == ~torn /\ saving' # saving /\ Finished(saving) /\ saving.step # "create"
                        /\ saving.alone /\ saving.linked
                        => \E i \in Named(db, {saving.fields.email}) :
                               /\ db[i].ids = saving.ids
                               /\ Fields(db[i], db[i].flows # {})
                                    = [saving.fields EXCEPT !.flow = @ /\ saving.ids \cap Capable # {}]
  <1>4. StoreInv => [Stored]_vars
    BY <1>3
  <1>5. QED
    BY <1>1, <1>2, <1>4, PTL DEF Spec, SavedIsStored
=============================================================================
