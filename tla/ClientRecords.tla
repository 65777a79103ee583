--------------------------- MODULE ClientRecords ---------------------------
(***************************************************************************)
(* What the panel's client endpoints do to the client records, as the      *)
(* Clients page meets them (internal/web/service/client_crud.go,           *)
(* client_bulk.go, client_groups.go, client_paging.go).  The page sees     *)
(* each as one request; the faults inside one are Orders' subject.         *)
(* The inbounds' settings list every client once, under its record's name, *)
(* until a request tears the two apart; what later requests make of a      *)
(* client torn so depends on the listing and is left out.                  *)
(*                                                                         *)
(* A record keeps its identity (sub stands for the subscription id and the *)
(* credentials that go with it), its name, and what a form edits; which of *)
(* its inbounds carry the XTLS flow is kept per inbound.                   *)
(***************************************************************************)
EXTENDS Integers, FiniteSets

CONSTANTS Ids,      \* record ids, small integers
          Emails,   \* names a client may have, numbered; the first are the Ids'
          Inbounds, \* inbounds a client may be attached to
          Capable,  \* those on which a flow can be used (tlsFlowCapable)
          PageSize  \* rows of a page

ASSUME IdsAssumption == Ids \subseteq Nat /\ IsFiniteSet(Ids)
ASSUME CapableAssumption == Capable \subseteq Inbounds
ASSUME PageSizeAssumption == PageSize \in Nat \ {0}

(* The fields a client form sends: email, sub, limit, on, grp, flow.       *)
Named(d, emails) == {i \in DOMAIN d : d[i].email \in emails}
Depleted(c) == c.used /\ c.limit = 0

(* What a handler leaves: the records, whether it reports success, and     *)
(* whether it tore the listing from them.                                  *)
Reply(d, ok) == [db |-> d, ok |-> ok, torn |-> FALSE]
Tearing(d, ok) == [db |-> d, ok |-> ok, torn |-> TRUE]

(* The fields sent, on the record and on each of its inbounds.             *)
Written(c, p) ==
    [c EXCEPT !.sub = p.sub, !.limit = p.limit, !.on = p.on, !.grp = p.grp,
              !.flows = IF p.flow THEN @ \cup (c.ids \cap Capable) ELSE {}]

(* Update, were the name not looked up first.                              *)
UpdateUnchecked(d, i, p) ==
    LET renamed == [d EXCEPT ![i].email = p.email]
        written == [renamed EXCEPT ![i] = Written(@, p)]
    IN  IF \E j \in DOMAIN d \ {i} : d[j].sub = p.sub
        THEN [Reply(renamed, FALSE) EXCEPT !.torn = p.email # d[i].email]
        ELSE Reply(IF d[i].ids = {} THEN renamed ELSE written, TRUE)

(* Update: the name first, if free; then the subscription id must not be   *)
(* another client's -- the name stays changed when it is, and the inbounds *)
(* go on listing the old one; then every inbound of the client, which is   *)
(* how the rest reaches the record.                                        *)
Update(d, i, p) ==
    LET renamed == [d EXCEPT ![i].email = p.email]
        written == [renamed EXCEPT ![i] = Written(@, p)]
    IN  IF p.email # d[i].email /\ Named(d, {p.email}) # {} THEN Reply(d, FALSE)
        ELSE IF \E j \in DOMAIN d \ {i} : d[j].sub = p.sub
        THEN [Reply(renamed, FALSE) EXCEPT !.torn = p.email # d[i].email]
        ELSE Reply(IF d[i].ids = {} THEN renamed ELSE written, TRUE)

UpdateByEmail(d, email, p) ==
    IF Named(d, {email}) = {} THEN Reply(d, FALSE)
    ELSE Update(d, CHOOSE i \in Named(d, {email}) : TRUE, p)

(* Attach and BulkAttach: inbounds the client is on already are left       *)
(* alone; a new one that can use the flow gets the one the client uses.    *)
Attached(c, ids) ==
    [c EXCEPT !.ids = @ \cup ids,
              !.flows = IF @ = {} THEN @ ELSE @ \cup ((ids \ c.ids) \cap Capable)]

Detached(c, ids) == [c EXCEPT !.ids = @ \ ids, !.flows = @ \ ids]

(* A handler that changes each of the clients named and leaves the rest.   *)
Each(d, emails, Change(_)) ==
    [i \in DOMAIN d |-> IF d[i].email \in emails THEN Change(d[i]) ELSE d[i]]

AttachByEmail(d, email, ids) ==
    IF Named(d, {email}) = {} THEN Reply(d, FALSE)
    ELSE LET Change(c) == Attached(c, ids) IN Reply(Each(d, {email}, Change), TRUE)

DetachByEmailMany(d, email, ids) ==
    IF Named(d, {email}) = {} THEN Reply(d, FALSE)
    ELSE LET Change(c) == Detached(c, ids) IN Reply(Each(d, {email}, Change), TRUE)

Without(d, ids) == [i \in DOMAIN d \ ids |-> d[i]]

(* Create: an inbound at least, and neither the name nor the subscription  *)
(* id another client's.  The client that has both is written again: on     *)
(* more inbounds if there are any, and listed a second time on the others. *)
Create(d, p, ids) ==
    LET same == Named(d, {p.email})
        new == CHOOSE i \in Ids \ DOMAIN d : TRUE
        made == [email |-> p.email, sub |-> p.sub, limit |-> p.limit, used |-> FALSE, on |-> TRUE,
                 grp |-> p.grp, ids |-> ids, flows |-> IF p.flow THEN ids \cap Capable ELSE {}]
        Again(c) == [c EXCEPT !.limit = p.limit, !.on = TRUE,
                              !.grp = IF p.grp THEN TRUE ELSE @, !.ids = @ \cup ids,
                              !.flows = IF p.flow THEN @ \cup ((ids \ c.ids) \cap Capable) ELSE @]
        clash == \/ \E i \in same : d[i].sub # p.sub
                 \/ \E i \in DOMAIN d \ same : d[i].sub = p.sub
    IN  IF ids = {} \/ clash THEN Reply(d, FALSE)
        ELSE IF same # {} THEN Tearing(Each(d, {p.email}, Again), TRUE)
        ELSE IF Ids \ DOMAIN d = {} THEN Reply(d, FALSE)
        ELSE Reply([i \in DOMAIN d \cup {new} |-> IF i = new THEN made ELSE d[i]], TRUE)

(* The requests that take a set of clients, or none.                       *)
DeleteOne(d, emails) == Reply(Without(d, Named(d, emails)), Named(d, emails) # {})
BulkDelete(d, emails) == Reply(Without(d, Named(d, emails)), TRUE)
DelDepleted(d) == Reply(Without(d, {i \in DOMAIN d : Depleted(d[i])}), TRUE)

AddToGroup(d, emails, in) ==
    LET Change(c) == [c EXCEPT !.grp = in] IN Reply(Each(d, emails, Change), TRUE)
BulkAdjust(d, emails) ==
    LET Change(c) == [c EXCEPT !.limit = 1] IN Reply(Each(d, emails, Change), TRUE)
BulkAttach(d, emails, ids) ==
    LET Change(c) == Attached(c, ids) IN Reply(Each(d, emails, Change), TRUE)
BulkDetach(d, emails, ids) ==
    LET Change(c) == Detached(c, ids) IN Reply(Each(d, emails, Change), TRUE)

(* ResetTrafficByEmail turns a disabled client on as well, by an Update;   *)
(* ResetAllTraffics only forgets the usage.                                *)
ResetTraffic(d, emails) ==
    LET Change(c) == [c EXCEPT !.used = FALSE, !.on = IF c.ids # {} THEN TRUE ELSE @]
    IN  Reply(Each(d, emails, Change), TRUE)
ResetAllTraffics(d) == Reply([i \in DOMAIN d |-> [d[i] EXCEPT !.used = FALSE]], TRUE)

(* ListPaged, the Clients page's list: the clients in the bucket asked     *)
(* for, those of the page asked for, and how many there are; a row leaves  *)
(* out the credentials and the flow.                                       *)
Bucket(c) == IF Depleted(c) THEN "depleted" ELSE IF ~c.on THEN "deactive" ELSE "active"
Matches(c, bucket) == bucket = "" \/ Bucket(c) = bucket

Row(c) == [email |-> c.email, sub |-> c.sub, limit |-> c.limit, on |-> c.on,
           grp |-> c.grp, ids |-> c.ids]

ListPaged(d, q) ==
    LET match == {i \in DOMAIN d : Matches(d[i], q.bucket)}
        Rank(i) == Cardinality({j \in match : j < i})
    IN  [rows |-> {Row(d[i]) : i \in {i \in match : /\ (q.page - 1) * PageSize <= Rank(i)
                                                     /\ Rank(i) < q.page * PageSize}},
         filtered |-> Cardinality(match)]
=============================================================================
