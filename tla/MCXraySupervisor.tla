-------------------------- MODULE MCXraySupervisor --------------------------
(***************************************************************************)
(* Small instances of XraySupervisor.  Overlapping runs of the checker are *)
(* two callers.                                                            *)
(***************************************************************************)
EXTENDS XraySupervisor, TLC

AllRoles == "check1" :> "checker" @@ "check2" :> "checker" @@ "job" :> "flagjob"
         @@ "admin" :> "admin" @@ "saver" :> "saver" @@ "traffic" :> "traffic"

(* The goroutines of a run are the ones its cfg lists.                     *)
MCRole == [c \in Caller |-> AllRoles[c]]

(* Cores with and without a second outbound and a client, and templates    *)
(* that add or remove the outbound, change the routing, or take a restart. *)
Template(o, r, s) == [Empty EXCEPT !.outbound = o, !.routing = r, !.static = s]

MCInitial == {[Template(0, 0, 0) EXCEPT !.inbound = [form |-> 1, users |-> {}]],
              [Template(1, 0, 0) EXCEPT !.inbound = [form |-> 1, users |-> Client]]}

MCTemplates == {Template(1, 1, 0), Template(0, 1, 0), Template(0, 0, 1)}
=============================================================================
