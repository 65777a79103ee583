------------------------------ MODULE MCOrders ------------------------------
(***************************************************************************)
(* Small instances of Orders: the global store and one workspace with its  *)
(* manager, a customer of the workspace, the reseller who brought both, a  *)
(* moderator who makes configs by hand, and the workspace's treasury.      *)
(***************************************************************************)
EXTENDS Orders, TLC

CONSTANTS cust, boss, mod, agent, pool

MCAccount == {cust, boss, mod, agent, pool}

MCInitBalance == cust :> 4 @@ boss :> 0 @@ mod :> 4 @@ agent :> 0 @@ pool :> 1

MCRole == cust :> "member" @@ boss :> "manager" @@ mod :> "moderator"
       @@ agent :> "reseller"

MCHome == [u \in DOMAIN MCRole |-> "ws"]

MCReferrer == [u \in DOMAIN MCRole |-> IF u \in {cust, boss} THEN {agent} ELSE {}]

MCManager  == "ws" :> {boss} @@ "global" :> {}
MCTreasury == "ws" :> {pool} @@ "global" :> {}

(* One customer's config there already, and two names still free.          *)
MCExisting == "old" :> [user |-> cust, store |-> "ws", on |-> 2]
MCFresh == {"new", "own"}

Ask(kind, buyer, store, price, inbs, config) ==
    [kind |-> kind, buyer |-> buyer, store |-> store, price |-> price, cost |-> 2,
     days |-> 30, inbounds |-> inbs, config |-> config]

(* A sale, the manager spending what it earned in the global store, which  *)
(* has no manager, and a moderator making a config of the first one's name *)
(* by hand; two renewals of one config and the reset of its traffic.       *)
Forms == "buy"    :> Ask("purchase", cust, "ws", 2, <<1, 2>>, "new")
      @@ "spend"  :> Ask("purchase", boss, "global", 2, <<2>>, "own")
      @@ "hand"   :> Ask("create", mod, "ws", 2, <<2>>, "new")
      @@ "renew"  :> Ask("renew", cust, "ws", 2, <<1, 2>>, "old")
      @@ "renew2" :> Ask("renew", boss, "ws", 2, <<2>>, "old")
      @@ "reset"  :> Ask("reset", mod, "ws", 1, <<>>, "old")

(* Without faults, a sale beside another in the store its manager spends   *)
(* in and a config made by hand, two renewals of a config on an inbound    *)
(* that is deleted, and a renewal beside a sale; with faults, pairs on     *)
(* different stores and configs, as a fault adds a branch at each step.    *)
Stories ==
    {[made |-> m, faults |-> FALSE] :
        m \in {{"buy", "spend", "hand"}, {"renew", "renew2"}, {"buy", "renew"}}}
    \cup {[made |-> m, faults |-> TRUE] :
             m \in {{"buy", "hand"}, {"buy", "spend"}, {"renew", "reset"}}}

MCForm == [r \in Request |-> Forms[r]]

MCOp == Request \X {"charge", "refund", "cost", "commission"}
=============================================================================
