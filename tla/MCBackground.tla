---------------------------- MODULE MCBackground ----------------------------
(***************************************************************************)
(* The work that goes on behind the payment calls: the reorg rescan, the   *)
(* purchases with their outbox, and the queues.  The three share no table, *)
(* so nothing is lost by looking at behaviours in which one of them moves. *)
(***************************************************************************)
EXTENDS ReorgRescan, Purchases, Deliveries

CONSTANT Parts    \* the parts of the system to look at

VARIABLE part     \* the one that moves

In(p) == part = p /\ UNCHANGED part

Init == part \in Parts /\ ReorgInit /\ PurchaseInit /\ DeliveryInit

Next ==
    \/ In("reorg") /\ ReorgNext /\ UNCHANGED <<purchaseVars, deliveryVars>>
    \/ In("purchases") /\ PurchaseNext /\ UNCHANGED <<reorgVars, deliveryVars>>
    \/ In("deliveries") /\ DeliveryNext /\ UNCHANGED <<reorgVars, purchaseVars>>

Fairness ==
    /\ \A j \in Rescans : WF_reorgVars(In("reorg") /\ RescanStep(j))
    /\ \A d \in Deliverers : WF_deliveryVars(In("deliveries") /\ HandlerStep(d))
    /\ \A m \in Asked : WF_deliveryVars(In("deliveries") /\ DeliverUnhandled(m))

Spec == Init /\ [][Next]_<<part, reorgVars, purchaseVars, deliveryVars>> /\ Fairness

BackgroundTypeOK == ReorgTypeOK /\ PurchaseTypeOK /\ DeliveryTypeOK
=============================================================================
