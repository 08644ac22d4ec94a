------------------------ MODULE MCSubscriptionStore -------------------------
(* Small instances of SubscriptionStore for TLC.                           *)
EXTENDS SubscriptionStore, TLC

CONSTANTS q1, e1, e2, g, r1, r2, r3, r4, r5, r6

For(op, entity) == [op |-> op, queue |-> q1, entity |-> entity]

(* The life of one alias: two creates, an append, an update, a delete, and *)
(* an append of a resource group.                                          *)
Requests == (r1 :> For("create", e1)) @@ (r2 :> For("create", e1))
         @@ (r3 :> For("append", e2)) @@ (r4 :> For("delete", e1))
         @@ (r5 :> For("update", e1)) @@ (r6 :> For("append", g))

StoreJob == Request \X {"main", "undo"}
StoreJobOf ==
  [j \in StoreJob |-> [op |-> IF j[2] = "main" THEN JobOf(j[1]) ELSE "delete",
                       queue |-> request[j[1]].queue]]
=============================================================================
