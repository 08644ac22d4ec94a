-------------------------- MODULE MCBroadcastCache ---------------------------
(* Small instances of BroadcastCache for TLC.                              *)
EXTENDS BroadcastCache, TLC

CONSTANTS c1, i1, v1, v2, a1, a2, a3

Asked(op, key) == [op |-> op, key |-> key]

(* A client is revoked twice; an attribute is made, changed and deleted.   *)
Requests == (v1 :> Asked("revoke", c1)) @@ (v2 :> Asked("revoke", c1))
         @@ (a1 :> Asked("create", i1)) @@ (a2 :> Asked("update", i1))
         @@ (a3 :> Asked("delete", i1))
=============================================================================
