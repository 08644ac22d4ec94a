------------------------------ MODULE MCAdaptor ------------------------------
(* Small instances of Adaptor for TLC.                                     *)
EXTENDS Adaptor, TLC

CONSTANTS a1, a2, u1, u2, r1, r2, r3, d1

Asked(op, id, user) == [op |-> op, id |-> id, user |-> user]

(* Two users register one adaptor, one of them another one, too, and       *)
(* deletes the first.                                                      *)
Requests == (r1 :> Asked("register", a1, u1)) @@ (r2 :> Asked("register", a1, u2))
         @@ (r3 :> Asked("register", a2, u1)) @@ (d1 :> Asked("delete", a1, u1))
=============================================================================
