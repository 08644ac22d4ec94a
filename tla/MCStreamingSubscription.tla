---------------------- MODULE MCStreamingSubscription -----------------------
(* Small instances of StreamingSubscription for TLC.                       *)
EXTENDS StreamingSubscription, TLC

CONSTANTS u1, u2, q1, q2, a, b, m, blank, r1, r2, r3, r4, r5, r6

Ask(op, user, queue, entities) ==
  [op |-> op, user |-> user, queue |-> queue, entities |-> entities]

(* The life of one alias and a reset of its user's password, beside a      *)
(* registration whose exchange is missing and one with a blank key.        *)
SerialRequests == (r1 :> Ask("register", u1, q1, {a, b}))
               @@ (r2 :> Ask("register", u1, q1, {a}))
               @@ (r3 :> Ask("append", u1, q1, {b}))
               @@ (r4 :> Ask("delete", u1, q1, {}))
               @@ (r5 :> Ask("register", u2, q2, {m}))
               @@ (r6 :> Ask("reset", u1, q1, {}))

BlankRequests == (r3 :> Ask("append", u1, q1, {b, blank}))
              @@ (r5 :> Ask("register", u2, q2, {a, blank}))
              @@ [r \in {r1, r2, r4} |-> SerialRequests[r]]

(* Two users, one of whom asks for the same alias twice.                   *)
OverlapRequests == (r1 :> Ask("register", u1, q1, {a, b}))
                @@ (r2 :> Ask("register", u2, q2, {a}))
                @@ (r3 :> Ask("register", u1, q1, {b}))
                @@ (r4 :> Ask("delete", u2, q2, {}))

TwoUsers == (r1 :> Ask("register", u1, q1, {a, b}))
         @@ (r2 :> Ask("register", u2, q2, {a}))
=============================================================================
