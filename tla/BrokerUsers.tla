---------------------------- MODULE BrokerUsers -----------------------------
(***************************************************************************)
(* The users of the broker: RabbitClient.createUserIfNotExist, the first   *)
(* part of registering a streaming subscription, and                       *)
(* DataBrokerServiceImpl.resetPassword; and the promises through which     *)
(* the data broker service answers.                                        *)
(***************************************************************************)
EXTENDS RabbitClient

VARIABLES
  promise,   \* the outcome of each request
  keyed      \* requests whose answer hands out the password they generated

Outcome == {"none", "pending", "ok", "fail"}

-----------------------------------------------------------------------------
(* Promises.  The first outcome stays; complete and fail throw when there  *)
(* is one, tryFail does not, and the exception has nothing left to end.    *)

Settle(r, outcome) ==
  promise' = IF promise[r] = "pending"
             THEN [promise EXCEPT ![r] = outcome] ELSE promise

Unsettled == UNCHANGED promise

(* The callback of c runs: c is gone and the calls it makes are sent.      *)
Return(c, sent) == calls' = (calls \ {c}) \cup sent

Then(c, kind) == Return(c, {NewCall(c.req, kind, None)})

-----------------------------------------------------------------------------
(* createUserIfNotExist: look the user up and, if it is not there, create  *)
(* it, give it a permission in the vhost that grants nothing and save its  *)
(* password.  Its failure has no branch in the register that called it:    *)
(* the promise stays pending.                                              *)

BugCreatedUnpermitted(c) ==
  /\ c.kind = "putUser" /\ request[c.req].op = "register"
  /\ IF c.status = "ok" THEN Then(c, "insertUser") ELSE Return(c, {})
  /\ UNCHANGED keyed /\ Unsettled

OnUserPut(c) ==
  /\ c.kind = "putUser" /\ request[c.req].op = "register"
  /\ IF c.status = "ok" THEN Then(c, "putVhost") ELSE Return(c, {})
  /\ UNCHANGED keyed /\ Unsettled

OnVhostPut(c) ==
  /\ c.kind = "putVhost"
  /\ IF c.status = "ok" THEN Then(c, "insertUser") ELSE Return(c, {})
  /\ UNCHANGED keyed /\ Unsettled

-----------------------------------------------------------------------------
(* resetPassword: the row is looked up, and the reset goes on also when    *)
(* there is none.                                                          *)

BugResetSkipsBroker(c) ==
  /\ c.kind = "selectUser"
  /\ IF c.status = "ok" THEN Then(c, "updateUser") /\ Unsettled
     ELSE Return(c, {}) /\ Settle(c.req, "fail")
  /\ UNCHANGED keyed

OnUserSelected(c) ==
  /\ c.kind = "selectUser"
  /\ IF c.status = "ok" THEN Then(c, "putUser") /\ Unsettled
     ELSE Return(c, {}) /\ Settle(c.req, "fail")
  /\ UNCHANGED keyed

(* A PUT of a user the broker did not know creates it, and is a failure    *)
(* here.                                                                   *)
OnPasswordPut(c) ==
  /\ c.kind = "putUser" /\ request[c.req].op = "reset"
  /\ IF c.status = "exists" THEN Then(c, "updateUser") /\ Unsettled
     ELSE Return(c, {}) /\ Settle(c.req, "fail")
  /\ UNCHANGED keyed

OnUserUpdated(c) ==
  /\ c.kind = "updateUser" /\ request[c.req].op = "reset"
  /\ Return(c, {})
  /\ IF c.status = "ok" THEN Settle(c.req, "ok") /\ keyed' = keyed \cup {c.req}
     ELSE Settle(c.req, "fail") /\ UNCHANGED keyed

UserCallback(c) ==
  \/ OnUserPut(c)
  \/ OnVhostPut(c)
  \/ OnUserSelected(c)
  \/ OnPasswordPut(c)
  \/ OnUserUpdated(c)
=============================================================================
