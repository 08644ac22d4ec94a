------------------------ MODULE StreamingSubscription -----------------------
(***************************************************************************)
(* databroker/SubscriptionService.java: register, append and delete of a   *)
(* streaming subscription, as chains of callbacks over RabbitClient.       *)
(*                                                                         *)
(* The service is one object for all requests.  Its two counters,          *)
(* totalBindCount and totalBindSuccess, are fields: every request resets   *)
(* and reads the same pair.                                                *)
(***************************************************************************)
EXTENDS BrokerUsers

CONSTANT MaxInFlight  \* bound on the requests that have calls under way

ASSUME InFlightAssumption == MaxInFlight \in Nat \ {0}

VARIABLES
  totalBindCount,    \* bindings the request being handled must make
  totalBindSuccess   \* bindings answered so far

serviceVars == <<totalBindCount, totalBindSuccess, promise, keyed>>
vars == <<brokerVars, serviceVars>>

-----------------------------------------------------------------------------
ResetCounters(r) ==
  /\ totalBindCount' = Cardinality(request[r].entities)
  /\ totalBindSuccess' = 0

KeepCounters == UNCHANGED <<totalBindCount, totalBindSuccess>>

-----------------------------------------------------------------------------
(* A request arrives and makes its first call.                             *)

InFlight == {c.req : c \in calls}

Arrive(r, first) ==
  /\ promise[r] = "none"
  /\ Cardinality(InFlight) < MaxInFlight
  /\ promise' = [promise EXCEPT ![r] = "pending"]
  /\ calls' = calls \cup {NewCall(r, first, None)}
  /\ UNCHANGED <<brokerState, faults, keyed>>

registerStreamingSubscription(r) ==
  /\ request[r].op = "register"
  /\ Arrive(r, "getUser")
  /\ KeepCounters

appendStreamingSubscription(r) ==
  /\ request[r].op = "append"
  /\ Arrive(r, "listQueue")
  /\ ResetCounters(r)

deleteStreamingSubscription(r) ==
  /\ request[r].op = "delete"
  /\ Arrive(r, "deleteQueue")
  /\ KeepCounters

resetPassword(r) ==
  /\ request[r].op = "reset"
  /\ Arrive(r, "selectUser")
  /\ KeepCounters

-----------------------------------------------------------------------------
(* Callbacks.                                                              *)

(* createUserIfNotExist found the user: register creates the queue.        *)
OnUserFound(c) ==
  /\ c.kind = "getUser"
  /\ CASE c.status = "ok" -> ResetCounters(c.req) /\ Then(c, "createQueue")
       [] c.status = "notFound" -> KeepCounters /\ Then(c, "putUser")
       [] OTHER -> KeepCounters /\ Return(c, {})
  /\ UNCHANGED keyed /\ Unsettled

(* createUserIfNotExist created the user.                                  *)
OnUserSaved(c) ==
  /\ c.kind = "insertUser"
  /\ IF c.status = "ok"
     THEN ResetCounters(c.req) /\ Then(c, "createQueue") /\ keyed' = keyed \cup {c.req}
     ELSE KeepCounters /\ Return(c, {}) /\ UNCHANGED keyed
  /\ Unsettled

BindAll(r) ==
  {NewCall(r, "bind", e) : e \in request[r].entities \ {Blank}}

BugConflictIgnored(c) ==
  /\ c.kind = "createQueue"
  /\ IF c.status # "failed" THEN Unsettled /\ Return(c, BindAll(c.req))
     ELSE Settle(c.req, "fail") /\ Return(c, {})
  /\ KeepCounters

BugConflictUnanswered(c) ==
  /\ c.kind = "createQueue"
  /\ Return(c, IF c.status \in {"ok", "unexpected"} THEN BindAll(c.req) ELSE {})
  /\ Unsettled /\ KeepCounters

(* A blank key rolls the new queue back while the other keys are bound.    *)
OnQueueCreated(c) ==
  /\ c.kind = "createQueue"
  /\ IF c.status \in {"ok", "unexpected"}
     THEN /\ Unsettled
          /\ Return(c, BindAll(c.req) \cup
                       {Rollback(c.req, e) : e \in request[c.req].entities \cap {Blank}})
     ELSE Settle(c.req, "fail") /\ Return(c, {})
  /\ KeepCounters

BugMissingQueueGrown(c) ==
  /\ c.kind = "listQueue"
  /\ Return(c, BindAll(c.req))
  /\ Unsettled /\ KeepCounters

(* append fails the promise for a blank key and keeps binding the others.  *)
OnQueueListed(c) ==
  /\ c.kind = "listQueue"
  /\ IF c.status \in {"ok", "unexpected"}
     THEN /\ IF Blank \in request[c.req].entities
             THEN Settle(c.req, "fail") ELSE Unsettled
          /\ Return(c, BindAll(c.req))
     ELSE Settle(c.req, "fail") /\ Return(c, {})
  /\ KeepCounters

BugFirstBindEnough(c) ==
  /\ c.kind = "bind"
  /\ UNCHANGED totalBindCount
  /\ totalBindSuccess' = totalBindSuccess + 1
  /\ Return(c, IF totalBindSuccess = 0
               THEN {NewCall(c.req, "getPermissions", c.key)} ELSE {})
  /\ Unsettled

BugNoRollback(c) ==
  /\ c.kind = "bind"
  /\ UNCHANGED totalBindCount
  /\ totalBindSuccess' = totalBindSuccess + (IF c.status = "failed" THEN 0 ELSE 1)
  /\ IF c.status \in {"failed", "notFound"}
     THEN Return(c, {}) /\ Settle(c.req, "fail")
     ELSE /\ Return(c, IF totalBindSuccess' = totalBindCount
                       THEN {NewCall(c.req, "getPermissions", c.key)} ELSE {})
          /\ Unsettled

(* The counter counts every answer, also one that says not found.          *)
OnBound(c) ==
  /\ c.kind = "bind"
  /\ UNCHANGED totalBindCount
  /\ totalBindSuccess' = totalBindSuccess + (IF c.status = "failed" THEN 0 ELSE 1)
  /\ CASE c.status \in {"failed", "notFound"} /\ request[c.req].op = "register" ->
            /\ Return(c, {Rollback(c.req, c.key)})
            /\ Unsettled
       [] c.status \in {"failed", "notFound"} /\ request[c.req].op = "append" ->
            Return(c, {}) /\ Settle(c.req, "fail")
       [] OTHER ->
            /\ Return(c, IF totalBindSuccess' = totalBindCount
                         THEN {NewCall(c.req, "getPermissions", c.key)} ELSE {})
            /\ Unsettled

(* The deleteQueue of a rollback: when it fails the promise stays pending. *)
OnRolledBack(c) ==
  /\ c.kind = "deleteQueue" /\ request[c.req].op # "delete"
  /\ Return(c, {})
  /\ IF c.status = "failed" THEN Unsettled ELSE Settle(c.req, "fail")
  /\ KeepCounters

(* A delete is answered before the permission it revokes is written.       *)
OnDeleted(c) ==
  /\ c.kind = "deleteQueue" /\ request[c.req].op = "delete"
  /\ IF c.status \in {"ok", "unexpected"}
     THEN Return(c, {NewCall(c.req, "getPermissions", None)}) /\ Settle(c.req, "ok")
     ELSE Return(c, {}) /\ Settle(c.req, "fail")
  /\ KeepCounters

(* updateUserPermissions failed: a delete ignores it, the others roll back *)
(* by deleting the queue, append included.                                 *)
PermissionFailed(c) ==
  /\ Return(c, IF request[c.req].op = "delete" THEN {}
               ELSE {Rollback(c.req, c.key)})
  /\ Unsettled

Subscribes(r) == request[r].op \in {"register", "append"}

BugRevokeNothing(c) == c.view \cup {QueueOf(c)}

getUpdatedPermission(c) ==
  IF Subscribes(c.req) THEN c.view \cup {QueueOf(c)}
  ELSE c.view \ {QueueOf(c)}

BugWriteNotAwaited(c) ==
  /\ c.kind = "getPermissions"
  /\ IF c.status = "ok"
     THEN /\ Return(c, {[NewCall(c.req, "putPermissions", c.key)
                           EXCEPT !.view = getUpdatedPermission(c)]})
          /\ Settle(c.req, "ok")
     ELSE PermissionFailed(c)
  /\ KeepCounters

(* The permission is read here and written by a later call.  Reading the   *)
(* first of no permissions throws: nothing more happens for the request.   *)
OnPermissionsRead(c) ==
  /\ c.kind = "getPermissions"
  /\ CASE c.status = "ok" ->
            /\ Return(c, {[NewCall(c.req, "putPermissions", c.key)
                             EXCEPT !.view = getUpdatedPermission(c)]})
            /\ Unsettled
       [] c.status = "none" -> Return(c, {}) /\ Unsettled
       [] OTHER -> PermissionFailed(c)
  /\ KeepCounters

OnPermissionsWritten(c) ==
  /\ c.kind = "putPermissions"
  /\ IF c.status # "ok" THEN PermissionFailed(c)
     ELSE /\ Return(c, {})
          /\ IF request[c.req].op = "delete" THEN Unsettled ELSE Settle(c.req, "ok")
  /\ KeepCounters

QueueCallback(c) ==
  \/ OnQueueCreated(c)
  \/ OnQueueListed(c)
  \/ OnBound(c)
  \/ OnRolledBack(c)
  \/ OnDeleted(c)
  \/ OnPermissionsRead(c)
  \/ OnPermissionsWritten(c)

Callback(c) ==
  /\ c.status # "sent"
  /\ UNCHANGED <<brokerState, faults>>
  /\ \/ UserCallback(c) /\ KeepCounters
     \/ OnUserFound(c)
     \/ OnUserSaved(c)
     \/ QueueCallback(c) /\ UNCHANGED keyed

-----------------------------------------------------------------------------
Init ==
  /\ BrokerInit
  /\ totalBindCount = 0 /\ totalBindSuccess = 0
  /\ promise = [r \in Request |-> "none"]
  /\ keyed = {}

Broker == \E c \in calls : (Serve(c) \/ Fault(c)) /\ UNCHANGED serviceVars

Service == \E c \in calls : Callback(c)

Client == \E r \in Request : \/ registerStreamingSubscription(r)
                             \/ appendStreamingSubscription(r)
                             \/ deleteStreamingSubscription(r)
                             \/ resetPassword(r)

Next == Client \/ Broker \/ Service

Spec == Init /\ [][Next]_vars

(* The broker answers every call and the event loop runs every callback.   *)
(* No fairness on the clients.                                             *)
FairSpec == Spec /\ WF_vars(Broker \/ Service)
-----------------------------------------------------------------------------
(* Properties.                                                             *)

TypeOK ==
  /\ BrokerTypeOK
  /\ totalBindCount \in Nat /\ totalBindSuccess \in Nat
  /\ promise \in [Request -> Outcome]
  /\ keyed \subseteq Request

(* A user may read a queue only if a request of that user to register or   *)
(* append to that queue has arrived: the stale permission strings written  *)
(* back by overlapping updates never carry a grant from one user to another*)
(* (RabbitClient.updateUserPermissions).                                   *)
PermissionIsolation ==
  \A u \in User : \A q \in readPerm[u] :
    \E r \in Request : /\ request[r].user = u /\ request[r].queue = q
                      /\ Subscribes(r) /\ promise[r] # "none"

(* A register or append is answered with success only after the broker     *)
(* performed a permission write of that request that contains its queue.   *)
GrantBeforeSuccess ==
  \A r \in Request :
    promise[r] = "ok" /\ Subscribes(r) => r \in granted

(* The deleteQueue a failing register sends to undo itself is never aimed  *)
(* at a queue that another register made: a rollback does not take down    *)
(* somebody's working subscription.                                        *)
RollbackOwn ==
  \A c \in calls :
    /\ c.kind = "deleteQueue" /\ c.status = "sent"
    /\ request[c.req].op = "register"
    /\ QueueOf(c) \in queues
    => creator[QueueOf(c)] = c.req

(* When a register or append is answered with success, its queue exists,   *)
(* is bound for every entity of the request and is readable by its user.   *)
SuccessMeansSubscribed ==
  [][\A r \in Request :
       promise[r] = "pending" /\ promise'[r] = "ok" /\ Subscribes(r) =>
         /\ request[r].queue \in queues'
         /\ \A e \in request[r].entities : <<request[r].queue, e>> \in bindings'
         /\ request[r].queue \in readPerm'[request[r].user]]_vars

(* A register that is answered with failure has left no queue of its own   *)
(* behind: the alias can be registered again.                              *)
FailedRegisterLeavesNoQueue ==
  [][\A r \in Request :
       promise[r] = "pending" /\ promise'[r] = "fail" /\ request[r].op = "register" =>
         ~(request[r].queue \in queues' /\ creator'[request[r].queue] = r)]_vars

(* When nothing is under way, a user may read the queue of a registration  *)
(* exactly when the queue exists: registering grants it and deleting       *)
(* revokes it, although the revocation is not awaited.                     *)
PermissionsMatchQueues ==
  calls = {} =>
    \A r \in Request : request[r].op = "register" =>
      (request[r].queue \in queues <=> request[r].queue \in readPerm[request[r].user])

(* A password that is handed out, by a register that created the user or   *)
(* by a reset, is the one the broker accepts when it is handed out.        *)
KeyHandedOutWorks ==
  [][\A r \in Request :
       promise[r] = "pending" /\ promise'[r] = "ok" /\ r \in keyed' =>
         password'[request[r].user] = r]_vars

(* When nothing is under way, every user of the broker has a permission in *)
(* the vhost, without which no subscription of theirs can be granted.      *)
UsersPermitted ==
  calls = {} => \A u \in User : password[u] # None => u \in permitted

(* As long as no call went wrong, when nothing is under way the password   *)
(* saved for a user is the one the broker accepts.                         *)
SavedKeyCurrent ==
  calls = {} /\ faults = 0 =>
    \A u \in User : saved[u] # None => saved[u] = password[u]

(* Every request that arrives is answered.                                 *)
Answered ==
  \A r \in Request : promise[r] = "pending" ~> promise[r] # "pending"
-----------------------------------------------------------------------------
(* What the callers of the service see: BrokerService.  A pending request  *)
(* is as far as its calls tell.                                            *)

CallsOf(r) == {c \in calls : c.req = r}

(* The answer to the request of c will be that it failed; once a queue was *)
(* rolled back, nothing else can be said of it.                            *)
Refused(c) == c.status \notin {"sent", "ok", "unexpected"}

Failing(c) ==
  \/ c.kind \in {"createQueue", "listQueue"} /\ Refused(c)
  \/ c.kind = "listQueue" /\ c.status = "ok" /\ Blank \in request[c.req].entities
  \/ c.kind = "bind" /\ c.status \in {"notFound", "failed"} /\ request[c.req].op = "append"
  \/ c.kind = "deleteQueue" /\ request[c.req].op = "delete" /\ Refused(c)
  \/ c.kind \in {"bind", "deleteQueue"} /\ Subscribes(c.req) /\ QueueOf(c) \notin queues

Done(c) ==
  \/ c.kind \in {"bind", "getPermissions", "putPermissions"}
  \/ c.kind \in {"createQueue", "listQueue", "deleteQueue"} /\ c.status \in {"ok", "unexpected"}
  \/ c.kind = "deleteQueue" /\ Subscribes(c.req)

ProgressOf(r) ==
  CASE promise[r] # "pending" -> promise[r]
    [] promise[r] = "pending" /\ CallsOf(r) = {} -> "hung"
    [] OTHER -> IF \E c \in CallsOf(r) : Failing(c) THEN "failing"
                ELSE IF \E c \in CallsOf(r) : Done(c) THEN "done" ELSE "asked"

Subscription == {r \in Request : request[r].op # "reset"}

Contract == INSTANCE BrokerService
  WITH Job <- Subscription,
       job <- [r \in Subscription |-> request[r]],
       work <- [r \in Subscription |-> ProgressOf(r)],
       Breaks <- MaxFaults > 0

(* Seen from its callers, the service is BrokerService: a queue appears    *)
(* only for a register that does not find it, goes only for a job that may *)
(* take it down, and an answer says what became of the queue.              *)
Implements == Contract!JobSpec
=============================================================================
