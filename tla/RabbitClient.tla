---------------------------- MODULE RabbitClient ----------------------------
(***************************************************************************)
(* What databroker/RabbitClient.java talks to: the management API of       *)
(* RabbitMQ (users, permissions, queues, bindings) and the table           *)
(* subscription_users of Postgres, with the calls that are under way.      *)
(*                                                                         *)
(* A call is sent by a handler, is performed by the broker or database in  *)
(* a step of its own, and waits with its status until the callback that    *)
(* was registered for it runs.  Calls of one request and calls of          *)
(* different requests are performed, and called back, in any order.        *)
(*                                                                         *)
(* A password is the request that generated it.                            *)
(*                                                                         *)
(* A read permission, "q1|q2|...", is the set of queue names it grants.    *)
(*                                                                         *)
(* Operators whose name starts with Bug are mistakes, one per property:    *)
(* each takes the place of the definition after it in a mutant run.        *)
(***************************************************************************)
EXTENDS Naturals, FiniteSets

CONSTANTS
  User,        \* ids of the users who subscribe
  Queue,       \* queue names, "userid/alias"
  Entity,      \* entities (routing keys) named in requests
  Exchange,    \* the entities whose exchange exists in the broker
  Blank,       \* the empty routing key, refused by the service
  None,        \* no entity, no request
  Request,     \* the requests the data broker service receives
  request,     \* what each of them asks for
  FaultKinds,  \* the ways a call may go wrong
  MaxFaults    \* bound on the number of calls that go wrong

Operation == {"register", "append", "delete", "reset"}

ASSUME RequestAssumption ==
  /\ Exchange \subseteq Entity
  /\ Blank \in Entity \ Exchange
  /\ None \notin Entity \cup Request
  /\ request \in [Request -> [op : Operation, user : User, queue : Queue,
                              entities : SUBSET Entity]]
  /\ \A r \in Request : IsFiniteSet(request[r].entities)

ASSUME FaultAssumption ==
  /\ FaultKinds \subseteq {"requestLost", "replyLost", "unexpected"}
  /\ MaxFaults \in Nat

VARIABLES
  password,    \* of each user, None when RabbitMQ does not know the user
  permitted,   \* users that have a permission in the vhost
  saved,       \* the row of each user in subscription_users, None without
  queues,      \* queues that exist
  bindings,    \* <<queue, entity>>: the queue is bound for the entity
  readPerm,    \* the queues each user may read
  calls,       \* calls under way
  faults,      \* number of calls that went wrong so far
  creator,     \* auxiliary: the request whose createQueue made the queue
  granted      \* auxiliary: requests whose own queue was written into readPerm

brokerState == <<password, permitted, saved, queues, bindings, readPerm,
                 creator, granted>>
brokerVars == <<brokerState, calls, faults>>

DbKind == {"insertUser", "selectUser", "updateUser"}

Kind == DbKind \cup
        {"getUser", "putUser", "putVhost", "createQueue", "deleteQueue", "bind",
         "listQueue", "getPermissions", "putPermissions"}

(* "sent" until it is answered.  For a PUT, "ok" is 201 (made) and         *)
(* "exists" 204 (was there); "none" is a list without a permission;        *)
(* "failed" is a call without an answer or a statement that was refused,   *)
(* and "unexpected" an HTTP status the client has no branch for.           *)
Status == {"sent", "ok", "notFound", "exists", "none", "failed", "unexpected"}

Call == [req : Request, kind : Kind, key : Entity \cup {None},
         status : Status, view : SUBSET Queue]

UserOf(c) == request[c.req].user
QueueOf(c) == request[c.req].queue

NewCall(r, kind, key) ==
  [req |-> r, kind |-> kind, key |-> key, status |-> "sent",
   view |-> {}]

Rollback(r, key) == NewCall(r, "deleteQueue", key)

-----------------------------------------------------------------------------
(* What the broker answers.                                                *)

BugAnyExchange(c) == QueueOf(c) \in queues

Bindable(c) == QueueOf(c) \in queues /\ c.key \in Exchange

Found(c) ==
  \/ c.kind \in DbKind \cup {"putUser", "createQueue"}
  \/ c.kind \in {"deleteQueue", "listQueue"} /\ QueueOf(c) \in queues
  \/ c.kind = "bind" /\ Bindable(c)
  \/ c.kind \in {"getUser", "putVhost", "getPermissions", "putPermissions"}
     /\ password[UserOf(c)] # None

Verdict(c) ==
  CASE c.kind = "createQueue" /\ QueueOf(c) \in queues -> "exists"
    [] c.kind = "putUser" /\ password[UserOf(c)] # None -> "exists"
    [] c.kind = "putVhost" /\ UserOf(c) \in permitted -> "exists"
    [] c.kind = "insertUser" /\ saved[UserOf(c)] # None -> "failed"
    [] c.kind = "getPermissions" /\ Found(c) /\ UserOf(c) \notin permitted -> "none"
    [] OTHER -> IF Found(c) THEN "ok" ELSE "notFound"

(* What the broker does.                                                   *)
Execute(c) ==
  /\ password' = IF c.kind = "putUser"
                 THEN [password EXCEPT ![UserOf(c)] = c.req] ELSE password
  /\ permitted' = IF c.kind \in {"putVhost", "putPermissions"} /\ Found(c)
                  THEN permitted \cup {UserOf(c)} ELSE permitted
  /\ saved' = IF \/ c.kind = "insertUser" /\ saved[UserOf(c)] = None
                 \/ c.kind = "updateUser" /\ saved[UserOf(c)] # None
              THEN [saved EXCEPT ![UserOf(c)] = c.req] ELSE saved
  /\ queues' = CASE c.kind = "createQueue" -> queues \cup {QueueOf(c)}
                 [] c.kind = "deleteQueue" -> queues \ {QueueOf(c)}
                 [] OTHER -> queues
  /\ bindings' = CASE c.kind = "bind" /\ Bindable(c) ->
                        bindings \cup {<<QueueOf(c), c.key>>}
                   [] c.kind = "deleteQueue" ->
                        {b \in bindings : b[1] # QueueOf(c)}
                   [] OTHER -> bindings
  /\ readPerm' = IF c.kind \in {"putVhost", "putPermissions"} /\ Found(c)
                 THEN [readPerm EXCEPT ![UserOf(c)] = c.view] ELSE readPerm
  /\ creator' = IF c.kind = "createQueue" /\ QueueOf(c) \notin queues
                THEN [creator EXCEPT ![QueueOf(c)] = c.req] ELSE creator
  /\ granted' = IF c.kind = "putPermissions" /\ Found(c) /\ QueueOf(c) \in c.view
                THEN granted \cup {c.req} ELSE granted

BugAllPermissions(c, status) ==
  LET view == IF c.kind = "getPermissions" /\ status = "ok"
              THEN UNION {readPerm[u] : u \in User} ELSE c.view
  IN  calls' = (calls \ {c}) \cup {[c EXCEPT !.status = status, !.view = view]}

Answer(c, status) ==
  LET view == IF c.kind = "getPermissions" /\ status = "ok"
              THEN readPerm[UserOf(c)] ELSE c.view
  IN  calls' = (calls \ {c}) \cup {[c EXCEPT !.status = status, !.view = view]}

Serve(c) ==
  /\ c.status = "sent"
  /\ Execute(c)
  /\ Answer(c, Verdict(c))
  /\ UNCHANGED faults

(* The connection breaks before or after the call was performed, or the    *)
(* broker refuses it with a status the client does not expect.             *)
Fault(c) ==
  /\ c.status = "sent"
  /\ faults < MaxFaults
  /\ faults' = faults + 1
  /\ \/ "requestLost" \in FaultKinds /\ Answer(c, "failed") /\ UNCHANGED brokerState
     \/ "replyLost" \in FaultKinds /\ Answer(c, "failed") /\ Execute(c)
     \/ /\ "unexpected" \in FaultKinds /\ c.kind \notin DbKind
        /\ Answer(c, "unexpected") /\ UNCHANGED brokerState

BrokerInit ==
  /\ password = [u \in User |-> None] /\ saved = [u \in User |-> None]
  /\ permitted = {} /\ queues = {} /\ bindings = {}
  /\ readPerm = [u \in User |-> {}]
  /\ calls = {} /\ faults = 0
  /\ creator = [q \in Queue |-> None]
  /\ granted = {}

BrokerTypeOK ==
  /\ password \in [User -> Request \cup {None}]
  /\ saved \in [User -> Request \cup {None}]
  /\ permitted \subseteq User
  /\ queues \subseteq Queue
  /\ bindings \subseteq Queue \X Exchange
  /\ readPerm \in [User -> SUBSET Queue]
  /\ calls \subseteq Call
  /\ faults \in 0..MaxFaults
  /\ creator \in [Queue -> Request \cup {None}]
  /\ granted \subseteq Request
=============================================================================
