-------------------------- MODULE SubscriptionStore --------------------------
(***************************************************************************)
(* apiserver/subscription/SubscriptionService.java and the handlers of     *)
(* ApiServerVerticle.java that call it: the rows of the table              *)
(* subscriptions beside the queues of the data broker service.             *)
(*                                                                         *)
(* A request is a chain of calls, one at a time: a job of the broker       *)
(* service, a lookup in the catalogue cache, a statement.  The event bus   *)
(* gives up on a job that takes too long; the job goes on.                 *)
(***************************************************************************)
EXTENDS BrokerService, FiniteSets

CONSTANTS
  Request,     \* the requests of the clients
  request,     \* what each of them asks for
  Queue,       \* queue names
  Entity,      \* the first entity of a request
  Group,       \* the entities that are resource groups
  None,        \* no row
  FaultKinds,  \* what may go wrong
  MaxFaults,   \* bound on the number of things that go wrong
  MaxInFlight  \* bound on the requests that are worked on together

Main(r) == <<r, "main">>
Compensation(r) == <<r, "undo">>

JobOf(r) ==
  CASE request[r].op = "create" -> "register"
    [] request[r].op = "append" -> "append"
    [] OTHER -> "delete"

ASSUME StoreAssumption ==
  /\ request \in [Request -> [op : {"create", "append", "update", "delete"},
                              queue : Queue, entity : Entity]]
  /\ Group \subseteq Entity /\ None \notin Request
  /\ FaultKinds \subseteq {"refused", "replyLost", "timeout", "miss", "broker"}
  /\ MaxFaults \in Nat /\ MaxInFlight \in Nat

ASSUME StoreJobs ==
  /\ Breaks \in BOOLEAN
  /\ Job = Request \X {"main", "undo"}
  /\ job = [j \in Job |-> [op |-> IF j[2] = "main" THEN JobOf(j[1]) ELSE "delete",
                           queue |-> request[j[1]].queue]]

VARIABLES
  row,     \* the rows: the request that last wrote the expiry, or None
  stage,   \* what each request waits for, or how it ended
  reply,   \* the statement of each request
  faults,  \* what went wrong, for which request, at which stage
  met      \* auxiliary: queues of which requests overlapped

storeVars == <<row, stage, reply, faults, met>>
vars == <<jobVars, storeVars>>

Waiting == {"lookup", "job", "insert", "undo", "undoRow", "select", "update", "deleteRow"}

(* "stuck": an exception in a callback, or a failure without a branch, has *)
(* ended the chain, and the request is never answered.                     *)
Stage == {"new", "ok", "fail", "stuck"} \cup Waiting

Statement == {"insert", "undoRow", "select", "update", "deleteRow", "lookup"}

InFlight == {r \in Request : stage[r] \in Waiting}

Key(r) == <<request[r].queue, request[r].entity>>
RowsOf(q) == {k \in Queue \X Entity : k[1] = q /\ row[k] # None}

-----------------------------------------------------------------------------
(* Moves of a chain.                                                       *)

To(r, there) == stage' = [stage EXCEPT ![r] = there]
Send(r) == reply' = [reply EXCEPT ![r] = "sent"]

Execute(r, there) == To(r, there) /\ Send(r) /\ UNCHANGED <<jobVars, row>>
CallBroker(r, j, there) == To(r, there) /\ Ask(j) /\ UNCHANGED <<row, reply>>
End(r, outcome) == To(r, outcome) /\ UNCHANGED <<jobVars, row, reply>>

Sound == UNCHANGED faults

Break(kind, r) ==
  /\ kind \in FaultKinds
  /\ Cardinality(faults) < MaxFaults
  /\ faults' = faults \cup {<<kind, r, stage[r]>>}

-----------------------------------------------------------------------------
(* A request arrives.  A delete looks for a row of its queue first.        *)

Rivals(r) == {o \in InFlight \ {r} : request[o].queue = request[r].queue}

Arrive(r, ops) ==
  /\ stage[r] = "new" /\ request[r].op \in ops
  /\ Cardinality(InFlight) < MaxInFlight
  /\ met' = IF Rivals(r) = {} THEN met ELSE met \cup {request[r].queue}

createOrAppendSubscription(r) ==
  /\ Arrive(r, {"create", "append"})
  /\ CallBroker(r, Main(r), "job") /\ Sound

(* The item is not in the catalogue: only create has a branch for it.      *)
ItemUnknown(r) ==
  /\ Arrive(r, {"create", "append"}) /\ Break("miss", r)
  /\ End(r, IF request[r].op = "create" THEN "fail" ELSE "stuck")

updateSubscription(r) ==
  Arrive(r, {"update"}) /\ Execute(r, "select") /\ Sound

deleteSubscription(r) ==
  Arrive(r, {"delete"}) /\ Execute(r, "lookup") /\ Sound

-----------------------------------------------------------------------------
(* The table.                                                              *)

(* The primary key is the queue and the entity.                            *)
Inserts(r) == stage[r] = "insert" /\ row[Key(r)] = None

Deletes(r) == stage[r] \in {"undoRow", "deleteRow"}

BugOneRow(r) ==
  row' = [k \in Queue \X Entity |->
            CASE k = Key(r) /\ Inserts(r) -> r
              [] k = Key(r) /\ stage[r] = "update" /\ row[k] # None -> r
              [] k = Key(r) /\ Deletes(r) -> None
              [] OTHER -> row[k]]

Write(r) ==
  row' = [k \in Queue \X Entity |->
            CASE k = Key(r) /\ Inserts(r) -> r
              [] k = Key(r) /\ stage[r] = "update" /\ row[k] # None -> r
              [] k[1] = request[r].queue /\ Deletes(r) -> None
              [] OTHER -> row[k]]

(* An append that meets its row does nothing, and succeeds.                *)
Verdict(r) ==
  CASE stage[r] = "insert" /\ ~Inserts(r) /\ request[r].op = "create" -> "refused"
    [] stage[r] = "lookup" /\ RowsOf(request[r].queue) = {} -> "empty"
    [] stage[r] = "select" /\ row[Key(r)] = None -> "empty"
    [] OTHER -> "ok"

Answer(r, status) ==
  /\ reply[r] = "sent"
  /\ reply' = [reply EXCEPT ![r] = status]
  /\ UNCHANGED <<jobVars, stage>>

executeQuery(r) == Answer(r, Verdict(r)) /\ Write(r) /\ Sound

(* The database refuses the statement, or performs it and the connection   *)
(* breaks.                                                                 *)
QueryFails(r) ==
  /\ Answer(r, "refused")
  /\ \/ Break("refused", r) /\ UNCHANGED row
     \/ Break("replyLost", r) /\ Write(r)

-----------------------------------------------------------------------------
(* Callbacks of the broker service.                                        *)

Told(r, j, outcome) ==
  /\ stage[r] = (IF j = Main(r) THEN "job" ELSE "undo")
  /\ work[j] = outcome

(* A resource group has no resourceGroup of its own, and replacing a       *)
(* parameter of the statement by null throws.                              *)
OnBrokerDone(r) ==
  /\ Told(r, Main(r), "ok")
  /\ CASE request[r].op = "delete" -> Execute(r, "deleteRow") /\ Sound
       [] request[r].op # "delete" /\ request[r].entity \in Group ->
            End(r, "stuck") /\ Sound
       [] OTHER -> \/ Execute(r, "insert") /\ Sound
                   \/ Break("miss", r) /\ End(r, "stuck")

(* The failure of an append that lost its permission names no status, and  *)
(* reading it throws.                                                      *)
OnBrokerFailed(r) ==
  /\ Told(r, Main(r), "fail") /\ Sound
  /\ \/ End(r, "fail")
     \/ /\ request[r].op = "append" /\ <<"broker", r, "job">> \in faults
        /\ End(r, "stuck")

BugQueryTimesOut(r) ==
  /\ stage[r] \in Waiting /\ Break("timeout", r)
  /\ End(r, "stuck")

(* The message of a timeout is no JSON, and parsing it throws.             *)
BrokerTimesOut(r) ==
  /\ stage[r] \in {"job", "undo"} /\ Break("timeout", r)
  /\ End(r, "stuck")

BugKeepQueue(r) ==
  /\ stage[r] = "insert" /\ reply[r] \in {"ok", "refused"} /\ Sound
  /\ End(r, IF reply[r] = "ok" THEN "ok" ELSE "fail")

(* The row was refused: the subscription is deleted, whatever the request  *)
(* was, as a delete would do it.                                           *)
OnInserted(r) ==
  /\ stage[r] = "insert" /\ Sound
  /\ \/ reply[r] = "ok" /\ End(r, "ok")
     \/ reply[r] = "refused" /\ CallBroker(r, Compensation(r), "undo")

OnCompensated(r) ==
  /\ \/ Told(r, Compensation(r), "ok") /\ Execute(r, "undoRow")
     \/ Told(r, Compensation(r), "fail") /\ End(r, "fail")
  /\ Sound

-----------------------------------------------------------------------------
(* Callbacks of statements.                                                *)

OnRowUndone(r) ==
  stage[r] = "undoRow" /\ reply[r] \in {"ok", "refused"} /\ End(r, "fail") /\ Sound

OnRowDeleted(r) ==
  /\ stage[r] = "deleteRow" /\ reply[r] \in {"ok", "refused"} /\ Sound
  /\ End(r, IF reply[r] = "ok" THEN "ok" ELSE "fail")

BugEmptyIgnored(r) ==
  /\ stage[r] = "lookup" /\ Sound
  /\ \/ reply[r] = "ok" /\ CallBroker(r, Main(r), "job")
     \/ reply[r] = "refused" /\ End(r, "stuck")

(* A lookup that fails has no result to ask whether it is empty.           *)
OnLookedUp(r) ==
  /\ stage[r] = "lookup" /\ Sound
  /\ \/ reply[r] = "ok" /\ CallBroker(r, Main(r), "job")
     \/ reply[r] = "empty" /\ End(r, "fail")
     \/ reply[r] = "refused" /\ End(r, "stuck")

BugUpdateMissing(r) ==
  /\ stage[r] = "select" /\ Sound
  /\ reply[r] # "sent" /\ Execute(r, "update")

OnSelected(r) ==
  /\ stage[r] = "select" /\ Sound
  /\ \/ reply[r] = "ok" /\ Execute(r, "update")
     \/ reply[r] \in {"empty", "refused"} /\ End(r, "fail")

OnUpdated(r) ==
  /\ stage[r] = "update" /\ reply[r] \in {"ok", "refused"} /\ Sound
  /\ End(r, IF reply[r] = "ok" THEN "ok" ELSE "fail")

-----------------------------------------------------------------------------
Init ==
  /\ JobInit
  /\ row = [k \in Queue \X Entity |-> None]
  /\ stage = [r \in Request |-> "new"]
  /\ reply = [r \in Request |-> "none"]
  /\ faults = {} /\ met = {}

Client(r) ==
  \/ createOrAppendSubscription(r)
  \/ ItemUnknown(r)
  \/ updateSubscription(r)
  \/ deleteSubscription(r)

Callback(r) ==
  \/ OnBrokerDone(r)
  \/ OnBrokerFailed(r)
  \/ OnInserted(r)
  \/ OnCompensated(r)
  \/ OnRowUndone(r)
  \/ OnRowDeleted(r)
  \/ OnLookedUp(r)
  \/ OnSelected(r)
  \/ OnUpdated(r)

BrokerStep == \E j \in Busy : JobStep(j) /\ UNCHANGED storeVars

BrokerFault ==
  \E j \in Busy : Break("broker", j[1]) /\ Lose(j) /\ UNCHANGED <<row, stage, reply, met>>

Work ==
  BrokerStep \/ \E r \in Request : (executeQuery(r) \/ Callback(r)) /\ UNCHANGED met

Next ==
  \/ Work
  \/ BrokerFault
  \/ \E r \in Request :
       \/ Client(r)
       \/ (QueryFails(r) \/ BrokerTimesOut(r)) /\ UNCHANGED met

Spec == Init /\ [][Next]_vars

(* The broker service and the database answer, and callbacks run.  No      *)
(* fairness on clients and faults.                                         *)
FairSpec == Spec /\ WF_vars(Work)
-----------------------------------------------------------------------------
(* Properties.                                                             *)

TypeOK ==
  /\ JobTypeOK
  /\ row \in [Queue \X Entity -> Request \cup {None}]
  /\ stage \in [Request -> Stage]
  /\ reply \in [Request -> {"none", "sent", "ok", "empty", "refused"}]
  /\ faults \subseteq FaultKinds \X Request \X Stage
  /\ met \subseteq Queue
  /\ \A r \in Request : reply[r] = "sent" => stage[r] \in Statement

Asking(q) == {r \in Request : request[r].queue = q}

Idle(q) ==
  \A r \in Asking(q) : /\ stage[r] \notin Waiting
                      /\ {Main(r), Compensation(r)} \cap Busy = {}

Broke(kinds, q) == \E f \in faults : f[1] \in kinds /\ request[f[2]].queue = q

(* When nothing is under way for a queue of which no requests overlapped,  *)
(* it has a row, without which no client can find or delete it; unless a   *)
(* create of it was never answered or the broker service lost a call.  In  *)
(* particular a refused statement never leaves a queue without a row: the  *)
(* compensation of createSubscription works.                               *)
QueueHasRow ==
  \A q \in queues \ met :
    Idle(q) => \/ RowsOf(q) # {}
               \/ Broke({"broker"}, q)
               \/ \E r \in Asking(q) : request[r].op = "create" /\ stage[r] = "stuck"

(* When nothing is under way for a queue, of which no requests overlapped  *)
(* and for which nothing went wrong, a row is never left without its       *)
(* queue: delete and the compensation of appendSubscription take both.     *)
RowHasQueue ==
  \A q \in Queue \ (queues \cup met) :
    Idle(q) => RowsOf(q) = {} \/ Broke(FaultKinds, q)

Undisturbed(r) ==
  /\ request[r].queue \notin met
  /\ \A o \in Asking(request[r].queue) \ {r} : stage[o] # "stuck"

(* What a success says is so when it is said: a create or an update has    *)
(* its expiry in the row and a create or append has queue and row; after a *)
(* delete there is neither.                                                *)
SuccessMeansStored ==
  [][\A r \in Request :
       stage[r] # "ok" /\ stage'[r] = "ok" /\ Undisturbed(r) =>
         LET q == request[r].queue
         IN  CASE request[r].op = "create" -> q \in queues' /\ row'[Key(r)] = r
               [] request[r].op = "append" -> q \in queues' /\ row'[Key(r)] # None
               [] request[r].op = "update" -> row'[Key(r)] = r
               [] OTHER -> q \notin queues' /\ RowsOf(q)' = {}]_vars

Unanswered == {r \in Request : stage[r] \in Waiting \cup {"stuck"}}

(* Every request that arrives is answered, unless something went wrong for *)
(* it or its entity is a resource group: again and again no other is left. *)
Answered ==
  []<>(\A r \in Unanswered : \/ request[r].entity \in Group
                            \/ \E f \in faults : f[2] = r)
=============================================================================
