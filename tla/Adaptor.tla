------------------------------- MODULE Adaptor -------------------------------
(***************************************************************************)
(* Adaptors: registerAdapter and deleteAdapter of                          *)
(* apiserver/management/ManagementApiImpl.java, which keep a row for each  *)
(* adaptor in the table adaptors_details, and of                           *)
(* databroker/RabbitClient.java, which keep its exchange, its bindings and *)
(* the write permission of its user.                                       *)
(*                                                                         *)
(* A request has one call to RabbitMQ or one statement under way at a      *)
(* time.  A callback touches only its own chain, so a call and its         *)
(* callback are one step.  The chain in the data broker service outlives   *)
(* the reply to the API server: it goes on when the event bus has given    *)
(* up, and to take back what no caller waits for.                          *)
(***************************************************************************)
EXTENDS Naturals, FiniteSets

CONSTANTS
  Request,     \* requests of the clients
  request,     \* what each of them asks for
  Id,          \* ids of adaptors, which name the exchange
  User,        \* users
  Settled,     \* users with a permission for the vhost from the start on
  Bindings,    \* number of bindings of an exchange: six in the code
  None,        \* no request
  FaultKinds,  \* what may go wrong
  MaxFaults,   \* bound on the number of things that go wrong
  MaxInFlight  \* bound on the requests that are worked on together

ASSUME AdaptorAssumption ==
  /\ request \in [Request -> [op : {"register", "delete"}, id : Id, user : User]]
  /\ Settled \subseteq User
  /\ Bindings \in Nat \ {0} /\ None \notin Request
  /\ FaultKinds \subseteq
       {"requestLost", "replyLost", "unexpected", "refused", "timeout"}
  /\ MaxFaults \in Nat /\ MaxInFlight \in Nat

VARIABLES
  row,       \* the request that made the row of an id, or None
  exchange,  \* the request that made the exchange of an id, or None
  bound,     \* the bindings of the exchange of an id
  write,     \* the exchanges each user may write to
  users,     \* users RabbitMQ knows
  permitted, \* users with a permission for the vhost
  call,      \* the call to RabbitMQ each request has under way
  answer,    \* what the data broker service has told the API server
  stage,     \* what each request waits for, or how it ended
  faults,    \* what went wrong, for which request, at which call
  met        \* auxiliary: requests that overlapped one of their id or user

broker == <<exchange, bound, write, users, permitted>>
vars == <<broker, row, call, answer, stage, faults, met>>

(* Calls that make the user: "insertUser" is a statement.                  *)
UserKind == {"getUser", "putUser", "putVhost", "insertUser"}

CallKind == UserKind \cup {"none", "createExchange", "getPermissions",
              "putPermissions", "bind", "getExchange", "deleteExchange"}

Waiting == {"row", "broker", "undoRow", "deleteRow"}

(* "stuck": an exception in a callback, or a failure without a branch, has *)
(* ended the chain, and the request is never answered.                     *)
Stage == Waiting \cup {"new", "ok", "fail", "stuck"}

IdOf(r) == request[r].id
UserOf(r) == request[r].user
Kind(r) == call[r].kind
Registers(r) == request[r].op = "register"

NoCall == [kind |-> "none", n |-> 0, view |-> {}]

Working(r) == stage[r] \in Waiting \/ call[r] # NoCall
InFlight == {r \in Request : Working(r)}

Rivals(r) ==
  {o \in InFlight \ {r} : IdOf(o) = IdOf(r) \/ UserOf(o) = UserOf(r)}

-----------------------------------------------------------------------------
(* What RabbitMQ does with the call of a request.                          *)

(* A binding of an exchange that is not there is answered 404, which the   *)
(* client takes for a success.  A new user has no permission at all, and   *)
(* the first for the vhost allows no exchange.                             *)
Execute(r) ==
  LET id == IdOf(r)
      u == UserOf(r)
  IN  /\ exchange' =
           CASE Kind(r) = "createExchange" /\ exchange[id] = None ->
                  [exchange EXCEPT ![id] = r]
             [] Kind(r) = "deleteExchange" -> [exchange EXCEPT ![id] = None]
             [] OTHER -> exchange
      /\ bound' =
           CASE Kind(r) = "bind" /\ exchange[id] # None ->
                  [bound EXCEPT ![id] = @ \cup {call[r].n}]
             [] Kind(r) = "deleteExchange" -> [bound EXCEPT ![id] = {}]
             [] OTHER -> bound
      /\ write' =
           CASE Kind(r) = "putPermissions" -> [write EXCEPT ![u] = call[r].view]
             [] Kind(r) = "putVhost" -> [write EXCEPT ![u] = {}]
             [] OTHER -> write
      /\ users' = IF Kind(r) = "putUser" THEN users \cup {u} ELSE users
      /\ permitted' = IF Kind(r) \in {"putVhost", "putPermissions"}
                      THEN permitted \cup {u} ELSE permitted

(* 204 to a creation: it was there; 404 to a look-up: it was not.          *)
Refused(r) ==
  \/ Kind(r) = "createExchange" /\ exchange[IdOf(r)] # None
  \/ Kind(r) = "getExchange" /\ exchange[IdOf(r)] = None
  \/ Kind(r) = "putUser" /\ UserOf(r) \in users
  \/ Kind(r) = "putVhost" /\ UserOf(r) \in permitted
  \/ Kind(r) = "getPermissions" /\ UserOf(r) \notin users

(* The list of permissions is empty.                                       *)
Unpermitted(r) == Kind(r) = "getPermissions" /\ UserOf(r) \in users \ permitted

(* A reset of a password, which goes on even when the user has no row      *)
(* (getUserInDb), makes the user when RabbitMQ knows none.                 *)
resetPassword(u) ==
  /\ users' = users \cup {u}
  /\ UNCHANGED <<exchange, bound, write, permitted, row, call, answer, stage, faults, met>>

-----------------------------------------------------------------------------
(* The chain in the data broker service.                                   *)

CallNext(r, kind) == call' = [call EXCEPT ![r] = [NoCall EXCEPT !.kind = kind]]
Bind(r, n) == call' = [call EXCEPT ![r] = [kind |-> "bind", n |-> n, view |-> {}]]
Quit(r) == call' = [call EXCEPT ![r] = NoCall]
Tell(r, outcome) == answer' = [answer EXCEPT ![r] = outcome]

BugGrantNothing(r) == write[UserOf(r)] \ (IF Registers(r) THEN {} ELSE {IdOf(r)})

BugRevokeNothing(r) == write[UserOf(r)] \cup (IF Registers(r) THEN {IdOf(r)} ELSE {})

getUpdatedPermission(r) ==
  IF Registers(r) THEN write[UserOf(r)] \cup {IdOf(r)}
                  ELSE write[UserOf(r)] \ {IdOf(r)}

BugFirstBindingEnough(r) == Quit(r) /\ Tell(r, "ok")

BugOneBindingMore(r) ==
  IF call[r].n <= Bindings THEN Bind(r, call[r].n + 1) /\ UNCHANGED answer
                           ELSE Quit(r) /\ Tell(r, "ok")

OnBound(r) ==
  IF call[r].n < Bindings THEN Bind(r, call[r].n + 1) /\ UNCHANGED answer
                          ELSE Quit(r) /\ Tell(r, "ok")

(* A user that RabbitMQ knows is taken as it is, with or without its       *)
(* permission for the vhost; another is made, permitted and stored.        *)
createUserIfNotExist(r) ==
  CallNext(r, CASE Kind(r) = "getUser" /\ UserOf(r) \notin users -> "putUser"
                [] Kind(r) = "getUser" /\ UserOf(r) \in users -> "createExchange"
                [] Kind(r) = "putUser" -> "putVhost"
                [] Kind(r) = "putVhost" -> "insertUser"
                [] Kind(r) = "insertUser" -> "createExchange")

(* The call was answered as hoped for, or with a status that the client    *)
(* takes for it.  A delete answers before it revokes the permission.       *)
Continue(r) ==
  CASE Kind(r) \in UserKind -> createUserIfNotExist(r) /\ UNCHANGED answer
    [] Kind(r) = "createExchange" -> CallNext(r, "getPermissions") /\ UNCHANGED answer
    [] Kind(r) = "getPermissions" ->
         /\ call' = [call EXCEPT ![r] = [kind |-> "putPermissions", n |-> 0,
                                        view |-> getUpdatedPermission(r)]]
         /\ UNCHANGED answer
    [] Kind(r) = "putPermissions" ->
         /\ IF Registers(r) THEN Bind(r, 1) ELSE Quit(r)
         /\ UNCHANGED answer
    [] Kind(r) = "bind" -> OnBound(r)
    [] Kind(r) = "getExchange" -> CallNext(r, "deleteExchange") /\ UNCHANGED answer
    [] Kind(r) = "deleteExchange" ->
         IF Registers(r) THEN Quit(r) /\ UNCHANGED answer
                         ELSE CallNext(r, "getPermissions") /\ Tell(r, "ok")

BugNoCompensation(r) == Quit(r) /\ Tell(r, "fail")

(* A register that has made its exchange deletes it, without waiting for   *)
(* it.  What follows the answer fails in silence.                          *)
Fail(r) ==
  CASE Registers(r) /\ Kind(r) \in {"getPermissions", "putPermissions", "bind"} ->
         CallNext(r, "deleteExchange") /\ Tell(r, "fail")
    [] answer[r] # "none" -> Quit(r) /\ UNCHANGED answer
    [] OTHER -> Quit(r) /\ Tell(r, "fail")

(* A callback throws, or no branch of it completes the promise: nothing is *)
(* undone or answered.                                                     *)
Hang(r) == Quit(r) /\ UNCHANGED answer

(* queueBinding asks the exception of a failed binding for its cause, and  *)
(* often it has none.                                                      *)
BindThrows(r) == Kind(r) = "bind" /\ Hang(r)

Sound == UNCHANGED faults

Break(kind, r, where) ==
  /\ kind \in FaultKinds
  /\ Cardinality(faults) < MaxFaults
  /\ faults' = faults \cup {<<kind, r, where>>}

requestAsync(r) ==
  /\ Kind(r) # "none" /\ Sound /\ UNCHANGED <<row, stage, met>>
  /\ CASE Refused(r) -> Fail(r)
       [] Unpermitted(r) -> Hang(r)
       [] OTHER -> Continue(r)
  /\ Execute(r)

(* The connection breaks before or after the call, or RabbitMQ refuses it  *)
(* with a status the client does not expect: of the creation, the binding  *)
(* and the deletion it looks only for others, and to the look-up of a user *)
(* it then does nothing at all.                                            *)
CallFails(r) ==
  /\ Kind(r) # "none" /\ UNCHANGED <<row, stage, met>>
  /\ \/ /\ Break("requestLost", r, Kind(r)) /\ UNCHANGED broker
        /\ Fail(r) \/ BindThrows(r)
     \/ /\ Break("replyLost", r, Kind(r)) /\ Execute(r)
        /\ Fail(r) \/ BindThrows(r)
     \/ /\ Break("unexpected", r, Kind(r)) /\ UNCHANGED broker
        /\ CASE Kind(r) \in {"createExchange", "bind", "deleteExchange"} -> Continue(r)
             [] Kind(r) = "getUser" -> Hang(r)
             [] OTHER -> Fail(r)

-----------------------------------------------------------------------------
(* The API server.                                                         *)

To(r, there) == stage' = [stage EXCEPT ![r] = there]

Ask(r, kind) ==
  /\ To(r, "broker")
  /\ CallNext(r, kind)

Arrive(r, op) ==
  /\ stage[r] = "new" /\ request[r].op = op
  /\ Cardinality(InFlight) < MaxInFlight
  /\ met' = IF Rivals(r) = {} THEN met ELSE met \cup {r} \cup Rivals(r)
  /\ UNCHANGED <<row, broker, answer>> /\ Sound

(* The catalogue cache knows the item, or the request ends there.          *)
registerAdapter(r) ==
  /\ Arrive(r, "register") /\ UNCHANGED call
  /\ To(r, "row") \/ To(r, "fail")

deleteAdapter(r) == Arrive(r, "delete") /\ Ask(r, "getExchange")

(* The statement of a request: the name of the exchange is unique.         *)
Statement(r) ==
  LET id == IdOf(r)
  IN  CASE stage[r] = "row" -> row' = IF row[id] = None THEN [row EXCEPT ![id] = r] ELSE row
        [] stage[r] \in {"undoRow", "deleteRow"} -> row' = [row EXCEPT ![id] = None]

OnStatement(r) ==
  /\ stage[r] \in {"row", "undoRow", "deleteRow"}
  /\ Statement(r) /\ Sound
  /\ CASE stage[r] = "row" /\ row[IdOf(r)] = None -> Ask(r, "getUser")
       [] stage[r] = "row" /\ row[IdOf(r)] # None -> To(r, "fail") /\ UNCHANGED call
       [] stage[r] = "undoRow" -> To(r, "fail") /\ UNCHANGED call
       [] stage[r] = "deleteRow" -> To(r, "ok") /\ UNCHANGED call
  /\ UNCHANGED <<broker, answer, met>>

(* A row that cannot be taken back leaves the request without an answer.   *)
QueryFails(r) ==
  /\ stage[r] \in {"row", "undoRow", "deleteRow"}
  /\ \/ Break("refused", r, stage[r]) /\ UNCHANGED row
     \/ Break("replyLost", r, stage[r]) /\ Statement(r)
  /\ To(r, IF stage[r] = "undoRow" THEN "stuck" ELSE "fail")
  /\ UNCHANGED <<broker, call, answer, met>>

BugFailureIgnored(r) ==
  /\ stage[r] = "broker" /\ Sound /\ UNCHANGED <<broker, row, call, answer, met>>
  /\ \/ answer[r] = "ok" /\ To(r, IF Registers(r) THEN "ok" ELSE "deleteRow")
     \/ answer[r] = "fail" /\ ~Registers(r) /\ To(r, "fail")

BugRowKept(r) ==
  /\ stage[r] = "broker" /\ Sound /\ UNCHANGED <<broker, row, call, answer, met>>
  /\ \/ answer[r] = "ok" /\ To(r, "ok")
     \/ answer[r] = "fail" /\ To(r, IF Registers(r) THEN "undoRow" ELSE "fail")

OnBroker(r) ==
  /\ stage[r] = "broker" /\ Sound /\ UNCHANGED <<broker, row, call, answer, met>>
  /\ \/ answer[r] = "ok" /\ To(r, IF Registers(r) THEN "ok" ELSE "deleteRow")
     \/ answer[r] = "fail" /\ To(r, IF Registers(r) THEN "undoRow" ELSE "fail")

(* The event bus gives up, in the end, on a service that never answers and *)
(* sometimes on one that is slow.  The failure of a delete is parsed as    *)
(* JSON, which the message of the time-out is not.                         *)
BrokerTimesOut(r) ==
  /\ stage[r] = "broker" /\ answer[r] = "none"
  /\ \/ call[r] = NoCall /\ Sound
     \/ call[r] # NoCall /\ Break("timeout", r, Kind(r))
  /\ To(r, IF Registers(r) THEN "undoRow" ELSE "stuck")
  /\ UNCHANGED <<broker, row, call, answer, met>>

-----------------------------------------------------------------------------
(* Before, the server may have made a user without giving the permission   *)
(* for the vhost, or a reset may have made it.                             *)
Init ==
  /\ users \in SUBSET User /\ permitted \in SUBSET users /\ Settled \subseteq permitted
  /\ row = [id \in Id |-> None] /\ exchange = [id \in Id |-> None]
  /\ bound = [id \in Id |-> {}] /\ write = [u \in User |-> {}]
  /\ call = [r \in Request |-> NoCall]
  /\ answer = [r \in Request |-> "none"]
  /\ stage = [r \in Request |-> "new"]
  /\ faults = {} /\ met = {}

Client(r) == registerAdapter(r) \/ deleteAdapter(r)

GivenUp(r) == call[r] = NoCall /\ BrokerTimesOut(r)

Work(r) == requestAsync(r) \/ OnStatement(r) \/ OnBroker(r) \/ GivenUp(r)

Next ==
  \/ \E r \in Request : \/ Client(r) \/ Work(r)
                        \/ CallFails(r) \/ QueryFails(r) \/ BrokerTimesOut(r)
  \/ \E u \in User : resetPassword(u)

Spec == Init /\ [][Next]_vars

(* RabbitMQ and the database answer, callbacks run and the event bus gives *)
(* up in the end.  No fairness on clients and faults.                      *)
FairSpec == Spec /\ \A r \in Request : WF_vars(Work(r))
-----------------------------------------------------------------------------
(* Properties.                                                             *)

TypeOK ==
  /\ row \in [Id -> Request \cup {None}]
  /\ exchange \in [Id -> Request \cup {None}]
  /\ bound \in [Id -> SUBSET (1..Bindings)]
  /\ write \in [User -> SUBSET Id]
  /\ users \subseteq User /\ permitted \subseteq User
  /\ call \in [Request -> [kind : CallKind, n : 0..Bindings, view : SUBSET Id]]
  /\ answer \in [Request -> {"none", "ok", "fail"}]
  /\ stage \in [Request -> Stage]
  /\ faults \subseteq FaultKinds \X Request \X (CallKind \cup Waiting)
  /\ met \subseteq Request

Of(id) == {r \in Request : IdOf(r) = id}
Idle(id) == \A r \in Of(id) : ~Working(r)
Unbroken(id) == \A f \in faults : IdOf(f[2]) # id

(* A row is never left without its exchange, however registers and deletes *)
(* of one id overlap, as long as nothing goes wrong: a delete takes the    *)
(* row after the exchange, a register makes them in the other order.       *)
RowHasExchange ==
  \A id \in Id : row[id] # None /\ Idle(id) /\ Unbroken(id) => exchange[id] # None

(* A register whose call was lost takes its exchange down again, unless    *)
(* the call was a binding or the one that takes it down.                   *)
Spoils(f) ==
  \/ f[1] # "requestLost"
  \/ Registers(f[2]) /\ f[3] \in {"bind", "deleteExchange"}

(* The permissions of the user of a register are an empty list when the    *)
(* user has none, or while another register is making this user.           *)
Stranded(r) ==
  \/ UserOf(r) \notin permitted
  \/ r \in met /\ \E o \in met \ {r} : Registers(o) /\ UserOf(o) = UserOf(r)

(* An exchange is never left without its row, unless its user was without  *)
(* a permission for the vhost, deletes overlapped with something, or       *)
(* something worse went wrong than a lost call that the compensation of    *)
(* createExchange and updateUserPermissions makes good.                    *)
ExchangeHasRow ==
  \A id \in Id :
    exchange[id] # None /\ row[id] = None /\ Idle(id) =>
      \/ Stranded(exchange[id])
      \/ \E r \in Of(id) \cap met : ~Registers(r)
      \/ \E f \in faults : IdOf(f[2]) = id /\ Spoils(f)

(* When a register fails because a call of it was lost, the exchange it    *)
(* made is deleted (RabbitClient.java, "Compensating call, delete adaptor  *)
(* if created"): here for a user with a permission for the vhost.          *)
FailedRegisterLeavesNoExchange ==
  \A r \in Request :
    Registers(r) /\ Idle(IdOf(r)) /\ stage[r] = "fail" /\ UserOf(r) \in permitted =>
      exchange[IdOf(r)] # r

(* Who may write to an exchange made it, unless somebody else deleted the  *)
(* adaptor of this user, for a delete revokes the permission of who        *)
(* deletes, or requests of this user overlapped.                           *)
WriterOwnsExchange ==
  \A id \in Id, u \in User :
    id \in write[u] /\ Idle(id) /\ Unbroken(id) =>
      \/ exchange[id] # None /\ UserOf(exchange[id]) = u
      \/ \E r \in Of(id) : ~Registers(r) /\ UserOf(r) # u /\ stage[r] = "ok"
      \/ \E r \in met : UserOf(r) = u

(* Who made an exchange may write to it, unless this user has no           *)
(* permission for the vhost at all, which no register gives to a user that *)
(* is known, or requests of this user overlapped: a revocation that no     *)
(* caller waits for may come late and take the permission of the next      *)
(* adaptor.                                                                *)
OwnerMayWrite ==
  \A id \in Id :
    exchange[id] # None /\ Idle(id) /\ Unbroken(id) =>
      LET u == UserOf(exchange[id])
      IN  id \in write[u] \/ u \notin permitted \/ \E r \in met : UserOf(r) = u

(* What a success says is so when it is said: a registered adaptor has its *)
(* row, its own exchange with every binding and the write permission; of a *)
(* deleted one neither row nor exchange is left.                           *)
SuccessMeansAdaptor ==
  [][\A r \in Request :
       /\ stage[r] # "ok" /\ stage'[r] = "ok" /\ r \notin met
       /\ \A f \in faults : IdOf(f[2]) = IdOf(r) => f[1] # "unexpected"
       => LET id == IdOf(r)
          IN  IF Registers(r)
              THEN /\ row'[id] = r /\ exchange'[id] = r
                   /\ bound'[id] = 1..Bindings /\ id \in write'[UserOf(r)]
              ELSE row'[id] = None /\ exchange'[id] = None]_vars

(* Every request is answered, unless something went wrong for it.          *)
Answered ==
  []<>(\A r \in Request : stage[r] \in Waiting \cup {"stuck"} =>
         \E f \in faults : f[2] = r)
=============================================================================
