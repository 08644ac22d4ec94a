---------------------------- MODULE AdaptorProofs ----------------------------
(***************************************************************************)
(* Theorems about Adaptor, for every set of requests, ids and users, any   *)
(* number of bindings, of requests at a time and of faults of every kind.  *)
(***************************************************************************)
EXTENDS Adaptor, TLAPS

Call == [kind : CallKind, n : 0..Bindings, view : SUBSET Id]

Permissions == {"getPermissions", "putPermissions"}

(* Calls of a register that has yet to make its exchange.                  *)
Making == UserKind \cup {"createExchange"}

(* Calls of a register that has made its exchange.                         *)
Created == Permissions \cup {"bind"}

-----------------------------------------------------------------------------
(* What the chain of a request looks like, whatever goes wrong.            *)

RegisterShape(r) ==
  /\ Kind(r) # "getExchange" /\ stage[r] # "deleteRow"
  /\ stage[r] \in {"new", "row"} => Kind(r) = "none" /\ answer[r] = "none"
  /\ answer[r] = "ok" => Kind(r) = "none"
  /\ answer[r] = "fail" => Kind(r) \in {"none", "deleteExchange"}
  /\ Kind(r) = "deleteExchange" => answer[r] = "fail"

DeleteShape(r) ==
  /\ Kind(r) \notin Making \cup {"bind"}
  /\ stage[r] \notin {"row", "undoRow"}
  /\ stage[r] = "new" => Kind(r) = "none" /\ answer[r] = "none"
  /\ stage[r] = "deleteRow" => answer[r] = "ok"
  /\ Kind(r) \in {"getExchange", "deleteExchange"} => answer[r] = "none"
  /\ Kind(r) \in Permissions => answer[r] = "ok"

Shape(r) ==
  /\ Kind(r) = "none" => call[r] = NoCall
  /\ Kind(r) = "bind" => call[r].n \in 1..Bindings
  /\ IF Registers(r) THEN RegisterShape(r) ELSE DeleteShape(r)

(* What it looks like when nothing that spoils it went wrong: a register   *)
(* has hung only on the empty permissions of its user.                     *)
Spared(r) == \A f \in faults : f[2] = r => ~Spoils(f)

SparedShape(r) ==
  Spared(r) =>
    /\ stage[r] = "broker" /\ answer[r] = "none" /\ Kind(r) = "none" =>
         Registers(r) /\ Stranded(r)
    /\ answer[r] = "none" /\ Kind(r) # "none" => stage[r] = "broker"
    /\ stage[r] = "undoRow" => answer[r] = "fail" \/ (answer[r] = "none" /\ Stranded(r))
    /\ Registers(r) /\ answer[r] = "ok" => stage[r] \in {"broker", "ok"}
    /\ ~Registers(r) /\ answer[r] = "ok" => stage[r] \in {"broker", "deleteRow", "ok"}

Whole(r) == \A f \in faults : f[2] # r

WholeShape(r) == Whole(r) /\ Registers(r) => Kind(r) # "deleteExchange"

(* Who made a row or an exchange registers that id.  RabbitMQ knows the    *)
(* user of an exchange.                                                    *)
Made(id) ==
  /\ row[id] # None => row[id] \in Of(id) /\ Registers(row[id])
  /\ exchange[id] # None =>
       /\ exchange[id] \in Of(id) /\ Registers(exchange[id])
       /\ UserOf(exchange[id]) \in users
       /\ stage[exchange[id]] \notin {"new", "row"} /\ Kind(exchange[id]) \notin Making

(* A request that met no other has no rivals while it is worked on.        *)
Overlap == \A r \in InFlight \ met : Rivals(r) = {}

-----------------------------------------------------------------------------
(* Users.                                                                  *)

Known(r) ==
  /\ Kind(r) \in {"putVhost", "insertUser", "createExchange"} => UserOf(r) \in users
  /\ Registers(r) /\ Kind(r) \in Created => UserOf(r) \in users
  /\ Kind(r) = "putPermissions" => UserOf(r) \in permitted

(* A register that makes a user met every other one of this user that has  *)
(* found the user before it had its permission.                            *)
Makes(r) ==
  Kind(r) = "putVhost" =>
    \A id \in Id : exchange[id] # None /\ UserOf(exchange[id]) = UserOf(r) =>
      r \in met /\ exchange[id] \in met

Writers == permitted \subseteq users /\ \A u \in User : write[u] # {} => u \in permitted

Users == Writers /\ \A r \in Request : Known(r) /\ Makes(r)

-----------------------------------------------------------------------------
(* A request that met no other.                                            *)

View(r) ==
  r \in InFlight \ met /\ Kind(r) = "putPermissions" => call[r].view = getUpdatedPermission(r)

Expected(id) == \A f \in faults : IdOf(f[2]) = id => f[1] # "unexpected"

RegisterChain(r) ==
  LET id == IdOf(r)
  IN  /\ stage[r] = "broker" => row[id] = r
      /\ Kind(r) \in Created \/ (stage[r] = "broker" /\ answer[r] = "ok") => exchange[id] = r
      /\ Kind(r) = "bind" => id \in write[UserOf(r)] /\ 1..(call[r].n - 1) \subseteq bound[id]
      /\ stage[r] = "broker" /\ answer[r] = "ok" =>
           id \in write[UserOf(r)] /\ bound[id] = 1..Bindings

DeleteChain(r) ==
  Kind(r) \in Permissions \/ (stage[r] \in {"broker", "deleteRow"} /\ answer[r] = "ok") =>
    exchange[IdOf(r)] = None

Chain(r) ==
  r \in InFlight \ met /\ Expected(IdOf(r)) =>
    IF Registers(r) THEN RegisterChain(r) ELSE DeleteChain(r)

-----------------------------------------------------------------------------
(* Rows and exchanges.                                                     *)

(* The exchange is on its way, or the row is on its way out, in the end    *)
(* because the chain has hung.                                             *)
RowMoves(r) ==
  \/ /\ Registers(r)
     /\ \/ stage[r] = "broker" /\ answer[r] = "none" /\ Kind(r) \in Making \cup {"none"}
        \/ stage[r] = "broker" /\ answer[r] = "fail"
        \/ stage[r] = "undoRow"
  \/ ~Registers(r) /\ stage[r] \in {"broker", "deleteRow"} /\ answer[r] = "ok"

RowKept(id) ==
  Unbroken(id) /\ row[id] # None /\ exchange[id] = None => \E r \in Of(id) : RowMoves(r)

(* Deletes of an id met nothing, and no fault was worse than a lost call.  *)
Steady(id) ==
  /\ \A r \in Of(id) \cap met : Registers(r)
  /\ \A f \in faults : IdOf(f[2]) = id => ~Spoils(f)

SteadyRegister(r) ==
  LET id == IdOf(r)
  IN  /\ stage[r] \in {"broker", "undoRow"} => row[id] = r
      /\ Kind(r) \in Created \cup {"deleteExchange"} => exchange[id] = r
      /\ answer[r] = "fail" /\ exchange[id] = r => Kind(r) = "deleteExchange"

ExchangeKept(id) ==
  Steady(id) =>
    /\ \A r \in Of(id) : Registers(r) => SteadyRegister(r)
    /\ exchange[id] # None => \/ row[id] = exchange[id]
                               \/ Kind(exchange[id]) = "deleteExchange"
                               \/ Stranded(exchange[id])

-----------------------------------------------------------------------------
(* Permissions.                                                            *)

Alone(u) == \A r \in met : UserOf(r) # u

OwnerWrites(id) ==
  LET x == exchange[id]
  IN  Unbroken(id) /\ x # None /\ Alone(UserOf(x)) =>
        id \in write[UserOf(x)] \/ Kind(x) \in Permissions \/ UserOf(x) \notin permitted

(* Another user has deleted the adaptor.                                   *)
Foreign(id, u) == \E r \in Of(id) : ~Registers(r) /\ UserOf(r) # u /\ answer[r] = "ok"

WriterOwns(id, u) ==
  Unbroken(id) /\ Alone(u) /\ id \in write[u] /\ ~Foreign(id, u) =>
    \/ exchange[id] # None /\ UserOf(exchange[id]) = u
    \/ \E r \in Of(id) : ~Registers(r) /\ UserOf(r) = u /\ Kind(r) \in Permissions

Inv ==
  /\ TypeOK /\ Overlap /\ Users
  /\ \A r \in Request : /\ Shape(r) /\ SparedShape(r) /\ WholeShape(r) /\ View(r) /\ Chain(r)
  /\ \A id \in Id : /\ Made(id) /\ RowKept(id) /\ ExchangeKept(id) /\ OwnerWrites(id)
                    /\ \A u \in User : WriterOwns(id, u)
-----------------------------------------------------------------------------
(* Steps, one request at a time.                                           *)

Acts(r) ==
  \/ Client(r) \/ requestAsync(r) \/ CallFails(r) \/ OnStatement(r) \/ QueryFails(r)
  \/ OnBroker(r) \/ BrokerTimesOut(r)

(* A reset of a password changes what is known of users, if anything.      *)
Reset ==
  /\ users \subseteq users' /\ users' \subseteq users \cup User
  /\ UNCHANGED <<exchange, bound, write, permitted, row, call, answer, stage, faults, met>>

LEMMA Steps == ASSUME [Next]_vars PROVE Reset \/ \E r \in Request : Acts(r)
  BY DEF Next, Work, GivenUp, Acts, Reset, resetPassword, vars, broker

(* What RabbitMQ has answered, and what the chain makes of it.             *)
Replied(r) ==
  /\ Execute(r)
  /\ Refused(r) => Fail(r)
  /\ Unpermitted(r) => Hang(r)
  /\ ~Refused(r) /\ ~Unpermitted(r) => Continue(r)

LEMMA Asks ==
  ASSUME NEW r \in Request
  PROVE  /\ IdOf(r) \in Id /\ UserOf(r) \in User
         /\ request[r].op \in {"register", "delete"}
         /\ Registers(r) <=> request[r].op # "delete"
         /\ r # None
  BY AdaptorAssumption DEF IdOf, UserOf, Registers

LEMMA NoCallType ==
  NoCall \in Call /\ NoCall.kind = "none" /\ NoCall.n = 0 /\ NoCall.view = {}
  BY AdaptorAssumption DEF NoCall, Call, CallKind

LEMMA NextCall ==
  ASSUME TypeOK, NEW r \in Request, NEW kind \in CallKind, CallNext(r, kind)
  PROVE  /\ call' \in [Request -> Call]
         /\ call'[r].kind = kind /\ call'[r].n = 0 /\ call'[r].view = {}
         /\ \A o \in Request \ {r} : call'[o] = call[o]
  <1> DEFINE c == [NoCall EXCEPT !.kind = kind]
  <1>1. c \in Call /\ c.kind = kind /\ c.n = 0 /\ c.view = {}
    BY AdaptorAssumption DEF NoCall, Call
  <1>2. call' = [call EXCEPT ![r] = c] /\ call \in [Request -> Call]
    BY DEF CallNext, TypeOK, Call
  <1> HIDE DEF c
  <1> QED BY <1>1, <1>2

LEMMA NextBinding ==
  ASSUME TypeOK, NEW r \in Request, NEW n \in 1..Bindings, Bind(r, n)
  PROVE  /\ call' \in [Request -> Call]
         /\ call'[r].kind = "bind" /\ call'[r].n = n /\ call'[r].view = {}
         /\ \A o \in Request \ {r} : call'[o] = call[o]
  <1> DEFINE c == [kind |-> "bind", n |-> n, view |-> {}]
  <1>1. c \in Call /\ c.kind = "bind" /\ c.n = n /\ c.view = {}
    <2>1. n \in 0..Bindings /\ "bind" \in CallKind
      BY AdaptorAssumption DEF CallKind
    <2> QED BY <2>1 DEF Call
  <1>2. call' = [call EXCEPT ![r] = c] /\ call \in [Request -> Call]
    BY DEF Bind, TypeOK, Call
  <1> HIDE DEF c
  <1> QED BY <1>1, <1>2

LEMMA NextPut ==
  ASSUME TypeOK, NEW r \in Request, NEW view \in SUBSET Id,
         call' = [call EXCEPT ![r] = [kind |-> "putPermissions", n |-> 0, view |-> view]]
  PROVE  /\ call' \in [Request -> Call]
         /\ call'[r].kind = "putPermissions" /\ call'[r].n = 0 /\ call'[r].view = view
         /\ \A o \in Request \ {r} : call'[o] = call[o]
  <1> DEFINE c == [kind |-> "putPermissions", n |-> 0, view |-> view]
  <1>1. c \in Call /\ c.kind = "putPermissions" /\ c.n = 0 /\ c.view = view
    BY AdaptorAssumption DEF Call, CallKind
  <1>2. call' = [call EXCEPT ![r] = c] /\ call \in [Request -> Call]
    BY DEF TypeOK, Call
  <1> HIDE DEF c
  <1> QED BY <1>1, <1>2

LEMMA NoMore ==
  ASSUME TypeOK, NEW r \in Request, Quit(r)
  PROVE  /\ call' \in [Request -> Call]
         /\ call'[r] = NoCall /\ call'[r].kind = "none"
         /\ \A o \in Request \ {r} : call'[o] = call[o]
  BY NoCallType DEF Quit, TypeOK, Call

LEMMA Told ==
  ASSUME TypeOK, NEW r \in Request, NEW outcome \in {"ok", "fail"}, Tell(r, outcome)
  PROVE  /\ answer' \in [Request -> {"none", "ok", "fail"}] /\ answer'[r] = outcome
         /\ \A o \in Request \ {r} : answer'[o] = answer[o]
  BY DEF Tell, TypeOK

(* The chain of a request, and nothing else, has gone on.                  *)
Chained(r) ==
  /\ call' \in [Request -> Call] /\ answer' \in [Request -> {"none", "ok", "fail"}]
  /\ \A o \in Request \ {r} : call'[o] = call[o] /\ answer'[o] = answer[o]

LEMMA Updated ==
  ASSUME TypeOK, NEW r \in Request
  PROVE  getUpdatedPermission(r) \in SUBSET Id /\ call[r].view \in SUBSET Id
         /\ call[r].n \in 0..Bindings /\ Kind(r) \in CallKind
  BY Asks DEF getUpdatedPermission, TypeOK, Kind

LEMMA Continued ==
  ASSUME TypeOK, NEW r \in Request, Shape(r), Kind(r) # "none", Continue(r)
  PROVE  /\ Chained(r)
         /\ Kind(r) \in UserKind => call'[r].kind \in Making /\ answer'[r] = answer[r]
         /\ Kind(r) = "getUser" =>
              call'[r].kind = IF UserOf(r) \in users THEN "createExchange" ELSE "putUser"
         /\ Kind(r) = "putUser" => call'[r].kind = "putVhost"
         /\ Kind(r) = "putVhost" => call'[r].kind = "insertUser"
         /\ Kind(r) = "insertUser" => call'[r].kind = "createExchange"
         /\ Kind(r) = "createExchange" =>
              call'[r].kind = "getPermissions" /\ answer'[r] = answer[r]
         /\ Kind(r) = "getPermissions" =>
              /\ call'[r].kind = "putPermissions" /\ answer'[r] = answer[r]
              /\ call'[r].view = getUpdatedPermission(r)
         /\ Kind(r) = "putPermissions" /\ Registers(r) =>
              call'[r].kind = "bind" /\ call'[r].n = 1 /\ answer'[r] = answer[r]
         /\ Kind(r) = "putPermissions" /\ ~Registers(r) =>
              call'[r] = NoCall /\ answer'[r] = answer[r]
         /\ Kind(r) = "bind" =>
              \/ /\ call'[r].kind = "bind" /\ call'[r].n = call[r].n + 1
                 /\ call'[r].n \in 1..Bindings /\ answer'[r] = answer[r]
              \/ call[r].n = Bindings /\ call'[r] = NoCall /\ answer'[r] = "ok"
         /\ Kind(r) = "getExchange" =>
              call'[r].kind = "deleteExchange" /\ answer'[r] = answer[r]
         /\ Kind(r) = "deleteExchange" /\ Registers(r) =>
              call'[r] = NoCall /\ answer'[r] = answer[r]
         /\ Kind(r) = "deleteExchange" /\ ~Registers(r) =>
              call'[r].kind = "getPermissions" /\ answer'[r] = "ok"
  <1>a. UNCHANGED answer => /\ answer' \in [Request -> {"none", "ok", "fail"}]
                            /\ \A o \in Request : answer'[o] = answer[o]
    BY DEF TypeOK
  <1>1. CASE Kind(r) \in UserKind
    <2>1. createUserIfNotExist(r) /\ UNCHANGED answer
      BY <1>1 DEF Continue, UserKind
    <2>2. {"createExchange", "putUser", "putVhost", "insertUser"} \subseteq CallKind \cap Making
      BY DEF CallKind, UserKind, Making
    <2>3. CASE (Kind(r) = "getUser" /\ UserOf(r) \in users) \/ Kind(r) = "insertUser"
      <3>1. CallNext(r, "createExchange")
        BY <2>1, <2>3 DEF createUserIfNotExist
      <3> QED BY <1>a, <1>1, <2>1, <2>2, <2>3, <3>1, NextCall DEF Chained, UserKind
    <2>4. CASE Kind(r) = "getUser" /\ UserOf(r) \notin users
      <3>1. CallNext(r, "putUser")
        BY <2>1, <2>4 DEF createUserIfNotExist
      <3> QED BY <1>a, <1>1, <2>1, <2>2, <2>4, <3>1, NextCall DEF Chained, UserKind
    <2>5. CASE Kind(r) = "putUser"
      <3>1. CallNext(r, "putVhost")
        BY <2>1, <2>5 DEF createUserIfNotExist
      <3> QED BY <1>a, <1>1, <2>1, <2>2, <2>5, <3>1, NextCall DEF Chained, UserKind
    <2>6. CASE Kind(r) = "putVhost"
      <3>1. CallNext(r, "insertUser")
        BY <2>1, <2>6 DEF createUserIfNotExist
      <3> QED BY <1>a, <1>1, <2>1, <2>2, <2>6, <3>1, NextCall DEF Chained, UserKind
    <2> QED BY <1>1, <2>3, <2>4, <2>5, <2>6 DEF UserKind
  <1>2. CASE Kind(r) = "createExchange"
    <2>1. CallNext(r, "getPermissions") /\ UNCHANGED answer
      BY <1>2 DEF Continue, UserKind
    <2>2. "getPermissions" \in CallKind
      BY DEF CallKind
    <2> QED BY <1>a, <1>2, <2>1, <2>2, NextCall DEF Chained, UserKind
  <1>3. CASE Kind(r) = "getPermissions"
    <2>1. /\ call' = [call EXCEPT ![r] = [kind |-> "putPermissions", n |-> 0,
                                         view |-> getUpdatedPermission(r)]]
          /\ UNCHANGED answer
      BY <1>3 DEF Continue, UserKind
    <2> QED BY <1>a, <1>3, <2>1, Updated, NextPut DEF Chained, UserKind
  <1>4. CASE Kind(r) = "putPermissions" /\ Registers(r)
    <2>1. Bind(r, 1) /\ UNCHANGED answer /\ 1 \in 1..Bindings
      BY <1>4, AdaptorAssumption DEF Continue, UserKind
    <2> QED BY <1>a, <1>4, <2>1, NextBinding DEF Chained, UserKind
  <1>5. CASE Kind(r) = "putPermissions" /\ ~Registers(r)
    <2>1. Quit(r) /\ UNCHANGED answer
      BY <1>5 DEF Continue, UserKind
    <2> QED BY <1>a, <1>5, <2>1, NoMore DEF Chained, UserKind
  <1>6. CASE Kind(r) = "bind" /\ call[r].n < Bindings
    <2>1. Bind(r, call[r].n + 1) /\ UNCHANGED answer
      BY <1>6 DEF Continue, OnBound, UserKind
    <2>2. call[r].n + 1 \in 1..Bindings
      BY <1>6, AdaptorAssumption DEF Shape
    <2> QED BY <1>a, <1>6, <2>1, <2>2, NextBinding DEF Chained, UserKind
  <1>7. CASE Kind(r) = "bind" /\ ~(call[r].n < Bindings)
    <2>1. Quit(r) /\ Tell(r, "ok")
      BY <1>7 DEF Continue, OnBound, UserKind
    <2>2. call[r].n = Bindings
      BY <1>7, AdaptorAssumption DEF Shape
    <2> QED BY <1>7, <2>1, <2>2, NoMore, Told DEF Chained, UserKind
  <1>8. CASE Kind(r) = "getExchange"
    <2>1. CallNext(r, "deleteExchange") /\ UNCHANGED answer
      BY <1>8 DEF Continue, UserKind
    <2>2. "deleteExchange" \in CallKind
      BY DEF CallKind
    <2> QED BY <1>a, <1>8, <2>1, <2>2, NextCall DEF Chained, UserKind
  <1>9. CASE Kind(r) = "deleteExchange" /\ Registers(r)
    <2>1. Quit(r) /\ UNCHANGED answer
      BY <1>9 DEF Continue, UserKind
    <2> QED BY <1>a, <1>9, <2>1, NoMore DEF Chained, UserKind
  <1>10. CASE Kind(r) = "deleteExchange" /\ ~Registers(r)
    <2>1. CallNext(r, "getPermissions") /\ Tell(r, "ok")
      BY <1>10 DEF Continue, UserKind
    <2>2. "getPermissions" \in CallKind
      BY DEF CallKind
    <2> QED BY <1>10, <2>1, <2>2, NextCall, Told DEF Chained, UserKind
  <1>11. Kind(r) \in CallKind
    BY Updated
  <1> QED BY <1>1, <1>2, <1>3, <1>4, <1>5, <1>6, <1>7, <1>8, <1>9, <1>10, <1>11 DEF CallKind

(* A register that has made its exchange asks for its deletion.            *)
LEMMA Failed ==
  ASSUME TypeOK, NEW r \in Request, Shape(r), Fail(r)
  PROVE  /\ Chained(r)
         /\ Registers(r) /\ Kind(r) \in Created =>
              call'[r].kind = "deleteExchange" /\ answer'[r] = "fail"
         /\ ~(Registers(r) /\ Kind(r) \in Created) =>
              /\ call'[r] = NoCall
              /\ answer'[r] = IF answer[r] = "none" THEN "fail" ELSE answer[r]
  <1>1. CASE Registers(r) /\ Kind(r) \in Created
    <2>1. CallNext(r, "deleteExchange") /\ Tell(r, "fail")
      <3>1. answer[r] = "none"
        BY <1>1 DEF Shape, RegisterShape, Created, Permissions, TypeOK
      <3> QED BY <1>1, <3>1 DEF Fail, Created, Permissions
    <2>2. "deleteExchange" \in CallKind
      BY DEF CallKind
    <2> QED BY <1>1, <2>1, <2>2, NextCall, Told DEF Chained
  <1>2. CASE ~(Registers(r) /\ Kind(r) \in Created) /\ answer[r] # "none"
    <2>1. Quit(r) /\ UNCHANGED answer
      BY <1>2 DEF Fail, Created, Permissions
    <2>2. /\ answer' \in [Request -> {"none", "ok", "fail"}]
          /\ \A o \in Request : answer'[o] = answer[o]
      BY <2>1 DEF TypeOK
    <2> QED BY <1>2, <2>1, <2>2, NoMore DEF Chained
  <1>3. CASE ~(Registers(r) /\ Kind(r) \in Created) /\ answer[r] = "none"
    <2>1. Quit(r) /\ Tell(r, "fail")
      BY <1>3 DEF Fail, Created, Permissions
    <2> QED BY <1>3, <2>1, NoMore, Told DEF Chained
  <1> QED BY <1>1, <1>2, <1>3

LEMMA Hung ==
  ASSUME TypeOK, NEW r \in Request, Hang(r)
  PROVE  Chained(r) /\ call'[r] = NoCall /\ answer'[r] = answer[r]
  <1>1. Quit(r) /\ UNCHANGED answer
    BY DEF Hang
  <1>2. /\ answer' \in [Request -> {"none", "ok", "fail"}]
        /\ \A o \in Request : answer'[o] = answer[o]
    BY <1>1 DEF TypeOK
  <1> QED BY <1>1, <1>2, NoMore DEF Chained

LEMMA Executed ==
  ASSUME TypeOK, NEW r \in Request, Shape(r), Execute(r) \/ UNCHANGED broker
  PROVE  /\ exchange' \in [Id -> Request \cup {None}]
         /\ bound' \in [Id -> SUBSET (1..Bindings)]
         /\ write' \in [User -> SUBSET Id]
         /\ \A id \in Id \ {IdOf(r)} : exchange'[id] = exchange[id] /\ bound'[id] = bound[id]
         /\ \A u \in User \ {UserOf(r)} : write'[u] = write[u]
         /\ users' \subseteq User /\ permitted' \subseteq User
         /\ users \subseteq users' /\ permitted \subseteq permitted'
         /\ permitted' # permitted =>
              /\ permitted' = permitted \cup {UserOf(r)}
              /\ Kind(r) \in {"putVhost", "putPermissions"}
         /\ Execute(r) =>
              /\ exchange'[IdOf(r)] =
                   IF Kind(r) = "createExchange" /\ exchange[IdOf(r)] = None THEN r
                   ELSE IF Kind(r) = "deleteExchange" THEN None ELSE exchange[IdOf(r)]
              /\ Kind(r) = "bind" /\ exchange[IdOf(r)] # None =>
                   bound'[IdOf(r)] = bound[IdOf(r)] \cup {call[r].n}
              /\ Kind(r) \notin {"bind", "deleteExchange"} => bound' = bound
              /\ write'[UserOf(r)] = IF Kind(r) = "putPermissions" THEN call[r].view
                                     ELSE IF Kind(r) = "putVhost" THEN {} ELSE write[UserOf(r)]
              /\ Kind(r) = "putUser" => UserOf(r) \in users'
  <1>0. CASE UNCHANGED broker /\ ~Execute(r)
    BY <1>0 DEF broker, TypeOK
  <1>1. CASE Execute(r)
    <2>1. IdOf(r) \in Id /\ UserOf(r) \in User
      BY Asks
    <2>2. /\ exchange' \in [Id -> Request \cup {None}]
          /\ \A id \in Id \ {IdOf(r)} : exchange'[id] = exchange[id]
          /\ exchange'[IdOf(r)] =
               IF Kind(r) = "createExchange" /\ exchange[IdOf(r)] = None THEN r
               ELSE IF Kind(r) = "deleteExchange" THEN None ELSE exchange[IdOf(r)]
      <3>1. CASE Kind(r) = "createExchange" /\ exchange[IdOf(r)] = None
        BY <1>1, <2>1, <3>1 DEF Execute, TypeOK
      <3>2. CASE Kind(r) = "deleteExchange"
        BY <1>1, <2>1, <3>2 DEF Execute, TypeOK
      <3>3. CASE ~(Kind(r) = "createExchange" /\ exchange[IdOf(r)] = None)
                 /\ Kind(r) # "deleteExchange"
        BY <1>1, <2>1, <3>3 DEF Execute, TypeOK
      <3> QED BY <3>1, <3>2, <3>3
    <2>3. /\ bound' \in [Id -> SUBSET (1..Bindings)]
          /\ \A id \in Id \ {IdOf(r)} : bound'[id] = bound[id]
          /\ Kind(r) = "bind" /\ exchange[IdOf(r)] # None =>
               bound'[IdOf(r)] = bound[IdOf(r)] \cup {call[r].n}
          /\ Kind(r) \notin {"bind", "deleteExchange"} => bound' = bound
      <3>1. CASE Kind(r) = "bind" /\ exchange[IdOf(r)] # None
        <4>1. call[r].n \in 1..Bindings
          BY <3>1 DEF Shape
        <4> QED BY <1>1, <2>1, <3>1, <4>1 DEF Execute, TypeOK
      <3>2. CASE Kind(r) = "deleteExchange"
        BY <1>1, <2>1, <3>2 DEF Execute, TypeOK
      <3>3. CASE ~(Kind(r) = "bind" /\ exchange[IdOf(r)] # None) /\ Kind(r) # "deleteExchange"
        BY <1>1, <2>1, <3>3 DEF Execute, TypeOK
      <3> QED BY <3>1, <3>2, <3>3
    <2>4. /\ write' \in [User -> SUBSET Id]
          /\ \A u \in User \ {UserOf(r)} : write'[u] = write[u]
          /\ write'[UserOf(r)] = IF Kind(r) = "putPermissions" THEN call[r].view
                                 ELSE IF Kind(r) = "putVhost" THEN {} ELSE write[UserOf(r)]
      <3>1. call[r].view \in SUBSET Id
        BY Updated
      <3>2. CASE Kind(r) = "putPermissions"
        BY <1>1, <2>1, <3>1, <3>2 DEF Execute, TypeOK
      <3>3. CASE Kind(r) = "putVhost"
        BY <1>1, <2>1, <3>3 DEF Execute, TypeOK
      <3>4. CASE Kind(r) \notin {"putPermissions", "putVhost"}
        BY <1>1, <2>1, <3>4 DEF Execute, TypeOK
      <3> QED BY <3>2, <3>3, <3>4
    <2>5. /\ users' \subseteq User /\ permitted' \subseteq User
          /\ users \subseteq users' /\ permitted \subseteq permitted'
          /\ permitted' # permitted =>
               /\ permitted' = permitted \cup {UserOf(r)}
               /\ Kind(r) \in {"putVhost", "putPermissions"}
          /\ Kind(r) = "putUser" => UserOf(r) \in users'
      <3>1. /\ users' = IF Kind(r) = "putUser" THEN users \cup {UserOf(r)} ELSE users
            /\ permitted' = IF Kind(r) \in {"putVhost", "putPermissions"}
                            THEN permitted \cup {UserOf(r)} ELSE permitted
        BY <1>1 DEF Execute
      <3>2. users \subseteq User /\ permitted \subseteq User
        BY DEF TypeOK
      <3> QED BY <2>1, <3>1, <3>2
    <2> QED BY <2>2, <2>3, <2>4, <2>5
  <1> QED BY <1>0, <1>1

LEMMA Moved ==
  ASSUME TypeOK, NEW r \in Request, NEW there \in Stage, To(r, there)
  PROVE  /\ stage' \in [Request -> Stage] /\ stage'[r] = there
         /\ \A o \in Request \ {r} : stage'[o] = stage[o]
  BY DEF To, TypeOK

(* A fault changes the list of faults, and nothing else does.              *)
LEMMA Broken ==
  ASSUME TypeOK, NEW r \in Request, NEW kind, NEW where \in CallKind \cup Waiting,
         Break(kind, r, where)
  PROVE  /\ faults' \subseteq FaultKinds \X Request \X (CallKind \cup Waiting)
         /\ faults \subseteq faults' /\ <<kind, r, where>> \in faults'
         /\ \A f \in faults' \ faults : f[2] = r
         /\ ~Whole(r)' /\ ~Unbroken(IdOf(r))'
  <1>1. /\ faults' = faults \cup {<<kind, r, where>>} /\ kind \in FaultKinds
    BY DEF Break
  <1>2. <<kind, r, where>>[2] = r
    OBVIOUS
  <1>3. faults' \subseteq FaultKinds \X Request \X (CallKind \cup Waiting)
    BY <1>1 DEF TypeOK
  <1>4. <<kind, r, where>> \in faults'
    BY <1>1
  <1>5. ~Whole(r)' /\ ~Unbroken(IdOf(r))'
    BY <1>2, <1>4 DEF Whole, Unbroken
  <1> QED BY <1>1, <1>2, <1>3, <1>4, <1>5

LEMMA ClientMoves ==
  ASSUME TypeOK, NEW r \in Request, Client(r)
  PROVE  /\ stage[r] = "new" /\ UNCHANGED <<row, exchange, bound, write, users, permitted, answer, faults>>
         /\ call' \in [Request -> Call] /\ stage' \in [Request -> Stage]
         /\ \A o \in Request \ {r} : call'[o] = call[o] /\ stage'[o] = stage[o]
         /\ Registers(r) => call' = call /\ stage'[r] \in {"row", "fail"}
         /\ ~Registers(r) => call'[r].kind = "getExchange" /\ stage'[r] = "broker"
         /\ met' = IF Rivals(r) = {} THEN met ELSE met \cup {r} \cup Rivals(r)
  <1>1. /\ stage[r] = "new" /\ UNCHANGED <<row, exchange, bound, write, users, permitted, answer, faults>>
        /\ met' = IF Rivals(r) = {} THEN met ELSE met \cup {r} \cup Rivals(r)
    BY DEF Client, registerAdapter, deleteAdapter, Arrive, Sound, broker
  <1>2. CASE registerAdapter(r)
    <2>1. Registers(r) /\ call' = call /\ (To(r, "row") \/ To(r, "fail"))
      BY <1>2 DEF registerAdapter, Arrive, Registers
    <2>2. "row" \in Stage /\ "fail" \in Stage
      BY DEF Stage, Waiting
    <2>3. stage' \in [Request -> Stage] /\ stage'[r] \in {"row", "fail"}
          /\ \A o \in Request \ {r} : stage'[o] = stage[o]
      BY <2>1, <2>2, Moved
    <2>4. call \in [Request -> Call]
      BY DEF TypeOK, Call
    <2> QED BY <1>1, <2>1, <2>3, <2>4
  <1>3. CASE deleteAdapter(r)
    <2>1. ~Registers(r) /\ To(r, "broker") /\ CallNext(r, "getExchange")
      BY <1>3 DEF deleteAdapter, Arrive, Registers, Ask
    <2>2. "broker" \in Stage /\ "getExchange" \in CallKind
      BY DEF Stage, Waiting, CallKind
    <2> QED BY <1>1, <2>1, <2>2, Moved, NextCall
  <1> QED BY <1>2, <1>3 DEF Client

(* The answer of RabbitMQ, or the lack of it.                              *)
LEMMA CallMoves ==
  ASSUME TypeOK, NEW r \in Request, requestAsync(r) \/ CallFails(r)
  PROVE  /\ Kind(r) # "none" /\ UNCHANGED <<row, stage, met>>
         /\ faults' \subseteq FaultKinds \X Request \X (CallKind \cup Waiting)
         /\ faults \subseteq faults' /\ \A f \in faults' \ faults : f[2] = r
         /\ Execute(r) \/ UNCHANGED broker
         /\ Fail(r) \/ Hang(r) \/ Continue(r)
         /\ \/ Replied(r) /\ faults' = faults
            \/ /\ Fail(r) \/ BindThrows(r)
               /\ UNCHANGED broker /\ ~Whole(r)' /\ ~Unbroken(IdOf(r))'
               /\ <<"requestLost", r, Kind(r)>> \in faults'
            \/ /\ Fail(r) \/ BindThrows(r)
               /\ Execute(r) /\ ~Whole(r)' /\ ~Unbroken(IdOf(r))'
               /\ <<"replyLost", r, Kind(r)>> \in faults'
            \/ /\ \/ Fail(r) \/ Hang(r)
                  \/ Continue(r) /\ Kind(r) \in {"createExchange", "bind", "deleteExchange"}
               /\ UNCHANGED broker /\ ~Whole(r)' /\ ~Unbroken(IdOf(r))'
               /\ <<"unexpected", r, Kind(r)>> \in faults'
  <1>1. Kind(r) \in CallKind \cup Waiting
    BY Updated
  <1>2. CASE requestAsync(r)
    <2>1. ~(Refused(r) /\ Unpermitted(r))
      BY DEF Refused, Unpermitted
    <2>2. Replied(r) /\ (Fail(r) \/ Hang(r) \/ Continue(r))
      BY <1>2, <2>1 DEF requestAsync, Replied
    <2>3. faults' = faults /\ Kind(r) # "none" /\ UNCHANGED <<row, stage, met>>
      BY <1>2 DEF requestAsync, Sound
    <2> QED BY <2>2, <2>3 DEF Replied, TypeOK
  <1>3. Kind(r) # "none" /\ UNCHANGED <<row, stage, met>>
    BY DEF requestAsync, CallFails
  <1>4. CASE /\ Break("requestLost", r, Kind(r)) /\ UNCHANGED broker
             /\ Fail(r) \/ BindThrows(r)
    BY <1>1, <1>3, <1>4, Broken DEF BindThrows
  <1>5. CASE /\ Break("replyLost", r, Kind(r)) /\ Execute(r)
             /\ Fail(r) \/ BindThrows(r)
    BY <1>1, <1>3, <1>5, Broken DEF BindThrows
  <1>6. CASE /\ Break("unexpected", r, Kind(r)) /\ UNCHANGED broker
             /\ CASE Kind(r) \in {"createExchange", "bind", "deleteExchange"} -> Continue(r)
                  [] Kind(r) = "getUser" -> Hang(r)
                  [] OTHER -> Fail(r)
    <2>1. \/ Fail(r) \/ Hang(r)
          \/ Continue(r) /\ Kind(r) \in {"createExchange", "bind", "deleteExchange"}
      BY <1>6
    <2> QED BY <1>1, <1>3, <1>6, <2>1, Broken
  <1> QED BY <1>2, <1>4, <1>5, <1>6 DEF CallFails

LEMMA Outcomes ==
  ASSUME TypeOK, NEW r \in Request, requestAsync(r) \/ CallFails(r)
  PROVE  \/ Fail(r) \/ Hang(r)
         \/ Execute(r) /\ ~Refused(r) /\ ~Unpermitted(r) /\ Continue(r)
         \/ Continue(r) /\ Kind(r) \in {"createExchange", "bind", "deleteExchange"}
  <1>1. \/ Replied(r) \/ Fail(r) \/ BindThrows(r) \/ Hang(r)
        \/ Continue(r) /\ Kind(r) \in {"createExchange", "bind", "deleteExchange"}
    BY CallMoves
  <1>2. BindThrows(r) => Hang(r)
    BY DEF BindThrows
  <1>3. CASE Replied(r)
    BY <1>3 DEF Replied
  <1> QED BY <1>1, <1>2, <1>3

LEMMA StatementMoves ==
  ASSUME TypeOK, NEW r \in Request, OnStatement(r)
  PROVE  /\ UNCHANGED <<exchange, bound, write, users, permitted, answer, faults, met>>
         /\ call' \in [Request -> Call] /\ stage' \in [Request -> Stage]
         /\ row' \in [Id -> Request \cup {None}]
         /\ \A o \in Request \ {r} : call'[o] = call[o] /\ stage'[o] = stage[o]
         /\ \A id \in Id \ {IdOf(r)} : row'[id] = row[id]
         /\ \/ /\ stage[r] = "row" /\ row[IdOf(r)] = None /\ row'[IdOf(r)] = r
               /\ stage'[r] = "broker" /\ call'[r].kind = "getUser"
            \/ /\ stage[r] = "row" /\ row' = row /\ stage'[r] = "fail" /\ call' = call
            \/ /\ stage[r] = "undoRow" /\ row'[IdOf(r)] = None
               /\ stage'[r] = "fail" /\ call' = call
            \/ /\ stage[r] = "deleteRow" /\ row'[IdOf(r)] = None
               /\ stage'[r] = "ok" /\ call' = call
  <1>1. UNCHANGED <<exchange, bound, write, users, permitted, answer, faults, met>> /\ IdOf(r) \in Id
    BY Asks DEF OnStatement, broker, Sound
  <1>2. {"broker", "fail", "ok"} \subseteq Stage /\ "getUser" \in CallKind
    BY DEF Stage, Waiting, CallKind, UserKind
  <1>3. call' = call => call' \in [Request -> Call] /\ \A o \in Request : call'[o] = call[o]
    BY DEF TypeOK, Call
  <1>4. CASE stage[r] = "row" /\ row[IdOf(r)] = None
    <2>1. row' = [row EXCEPT ![IdOf(r)] = r] /\ To(r, "broker") /\ CallNext(r, "getUser")
      BY <1>4 DEF OnStatement, Statement, Ask
    <2>2. /\ row' \in [Id -> Request \cup {None}] /\ row'[IdOf(r)] = r
          /\ \A id \in Id \ {IdOf(r)} : row'[id] = row[id]
      BY <1>1, <2>1 DEF TypeOK
    <2> QED BY <1>1, <1>2, <1>4, <2>1, <2>2, Moved, NextCall
  <1>5. CASE stage[r] = "row" /\ row[IdOf(r)] # None
    <2>1. row' = row /\ To(r, "fail") /\ call' = call
      BY <1>5 DEF OnStatement, Statement
    <2> QED BY <1>1, <1>2, <1>3, <1>5, <2>1, Moved DEF TypeOK
  <1>6. CASE stage[r] = "undoRow"
    <2>1. row' = [row EXCEPT ![IdOf(r)] = None] /\ To(r, "fail") /\ call' = call
      BY <1>6 DEF OnStatement, Statement
    <2>2. /\ row' \in [Id -> Request \cup {None}] /\ row'[IdOf(r)] = None
          /\ \A id \in Id \ {IdOf(r)} : row'[id] = row[id]
      BY <1>1, <2>1 DEF TypeOK
    <2> QED BY <1>1, <1>2, <1>3, <1>6, <2>1, <2>2, Moved
  <1>7. CASE stage[r] = "deleteRow"
    <2>1. row' = [row EXCEPT ![IdOf(r)] = None] /\ To(r, "ok") /\ call' = call
      BY <1>7 DEF OnStatement, Statement
    <2>2. /\ row' \in [Id -> Request \cup {None}] /\ row'[IdOf(r)] = None
          /\ \A id \in Id \ {IdOf(r)} : row'[id] = row[id]
      BY <1>1, <2>1 DEF TypeOK
    <2> QED BY <1>1, <1>2, <1>3, <1>7, <2>1, <2>2, Moved
  <1> QED BY <1>4, <1>5, <1>6, <1>7 DEF OnStatement

LEMMA QueryFailsMoves ==
  ASSUME TypeOK, NEW r \in Request, QueryFails(r)
  PROVE  /\ UNCHANGED <<exchange, bound, write, users, permitted, call, answer, met>>
         /\ stage[r] \in {"row", "undoRow", "deleteRow"}
         /\ stage' \in [Request -> Stage] /\ row' \in [Id -> Request \cup {None}]
         /\ stage'[r] = IF stage[r] = "undoRow" THEN "stuck" ELSE "fail"
         /\ \A o \in Request \ {r} : stage'[o] = stage[o]
         /\ \A id \in Id \ {IdOf(r)} : row'[id] = row[id]
         /\ row'[IdOf(r)] \in {r, None, row[IdOf(r)]}
         /\ row'[IdOf(r)] = r => row[IdOf(r)] = r \/ stage[r] = "row"
         /\ faults' \subseteq FaultKinds \X Request \X (CallKind \cup Waiting)
         /\ faults \subseteq faults' /\ \A f \in faults' \ faults : f[2] = r
         /\ ~Spared(r)' /\ ~Whole(r)' /\ ~Unbroken(IdOf(r))' /\ ~Steady(IdOf(r))'
  <1>1. /\ UNCHANGED <<exchange, bound, write, users, permitted, call, answer, met>>
        /\ stage[r] \in {"row", "undoRow", "deleteRow"} /\ IdOf(r) \in Id
    BY Asks DEF QueryFails, broker
  <1>2. stage[r] \in CallKind \cup Waiting
    BY <1>1 DEF Waiting
  <1>3. PICK kind \in {"refused", "replyLost"} : Break(kind, r, stage[r])
    BY DEF QueryFails
  <1>4. /\ faults' \subseteq FaultKinds \X Request \X (CallKind \cup Waiting)
        /\ faults \subseteq faults' /\ \A f \in faults' \ faults : f[2] = r
        /\ ~Whole(r)' /\ ~Unbroken(IdOf(r))' /\ <<kind, r, stage[r]>> \in faults'
    BY <1>2, <1>3, Broken
  <1>5. ~Spared(r)' /\ ~Steady(IdOf(r))'
    <2>1. /\ <<kind, r, stage[r]>>[2] = r /\ <<kind, r, stage[r]>>[1] # "requestLost"
      BY <1>3
    <2> QED BY <1>4, <2>1 DEF Spared, Steady, Spoils
  <1>6. /\ stage' \in [Request -> Stage] /\ \A o \in Request \ {r} : stage'[o] = stage[o]
        /\ stage'[r] = IF stage[r] = "undoRow" THEN "stuck" ELSE "fail"
    <2>1. "stuck" \in Stage /\ "fail" \in Stage
      BY DEF Stage
    <2> QED BY <2>1 DEF QueryFails, To, TypeOK
  <1>7. /\ row' \in [Id -> Request \cup {None}]
        /\ \A id \in Id \ {IdOf(r)} : row'[id] = row[id]
        /\ row'[IdOf(r)] \in {r, None, row[IdOf(r)]}
        /\ row'[IdOf(r)] = r => row[IdOf(r)] = r \/ stage[r] = "row"
    <2>1. CASE row' = row
      BY <1>1, <2>1 DEF TypeOK
    <2>2. CASE row' = [row EXCEPT ![IdOf(r)] = r] /\ stage[r] = "row"
      BY <1>1, <2>2 DEF TypeOK
    <2>3. CASE row' = [row EXCEPT ![IdOf(r)] = None]
      BY <1>1, <2>3, Asks DEF TypeOK
    <2>4. row' = row \/ Statement(r)
      BY DEF QueryFails
    <2>5. CASE stage[r] = "row" /\ Statement(r)
      BY <2>1, <2>2, <2>5 DEF Statement
    <2>6. CASE stage[r] \in {"undoRow", "deleteRow"} /\ Statement(r)
      BY <2>3, <2>6 DEF Statement
    <2>7. stage[r] = "row" \/ stage[r] \in {"undoRow", "deleteRow"}
      BY <1>1
    <2> QED BY <2>1, <2>4, <2>5, <2>6, <2>7
  <1> QED BY <1>1, <1>4, <1>5, <1>6, <1>7

LEMMA ReplyMoves ==
  ASSUME TypeOK, NEW r \in Request, OnBroker(r) \/ BrokerTimesOut(r)
  PROVE  /\ UNCHANGED <<row, exchange, bound, write, users, permitted, call, answer, met>>
         /\ stage[r] = "broker" /\ stage' \in [Request -> Stage]
         /\ \A o \in Request \ {r} : stage'[o] = stage[o]
         /\ faults' \subseteq FaultKinds \X Request \X (CallKind \cup Waiting)
         /\ faults \subseteq faults' /\ \A f \in faults' \ faults : f[2] = r
         /\ \/ answer[r] = "ok" /\ stage'[r] = (IF Registers(r) THEN "ok" ELSE "deleteRow")
            \/ answer[r] = "fail" /\ stage'[r] = (IF Registers(r) THEN "undoRow" ELSE "fail")
            \/ /\ answer[r] = "none" /\ stage'[r] = (IF Registers(r) THEN "undoRow" ELSE "stuck")
               /\ \/ call[r] = NoCall /\ faults' = faults
                  \/ ~Spared(r)' /\ ~Whole(r)' /\ ~Unbroken(IdOf(r))' /\ ~Steady(IdOf(r))'
  <1>1. {"ok", "fail", "deleteRow", "undoRow", "stuck"} \subseteq Stage
    BY DEF Stage, Waiting
  <1>2. CASE OnBroker(r)
    <2>1. /\ UNCHANGED <<row, exchange, bound, write, users, permitted, call, answer, met>>
          /\ stage[r] = "broker"
          /\ faults' = faults
          /\ \/ answer[r] = "ok" /\ To(r, IF Registers(r) THEN "ok" ELSE "deleteRow")
             \/ answer[r] = "fail" /\ To(r, IF Registers(r) THEN "undoRow" ELSE "fail")
      BY <1>2 DEF OnBroker, broker, Sound
    <2>2. CASE answer[r] = "ok"
      <3>1. To(r, IF Registers(r) THEN "ok" ELSE "deleteRow")
        BY <2>1, <2>2
      <3> QED BY <1>1, <2>1, <2>2, <3>1, Moved DEF TypeOK
    <2>3. CASE answer[r] = "fail"
      <3>1. To(r, IF Registers(r) THEN "undoRow" ELSE "fail")
        BY <2>1, <2>3
      <3> QED BY <1>1, <2>1, <2>3, <3>1, Moved DEF TypeOK
    <2> QED BY <2>1, <2>2, <2>3
  <1>3. CASE BrokerTimesOut(r)
    <2>1. /\ UNCHANGED <<row, exchange, bound, write, users, permitted, call, answer, met>>
          /\ stage[r] = "broker"
          /\ answer[r] = "none" /\ To(r, IF Registers(r) THEN "undoRow" ELSE "stuck")
      BY <1>3 DEF BrokerTimesOut, broker
    <2>2. /\ stage' \in [Request -> Stage] /\ \A o \in Request \ {r} : stage'[o] = stage[o]
          /\ stage'[r] = (IF Registers(r) THEN "undoRow" ELSE "stuck")
      BY <1>1, <2>1, Moved
    <2>3. CASE call[r] = NoCall /\ Sound
      BY <2>1, <2>2, <2>3 DEF Sound, TypeOK
    <2>4. CASE Break("timeout", r, Kind(r))
      <3>1. Kind(r) \in CallKind \cup Waiting
        BY Updated
      <3>2. /\ faults' \subseteq FaultKinds \X Request \X (CallKind \cup Waiting)
            /\ faults \subseteq faults' /\ \A f \in faults' \ faults : f[2] = r
            /\ ~Whole(r)' /\ ~Unbroken(IdOf(r))' /\ <<"timeout", r, Kind(r)>> \in faults'
        BY <2>4, <3>1, Broken
      <3>3. <<"timeout", r, Kind(r)>>[2] = r /\ <<"timeout", r, Kind(r)>>[1] # "requestLost"
        OBVIOUS
      <3>4. ~Spared(r)' /\ ~Steady(IdOf(r))'
        BY <3>2, <3>3 DEF Spared, Steady, Spoils
      <3> QED BY <2>1, <2>2, <3>2, <3>4
    <2> QED BY <1>3, <2>3, <2>4 DEF BrokerTimesOut
  <1> QED BY <1>2, <1>3

LEMMA TypesInit == Init => TypeOK
  BY NoCallType DEF Init, TypeOK, Call, Stage

LEMMA TypesStep ==
  ASSUME TypeOK, \A r \in Request : Shape(r), [Next]_vars
  PROVE  TypeOK'
  <1>1. CASE Reset
    BY <1>1 DEF Reset, TypeOK
  <1>2. ASSUME NEW r \in Request, Acts(r) PROVE TypeOK'
    <2>1. CASE Client(r)
      <3>1. met' \subseteq Request
        BY <2>1, ClientMoves DEF TypeOK, Rivals, InFlight
      <3> QED BY <2>1, <3>1, ClientMoves DEF TypeOK, Call
    <2>2. CASE requestAsync(r) \/ CallFails(r)
      <3>1. Chained(r)
        BY <2>2, CallMoves, Continued, Failed, Hung
      <3>2. /\ exchange' \in [Id -> Request \cup {None}]
            /\ bound' \in [Id -> SUBSET (1..Bindings)] /\ write' \in [User -> SUBSET Id]
            /\ users' \subseteq User /\ permitted' \subseteq User
        BY <2>2, CallMoves, Executed
      <3> QED BY <2>2, <3>1, <3>2, CallMoves DEF TypeOK, Call, Chained
    <2>3. CASE OnStatement(r)
      BY <2>3, StatementMoves DEF TypeOK, Call
    <2>4. CASE QueryFails(r)
      BY <2>4, QueryFailsMoves DEF TypeOK
    <2>5. CASE OnBroker(r) \/ BrokerTimesOut(r)
      BY <2>5, ReplyMoves DEF TypeOK
    <2> QED BY <1>2, <2>1, <2>2, <2>3, <2>4, <2>5 DEF Acts
  <1> QED BY <1>1, <1>2, Steps

-----------------------------------------------------------------------------
(* What a step of a request leaves alone.                                  *)

LEMMA Frame ==
  ASSUME TypeOK, NEW r \in Request, Shape(r), Acts(r)
  PROVE  /\ \A o \in Request \ {r} :
              call'[o] = call[o] /\ answer'[o] = answer[o] /\ stage'[o] = stage[o]
         /\ \A id \in Id \ {IdOf(r)} :
              row'[id] = row[id] /\ exchange'[id] = exchange[id] /\ bound'[id] = bound[id]
         /\ \A u \in User \ {UserOf(r)} : write'[u] = write[u]
         /\ met \subseteq met' /\ faults \subseteq faults'
         /\ users \subseteq users' /\ permitted \subseteq permitted'
  <1>1. CASE Client(r)
    BY <1>1, ClientMoves
  <1>2. CASE requestAsync(r) \/ CallFails(r)
    <2>1. Chained(r)
      BY <1>2, CallMoves, Continued, Failed, Hung
    <2>2. /\ \A id \in Id \ {IdOf(r)} : exchange'[id] = exchange[id] /\ bound'[id] = bound[id]
          /\ \A u \in User \ {UserOf(r)} : write'[u] = write[u]
          /\ users \subseteq users' /\ permitted \subseteq permitted'
      BY <1>2, CallMoves, Executed
    <2>3. UNCHANGED <<row, stage, met>> /\ faults \subseteq faults'
      BY <1>2, CallMoves
    <2> QED BY <2>1, <2>2, <2>3 DEF Chained
  <1>3. CASE OnStatement(r)
    BY <1>3, StatementMoves
  <1>4. CASE QueryFails(r)
    BY <1>4, QueryFailsMoves
  <1>5. CASE OnBroker(r) \/ BrokerTimesOut(r)
    BY <1>5, ReplyMoves
  <1> QED BY <1>1, <1>2, <1>3, <1>4, <1>5 DEF Acts

(* Only a client starts a request.                                         *)
LEMMA Actor ==
  ASSUME TypeOK, NEW r \in Request, Shape(r), Acts(r)
  PROVE  Client(r) \/ (r \in InFlight /\ InFlight' \subseteq InFlight /\ met' = met)
  <1> SUFFICES ASSUME ~Client(r)
               PROVE  r \in InFlight /\ InFlight' \subseteq InFlight /\ met' = met
    OBVIOUS
  <1>1. r \in InFlight
    <2>1. CASE requestAsync(r) \/ CallFails(r)
      <3>1. call[r] # NoCall
        BY <2>1, CallMoves, NoCallType DEF Kind
      <3> QED BY <3>1 DEF InFlight, Working
    <2>2. CASE OnStatement(r) \/ QueryFails(r)
      BY <2>2 DEF OnStatement, QueryFails, InFlight, Working, Waiting
    <2>3. CASE OnBroker(r) \/ BrokerTimesOut(r)
      BY <2>3, ReplyMoves DEF InFlight, Working, Waiting
    <2> QED BY <2>1, <2>2, <2>3 DEF Acts
  <1>2. \A o \in Request \ {r} : o \in InFlight' => o \in InFlight
    BY Frame DEF InFlight, Working
  <1>3. met' = met
    BY CallMoves, StatementMoves, QueryFailsMoves, ReplyMoves DEF Acts
  <1> QED BY <1>1, <1>2, <1>3 DEF InFlight

LEMMA OverlapStep ==
  ASSUME TypeOK, \A r \in Request : Shape(r), Overlap, [Next]_vars
  PROVE  Overlap'
  <1>1. CASE Reset
    BY <1>1 DEF Reset, Overlap, InFlight, Working, Rivals
  <1>2. ASSUME NEW r \in Request, Acts(r) PROVE Overlap'
    <2> SUFFICES ASSUME NEW o \in InFlight' \ met', NEW p \in InFlight' \ {o},
                        IdOf(p) = IdOf(o) \/ UserOf(p) = UserOf(o)
                 PROVE  FALSE
      BY DEF Overlap, Rivals
    <2>1. o \in Request /\ p \in Request
      BY DEF InFlight
    <2>2. met \subseteq met'
      BY <1>2, Frame
    <2>3. \A q \in Request \ {r} : q \in InFlight' => q \in InFlight
      BY <1>2, Frame DEF InFlight, Working
    <2>4. CASE ~Client(r)
      <3>1. o \in InFlight \ met /\ p \in InFlight
        BY <1>2, <2>2, <2>4, Actor
      <3> QED BY <3>1 DEF Overlap, Rivals
    <2>5. CASE Client(r)
      <3>1. met' = IF Rivals(r) = {} THEN met ELSE met \cup {r} \cup Rivals(r)
        BY <2>5, ClientMoves
      <3>2. CASE o = r
        <4>1. p \in Rivals(r)
          BY <2>1, <2>3, <3>2 DEF Rivals
        <4> QED BY <3>1, <3>2, <4>1
      <3>3. CASE p = r
        <4>1. o \in Rivals(r)
          BY <2>1, <2>3, <3>3 DEF Rivals
        <4> QED BY <3>1, <4>1
      <3>4. CASE o # r /\ p # r
        <4>1. o \in InFlight \ met /\ p \in InFlight
          BY <2>1, <2>2, <2>3, <3>4
        <4> QED BY <4>1 DEF Overlap, Rivals
      <3> QED BY <3>2, <3>3, <3>4
    <2> QED BY <2>4, <2>5
  <1> QED BY <1>1, <1>2, Steps

(* Nobody touches what a request that met no other works on.               *)
LEMMA Untouched ==
  ASSUME TypeOK, NEW r \in Request, Shape(r), Overlap, Acts(r),
         NEW o \in Request \ {r}, o \in InFlight' \ met'
  PROVE  /\ o \in InFlight \ met
         /\ call'[o] = call[o] /\ answer'[o] = answer[o] /\ stage'[o] = stage[o]
         /\ row'[IdOf(o)] = row[IdOf(o)] /\ exchange'[IdOf(o)] = exchange[IdOf(o)]
         /\ bound'[IdOf(o)] = bound[IdOf(o)] /\ write'[UserOf(o)] = write[UserOf(o)]
  <1>1. /\ call'[o] = call[o] /\ answer'[o] = answer[o] /\ stage'[o] = stage[o]
        /\ met \subseteq met'
    BY Frame
  <1>2. o \in InFlight \ met
    BY <1>1 DEF InFlight, Working
  <1>3. CASE Client(r)
    BY <1>1, <1>2, <1>3, ClientMoves
  <1>4. CASE ~Client(r)
    <2>1. r \in InFlight
      BY <1>4, Actor
    <2>2. IdOf(r) # IdOf(o) /\ UserOf(r) # UserOf(o)
      BY <1>2, <2>1 DEF Overlap, Rivals
    <2> QED BY <1>1, <1>2, <2>2, Frame, Asks
  <1> QED BY <1>3, <1>4

(* What is known of faults and meetings only shrinks.                      *)
LEMMA Shrinks ==
  ASSUME TypeOK, NEW r \in Request, Shape(r), Acts(r), NEW id \in Id, NEW o \in Request,
         NEW u \in User
  PROVE  /\ Spared(o)' => Spared(o)
         /\ Whole(o)' => Whole(o)
         /\ Unbroken(id)' => Unbroken(id)
         /\ Expected(id)' => Expected(id)
         /\ Steady(id)' => Steady(id)
         /\ Alone(u)' => Alone(u)
  <1>1. met \subseteq met' /\ faults \subseteq faults'
    BY Frame
  <1> QED BY <1>1 DEF Spared, Whole, Unbroken, Expected, Steady, Alone

LEMMA Implied ==
  ASSUME NEW r \in Request
  PROVE  /\ Unbroken(IdOf(r)) => Whole(r) /\ Expected(IdOf(r))
         /\ Whole(r) => Spared(r)
         /\ Steady(IdOf(r)) => Spared(r) /\ Expected(IdOf(r))
  <1>1. Unbroken(IdOf(r)) => Whole(r) /\ Expected(IdOf(r))
    BY DEF Unbroken, Whole, Expected
  <1>2. Whole(r) => Spared(r)
    BY DEF Whole, Spared
  <1>3. Steady(IdOf(r)) => Spared(r) /\ Expected(IdOf(r))
    BY DEF Steady, Spared, Expected, Spoils
  <1> QED BY <1>1, <1>2, <1>3

(* A call that was not answered as hoped for.                              *)
LEMMA Losses ==
  ASSUME TypeOK, NEW r \in Request, Shape(r), requestAsync(r) \/ CallFails(r)
  PROVE  /\ Unbroken(IdOf(r))' \/ Whole(r)' =>
              Replied(r)
         /\ Expected(IdOf(r))' =>
              \/ Execute(r) /\ ~Refused(r) /\ ~Unpermitted(r) /\ Continue(r)
              \/ Fail(r) /\ (Execute(r) \/ UNCHANGED broker)
              \/ Hang(r) /\ (Execute(r) \/ UNCHANGED broker)
         /\ Spared(r)' \/ Steady(IdOf(r))' =>
              \/ Replied(r)
              \/ /\ Fail(r) /\ UNCHANGED broker /\ Kind(r) # "bind"
                 /\ ~(Registers(r) /\ Kind(r) = "deleteExchange")
  <1>1. \A kind \in {"requestLost", "replyLost", "unexpected"} : \A where :
          /\ <<kind, r, where>>[1] = kind /\ <<kind, r, where>>[2] = r
          /\ <<kind, r, where>>[3] = where
    OBVIOUS
  <1>2. ASSUME NEW kind \in {"replyLost", "unexpected"}, <<kind, r, Kind(r)>> \in faults'
        PROVE  ~Spared(r)' /\ ~Steady(IdOf(r))'
    BY <1>1, <1>2 DEF Spared, Steady, Spoils
  <1>3. ASSUME <<"requestLost", r, Kind(r)>> \in faults',
               Registers(r), Kind(r) \in {"bind", "deleteExchange"}
        PROVE  ~Spared(r)' /\ ~Steady(IdOf(r))'
    BY <1>1, <1>3 DEF Spared, Steady, Spoils
  <1>4. <<"unexpected", r, Kind(r)>> \in faults' => ~Expected(IdOf(r))'
    BY <1>1 DEF Expected
  <1>5. Kind(r) = "bind" => Registers(r)
    BY DEF Shape, DeleteShape
  <1>6. BindThrows(r) => Kind(r) = "bind" /\ Hang(r)
    BY DEF BindThrows
  <1>7. CASE Replied(r)
    BY <1>7 DEF Replied
  <1>8. CASE /\ Fail(r) \/ BindThrows(r)
             /\ UNCHANGED broker /\ ~Whole(r)' /\ ~Unbroken(IdOf(r))'
             /\ <<"requestLost", r, Kind(r)>> \in faults'
    BY <1>3, <1>5, <1>6, <1>8
  <1>9. CASE /\ Fail(r) \/ BindThrows(r)
             /\ Execute(r) /\ ~Whole(r)' /\ ~Unbroken(IdOf(r))'
             /\ <<"replyLost", r, Kind(r)>> \in faults'
    BY <1>2, <1>6, <1>9
  <1>10. CASE /\ \/ Fail(r) \/ Hang(r)
                 \/ Continue(r) /\ Kind(r) \in {"createExchange", "bind", "deleteExchange"}
              /\ UNCHANGED broker /\ ~Whole(r)' /\ ~Unbroken(IdOf(r))'
              /\ <<"unexpected", r, Kind(r)>> \in faults'
    BY <1>2, <1>4, <1>10
  <1> QED BY <1>7, <1>8, <1>9, <1>10, CallMoves

-----------------------------------------------------------------------------
(* Users.                                                                  *)

(* How RabbitMQ comes to know a user, and to give a permission.            *)
LEMMA Permits ==
  ASSUME TypeOK, NEW r \in Request, Shape(r), Known(r), Writers, Acts(r)
  PROVE  /\ permitted' # permitted =>
              /\ Kind(r) = "putVhost" /\ permitted' = permitted \cup {UserOf(r)}
              /\ UserOf(r) \in users /\ Registers(r) /\ r \in InFlight /\ ~Client(r)
         /\ users \subseteq users' /\ permitted \subseteq permitted'
  <1>1. users \subseteq users' /\ permitted \subseteq permitted'
    BY Frame
  <1>2. ASSUME permitted' # permitted
        PROVE  /\ Kind(r) = "putVhost" /\ permitted' = permitted \cup {UserOf(r)}
               /\ UserOf(r) \in users /\ Registers(r) /\ r \in InFlight /\ ~Client(r)
    <2>1. ~Client(r)
      BY <1>2, ClientMoves
    <2>2. requestAsync(r) \/ CallFails(r)
      BY <1>2, <2>1, StatementMoves, QueryFailsMoves, ReplyMoves DEF Acts
    <2>3. /\ permitted' = permitted \cup {UserOf(r)}
          /\ Kind(r) \in {"putVhost", "putPermissions"}
      BY <1>2, <2>2, CallMoves, Executed
    <2>4. Kind(r) = "putVhost"
      BY <1>2, <2>3 DEF Known
    <2>5. r \in InFlight
      BY <2>1, Actor
    <2>6. Registers(r)
      BY <2>4 DEF Shape, DeleteShape, Making, UserKind
    <2> QED BY <2>1, <2>3, <2>4, <2>5, <2>6 DEF Known
  <1> QED BY <1>1, <1>2

(* A user stays without a permission, or another register met this one.    *)
LEMMA StrandedStays ==
  ASSUME TypeOK, NEW r \in Request, Shape(r), Overlap, Users, Acts(r),
         NEW x \in Request, Stranded(x), Registers(x), Kind(x) \notin Making,
         x \in InFlight \/ exchange[IdOf(x)] = x
  PROVE  Stranded(x)'
  <1>1. met \subseteq met'
    BY Frame
  <1>2. CASE UserOf(x) \notin permitted'
    BY <1>2 DEF Stranded
  <1>3. CASE UserOf(x) \in permitted /\ UserOf(x) \in permitted'
    BY <1>1, <1>3 DEF Stranded
  <1>4. CASE UserOf(x) \notin permitted /\ UserOf(x) \in permitted'
    <2>1. /\ Kind(r) = "putVhost" /\ UserOf(x) = UserOf(r)
          /\ Registers(r) /\ r \in InFlight
      BY <1>4, Permits DEF Users
    <2>2. r # x
      BY <2>1 DEF Making, UserKind
    <2>3. r \in met /\ x \in met
      <3>1. CASE x \in InFlight
        <4>1. r \in Rivals(x) /\ x \in Rivals(r)
          BY <2>1, <2>2, <3>1 DEF Rivals
        <4> QED BY <2>1, <3>1, <4>1 DEF Overlap
      <3>2. CASE exchange[IdOf(x)] = x
        BY <2>1, <3>2, Asks DEF Users, Makes
      <3> QED BY <3>1, <3>2
    <2> QED BY <1>1, <2>1, <2>2, <2>3 DEF Stranded
  <1> QED BY <1>2, <1>3, <1>4

LEMMA KnownStep ==
  ASSUME TypeOK, \A r \in Request : Shape(r) /\ Known(r), Writers, [Next]_vars, NEW o \in Request
  PROVE  Known(o)'
  <1>1. CASE Reset
    BY <1>1 DEF Reset, Known, Kind
  <1>2. ASSUME NEW r \in Request, Acts(r), r # o PROVE Known(o)'
    BY <1>2, Frame DEF Known, Kind
  <1>3. ASSUME Acts(o) PROVE Known(o)'
    <2>0. users \subseteq users' /\ permitted \subseteq permitted' /\ permitted \subseteq users
      BY <1>3, Frame DEF Writers
    <2>1. CASE requestAsync(o) \/ CallFails(o)
      <3>1. CASE Execute(o) /\ ~Refused(o) /\ ~Unpermitted(o) /\ Continue(o)
        <4>1. Kind(o) # "none" /\ Kind(o) \in CallKind
          BY <2>1, CallMoves, Updated
        <4>2. CASE Kind(o) \in UserKind
          <5>1. CASE Kind(o) = "putUser"
            BY <3>1, <4>1, <5>1, Continued, Executed DEF Known, Kind, Created, Permissions
          <5>2. CASE Kind(o) # "putUser"
            BY <2>0, <3>1, <4>1, <4>2, <5>2, Continued
               DEF Known, Kind, Created, Permissions, UserKind
          <5> QED BY <5>1, <5>2
        <4>3. CASE Kind(o) = "getPermissions"
          <5>1. UserOf(o) \in permitted
            BY <3>1, <4>3 DEF Refused, Unpermitted
          <5> QED BY <2>0, <3>1, <4>1, <4>3, <5>1, Continued DEF Known, Kind, Created, Permissions
        <4>4. CASE Kind(o) \in {"createExchange", "putPermissions", "bind"}
          BY <2>0, <3>1, <4>1, <4>4, Continued, NoCallType DEF Known, Kind, Created, Permissions
        <4>5. CASE Kind(o) \in {"getExchange", "deleteExchange"}
          <5>1. Registers(o) => Kind(o) = "deleteExchange"
            BY <4>5 DEF Shape, RegisterShape
          <5> QED BY <2>0, <3>1, <4>1, <4>5, <5>1, Continued, NoCallType
                  DEF Known, Kind, Created, Permissions
        <4> QED BY <4>1, <4>2, <4>3, <4>4, <4>5 DEF CallKind
      <3>2. CASE Fail(o) \/ Hang(o)
        BY <3>2, Failed, Hung, NoCallType DEF Known, Kind, Created, Permissions
      <3>3. CASE Continue(o) /\ Kind(o) \in {"createExchange", "bind", "deleteExchange"}
        <4>1. Kind(o) # "deleteExchange" => Registers(o)
          BY <3>3 DEF Shape, DeleteShape, Making
        <4> QED BY <2>0, <3>3, <4>1, Continued, NoCallType DEF Known, Kind, Created, Permissions
      <3> QED BY <2>1, <3>1, <3>2, <3>3, Outcomes
    <2>2. CASE ~(requestAsync(o) \/ CallFails(o))
      <3>1. call'[o] = call[o] \/ call'[o].kind \in {"getExchange", "getUser"}
        BY <1>3, <2>2, ClientMoves, StatementMoves, QueryFailsMoves, ReplyMoves DEF Acts
      <3> QED BY <2>0, <3>1 DEF Known, Kind, Created, Permissions
    <2> QED BY <2>1, <2>2
  <1> QED BY <1>1, <1>2, <1>3, Steps

LEMMA WritersStep ==
  ASSUME TypeOK, \A r \in Request : Shape(r) /\ Known(r), Writers, [Next]_vars
  PROVE  Writers'
  <1>1. CASE Reset
    BY <1>1 DEF Reset, Writers
  <1>2. ASSUME NEW r \in Request, Acts(r) PROVE Writers'
    <2>1. /\ users \subseteq users' /\ permitted \subseteq permitted'
          /\ permitted' # permitted =>
               permitted' = permitted \cup {UserOf(r)} /\ UserOf(r) \in users
      BY <1>2, Permits
    <2>2. ASSUME NEW u \in User, write'[u] # {} PROVE u \in permitted'
      <3>1. CASE write'[u] = write[u]
        BY <2>1, <2>2, <3>1 DEF Writers
      <3>2. CASE write'[u] # write[u]
        <4>1. UserOf(r) = u
          BY <1>2, <3>2, Frame
        <4>2. requestAsync(r) \/ CallFails(r)
          BY <1>2, <3>2, ClientMoves, StatementMoves, QueryFailsMoves, ReplyMoves DEF Acts
        <4>3. Kind(r) = "putPermissions"
          BY <2>2, <3>2, <4>1, <4>2, CallMoves, Executed DEF broker
        <4> QED BY <2>1, <4>1, <4>3 DEF Known
      <3> QED BY <3>1, <3>2
    <2> QED BY <2>1, <2>2 DEF Writers
  <1> QED BY <1>1, <1>2, Steps

LEMMA MakesStep ==
  ASSUME TypeOK, \A r \in Request : Shape(r) /\ Known(r) /\ Makes(r), Overlap, [Next]_vars,
         \A id \in Id : Made(id), NEW o \in Request
  PROVE  Makes(o)'
  <1>1. CASE Reset
    BY <1>1 DEF Reset, Makes, Kind
  <1>2. ASSUME NEW r \in Request, Acts(r) PROVE Makes(o)'
    <2> SUFFICES ASSUME call'[o].kind = "putVhost", NEW id \in Id, exchange'[id] # None,
                        UserOf(exchange'[id]) = UserOf(o)
                 PROVE  o \in met' /\ exchange'[id] \in met'
      BY DEF Makes, Kind
    <2>1. met \subseteq met'
      BY <1>2, Frame
    <2>2. CASE exchange'[id] = exchange[id] /\ Kind(o) = "putVhost"
      BY <2>1, <2>2 DEF Makes
    <2>3. CASE exchange'[id] # exchange[id]
      <3>1. requestAsync(r) \/ CallFails(r)
        BY <1>2, <2>3, ClientMoves, StatementMoves, QueryFailsMoves, ReplyMoves DEF Acts
      <3>2. Kind(r) = "createExchange" /\ exchange'[id] = r
        <4>1. IdOf(r) = id
          BY <1>2, <2>3, Frame
        <4> QED BY <2>3, <3>1, <4>1, CallMoves, Executed DEF broker
      <3>3. o # r
        <4>1. Continue(r) \/ call'[r].kind \in {"none", "deleteExchange"}
          BY <3>1, CallMoves, Failed, Hung, NoCallType
        <4>2. call'[r].kind # "putVhost"
          BY <3>2, <4>1, Continued
        <4> QED BY <4>2
      <3>4. Kind(o) = "putVhost"
        BY <1>2, <3>3, Frame DEF Kind
      <3>5. o \in InFlight /\ r \in InFlight
        BY <3>2, <3>4, NoCallType DEF InFlight, Working, Kind
      <3>6. o \in Rivals(r) /\ r \in Rivals(o)
        BY <3>2, <3>3, <3>5 DEF Rivals
      <3> QED BY <2>1, <3>2, <3>5, <3>6 DEF Overlap
    <2>4. CASE exchange'[id] = exchange[id] /\ Kind(o) # "putVhost"
      <3>1. o = r
        BY <1>2, <2>4, Frame DEF Kind
      <3>2. requestAsync(r) \/ CallFails(r)
        BY <1>2, <2>4, <3>1, ClientMoves, StatementMoves, QueryFailsMoves, ReplyMoves DEF Acts, Kind
      <3>3. ~Refused(r) /\ Kind(r) = "putUser"
        <4>1. ~(Fail(r) \/ Hang(r))
          BY <3>1, Failed, Hung, NoCallType
        <4>2. Continue(r)
          BY <3>2, <4>1, Outcomes
        <4>3. Kind(r) = "putUser"
          BY <2>4, <3>1, <3>2, <4>2, Continued, CallMoves, Updated, NoCallType
             DEF CallKind, UserKind
        <4> QED BY <3>2, <4>1, <4>3, Outcomes
      <3>4. UserOf(r) \notin users
        BY <3>3 DEF Refused
      <3> QED BY <2>4, <3>1, <3>4 DEF Made
    <2> QED BY <2>2, <2>3, <2>4
  <1> QED BY <1>1, <1>2, Steps

-----------------------------------------------------------------------------
(* The chain of a request keeps its shape.                                 *)

LEMMA ShapeStep ==
  ASSUME TypeOK, \A r \in Request : Shape(r), [Next]_vars, NEW o \in Request
  PROVE  Shape(o)'
  <1>1. CASE Reset
    BY <1>1 DEF Reset, Shape, RegisterShape, DeleteShape, Kind
  <1>2. ASSUME NEW r \in Request, Acts(r), r # o PROVE Shape(o)'
    BY <1>2, Frame DEF Shape, RegisterShape, DeleteShape, Kind
  <1>3. ASSUME Acts(o) PROVE Shape(o)'
    <2> DEFINE k == call'[o].kind
    <2>0. /\ Kind(o) = "none" => call[o] = NoCall
          /\ Kind(o) = "bind" => call[o].n \in 1..Bindings
          /\ Registers(o) => RegisterShape(o)
          /\ ~Registers(o) => DeleteShape(o)
      BY DEF Shape
    <2>1. CASE Client(o)
      <3>1. CASE Registers(o)
        <4>1. call' = call /\ answer' = answer /\ stage[o] = "new" /\ stage'[o] \in {"row", "fail"}
          BY <2>1, <3>1, ClientMoves
        <4> QED BY <2>0, <3>1, <4>1 DEF Shape, RegisterShape, Kind
      <3>2. CASE ~Registers(o)
        <4>1. /\ k = "getExchange" /\ answer'[o] = "none" /\ stage'[o] = "broker"
          BY <2>0, <2>1, <3>2, ClientMoves DEF DeleteShape
        <4> QED BY <3>2, <4>1 DEF Shape, DeleteShape, Kind, Permissions, Making, UserKind
      <3> QED BY <3>1, <3>2
    <2>2. CASE requestAsync(o) \/ CallFails(o)
      <3>1. stage'[o] = stage[o] /\ Kind(o) # "none" /\ (Fail(o) \/ Hang(o) \/ Continue(o))
        BY <2>2, CallMoves
      <3>2. CASE Fail(o)
        <4>1. CASE Registers(o)
          BY <2>0, <3>1, <3>2, <4>1, Failed, NoCallType, AdaptorAssumption
             DEF Shape, RegisterShape, Kind, Created, Permissions
        <4>2. CASE ~Registers(o)
          BY <2>0, <3>1, <3>2, <4>2, Failed, NoCallType
             DEF Shape, DeleteShape, Kind, Created, Permissions, Making, UserKind
        <4> QED BY <4>1, <4>2
      <3>3. CASE Hang(o)
        <4>1. CASE Registers(o)
          BY <2>0, <3>1, <3>3, <4>1, Hung, NoCallType DEF Shape, RegisterShape, Kind
        <4>2. CASE ~Registers(o)
          BY <2>0, <3>1, <3>3, <4>2, Hung, NoCallType 
             DEF Shape, DeleteShape, Kind, Permissions, Making, UserKind
        <4> QED BY <4>1, <4>2
      <3>4. CASE Continue(o)
        <4>1. Chained(o) /\ Kind(o) \in CallKind
          BY <3>1, <3>4, Continued, Updated
        <4>2. CASE Registers(o)
          <5>1. Kind(o) \in Making \cup Created \cup {"deleteExchange"}
            BY <2>0, <3>1, <4>1, <4>2 DEF CallKind, RegisterShape, Making, Created, Permissions
          <5>2. stage[o] \notin {"new", "row"} /\ stage[o] # "deleteRow"
            BY <2>0, <3>1, <4>2 DEF RegisterShape
          <5>3. Kind(o) # "deleteExchange" => answer[o] = "none"
            BY <2>0, <3>1, <4>2 DEF RegisterShape, TypeOK
          <5>4. 1 \in 1..Bindings
            BY AdaptorAssumption
          <5>5. CASE Kind(o) \in Making
            <6>1. call'[o].kind \in Making \cup {"getPermissions"} /\ answer'[o] = "none"
              BY <3>1, <3>4, <5>3, <5>5, Continued DEF Making, UserKind
            <6> QED BY <3>1, <4>2, <5>2, <6>1 DEF Shape, RegisterShape, Kind, Making, UserKind
          <5>6. CASE Kind(o) \in Created \cup {"deleteExchange"}
            BY <2>0, <3>1, <3>4, <4>2, <5>2, <5>3, <5>4, <5>6, Continued, NoCallType
               DEF Shape, RegisterShape, Kind, Created, Permissions
          <5> QED BY <5>1, <5>5, <5>6
        <4>3. CASE ~Registers(o)
          <5>1. Kind(o) \in {"getPermissions", "putPermissions", "getExchange", "deleteExchange"}
            BY <2>0, <3>1, <4>1, <4>3 DEF CallKind, DeleteShape, Making
          <5>2. stage[o] \notin {"new", "row", "undoRow"}
            BY <2>0, <3>1, <4>3 DEF DeleteShape
          <5> QED BY <2>0, <3>1, <3>4, <4>3, <5>1, <5>2, Continued, NoCallType
                  DEF Shape, DeleteShape, Kind, Permissions, Making, UserKind
        <4> QED BY <4>2, <4>3
      <3> QED BY <3>1, <3>2, <3>3, <3>4
    <2>3. CASE OnStatement(o)
      <3>1. CASE Registers(o)
        BY <2>0, <2>3, <3>1, StatementMoves DEF Shape, RegisterShape, Kind
      <3>2. CASE ~Registers(o)
        BY <2>0, <2>3, <3>2, StatementMoves DEF Shape, DeleteShape, Kind
      <3> QED BY <3>1, <3>2
    <2>4. CASE QueryFails(o)
      <3>1. CASE Registers(o)
        BY <2>0, <2>4, <3>1, QueryFailsMoves DEF Shape, RegisterShape, Kind
      <3>2. CASE ~Registers(o)
        BY <2>0, <2>4, <3>2, QueryFailsMoves DEF Shape, DeleteShape, Kind
      <3> QED BY <3>1, <3>2
    <2>5. CASE OnBroker(o) \/ BrokerTimesOut(o)
      <3>1. CASE Registers(o)
        BY <2>0, <2>5, <3>1, ReplyMoves DEF Shape, RegisterShape, Kind
      <3>2. CASE ~Registers(o)
        BY <2>0, <2>5, <3>2, ReplyMoves DEF Shape, DeleteShape, Kind
      <3> QED BY <3>1, <3>2
    <2> QED BY <1>3, <2>1, <2>2, <2>3, <2>4, <2>5 DEF Acts
  <1> QED BY <1>1, <1>2, <1>3, Steps

LEMMA SparedShapeStep ==
  ASSUME TypeOK, \A r \in Request : Shape(r) /\ SparedShape(r), Overlap, Users, [Next]_vars,
         NEW o \in Request
  PROVE  SparedShape(o)'
  <1>1. CASE Reset
    BY <1>1 DEF Reset, SparedShape, Spared, Stranded, Kind
  <1>a. ASSUME NEW r \in Request, Acts(r), Stranded(o), Registers(o), Kind(o) = "none",
               stage[o] \in {"broker", "undoRow"}
        PROVE  Stranded(o)'
    <2>1. o \in InFlight
      BY <1>a DEF InFlight, Working, Waiting
    <2>2. Kind(o) \notin Making
      BY <1>a DEF Making, UserKind
    <2> QED BY <1>a, <2>1, <2>2, StrandedStays
  <1>2. ASSUME NEW r \in Request, Acts(r), r # o PROVE SparedShape(o)'
    <2> SUFFICES ASSUME Spared(o)' PROVE SparedShape(o)'
      BY DEF SparedShape
    <2>1. /\ call'[o] = call[o] /\ answer'[o] = answer[o] /\ stage'[o] = stage[o]
          /\ SparedShape(o) /\ Spared(o)
      BY <1>2, Frame, Shrinks, Asks
    <2>2. stage[o] = "undoRow" /\ answer[o] = "none" =>
            Registers(o) /\ Kind(o) = "none" /\ Stranded(o)
      BY <2>1 DEF SparedShape, Shape, DeleteShape
    <2>3. stage[o] = "broker" /\ answer[o] = "none" /\ Kind(o) = "none" =>
            Registers(o) /\ Stranded(o)
      BY <2>1 DEF SparedShape
    <2>4. /\ stage[o] = "undoRow" /\ answer[o] = "none" => Stranded(o)'
          /\ stage[o] = "broker" /\ answer[o] = "none" /\ Kind(o) = "none" => Stranded(o)'
      BY <1>2, <1>a, <2>2, <2>3
    <2> QED BY <2>1, <2>4 DEF SparedShape, Kind
  <1>3. ASSUME Acts(o) PROVE SparedShape(o)'
    <2> SUFFICES ASSUME Spared(o)' PROVE SparedShape(o)'
      BY DEF SparedShape
    <2>0. /\ Spared(o)
          /\ stage[o] = "broker" /\ answer[o] = "none" /\ Kind(o) = "none" =>
               Registers(o) /\ Stranded(o)
          /\ answer[o] = "none" /\ Kind(o) # "none" => stage[o] = "broker"
          /\ stage[o] = "undoRow" => answer[o] = "fail" \/ (answer[o] = "none" /\ Stranded(o))
          /\ Registers(o) /\ answer[o] = "ok" => stage[o] \in {"broker", "ok"}
          /\ ~Registers(o) /\ answer[o] = "ok" => stage[o] \in {"broker", "deleteRow", "ok"}
      BY <1>3, Shrinks, Asks DEF SparedShape
    <2>s. Shape(o) /\ answer[o] \in {"none", "ok", "fail"}
      BY DEF TypeOK
    <2>1. CASE Client(o)
      <3>1. Kind(o) = "none" /\ answer[o] = "none"
        BY <2>s, <2>1, ClientMoves DEF Shape, RegisterShape, DeleteShape
      <3> QED BY <2>1, <3>1, ClientMoves DEF SparedShape, Kind
    <2>2. CASE requestAsync(o) \/ CallFails(o)
      <3>1. stage'[o] = stage[o] /\ Kind(o) # "none"
        BY <2>2, CallMoves
      <3>2. Fail(o) \/ Continue(o) \/ (Hang(o) /\ Unpermitted(o) /\ Execute(o))
        BY <2>2, Losses DEF Replied
      <3>3. CASE Fail(o)
        <4>1. answer'[o] # "none"
          BY <2>s, <3>3, Failed
        <4>2. stage[o] = "undoRow" => answer'[o] = "fail"
          BY <2>0, <2>s, <3>1, <3>3, Failed
        <4>3. answer'[o] = "ok" => answer[o] = "ok"
          BY <2>s, <3>3, Failed
        <4> QED BY <2>0, <3>1, <4>1, <4>2, <4>3 DEF SparedShape, Kind
      <3>4. CASE Continue(o)
        <4>1. Kind(o) \in CallKind
          BY Updated
        <4>2. CASE Registers(o)
          <5>1. Kind(o) \in Making \cup Created => answer[o] = "none"
            BY <2>s, <4>2 DEF Shape, RegisterShape, Making, UserKind, Created, Permissions
          <5>2. Kind(o) = "deleteExchange" => answer[o] = "fail"
            BY <2>s, <4>2 DEF Shape, RegisterShape
          <5>3. Kind(o) # "getExchange"
            BY <2>s, <4>2 DEF Shape, RegisterShape
          <5>4. CASE Kind(o) = "deleteExchange"
            BY <2>0, <2>s, <3>1, <3>4, <4>2, <5>2, <5>4, Continued, NoCallType
               DEF SparedShape, Kind
          <5>5. CASE Kind(o) # "deleteExchange"
            <6>1. answer[o] = "none" /\ stage[o] = "broker"
              BY <2>0, <3>1, <4>1, <5>1, <5>3, <5>5
                 DEF CallKind, Making, UserKind, Created, Permissions
            <6>2. answer'[o] = "ok" \/ (answer'[o] = "none" /\ call'[o].kind # "none")
              <7>1. CASE Kind(o) \in UserKind
                BY <2>s, <3>1, <3>4, <6>1, <7>1, Continued DEF Making, UserKind
              <7>2. CASE Kind(o) \notin UserKind
                BY <2>s, <3>1, <3>4, <4>1, <4>2, <5>3, <5>5, <6>1, <7>2, Continued DEF CallKind
              <7> QED BY <7>1, <7>2
            <6> QED BY <3>1, <4>2, <6>1, <6>2 DEF SparedShape, Kind
          <5> QED BY <5>4, <5>5
        <4>3. CASE ~Registers(o)
          <5>1. /\ Kind(o) \in {"getExchange", "deleteExchange"} => answer[o] = "none"
                /\ Kind(o) \in Permissions => answer[o] = "ok"
                /\ Kind(o) \in {"getExchange", "deleteExchange"} \cup Permissions
                /\ stage[o] # "undoRow"
            BY <2>s, <3>1, <4>1, <4>3 DEF Shape, DeleteShape, CallKind, Permissions, Making
          <5>2. CASE Kind(o) \in Permissions
            <6>1. answer'[o] = "ok"
              BY <2>s, <3>1, <3>4, <4>3, <5>1, <5>2, Continued DEF Permissions
            <6> QED BY <2>0, <3>1, <4>3, <5>1, <5>2, <6>1 DEF SparedShape
          <5>3. CASE Kind(o) \in {"getExchange", "deleteExchange"}
            <6>1. stage[o] = "broker"
              BY <2>0, <3>1, <5>1, <5>3
            <6>2. answer'[o] = "ok" \/ (answer'[o] = "none" /\ call'[o].kind # "none")
              BY <2>s, <3>1, <3>4, <4>3, <5>1, <5>3, Continued
            <6> QED BY <3>1, <4>3, <6>1, <6>2 DEF SparedShape, Kind
          <5> QED BY <5>1, <5>2, <5>3
        <4> QED BY <4>2, <4>3
      <3>5. CASE Hang(o) /\ Unpermitted(o) /\ Execute(o)
        <4>1. /\ Kind(o) = "getPermissions" /\ UserOf(o) \notin permitted
              /\ call'[o].kind = "none" /\ answer'[o] = answer[o]
          BY <3>5, Hung, NoCallType DEF Unpermitted
        <4>2. UserOf(o) \notin permitted'
          BY <2>s, <3>5, <4>1, Executed
        <4>3. ~Registers(o) => answer[o] = "ok"
          BY <2>s, <4>1 DEF Shape, DeleteShape, Permissions
        <4>4. Registers(o) => answer[o] = "none" /\ stage[o] = "broker"
          BY <2>0, <2>s, <4>1 DEF Shape, RegisterShape
        <4>5. CASE Registers(o)
          BY <3>1, <4>1, <4>2, <4>4, <4>5 DEF SparedShape, Stranded, Kind
        <4>6. CASE ~Registers(o)
          BY <2>0, <3>1, <4>1, <4>3, <4>6 DEF SparedShape, Kind
        <4> QED BY <4>5, <4>6
      <3> QED BY <3>2, <3>3, <3>4, <3>5
    <2>3. CASE OnStatement(o)
      <3>1. CASE stage[o] = "row"
        <4>1. Kind(o) = "none" /\ answer[o] = "none"
          BY <2>s, <3>1 DEF Shape, RegisterShape, DeleteShape
        <4> QED BY <2>3, <3>1, <4>1, StatementMoves DEF SparedShape, Kind
      <3>2. CASE stage[o] = "undoRow"
        BY <2>0, <2>3, <3>2, StatementMoves DEF SparedShape, Kind
      <3>3. CASE stage[o] = "deleteRow"
        <4>1. answer[o] = "ok"
          BY <2>s, <3>3 DEF Shape, RegisterShape, DeleteShape
        <4> QED BY <2>3, <3>3, <4>1, StatementMoves DEF SparedShape
      <3> QED BY <2>3, <3>1, <3>2, <3>3 DEF OnStatement
    <2>4. CASE QueryFails(o)
      BY <2>4, QueryFailsMoves
    <2>5. CASE OnBroker(o) \/ BrokerTimesOut(o)
      <3>1. answer[o] = "none" /\ call[o] = NoCall => Registers(o) /\ Stranded(o)'
        BY <1>3, <1>a, <2>0, <2>5, ReplyMoves, NoCallType DEF Kind
      <3>2. call'[o] = call[o] /\ answer'[o] = answer[o] /\ stage[o] = "broker"
        BY <2>5, ReplyMoves
      <3>3. CASE answer[o] = "ok"
        BY <2>0, <2>5, <3>2, <3>3, ReplyMoves DEF SparedShape
      <3>4. CASE answer[o] = "fail"
        BY <2>0, <2>5, <3>2, <3>4, ReplyMoves DEF SparedShape
      <3>5. CASE answer[o] = "none"
        <4>1. stage'[o] = "undoRow" /\ Stranded(o)' /\ call'[o] = NoCall
          BY <2>5, <3>1, <3>2, <3>5, ReplyMoves
        <4> QED BY <3>2, <3>5, <4>1, NoCallType DEF SparedShape, Kind
      <3> QED BY <2>s, <3>3, <3>4, <3>5
    <2> QED BY <1>3, <2>1, <2>2, <2>3, <2>4, <2>5 DEF Acts
  <1> QED BY <1>1, <1>2, <1>3, Steps

LEMMA WholeShapeStep ==
  ASSUME TypeOK, \A r \in Request : Shape(r) /\ WholeShape(r) /\ Known(r), [Next]_vars,
         NEW o \in Request
  PROVE  WholeShape(o)'
  <1>1. CASE Reset
    BY <1>1 DEF Reset, WholeShape, Whole, Kind
  <1>2. ASSUME NEW r \in Request, Acts(r), r # o PROVE WholeShape(o)'
    BY <1>2, Frame, Shrinks, Asks DEF WholeShape, Kind
  <1>3. ASSUME Acts(o) PROVE WholeShape(o)'
    <2> SUFFICES ASSUME Whole(o)', Registers(o) PROVE call'[o].kind # "deleteExchange"
      BY DEF WholeShape, Kind
    <2>0. Kind(o) # "deleteExchange" /\ Kind(o) # "getExchange"
      BY <1>3, Shrinks, Asks DEF WholeShape, Shape, RegisterShape
    <2>1. CASE requestAsync(o) \/ CallFails(o)
      <3>1. (Refused(o) /\ Fail(o)) \/ Hang(o) \/ Continue(o)
        BY <2>1, Losses DEF Replied
      <3>2. CASE Refused(o) /\ Fail(o)
        <4>1. Kind(o) \in {"createExchange", "putUser", "putVhost"}
          BY <2>0, <3>2 DEF Refused, Known, Created, Permissions
        <4> QED BY <3>2, <4>1, Failed, NoCallType DEF Created, Permissions
      <3>3. CASE Continue(o)
        <4>1. Kind(o) # "none" /\ Kind(o) \in CallKind
          BY <2>1, CallMoves, Updated
        <4>2. CASE Kind(o) \in UserKind
          BY <3>3, <4>1, <4>2, Continued DEF Making, UserKind
        <4>3. CASE Kind(o) \notin UserKind
          BY <2>0, <3>3, <4>1, <4>3, Continued, NoCallType DEF CallKind
        <4> QED BY <4>2, <4>3
      <3>4. CASE Hang(o)
        BY <3>4, Hung, NoCallType
      <3> QED BY <3>1, <3>2, <3>3, <3>4
    <2>2. CASE ~(requestAsync(o) \/ CallFails(o))
      BY <1>3, <2>0, <2>2, ClientMoves, StatementMoves, QueryFailsMoves, ReplyMoves DEF Acts, Kind
    <2> QED BY <2>1, <2>2
  <1> QED BY <1>1, <1>2, <1>3, Steps

LEMMA MadeStep ==
  ASSUME TypeOK, \A r \in Request : Shape(r) /\ Known(r), [Next]_vars, NEW id \in Id, Made(id)
  PROVE  Made(id)'
  <1>1. CASE Reset
    BY <1>1 DEF Reset, Made, Kind
  <1>2. ASSUME NEW r \in Request, Acts(r) PROVE Made(id)'
    <2>0. TypeOK'
      BY TypesStep
    <2>a. users \subseteq users'
      BY <1>2, Frame
    <2>1. CASE IdOf(r) # id
      <3>1. \A o \in Of(id) : call'[o] = call[o] /\ stage'[o] = stage[o]
        BY <1>2, <2>1, Frame DEF Of
      <3>2. row'[id] = row[id] /\ exchange'[id] = exchange[id]
        BY <1>2, <2>1, Frame
      <3> QED BY <2>a, <3>1, <3>2 DEF Made, Kind
    <2>2. CASE IdOf(r) = id
      <3>1. row'[id] \in {row[id], None} \/ (row'[id] = r /\ stage[r] = "row")
        BY <1>2, <2>2, ClientMoves, CallMoves, StatementMoves, QueryFailsMoves, ReplyMoves
           DEF Acts
      <3>2. exchange'[id] \in {exchange[id], None}
              \/ (exchange'[id] = r /\ Kind(r) = "createExchange")
        <4>1. CASE requestAsync(r) \/ CallFails(r)
          BY <2>2, <4>1, CallMoves, Executed DEF broker
        <4>2. CASE ~(requestAsync(r) \/ CallFails(r))
          BY <1>2, <2>2, <4>2, ClientMoves, StatementMoves, QueryFailsMoves, ReplyMoves DEF Acts
        <4> QED BY <4>1, <4>2
      <3>3. stage[r] = "row" \/ Kind(r) = "createExchange" => Registers(r)
        BY DEF Shape, DeleteShape, Making
      <3>4. ASSUME NEW x \in Request, stage[x] \notin {"new", "row"}, Kind(x) \notin Making
            PROVE  stage'[x] \notin {"new", "row"} /\ call'[x].kind \notin Making
        <4>1. CASE x # r
          BY <1>2, <3>4, <4>1, Frame DEF Kind
        <4>2. CASE x = r /\ (requestAsync(r) \/ CallFails(r))
          <5>1. /\ stage'[r] = stage[r] /\ Kind(r) # "none" /\ Kind(r) \in CallKind
                /\ Fail(r) \/ Hang(r) \/ Continue(r)
            BY <4>2, CallMoves, Updated
          <5>2. CASE Fail(r) \/ Hang(r)
            BY <3>4, <4>2, <5>1, <5>2, Failed, Hung, NoCallType DEF Making, UserKind
          <5>3. CASE Continue(r)
            BY <3>4, <4>2, <5>1, <5>3, Continued, NoCallType DEF CallKind, Making, UserKind
          <5> QED BY <5>1, <5>2, <5>3
        <4>3. CASE x = r /\ ~(requestAsync(r) \/ CallFails(r))
          BY <1>2, <3>4, <4>3, ClientMoves, StatementMoves, QueryFailsMoves, ReplyMoves
             DEF Acts, Kind
        <4> QED BY <4>1, <4>2, <4>3
      <3>5. ASSUME exchange'[id] = r, exchange[id] # r
            PROVE  /\ Registers(r) /\ UserOf(r) \in users'
                   /\ stage'[r] \notin {"new", "row"} /\ call'[r].kind \notin Making
        <4>1. Kind(r) = "createExchange" /\ Registers(r)
          BY <3>2, <3>3, <3>5, Asks
        <4>2. requestAsync(r) \/ CallFails(r)
          BY <1>2, <3>5, ClientMoves, StatementMoves, QueryFailsMoves, ReplyMoves DEF Acts
        <4>3. stage'[r] = stage[r] /\ (Fail(r) \/ Hang(r) \/ Continue(r))
          BY <4>2, CallMoves
        <4>4. stage[r] \notin {"new", "row"}
          BY <4>1 DEF Shape, RegisterShape
        <4>5. call'[r].kind \notin Making
          BY <4>1, <4>3, Failed, Hung, Continued, NoCallType
             DEF Making, UserKind, Created, Permissions
        <4> QED BY <2>a, <4>1, <4>3, <4>4, <4>5 DEF Known
      <3>6. exchange[id] # None =>
              /\ exchange[id] \in Of(id) /\ Registers(exchange[id])
              /\ UserOf(exchange[id]) \in users'
              /\ stage'[exchange[id]] \notin {"new", "row"}
              /\ call'[exchange[id]].kind \notin Making
        BY <2>a, <3>4 DEF Made, Of
      <3>7. r \in Of(id)
        BY <2>2 DEF Of
      <3> QED BY <3>1, <3>2, <3>3, <3>5, <3>6, <3>7 DEF Made, Kind
    <2> QED BY <2>1, <2>2
  <1> QED BY <1>1, <1>2, Steps

-----------------------------------------------------------------------------
(* A request that met no other.                                            *)

LEMMA ViewStep ==
  ASSUME TypeOK, \A r \in Request : Shape(r) /\ View(r), Overlap, [Next]_vars, NEW o \in Request
  PROVE  View(o)'
  <1>1. CASE Reset
    BY <1>1 DEF Reset, View, Kind, InFlight, Working, getUpdatedPermission
  <1>2. ASSUME NEW r \in Request, Acts(r), r # o PROVE View(o)'
    <2> SUFFICES ASSUME o \in InFlight' \ met', call'[o].kind = "putPermissions"
                 PROVE  call'[o].view = getUpdatedPermission(o)'
      BY DEF View, Kind
    <2>1. /\ o \in InFlight \ met /\ call'[o] = call[o]
          /\ write'[UserOf(o)] = write[UserOf(o)]
      BY <1>2, Untouched
    <2>2. call[o].view = getUpdatedPermission(o)
      BY <2>1 DEF View, Kind
    <2> QED BY <2>1, <2>2 DEF getUpdatedPermission
  <1>3. ASSUME Acts(o) PROVE View(o)'
    <2> SUFFICES ASSUME o \in InFlight' \ met', call'[o].kind = "putPermissions"
                 PROVE  call'[o].view = getUpdatedPermission(o)'
      BY DEF View, Kind
    <2>0. UserOf(o) \in User
      BY Asks
    <2>1. CASE Client(o)
      <3>1. Kind(o) = "none"
        BY <2>1, ClientMoves DEF Shape, RegisterShape, DeleteShape
      <3> QED BY <2>1, <3>1, ClientMoves DEF Kind
    <2>2. CASE requestAsync(o) \/ CallFails(o)
      <3>1. Kind(o) # "none" /\ (Execute(o) \/ UNCHANGED broker)
            /\ (Fail(o) \/ Hang(o) \/ Continue(o))
        BY <2>2, CallMoves
      <3>2. Continue(o)
        BY <3>1, Failed, Hung, NoCallType
      <3>3. Kind(o) = "getPermissions" /\ call'[o].view = getUpdatedPermission(o)
        BY <3>1, <3>2, Continued, Updated, NoCallType DEF CallKind, Making, UserKind
      <3>4. write'[UserOf(o)] = write[UserOf(o)]
        BY <3>1, <3>3, Executed DEF broker
      <3> QED BY <3>3, <3>4 DEF getUpdatedPermission
    <2>3. CASE OnStatement(o) \/ QueryFails(o) \/ OnBroker(o) \/ BrokerTimesOut(o)
      <3>1. call'[o] = call[o] /\ write' = write
        <4>1. CASE OnStatement(o)
          BY <2>3, <4>1, StatementMoves
        <4>2. CASE QueryFails(o) \/ OnBroker(o) \/ BrokerTimesOut(o)
          BY <4>2, QueryFailsMoves, ReplyMoves
        <4> QED BY <2>3, <4>1, <4>2
      <3>2. o \in InFlight \ met
        <4>1. ~Client(o)
          <5>1. stage[o] # "new"
            BY <2>3, StatementMoves, QueryFailsMoves, ReplyMoves
          <5> QED BY <5>1, ClientMoves
        <4> QED BY <1>3, <4>1, Actor
      <3> QED BY <3>1, <3>2 DEF View, Kind, getUpdatedPermission
    <2> QED BY <1>3, <2>1, <2>2, <2>3 DEF Acts
  <1> QED BY <1>1, <1>2, <1>3, Steps

LEMMA ChainCall ==
  ASSUME TypeOK, TypeOK', NEW o \in Request, Shape(o), View(o), Chain(o),
         requestAsync(o) \/ CallFails(o), o \in InFlight \ met,
         Expected(IdOf(o)), Expected(IdOf(o))'
  PROVE  IF Registers(o) THEN RegisterChain(o)' ELSE DeleteChain(o)'
  <1> DEFINE id == IdOf(o)
             u == UserOf(o)
  <1>0. /\ id \in Id /\ u \in User /\ o # None /\ Kind(o) \in CallKind
        /\ answer[o] \in {"none", "ok", "fail"}
    BY Asks, Updated DEF TypeOK
  <1>1. Kind(o) # "none" /\ UNCHANGED <<row, stage>>
    BY CallMoves
  <1>2. \/ Execute(o) /\ ~Refused(o) /\ Continue(o)
        \/ Fail(o) /\ (Execute(o) \/ UNCHANGED broker)
        \/ Hang(o) /\ (Execute(o) \/ UNCHANGED broker)
    BY Losses
  <1>3. CASE Registers(o)
    <2>0. RegisterChain(o) /\ RegisterShape(o)
      BY <1>3 DEF Chain, Shape
    <2>1. stage'[o] = "broker" => row'[id] = o
      BY <1>1, <2>0 DEF RegisterChain
    <2>2. CASE Execute(o) /\ ~Refused(o) /\ Continue(o)
      <3>1. CASE Kind(o) \in UserKind \cup {"deleteExchange"}
        <4>1. call'[o].kind \in Making \cup {"none"} /\ answer'[o] # "ok"
          BY <1>1, <1>3, <2>0, <2>2, <3>1, Continued, NoCallType DEF RegisterShape, UserKind
        <4>2. call'[o].kind \notin Created
          BY <4>1 DEF Making, UserKind, Created, Permissions
        <4> QED BY <1>3, <2>1, <4>1, <4>2 DEF RegisterChain, Kind, Created
      <3>2. CASE Kind(o) = "createExchange"
        <4>1. call'[o].kind = "getPermissions" /\ answer'[o] # "ok"
          BY <1>1, <1>3, <2>0, <2>2, <3>2, Continued DEF RegisterShape
        <4>2. exchange'[id] = o
          BY <2>2, <3>2, Executed DEF Refused
        <4> QED BY <1>3, <2>1, <4>1, <4>2 DEF RegisterChain, Kind, Created
      <3>3. CASE Kind(o) = "getPermissions"
        <4>1. call'[o].kind = "putPermissions" /\ answer'[o] # "ok"
          BY <1>1, <1>3, <2>0, <2>2, <3>3, Continued DEF RegisterShape
        <4>2. exchange'[id] = o
          BY <2>0, <2>2, <3>3, Executed DEF RegisterChain, Created, Permissions
        <4> QED BY <1>3, <2>1, <4>1, <4>2 DEF RegisterChain, Kind, Created
      <3>4. CASE Kind(o) = "putPermissions"
        <4>1. call'[o].kind = "bind" /\ call'[o].n = 1 /\ answer'[o] # "ok"
          BY <1>1, <1>3, <2>0, <2>2, <3>4, Continued DEF RegisterShape
        <4>2. exchange'[id] = o
          BY <2>0, <2>2, <3>4, Executed DEF RegisterChain, Created, Permissions
        <4>3. id \in write'[u]
          <5>1. call[o].view = getUpdatedPermission(o)
            BY <3>4 DEF View
          <5>2. write'[u] = call[o].view
            BY <2>2, <3>4, Executed
          <5> QED BY <1>3, <5>1, <5>2 DEF getUpdatedPermission
        <4>4. 1..(call'[o].n - 1) = {}
          BY <4>1
        <4> QED BY <1>3, <2>1, <4>1, <4>2, <4>3, <4>4 DEF RegisterChain, Kind, Created
      <3>5. CASE Kind(o) = "bind"
        <4> DEFINE n == call[o].n
        <4>1. /\ \/ call'[o].kind = "bind" /\ call'[o].n = n + 1 /\ answer'[o] = answer[o]
                 \/ n = Bindings /\ call'[o] = NoCall /\ answer'[o] = "ok"
              /\ n \in 1..Bindings
          BY <1>1, <2>2, <3>5, Continued DEF Shape
        <4>2. answer[o] = "none"
          BY <1>0, <2>0, <3>5 DEF RegisterShape
        <4>3. exchange[id] = o /\ id \in write[u] /\ 1..(n - 1) \subseteq bound[id]
          BY <2>0, <3>5 DEF RegisterChain, Created
        <4>4. exchange'[id] = o /\ write'[u] = write[u] /\ bound'[id] = bound[id] \cup {n}
          BY <1>0, <2>2, <3>5, <4>3, Executed
        <4> HIDE DEF n
        <4>5. 1..n \subseteq bound'[id]
          <5>1. 1..n = 1..(n - 1) \cup {n}
            BY <4>1, AdaptorAssumption
          <5> QED BY <4>3, <4>4, <5>1
        <4>6. bound'[id] \subseteq 1..Bindings
          BY <1>0 DEF TypeOK
        <4>7. CASE call'[o].kind = "bind" /\ call'[o].n = n + 1 /\ answer'[o] = answer[o]
          <5>1. (n + 1) - 1 = n
            BY <4>1, AdaptorAssumption
          <5> QED BY <1>3, <2>1, <4>2, <4>3, <4>4, <4>5, <4>7, <5>1 DEF RegisterChain, Kind
        <4>8. CASE n = Bindings /\ call'[o] = NoCall /\ answer'[o] = "ok"
          <5>1. bound'[id] = 1..Bindings
            BY <4>5, <4>6, <4>8
          <5> QED BY <1>3, <2>1, <4>3, <4>4, <4>8, <5>1, NoCallType
                  DEF RegisterChain, Kind, Created, Permissions
        <4> QED BY <4>1, <4>7, <4>8
      <3> QED BY <1>0, <1>1, <2>0, <3>1, <3>2, <3>3, <3>4, <3>5 DEF CallKind, RegisterShape
    <2>3. CASE Fail(o) \/ Hang(o)
      <3>1. answer[o] # "ok"
        BY <1>1, <2>0 DEF RegisterShape
      <3>2. call'[o].kind \in {"none", "deleteExchange"} /\ answer'[o] # "ok"
        BY <2>3, <3>1, Failed, Hung, NoCallType
      <3> QED BY <1>3, <2>1, <3>2 DEF RegisterChain, Kind, Created, Permissions
    <2> QED BY <1>2, <2>2, <2>3
  <1>4. CASE ~Registers(o)
    <2>0. DeleteChain(o) /\ DeleteShape(o)
      BY <1>4 DEF Chain, Shape
    <2>1. CASE Kind(o) \in Permissions
      <3>1. exchange[id] = None
        BY <2>0, <2>1 DEF DeleteChain
      <3>2. exchange'[id] = None
        BY <1>2, <2>1, <3>1, Executed DEF broker, Permissions
      <3> QED BY <1>4, <3>2 DEF DeleteChain
    <2>2. CASE Kind(o) \in {"getExchange", "deleteExchange"}
      <3>1. answer[o] = "none"
        BY <2>0, <2>2 DEF DeleteShape
      <3>2. CASE Continue(o) /\ Execute(o) /\ Kind(o) = "deleteExchange"
        <4>1. exchange'[id] = None
          BY <3>2, Executed
        <4> QED BY <1>4, <4>1 DEF DeleteChain
      <3>3. CASE Continue(o) /\ Kind(o) = "getExchange"
        <4>1. call'[o].kind = "deleteExchange" /\ answer'[o] = "none"
          BY <1>1, <3>1, <3>3, Continued
        <4> QED BY <1>4, <4>1 DEF DeleteChain, Kind, Permissions
      <3>4. CASE Fail(o) \/ Hang(o)
        <4>1. call'[o].kind = "none" /\ answer'[o] # "ok"
          BY <1>4, <2>2, <3>1, <3>4, Failed, Hung, NoCallType
        <4> QED BY <1>4, <4>1 DEF DeleteChain, Kind, Permissions
      <3> QED BY <1>2, <2>2, <3>2, <3>3, <3>4
    <2> QED BY <1>0, <1>1, <2>0, <2>1, <2>2 DEF DeleteShape, CallKind, Permissions, Making
  <1> QED BY <1>3, <1>4

LEMMA ChainStep ==
  ASSUME TypeOK, \A r \in Request : Shape(r) /\ View(r) /\ Chain(r), Overlap, [Next]_vars,
         NEW o \in Request
  PROVE  Chain(o)'
  <1>1. CASE Reset
    BY <1>1 DEF Reset, Chain, Kind, InFlight, Working, Expected, RegisterChain, DeleteChain
  <1>2. ASSUME NEW r \in Request, Acts(r), r # o PROVE Chain(o)'
    <2> SUFFICES ASSUME o \in InFlight' \ met', Expected(IdOf(o))'
                 PROVE  IF Registers(o) THEN RegisterChain(o)' ELSE DeleteChain(o)'
      BY DEF Chain
    <2>1. Expected(IdOf(o))
      BY <1>2, Shrinks, Asks
    <2>2. /\ o \in InFlight \ met
          /\ call'[o] = call[o] /\ answer'[o] = answer[o] /\ stage'[o] = stage[o]
          /\ row'[IdOf(o)] = row[IdOf(o)] /\ exchange'[IdOf(o)] = exchange[IdOf(o)]
          /\ bound'[IdOf(o)] = bound[IdOf(o)] /\ write'[UserOf(o)] = write[UserOf(o)]
      BY <1>2, Untouched
    <2>3. CASE Registers(o)
      <3>1. RegisterChain(o)
        BY <2>1, <2>2, <2>3 DEF Chain
      <3> QED BY <2>2, <2>3, <3>1 DEF RegisterChain, Kind
    <2>4. CASE ~Registers(o)
      <3>1. DeleteChain(o)
        BY <2>1, <2>2, <2>4 DEF Chain
      <3> QED BY <2>2, <2>4, <3>1 DEF DeleteChain, Kind
    <2> QED BY <2>3, <2>4
  <1>3. ASSUME Acts(o) PROVE Chain(o)'
    <2> SUFFICES ASSUME o \in InFlight' \ met', Expected(IdOf(o))'
                 PROVE  IF Registers(o) THEN RegisterChain(o)' ELSE DeleteChain(o)'
      BY DEF Chain
    <2>0. TypeOK' /\ Expected(IdOf(o))
      BY <1>3, TypesStep, Shrinks, Asks
    <2>1. CASE Client(o)
      <3>1. Kind(o) = "none" /\ answer[o] = "none"
        BY <2>1, ClientMoves DEF Shape, RegisterShape, DeleteShape
      <3>2. CASE Registers(o)
        BY <2>1, <3>1, <3>2, ClientMoves DEF RegisterChain, Kind, Created, Permissions
      <3>3. CASE ~Registers(o)
        BY <2>1, <3>1, <3>3, ClientMoves DEF DeleteChain, Kind, Permissions
      <3> QED BY <3>2, <3>3
    <2>2. CASE ~Client(o)
      <3>1. o \in InFlight \ met
        BY <1>3, <2>2, Actor
      <3>2. CASE requestAsync(o) \/ CallFails(o)
        BY <2>0, <3>1, <3>2, ChainCall
      <3>3. CASE OnStatement(o) /\ Registers(o)
        <4>1. RegisterChain(o) /\ RegisterShape(o)
          BY <2>0, <3>1, <3>3 DEF Chain, Shape
        <4>2. CASE stage[o] = "row"
          BY <3>3, <4>1, <4>2, StatementMoves
             DEF RegisterChain, RegisterShape, Kind, Created, Permissions
        <4>3. CASE stage[o] # "row"
          BY <3>3, <4>1, <4>3, StatementMoves DEF RegisterChain, Kind
        <4> QED BY <3>3, <4>2, <4>3
      <3>4. CASE OnStatement(o) /\ ~Registers(o)
        <4>1. DeleteChain(o) /\ DeleteShape(o)
          BY <2>0, <3>1, <3>4 DEF Chain, Shape
        <4> QED BY <3>4, <4>1, StatementMoves DEF DeleteChain, DeleteShape, Kind
      <3>5. CASE QueryFails(o) \/ OnBroker(o) \/ BrokerTimesOut(o)
        <4>1. UNCHANGED <<exchange, bound, write, users, permitted, call, answer>>
          BY <3>5, QueryFailsMoves, ReplyMoves
        <4>2. CASE Registers(o)
          <5>1. RegisterChain(o) /\ stage'[o] # "broker"
            BY <2>0, <3>1, <3>5, <4>2, QueryFailsMoves, ReplyMoves DEF Chain
          <5> QED BY <4>1, <4>2, <5>1 DEF RegisterChain, Kind
        <4>3. CASE ~Registers(o)
          <5>1. DeleteChain(o)
            BY <2>0, <3>1, <4>3 DEF Chain
          <5>2. stage'[o] = "deleteRow" => stage[o] = "broker"
            BY <3>5, QueryFailsMoves, ReplyMoves
          <5>3. stage'[o] # "broker"
            BY <3>5, QueryFailsMoves, ReplyMoves, <4>3
          <5> QED BY <4>1, <4>3, <5>1, <5>2, <5>3 DEF DeleteChain, Kind
        <4> QED BY <4>2, <4>3
      <3> QED BY <1>3, <2>2, <3>2, <3>3, <3>4, <3>5 DEF Acts
    <2> QED BY <2>1, <2>2
  <1> QED BY <1>1, <1>2, <1>3, Steps

-----------------------------------------------------------------------------
(* Rows and exchanges.                                                     *)

LEMMA RowKeptStep ==
  ASSUME TypeOK, \A r \in Request : Shape(r) /\ SparedShape(r) /\ WholeShape(r), [Next]_vars,
         NEW id \in Id, RowKept(id)
  PROVE  RowKept(id)'
  <1>1. CASE Reset
    BY <1>1 DEF Reset, RowKept, RowMoves, Unbroken, Kind
  <1>2. ASSUME NEW r \in Request, Acts(r), IdOf(r) # id PROVE RowKept(id)'
    <2>1. /\ row'[id] = row[id] /\ exchange'[id] = exchange[id]
          /\ Unbroken(id)' => Unbroken(id)
      BY <1>2, Frame, Shrinks, Asks
    <2>2. ASSUME NEW o \in Of(id), RowMoves(o) PROVE RowMoves(o)'
      <3>1. o \in Request \ {r}
        BY <1>2 DEF Of
      <3> QED BY <1>2, <2>2, <3>1, Frame DEF RowMoves, Kind
    <2> QED BY <2>1, <2>2 DEF RowKept
  <1>3. ASSUME NEW r \in Request, Acts(r), IdOf(r) = id PROVE RowKept(id)'
    <2> SUFFICES ASSUME Unbroken(id)', row'[id] # None, exchange'[id] = None
                 PROVE  \E o \in Of(id) : RowMoves(o)'
      BY DEF RowKept
    <2>0. Unbroken(id) /\ Whole(r) /\ Spared(r) /\ Whole(r)' /\ r \in Of(id)
      <3>1. Unbroken(id) /\ (Whole(r)' => Whole(r))
        BY <1>3, Shrinks, Asks
      <3>2. Whole(r)'
        BY <1>3 DEF Unbroken, Whole
      <3> QED BY <1>3, <3>1, <3>2, Implied DEF Of
    <2>1. ASSUME NEW o \in Of(id) \ {r}, RowMoves(o) PROVE RowMoves(o)'
      <3>1. o \in Request \ {r}
        BY DEF Of
      <3> QED BY <1>3, <2>1, <3>1, Frame DEF RowMoves, Kind
    <2>2. row[id] # None /\ exchange[id] = None => \E o \in Of(id) : RowMoves(o)
      BY <2>0 DEF RowKept
    <2>3. CASE Client(r)
      <3>1. row' = row /\ exchange' = exchange /\ ~RowMoves(r)
        BY <2>3, ClientMoves DEF RowMoves
      <3> QED BY <2>1, <2>2, <3>1
    <2>4. CASE requestAsync(r) \/ CallFails(r)
      <3>0. /\ Execute(r) /\ (Refused(r) => Fail(r)) /\ (Unpermitted(r) => Hang(r))
            /\ ~Refused(r) /\ ~Unpermitted(r) => Continue(r)
            /\ Kind(r) # "none" /\ row' = row /\ stage' = stage
        BY <2>0, <2>4, Losses, CallMoves DEF Replied
      <3>1. ~(Registers(r) /\ Kind(r) = "deleteExchange")
        BY <2>0 DEF WholeShape
      <3>2. answer[r] \in {"none", "ok", "fail"}
        BY DEF TypeOK
      <3>3. CASE exchange[id] # None
        <4>1. Kind(r) = "deleteExchange" /\ ~Registers(r)
          BY <1>3, <3>0, <3>1, <3>3, Executed
        <4>2. answer[r] = "none"
          BY <4>1 DEF Shape, DeleteShape
        <4>3. stage[r] = "broker"
          BY <2>0, <4>1, <4>2 DEF SparedShape
        <4>4. answer'[r] = "ok"
          BY <3>0, <4>1, Continued DEF Refused, Unpermitted
        <4> QED BY <2>0, <3>0, <4>1, <4>3, <4>4 DEF RowMoves
      <3>4. CASE exchange[id] = None
        <4>1. PICK o \in Of(id) : RowMoves(o)
          BY <2>2, <3>0, <3>4
        <4>2. CASE o # r
          BY <2>1, <4>1, <4>2
        <4>3. CASE o = r /\ Registers(r)
          <5>1. stage[r] = "broker" /\ answer[r] = "none" /\ Kind(r) \in Making
            BY <2>0, <3>0, <3>1, <4>1, <4>3 DEF RowMoves, Shape, RegisterShape, SparedShape
          <5>2. Kind(r) # "createExchange"
            BY <1>3, <3>0, <3>4, Executed, Asks
          <5>3. Kind(r) \in UserKind
            BY <5>1, <5>2 DEF Making
          <5>4. CASE Refused(r)
            <6>1. answer'[r] = "fail"
              BY <3>0, <5>1, <5>3, <5>4, Failed DEF UserKind, Created, Permissions
            <6> QED BY <2>0, <3>0, <4>3, <5>1, <6>1 DEF RowMoves
          <5>5. CASE ~Refused(r)
            <6>1. ~Unpermitted(r)
              BY <5>3 DEF Unpermitted, UserKind
            <6>2. call'[r].kind \in Making /\ answer'[r] = "none"
              BY <3>0, <5>1, <5>3, <5>5, <6>1, Continued
            <6> QED BY <2>0, <3>0, <4>3, <5>1, <6>2 DEF RowMoves, Kind
          <5> QED BY <5>4, <5>5
        <4>4. CASE o = r /\ ~Registers(r)
          <5>1. stage[r] \in {"broker", "deleteRow"} /\ answer[r] = "ok"
            BY <4>1, <4>4 DEF RowMoves
          <5>2. Kind(r) \in Permissions
            BY <3>0, <4>4, <5>1, Updated DEF Shape, DeleteShape, CallKind, Permissions, Making
          <5>3. answer'[r] = "ok"
            BY <3>0, <4>4, <5>1, <5>2, Continued, Failed, Hung DEF Permissions
          <5> QED BY <2>0, <3>0, <4>4, <5>1, <5>3 DEF RowMoves
        <4> QED BY <4>2, <4>3, <4>4
      <3> QED BY <3>3, <3>4
    <2>5. CASE OnStatement(r)
      <3>1. exchange' = exchange /\ answer' = answer
        BY <2>5, StatementMoves
      <3>2. CASE stage[r] = "row" /\ row[id] = None
        <4>1. Registers(r) /\ answer[r] = "none"
          BY <3>2 DEF Shape, RegisterShape, DeleteShape
        <4>2. stage'[r] = "broker" /\ call'[r].kind = "getUser"
          BY <1>3, <2>5, <3>2, StatementMoves
        <4> QED BY <2>0, <3>1, <4>1, <4>2 DEF RowMoves, Kind, Making, UserKind
      <3>3. CASE stage[r] = "row" /\ row[id] # None
        <4>1. ~RowMoves(r)
          BY <3>3 DEF RowMoves
        <4> QED BY <2>1, <2>2, <3>1, <3>3, <4>1
      <3>4. CASE stage[r] # "row"
        BY <1>3, <2>5, <3>4, StatementMoves
      <3> QED BY <3>2, <3>3, <3>4
    <2>6. CASE QueryFails(r)
      BY <1>3, <2>6, QueryFailsMoves
    <2>7. CASE OnBroker(r) \/ BrokerTimesOut(r)
      <3>1. /\ row' = row /\ exchange' = exchange /\ answer' = answer /\ call' = call
            /\ stage[r] = "broker"
        BY <2>7, ReplyMoves
      <3>2. RowMoves(r) => RowMoves(r)'
        BY <1>3, <2>7, <3>1, ReplyMoves DEF RowMoves
      <3> QED BY <2>0, <2>1, <2>2, <3>1, <3>2
    <2> QED BY <1>3, <2>3, <2>4, <2>5, <2>6, <2>7 DEF Acts
  <1> QED BY <1>1, <1>2, <1>3, Steps

(* Deletes met nothing: while a register is worked on there are none.      *)
LEMMA DeletesAlone ==
  ASSUME TypeOK, \A r \in Request : Shape(r), Overlap, NEW id \in Id, Steady(id)',
         NEW r \in Of(id), Acts(r), NEW o \in Of(id), o # r, ~Registers(r) \/ ~Registers(o)
  PROVE  o \notin InFlight
  <1> SUFFICES ASSUME o \in InFlight PROVE FALSE
    OBVIOUS
  <1>1. r \in Request /\ o \in Request /\ IdOf(r) = id /\ IdOf(o) = id
    BY DEF Of
  <1>2. o \in Rivals(r)
    BY <1>1 DEF Rivals
  <1>3. r \notin met' \/ o \notin met'
    BY DEF Steady
  <1>4. met \subseteq met'
    BY <1>1, Frame
  <1>5. CASE Client(r)
    BY <1>1, <1>2, <1>3, <1>5, ClientMoves
  <1>6. CASE ~Client(r)
    <2>1. r \in InFlight /\ r \in Rivals(o)
      BY <1>1, <1>6, Actor DEF Rivals
    <2> QED BY <1>2, <1>3, <1>4, <2>1 DEF Overlap
  <1> QED BY <1>5, <1>6

(* The register that acts.                                                 *)
LEMMA SteadyActor ==
  ASSUME TypeOK, NEW r \in Request, Shape(r), SparedShape(r), SteadyRegister(r), Registers(r),
         Acts(r), Spared(r), Made(IdOf(r)), Steady(IdOf(r))'
  PROVE  SteadyRegister(r)'
  <1> DEFINE id == IdOf(r)
  <1>0. /\ RegisterShape(r) /\ id \in Id /\ r # None /\ answer[r] \in {"none", "ok", "fail"}
        /\ stage[r] \in {"broker", "undoRow"} => row[id] = r
        /\ Kind(r) \in Created \cup {"deleteExchange"} => exchange[id] = r
        /\ answer[r] = "fail" /\ exchange[id] = r => Kind(r) = "deleteExchange"
        /\ exchange[id] = r => stage[r] \notin {"new", "row"} /\ Kind(r) \notin Making
    BY Asks DEF Shape, SteadyRegister, TypeOK, Made
  <1>1. CASE Client(r)
    BY <1>0, <1>1, ClientMoves DEF SteadyRegister, RegisterShape, Kind, Created, Permissions
  <1>2. CASE requestAsync(r) \/ CallFails(r)
    <2>0. row' = row /\ stage' = stage /\ Kind(r) # "none"
      BY <1>2, CallMoves
    <2>1. CASE Fail(r) /\ exchange'[id] = exchange[id] /\ Kind(r) \in Making \cup Permissions
      <3>1. CASE Kind(r) \in Permissions
        <4>1. call'[r].kind = "deleteExchange" /\ exchange[id] = r
          BY <1>0, <2>1, <3>1, Failed DEF Created
        <4> QED BY <1>0, <2>0, <2>1, <4>1 DEF SteadyRegister, Kind
      <3>2. CASE Kind(r) \in Making
        <4>1. call'[r].kind = "none"
          BY <2>1, <3>2, Failed, NoCallType DEF Making, UserKind, Created, Permissions
        <4> QED BY <1>0, <2>0, <2>1, <3>2, <4>1 DEF SteadyRegister, Kind, Created, Permissions
      <3> QED BY <2>1, <3>1, <3>2
    <2>2. CASE Execute(r) /\ ~Refused(r) /\ Continue(r)
      <3>1. CASE Kind(r) \in UserKind
        <4>1. call'[r].kind \in Making /\ exchange'[id] = exchange[id] /\ answer'[r] = answer[r]
          BY <2>0, <2>2, <3>1, Continued, Executed DEF UserKind
        <4>2. answer[r] # "fail"
          BY <1>0, <3>1 DEF RegisterShape, UserKind
        <4> QED BY <1>0, <2>0, <4>1, <4>2
                DEF SteadyRegister, Kind, Created, Permissions, Making, UserKind
      <3>2. CASE Kind(r) = "createExchange"
        <4>1. /\ call'[r].kind = "getPermissions" /\ exchange'[id] = r /\ answer'[r] # "fail"
          BY <1>0, <2>2, <3>2, Continued, Executed DEF Refused, RegisterShape
        <4> QED BY <1>0, <2>0, <4>1 DEF SteadyRegister, Kind
      <3>3. CASE Kind(r) \in Created
        <4>1. exchange[id] = r /\ exchange'[id] = r
          BY <1>0, <2>2, <3>3, Executed DEF Created, Permissions
        <4>2. answer'[r] # "fail"
          BY <1>0, <2>0, <2>2, <3>3, Continued, NoCallType DEF RegisterShape, Created, Permissions
        <4> QED BY <1>0, <2>0, <4>1, <4>2 DEF SteadyRegister, Kind
      <3>4. CASE Kind(r) = "deleteExchange"
        <4>1. exchange'[id] = None /\ call'[r].kind = "none"
          BY <2>2, <3>4, Continued, Executed, NoCallType
        <4> QED BY <1>0, <2>0, <4>1 DEF SteadyRegister, Kind, Created, Permissions
      <3>5. Kind(r) \in CallKind
        BY Updated
      <3> QED BY <1>0, <2>0, <3>1, <3>2, <3>3, <3>4, <3>5
              DEF CallKind, RegisterShape, Created, Permissions
    <2>3. CASE Execute(r) /\ Unpermitted(r) /\ Hang(r)
      <3>1. /\ Kind(r) = "getPermissions" /\ exchange'[id] = exchange[id]
            /\ call'[r].kind = "none" /\ answer'[r] = answer[r]
        BY <2>3, Executed, Hung, NoCallType DEF Unpermitted
      <3>2. answer[r] # "fail"
        BY <1>0, <3>1 DEF RegisterShape
      <3> QED BY <1>0, <2>0, <3>1, <3>2 DEF SteadyRegister, Kind, Created, Permissions
    <2>4. CASE Execute(r) /\ Refused(r) /\ Fail(r)
      <3>1. Kind(r) \in Making \cup Permissions
        BY <1>0, <2>4 DEF Refused, RegisterShape, Making, UserKind, Permissions
      <3>2. exchange'[id] = exchange[id]
        BY <2>4, Executed DEF Refused
      <3> QED BY <2>1, <2>4, <3>1, <3>2
    <2>5. CASE /\ Fail(r) /\ UNCHANGED broker /\ Kind(r) # "bind"
               /\ ~(Registers(r) /\ Kind(r) = "deleteExchange")
      <3>1. Kind(r) \in Making \cup Permissions
        BY <1>0, <2>0, <2>5, Updated DEF CallKind, RegisterShape, Making, Permissions
      <3> QED BY <2>1, <2>5, <3>1 DEF broker
    <2> QED BY <1>2, <2>2, <2>3, <2>4, <2>5, Losses DEF Replied
  <1>3. CASE OnStatement(r)
    <2>1. CASE stage[r] = "row" /\ row[id] = None
      BY <1>0, <1>3, <2>1, StatementMoves
         DEF SteadyRegister, RegisterShape, Kind, Created, Permissions
    <2>2. CASE stage[r] = "row" /\ row[id] # None
      BY <1>0, <1>3, <2>2, StatementMoves DEF SteadyRegister, Kind
    <2>3. CASE stage[r] # "row"
      BY <1>0, <1>3, <2>3, StatementMoves DEF SteadyRegister, Kind
    <2> QED BY <2>1, <2>2, <2>3
  <1>4. CASE QueryFails(r)
    BY <1>4, QueryFailsMoves
  <1>5. CASE OnBroker(r) \/ BrokerTimesOut(r)
    BY <1>0, <1>5, ReplyMoves DEF SteadyRegister, Kind
  <1> QED BY <1>1, <1>2, <1>3, <1>4, <1>5 DEF Acts

(* A register that another request leaves alone.                           *)
LEMMA SteadyOther ==
  ASSUME TypeOK, \A q \in Request : Shape(q), Overlap, NEW id \in Id, ExchangeKept(id), Steady(id),
         Steady(id)', NEW r \in Of(id), Acts(r), NEW o \in Of(id) \ {r}, Registers(o)
  PROVE  SteadyRegister(o)'
  <1>0. /\ SteadyRegister(o) /\ r \in Request /\ o \in Request \ {r} /\ IdOf(o) = id
        /\ IdOf(r) = id /\ o # None
        /\ Registers(r) => SteadyRegister(r)
    BY Asks DEF ExchangeKept, Of
  <1>1. call'[o] = call[o] /\ answer'[o] = answer[o] /\ stage'[o] = stage[o]
    BY <1>0, Frame
  <1>2. exchange'[id] = o => exchange[id] = o
    <2>1. CASE requestAsync(r) \/ CallFails(r)
      BY <1>0, <2>1, CallMoves, Executed DEF broker
    <2>2. CASE ~(requestAsync(r) \/ CallFails(r))
      BY <1>0, <2>2, ClientMoves, StatementMoves, QueryFailsMoves, ReplyMoves DEF Acts
    <2> QED BY <2>1, <2>2
  <1>3. CASE o \notin InFlight
    <2>1. stage[o] \notin {"broker", "undoRow"} /\ Kind(o) = "none"
      BY <1>0, <1>3, NoCallType DEF InFlight, Working, Waiting, Kind
    <2> QED BY <1>0, <1>1, <1>2, <2>1 DEF SteadyRegister, Kind, Created, Permissions
  <1>4. CASE o \in InFlight
    <2>1. Registers(r)
      BY <1>0, <1>4, DeletesAlone
    <2>2. row[id] = o => row'[id] = o
      <3>1. ASSUME row[id] = o, row'[id] # o PROVE FALSE
        <4>1. stage[r] = "undoRow" \/ ~Steady(id)'
          BY <1>0, <2>1, <3>1, ClientMoves, CallMoves, StatementMoves, QueryFailsMoves, ReplyMoves
             DEF Acts, Shape, RegisterShape
        <4>2. row[id] = r
          BY <1>0, <2>1, <4>1 DEF SteadyRegister
        <4> QED BY <1>0, <3>1, <4>2
      <3> QED BY <3>1
    <2>3. exchange[id] = o => exchange'[id] = o
      <3>1. ASSUME exchange[id] = o, exchange'[id] # o PROVE FALSE
        <4>1. CASE requestAsync(r) \/ CallFails(r)
          <5>1. Kind(r) = "deleteExchange"
            BY <1>0, <3>1, <4>1, CallMoves, Executed DEF broker
          <5>2. exchange[id] = r
            BY <1>0, <2>1, <5>1 DEF SteadyRegister
          <5> QED BY <1>0, <3>1, <5>2
        <4>2. CASE ~(requestAsync(r) \/ CallFails(r))
          BY <1>0, <3>1, <4>2, ClientMoves, StatementMoves, QueryFailsMoves, ReplyMoves DEF Acts
        <4> QED BY <4>1, <4>2
      <3> QED BY <3>1
    <2> QED BY <1>0, <1>1, <1>2, <2>2, <2>3 DEF SteadyRegister, Kind
  <1> QED BY <1>3, <1>4

LEMMA ExchangeKeptStep ==
  ASSUME TypeOK, \A r \in Request : Shape(r) /\ SparedShape(r) /\ Chain(r), Overlap, Users,
         [Next]_vars, NEW id \in Id, Made(id), ExchangeKept(id)
  PROVE  ExchangeKept(id)'
  <1>1. CASE Reset
    BY <1>1 DEF Reset, ExchangeKept, Steady, SteadyRegister, Stranded, Kind
  <1>a. ASSUME NEW r \in Request, Acts(r), NEW x \in Request, exchange[id] = x, Stranded(x)
        PROVE  Stranded(x)'
    <2>1. Registers(x) /\ Kind(x) \notin Making /\ IdOf(x) = id
      BY <1>a, Asks DEF Made, Of
    <2> QED BY <1>a, <2>1, StrandedStays
  <1>2. ASSUME NEW r \in Request, Acts(r), IdOf(r) # id PROVE ExchangeKept(id)'
    <2>1. /\ row'[id] = row[id] /\ exchange'[id] = exchange[id]
          /\ Steady(id)' => Steady(id)
      BY <1>2, Frame, Shrinks, Asks
    <2>2. \A o \in Of(id) : /\ call'[o] = call[o] /\ answer'[o] = answer[o]
                            /\ stage'[o] = stage[o] /\ IdOf(o) = id
      BY <1>2, Frame DEF Of
    <2>3. \A o \in Of(id) : SteadyRegister(o) => SteadyRegister(o)'
      BY <2>1, <2>2 DEF SteadyRegister, Kind
    <2>4. exchange[id] # None => exchange[id] \in Of(id) /\ exchange[id] \in Request
      BY DEF Made, Of
    <2>5. exchange[id] # None /\ Stranded(exchange[id]) => Stranded(exchange[id])'
      <3>1. ASSUME NEW x \in Request, exchange[id] = x, Stranded(x) PROVE Stranded(x)'
        BY <1>2, <1>a, <3>1
      <3> QED BY <2>1, <2>4, <3>1 DEF Stranded
    <2> QED BY <2>1, <2>2, <2>3, <2>4, <2>5 DEF ExchangeKept, Kind
  <1>3. ASSUME NEW r \in Request, Acts(r), IdOf(r) = id PROVE ExchangeKept(id)'
    <2> SUFFICES ASSUME Steady(id)' PROVE ExchangeKept(id)'
      BY DEF ExchangeKept
    <2>0. /\ Steady(id) /\ r \in Of(id) /\ Spared(r) /\ Expected(id)
          /\ Registers(r) => SteadyRegister(r)
          /\ exchange[id] # None =>
               \/ row[id] = exchange[id] \/ Kind(exchange[id]) = "deleteExchange"
               \/ Stranded(exchange[id])
      <3>1. Steady(id) /\ r \in Of(id)
        BY <1>3, Shrinks, Asks DEF Of
      <3> QED BY <1>3, <3>1, Implied DEF ExchangeKept
    <2>1. \A o \in Of(id) : Registers(o) => SteadyRegister(o)'
      <3>1. Registers(r) => SteadyRegister(r)'
        BY <1>3, <2>0, SteadyActor
      <3>2. \A o \in Of(id) \ {r} : Registers(o) => SteadyRegister(o)'
        BY <1>3, <2>0, SteadyOther
      <3> QED BY <3>1, <3>2
    <2>2. ASSUME exchange'[id] # None, ~(exchange'[id] = exchange[id] /\ Stranded(exchange[id]))
          PROVE  row'[id] = exchange'[id] \/ call'[exchange'[id]].kind = "deleteExchange"
      <3> DEFINE x == exchange[id]
      <3>0. /\ x # None => /\ x \in Of(id) /\ x \in Request /\ Registers(x)
                           /\ stage[x] \notin {"new", "row"}
            /\ \A o \in Request \ {r} : call'[o] = call[o]
            /\ x # None /\ exchange'[id] = x => row[id] = x \/ Kind(x) = "deleteExchange"
        BY <1>3, <2>0, <2>2, Frame DEF Made, Of
      <3>1. CASE Client(r)
        <4>1. exchange' = exchange /\ row' = row /\ stage[r] = "new"
          BY <3>1, ClientMoves
        <4>2. x # r
          BY <2>2, <3>0, <4>1
        <4> QED BY <2>2, <3>0, <4>1, <4>2 DEF Kind
      <3>2. CASE requestAsync(r) \/ CallFails(r)
        <4>0. row' = row /\ (Execute(r) \/ UNCHANGED broker)
          BY <3>2, CallMoves
        <4>1. CASE exchange'[id] = x
          <5>1. CASE x # r
            BY <2>2, <3>0, <4>0, <4>1, <5>1 DEF Kind
          <5>2. CASE x = r
            <6>1. Kind(r) # "deleteExchange"
              <7>1. ASSUME Kind(r) = "deleteExchange" PROVE FALSE
                <8>1. Execute(r)
                  BY <1>3, <2>2, <3>0, <3>2, <4>1, <5>2, <7>1, Losses DEF Replied
                <8> QED BY <1>3, <2>2, <7>1, <8>1, Executed
              <7> QED BY <7>1
            <6> QED BY <2>2, <3>0, <4>0, <4>1, <5>2, <6>1 DEF Kind
          <5> QED BY <5>1, <5>2
        <4>2. CASE exchange'[id] # x
          <5>1. Kind(r) = "createExchange" /\ exchange'[id] = r
            BY <1>3, <2>2, <4>0, <4>2, Executed DEF broker
          <5>2. Registers(r) /\ answer[r] = "none"
            BY <5>1 DEF Shape, RegisterShape, DeleteShape, TypeOK, Making
          <5>3. stage[r] = "broker"
            BY <2>0, <5>1, <5>2 DEF SparedShape
          <5>4. row[id] = r
            BY <1>3, <2>0, <5>2, <5>3 DEF SteadyRegister
          <5> QED BY <4>0, <5>1, <5>4
        <4> QED BY <4>1, <4>2
      <3>3. CASE OnStatement(r)
        <4>0. exchange' = exchange
          BY <3>3, StatementMoves
        <4>1. CASE stage[r] = "row"
          <5>1. x # r
            BY <2>2, <3>0, <4>0, <4>1
          <5>2. row[id] = x => row'[id] = x
            BY <1>3, <2>2, <3>3, <4>0, <4>1, StatementMoves
          <5> QED BY <2>2, <3>0, <4>0, <5>1, <5>2 DEF Kind
        <4>2. CASE stage[r] = "undoRow"
          <5>1. /\ Registers(r) /\ call' = call
                /\ answer[r] = "fail" \/ Stranded(r)
            BY <2>0, <3>3, <4>2, StatementMoves DEF Shape, DeleteShape, SparedShape
          <5>2. row[id] = r /\ (x = r => Kind(r) = "deleteExchange")
            BY <1>3, <2>0, <2>2, <4>0, <4>2, <5>1 DEF SteadyRegister
          <5>3. Kind(x) = "deleteExchange"
            BY <2>2, <3>0, <4>0, <5>2
          <5> QED BY <4>0, <5>1, <5>3 DEF Kind
        <4>3. CASE stage[r] = "deleteRow"
          <5>1. ~Registers(r) /\ answer[r] = "ok"
            BY <4>3 DEF Shape, RegisterShape, DeleteShape
          <5>2. r \in InFlight \ met
            BY <2>0, <4>3, <5>1 DEF InFlight, Working, Waiting, Steady
          <5>3. DeleteChain(r)
            BY <1>3, <2>0, <5>1, <5>2 DEF Chain
          <5> QED BY <1>3, <2>2, <4>0, <4>3, <5>1, <5>3 DEF DeleteChain
        <4> QED BY <3>3, <4>1, <4>2, <4>3 DEF OnStatement
      <3>4. CASE QueryFails(r)
        BY <1>3, <3>4, QueryFailsMoves
      <3>5. CASE OnBroker(r) \/ BrokerTimesOut(r)
        BY <2>2, <3>0, <3>5, ReplyMoves DEF Kind
      <3> QED BY <1>3, <3>1, <3>2, <3>3, <3>4, <3>5 DEF Acts
    <2>3. exchange'[id] # None /\ exchange'[id] = exchange[id] /\ Stranded(exchange[id]) =>
            Stranded(exchange[id])'
      <3>1. ASSUME NEW x \in Request, exchange[id] = x, Stranded(x) PROVE Stranded(x)'
        BY <1>3, <1>a, <3>1
      <3> QED BY <3>1 DEF Stranded, Made, Of
    <2> QED BY <2>1, <2>2, <2>3 DEF ExchangeKept, Kind
  <1> QED BY <1>1, <1>2, <1>3, Steps

-----------------------------------------------------------------------------
(* Permissions.                                                            *)

(* Requests of a user that met nothing follow one another.                 *)
LEMMA OneOfAUser ==
  ASSUME TypeOK, NEW r \in Request, Shape(r), Overlap, Acts(r), Alone(UserOf(r))', ~Client(r)
  PROVE  /\ r \in InFlight \ met
         /\ \A o \in Request \ {r} : UserOf(o) = UserOf(r) \/ IdOf(o) = IdOf(r) => o \notin InFlight
  <1>1. r \in InFlight \ met
    BY Actor, Frame DEF Alone
  <1> QED BY <1>1 DEF Overlap, Rivals

(* What a step does to the permissions of a user: a request of this user   *)
(* writes what it has found, or makes the user.                            *)
LEMMA Writes ==
  ASSUME TypeOK, NEW r \in Request, Shape(r), Acts(r), NEW u \in User, write'[u] # write[u]
  PROVE  /\ UserOf(r) = u /\ Execute(r) /\ ~Client(r)
         /\ \/ Kind(r) = "putPermissions" /\ write'[u] = call[r].view
            \/ Kind(r) = "putVhost" /\ write'[u] = {}
         /\ exchange'[IdOf(r)] = exchange[IdOf(r)]
  <1>1. UserOf(r) = u
    BY Frame
  <1>2. ~Client(r)
    BY ClientMoves
  <1>3. requestAsync(r) \/ CallFails(r)
    BY <1>2, StatementMoves, QueryFailsMoves, ReplyMoves DEF Acts
  <1>4. /\ Execute(r)
        /\ \/ Kind(r) = "putPermissions" /\ write'[u] = call[r].view
           \/ Kind(r) = "putVhost" /\ write'[u] = {}
    BY <1>1, <1>3, CallMoves, Executed DEF broker
  <1>5. exchange'[IdOf(r)] = exchange[IdOf(r)]
    BY <1>4, Executed
  <1> QED BY <1>1, <1>2, <1>4, <1>5

(* A request that has a permission under way goes on to change it, or its  *)
(* user has no permission for the vhost at all.                            *)
LEMMA Changes ==
  ASSUME TypeOK, NEW r \in Request, Shape(r), Acts(r), Unbroken(IdOf(r))', Writers,
         Kind(r) \in Permissions
  PROVE  \/ call'[r].kind \in Permissions
         \/ Kind(r) = "putPermissions" /\ Execute(r) /\ write'[UserOf(r)] = call[r].view
         \/ UserOf(r) \notin permitted /\ write'[UserOf(r)] = write[UserOf(r)]
  <1>1. CASE requestAsync(r) \/ CallFails(r)
    <2>1. /\ Execute(r) /\ (~Refused(r) /\ ~Unpermitted(r) => Continue(r))
      BY <1>1, Losses DEF Replied
    <2>2. CASE Kind(r) = "getPermissions" /\ UserOf(r) \in permitted
      <3>1. ~Refused(r) /\ ~Unpermitted(r)
        BY <2>2 DEF Refused, Unpermitted, Writers
      <3> QED BY <2>1, <2>2, <3>1, Continued DEF Permissions
    <2>3. CASE Kind(r) = "getPermissions" /\ UserOf(r) \notin permitted
      BY <2>1, <2>3, Executed
    <2>4. CASE Kind(r) = "putPermissions"
      BY <2>1, <2>4, Executed
    <2> QED BY <2>2, <2>3, <2>4 DEF Permissions
  <1>2. CASE Client(r)
    BY <1>2, ClientMoves DEF Shape, RegisterShape, DeleteShape, Permissions
  <1>3. CASE OnStatement(r)
    <2>1. stage[r] # "row"
      BY DEF Shape, RegisterShape, DeleteShape, Permissions
    <2> QED BY <1>3, <2>1, StatementMoves DEF Kind
  <1>4. CASE QueryFails(r) \/ OnBroker(r) \/ BrokerTimesOut(r)
    BY <1>4, QueryFailsMoves, ReplyMoves DEF Kind
  <1> QED BY <1>1, <1>2, <1>3, <1>4 DEF Acts

(* How an exchange comes and goes, where nothing went wrong.               *)
LEMMA Exchanges ==
  ASSUME TypeOK, NEW r \in Request, Shape(r), WholeShape(r), Acts(r), NEW id \in Id,
         Unbroken(id)', exchange'[id] # exchange[id]
  PROVE  /\ IdOf(r) = id
         /\ \/ exchange[id] = None /\ exchange'[id] = r /\ call'[r].kind = "getPermissions"
            \/ /\ exchange'[id] = None /\ ~Registers(r)
               /\ answer'[r] = "ok" /\ call'[r].kind = "getPermissions"
  <1>1. IdOf(r) = id
    BY Frame
  <1>2. requestAsync(r) \/ CallFails(r)
    BY ClientMoves, StatementMoves, QueryFailsMoves, ReplyMoves DEF Acts
  <1>3. Execute(r) /\ (~Refused(r) /\ ~Unpermitted(r) => Continue(r))
    BY <1>1, <1>2, Losses DEF Replied
  <1>4. Whole(r)
    <2>1. Unbroken(id)
      BY Shrinks, Asks
    <2> QED BY <1>1, <2>1, Implied
  <1>5. CASE Kind(r) = "createExchange" /\ exchange[id] = None
    BY <1>1, <1>3, <1>5, Executed, Continued DEF Refused, Unpermitted
  <1>6. CASE Kind(r) = "deleteExchange"
    <2>1. ~Registers(r)
      BY <1>4, <1>6 DEF WholeShape
    <2> QED BY <1>1, <1>3, <1>6, <2>1, Executed, Continued DEF Refused, Unpermitted
  <1> QED BY <1>1, <1>3, <1>5, <1>6, Executed

LEMMA OwnerWritesStep ==
  ASSUME TypeOK, \A r \in Request : Shape(r) /\ WholeShape(r) /\ View(r) /\ Chain(r), Overlap,
         Users, [Next]_vars, NEW id \in Id, Made(id), OwnerWrites(id)
  PROVE  OwnerWrites(id)'
  <1>1. CASE Reset
    BY <1>1 DEF Reset, OwnerWrites, Unbroken, Alone, Kind
  <1>2. ASSUME NEW r \in Request, Acts(r) PROVE OwnerWrites(id)'
    <2> SUFFICES ASSUME NEW x, x = exchange'[id], x # None, Unbroken(id)',
                        \A q \in met' : UserOf(q) # UserOf(x)
                 PROVE  \/ id \in write'[UserOf(x)] \/ call'[x].kind \in Permissions
                        \/ UserOf(x) \notin permitted'
      BY DEF OwnerWrites, Alone, Kind
    <2> DEFINE u == UserOf(x)
    <2>1. CASE exchange'[id] # exchange[id]
      BY <1>2, <2>1, Exchanges DEF Permissions
    <2>2. CASE exchange'[id] = exchange[id]
      <3>1. /\ x \in Request /\ IdOf(x) = id /\ Registers(x) /\ u \in User
            /\ exchange[id] = x /\ Kind(x) \notin Making
        BY <2>2, Asks DEF Made, Of
      <3>2. Alone(u)' /\ Alone(u) /\ Unbroken(id)
        BY <1>2, <3>1, Shrinks DEF Alone
      <3>3. id \in write[u] \/ Kind(x) \in Permissions \/ u \notin permitted
        BY <2>2, <3>2 DEF OwnerWrites
      <3>4. UserOf(x) = u
        OBVIOUS
      <3> HIDE DEF u
      <3>a. CASE u \notin permitted
        <4>1. Stranded(x)'
          <5>1. Stranded(x)
            BY <3>4, <3>a DEF Stranded
          <5> QED BY <1>2, <3>1, <5>1, StrandedStays
        <4>2. x \notin met'
          BY <3>2, <3>4 DEF Alone
        <4> QED BY <3>4, <4>1, <4>2 DEF Stranded
      <3>b. SUFFICES ASSUME u \in permitted
                     PROVE  id \in write'[u] \/ call'[x].kind \in Permissions
        BY <3>4, <3>a
      <3>5. CASE write'[u] # write[u]
        <4>1. /\ UserOf(r) = u /\ Kind(r) = "putPermissions" /\ ~Client(r)
              /\ write'[u] = call[r].view
          <5>1. Kind(r) # "putVhost"
            <6>1. ASSUME Kind(r) = "putVhost" PROVE FALSE
              <7>1. UserOf(r) = UserOf(x)
                BY <1>2, <3>1, <3>4, <3>5, Writes
              <7>2. x \in met
                BY <3>1, <6>1, <7>1, Asks DEF Users, Makes
              <7> QED BY <3>2, <3>4, <7>2 DEF Alone
            <6> QED BY <6>1
          <5> QED BY <1>2, <3>1, <3>5, <5>1, Writes
        <4>2. /\ r \in InFlight \ met
              /\ \A o \in Request \ {r} : UserOf(o) = u \/ IdOf(o) = IdOf(r) => o \notin InFlight
          BY <1>2, <3>2, <4>1, OneOfAUser
        <4>3. write'[u] = getUpdatedPermission(r)
          BY <4>1, <4>2 DEF View
        <4>4. CASE r = x
          BY <3>1, <4>1, <4>3, <4>4 DEF getUpdatedPermission
        <4>5. CASE r # x
          <5>1. Kind(x) = "none"
            BY <3>1, <3>4, <4>2, <4>5, NoCallType DEF InFlight, Working, Kind
          <5>2. id \in write[u]
            BY <3>3, <3>b, <5>1 DEF Permissions
          <5>3. Registers(r) \/ IdOf(r) # id
            <6>1. ASSUME ~Registers(r), IdOf(r) = id PROVE FALSE
              <7>1. DeleteChain(r)
                BY <3>2, <4>2, <6>1, Implied DEF Chain
              <7> QED BY <2>2, <4>1, <6>1, <7>1 DEF DeleteChain, Permissions
            <6> QED BY <6>1
          <5> QED BY <3>4, <4>1, <4>3, <5>2, <5>3 DEF getUpdatedPermission
        <4> QED BY <4>4, <4>5
      <3>6. CASE write'[u] = write[u] /\ ~(id \in write[u])
        <4>1. Kind(x) \in Permissions
          BY <3>3, <3>b, <3>6
        <4>2. CASE r = x
          <5>1. CASE call'[x].kind \in Permissions
            BY <5>1
          <5>2. CASE Kind(x) = "putPermissions" /\ Execute(x) /\ write'[u] = call[x].view
            <6>1. ~Client(x)
              BY <3>1, <5>2, ClientMoves DEF Shape, RegisterShape, DeleteShape
            <6>2. x \in InFlight \ met
              BY <1>2, <3>1, <3>2, <3>4, <4>2, <6>1, OneOfAUser
            <6>3. call[x].view = getUpdatedPermission(x)
              BY <3>1, <5>2, <6>2 DEF View
            <6> QED BY <3>1, <3>4, <5>2, <6>3 DEF getUpdatedPermission
          <5> QED BY <1>2, <3>1, <3>4, <3>b, <4>1, <4>2, <5>1, <5>2, Changes DEF Users
        <4>3. CASE r # x
          BY <1>2, <3>1, <4>1, <4>3, Frame DEF Kind
        <4> QED BY <4>2, <4>3
      <3>7. CASE write'[u] = write[u] /\ id \in write[u]
        BY <3>4, <3>7
      <3> QED BY <3>5, <3>6, <3>7
    <2> QED BY <2>1, <2>2
  <1> QED BY <1>1, <1>2, Steps

(* An answer stays given.                                                  *)
LEMMA OkStays ==
  ASSUME TypeOK, NEW r \in Request, Shape(r), Acts(r), NEW o \in Request, ~Registers(o),
         answer[o] = "ok"
  PROVE  answer'[o] = "ok"
  <1>1. CASE o # r
    BY <1>1, Frame
  <1>2. CASE o = r /\ (requestAsync(r) \/ CallFails(r))
    <2>1. Kind(r) \in Permissions
      <3>1. Kind(r) # "none" /\ Kind(r) \in CallKind
        BY <1>2, CallMoves, Updated
      <3> QED BY <1>2, <3>1 DEF Shape, DeleteShape, CallKind, Permissions, Making
    <2> QED BY <1>2, <2>1, CallMoves, Continued, Failed, Hung DEF Permissions
  <1>3. CASE ~(requestAsync(r) \/ CallFails(r))
    BY <1>3, ClientMoves, StatementMoves, QueryFailsMoves, ReplyMoves DEF Acts
  <1> QED BY <1>1, <1>2, <1>3

LEMMA WriterOwnsStep ==
  ASSUME TypeOK, \A r \in Request : Shape(r) /\ WholeShape(r) /\ View(r) /\ Chain(r), Overlap,
         Writers, [Next]_vars, NEW id \in Id, NEW u \in User, Made(id), WriterOwns(id, u)
  PROVE  WriterOwns(id, u)'
  <1>1. CASE Reset
    BY <1>1 DEF Reset, WriterOwns, Unbroken, Alone, Foreign, Kind
  <1>2. ASSUME NEW r \in Request, Acts(r) PROVE WriterOwns(id, u)'
    <2> DEFINE Revoked(o) == ~Registers(o) /\ UserOf(o) = u /\ call'[o].kind \in Permissions
    <2> SUFFICES ASSUME Unbroken(id)', Alone(u)', id \in write'[u], ~Foreign(id, u)'
                 PROVE  \/ exchange'[id] # None /\ UserOf(exchange'[id]) = u
                        \/ \E o \in Of(id) : Revoked(o)
      BY DEF WriterOwns, Kind
    <2>1. Unbroken(id) /\ Alone(u)
      BY <1>2, Shrinks
    <2>2. ~Foreign(id, u)
      BY <1>2, OkStays DEF Foreign, Of
    <2>3. CASE id \notin write[u]
      <3>1. /\ UserOf(r) = u /\ Kind(r) = "putPermissions" /\ ~Client(r)
            /\ write'[u] = call[r].view /\ exchange'[IdOf(r)] = exchange[IdOf(r)]
        BY <1>2, <2>3, Writes
      <3>2. r \in InFlight \ met
        BY <1>2, <3>1, OneOfAUser
      <3>3. write'[u] = getUpdatedPermission(r)
        BY <3>1, <3>2 DEF View
      <3>4. Registers(r) /\ IdOf(r) = id
        BY <2>3, <3>1, <3>3 DEF getUpdatedPermission
      <3>5. RegisterChain(r)
        BY <2>1, <3>2, <3>4, Implied DEF Chain
      <3>6. exchange[id] = r
        BY <3>1, <3>4, <3>5 DEF RegisterChain, Created, Permissions
      <3> QED BY <3>1, <3>4, <3>6, Asks
    <2>4. CASE id \in write[u] /\ exchange[id] # None /\ UserOf(exchange[id]) = u
      <3>1. CASE exchange'[id] = exchange[id]
        BY <2>4, <3>1
      <3>2. CASE exchange'[id] # exchange[id]
        <4>1. /\ r \in Of(id) /\ ~Registers(r) /\ answer'[r] = "ok"
              /\ call'[r].kind = "getPermissions"
          BY <1>2, <2>4, <3>2, Exchanges DEF Of
        <4>2. UserOf(r) = u
          BY <4>1 DEF Foreign
        <4> QED BY <4>1, <4>2 DEF Permissions
      <3> QED BY <3>1, <3>2
    <2>5. ASSUME NEW d \in Of(id), ~Registers(d), UserOf(d) = u, Kind(d) \in Permissions
          PROVE  Revoked(d)
      <3>1. d \in Request /\ IdOf(d) = id
        BY DEF Of
      <3>2. CASE d # r
        BY <1>2, <2>5, <3>1, <3>2, Frame DEF Kind
      <3>3. CASE d = r
        <4>1. CASE Kind(d) = "putPermissions" /\ write'[u] = call[d].view
          <5>1. ~Client(d)
            BY <3>1, <4>1, ClientMoves DEF Shape, RegisterShape, DeleteShape
          <5>2. d \in InFlight \ met
            BY <1>2, <2>5, <3>1, <3>3, <5>1, OneOfAUser
          <5>3. call[d].view = getUpdatedPermission(d)
            BY <3>1, <4>1, <5>2 DEF View
          <5> QED BY <2>5, <3>1, <4>1, <5>3 DEF getUpdatedPermission
        <4>2. CASE UserOf(d) \notin permitted /\ write'[u] = write[u]
          BY <2>5, <4>2 DEF Writers
        <4> QED BY <1>2, <2>5, <3>1, <3>3, <4>1, <4>2, Changes
      <3> QED BY <3>2, <3>3
    <2> QED BY <2>1, <2>2, <2>3, <2>4, <2>5 DEF WriterOwns
  <1> QED BY <1>1, <1>2, Steps

-----------------------------------------------------------------------------
(* The theorems.                                                           *)

LEMMA InvInit == Init => Inv
  <1> SUFFICES ASSUME Init PROVE Inv
    OBVIOUS
  <1>1. TypeOK
    BY TypesInit
  <1>2. /\ \A r \in Request : /\ Kind(r) = "none" /\ call[r] = NoCall
                              /\ answer[r] = "none" /\ stage[r] = "new"
        /\ \A id \in Id : row[id] = None /\ exchange[id] = None
        /\ \A u \in User : write[u] = {}
    BY NoCallType DEF Init, Kind
  <1>3. InFlight = {}
    BY <1>2 DEF InFlight, Working, Waiting
  <1>4. Overlap /\ Users
    <2>1. Writers
      BY <1>2 DEF Init, Writers
    <2>2. \A r \in Request : Known(r) /\ Makes(r)
      BY <1>2 DEF Known, Makes, Created, Permissions
    <2> QED BY <1>3, <2>1, <2>2 DEF Overlap, Users
  <1>5. ASSUME NEW r \in Request
        PROVE  Shape(r) /\ SparedShape(r) /\ WholeShape(r) /\ View(r) /\ Chain(r)
    BY <1>2, <1>3 DEF Shape, RegisterShape, DeleteShape, SparedShape, WholeShape, View, Chain,
                      Permissions, Making, UserKind
  <1>6. ASSUME NEW id \in Id
        PROVE  Made(id) /\ RowKept(id) /\ ExchangeKept(id) /\ OwnerWrites(id)
    <2>1. Made(id) /\ RowKept(id) /\ OwnerWrites(id)
      BY <1>2 DEF Made, RowKept, OwnerWrites
    <2>2. \A r \in Of(id) : SteadyRegister(r)
      BY <1>2, Asks DEF SteadyRegister, Of, Created, Permissions
    <2> QED BY <1>2, <2>1, <2>2 DEF ExchangeKept
  <1>7. \A id \in Id, u \in User : WriterOwns(id, u)
    BY <1>2 DEF WriterOwns
  <1> QED BY <1>1, <1>4, <1>5, <1>6, <1>7 DEF Inv

LEMMA InvStep == Inv /\ [Next]_vars => Inv'
  <1> SUFFICES ASSUME Inv, [Next]_vars PROVE Inv'
    OBVIOUS
  <1>1. /\ TypeOK /\ Overlap /\ Users
        /\ \A r \in Request : Shape(r) /\ SparedShape(r) /\ WholeShape(r) /\ View(r) /\ Chain(r)
        /\ \A id \in Id : Made(id) /\ RowKept(id) /\ ExchangeKept(id) /\ OwnerWrites(id)
        /\ \A id \in Id, u \in User : WriterOwns(id, u)
    BY DEF Inv
  <1>0. Writers /\ \A r \in Request : Known(r) /\ Makes(r)
    BY <1>1 DEF Users
  <1>2. TypeOK' /\ Overlap' /\ Users'
    <2>1. TypeOK' /\ Overlap' /\ Writers'
      BY <1>0, <1>1, TypesStep, OverlapStep, WritersStep
    <2>2. \A r \in Request : Known(r)' /\ Makes(r)'
      BY <1>0, <1>1, KnownStep, MakesStep
    <2> QED BY <2>1, <2>2 DEF Users
  <1>3. \A r \in Request : Shape(r)' /\ SparedShape(r)' /\ WholeShape(r)' /\ View(r)' /\ Chain(r)'
    BY <1>0, <1>1, ShapeStep, SparedShapeStep, WholeShapeStep, ViewStep, ChainStep
  <1>4. \A id \in Id : Made(id)' /\ RowKept(id)' /\ ExchangeKept(id)' /\ OwnerWrites(id)'
    BY <1>0, <1>1, MadeStep, RowKeptStep, ExchangeKeptStep, OwnerWritesStep
  <1>5. \A id \in Id, u \in User : WriterOwns(id, u)'
    BY <1>0, <1>1, WriterOwnsStep
  <1> QED BY <1>2, <1>3, <1>4, <1>5 DEF Inv

LEMMA Invariance == Spec => []Inv
  <1>1. Init => Inv
    BY InvInit
  <1>2. Inv /\ [Next]_vars => Inv'
    BY InvStep
  <1> QED BY <1>1, <1>2, PTL DEF Spec

LEMMA IdleChain ==
  ASSUME NEW id \in Id, Idle(id), NEW r \in Of(id)
  PROVE  stage[r] \notin Waiting /\ Kind(r) = "none"
  BY NoCallType DEF Idle, Of, Working, Kind

(* Rows, exchanges, permissions and calls have their types.                *)
THEOREM AdaptorsHaveTypes == Spec => []TypeOK
  <1>1. Inv => TypeOK
    BY DEF Inv
  <1> QED BY <1>1, Invariance, PTL

(* ManagementApiImpl: however many registers and deletes of one adaptor    *)
(* overlap, no row of adaptors_details is left without its exchange while  *)
(* nothing goes wrong for the adaptor.                                     *)
THEOREM RowsHaveExchanges == Spec => []RowHasExchange
  <1>1. ASSUME Inv, NEW id \in Id, Idle(id), Unbroken(id), row[id] # None
        PROVE  exchange[id] # None
    <2>1. ASSUME exchange[id] = None PROVE FALSE
      <3>1. PICK r \in Of(id) : RowMoves(r)
        BY <1>1, <2>1 DEF Inv, RowKept
      <3>2. stage[r] \notin Waiting
        BY <1>1, IdleChain
      <3> QED BY <3>1, <3>2 DEF RowMoves, Waiting
    <2> QED BY <2>1
  <1>2. Inv => RowHasExchange
    BY <1>1 DEF RowHasExchange
  <1> QED BY <1>2, Invariance, PTL

(* RabbitClient and ManagementApiImpl: no exchange is left without its row *)
(* when calls to RabbitMQ are lost, however many registers overlap, unless *)
(* what was lost is a binding or the call that deletes the exchange again, *)
(* or the user of the exchange was found without a permission for the      *)
(* vhost: there getUserPermissions throws and nothing is taken back.       *)
THEOREM ExchangesHaveRows == Spec => []ExchangeHasRow
  <1>1. ASSUME Inv, NEW id \in Id, Idle(id), Steady(id), exchange[id] # None,
               ~Stranded(exchange[id])
        PROVE  row[id] # None
    <2>1. exchange[id] \in Of(id) /\ exchange[id] \in Request
      BY <1>1 DEF Inv, Made, Of
    <2>2. Kind(exchange[id]) # "deleteExchange"
      BY <1>1, <2>1, IdleChain
    <2> QED BY <1>1, <2>2 DEF Inv, ExchangeKept
  <1>2. Inv => ExchangeHasRow
    BY <1>1 DEF ExchangeHasRow, Steady
  <1> QED BY <1>2, Invariance, PTL

(* RabbitClient.getUpdatedPermission: who may write to an exchange made    *)
(* it, unless another user deleted the adaptor or requests of this user    *)
(* overlapped.                                                             *)
THEOREM WritersOwnExchanges == Spec => []WriterOwnsExchange
  <1>1. ASSUME Inv, NEW id \in Id, NEW u \in User, Idle(id), Unbroken(id), id \in write[u],
               ~ \E r \in Of(id) : ~Registers(r) /\ UserOf(r) # u /\ stage[r] = "ok",
               ~ \E r \in met : UserOf(r) = u
        PROVE  exchange[id] # None /\ UserOf(exchange[id]) = u
    <2>1. ~Foreign(id, u)
      <3>1. ASSUME NEW r \in Of(id), ~Registers(r), UserOf(r) # u, answer[r] = "ok" PROVE FALSE
        <4>1. r \in Request /\ IdOf(r) = id /\ stage[r] \notin Waiting
          BY <1>1, IdleChain DEF Of
        <4>2. Spared(r)
          BY <1>1, <4>1, Implied
        <4>3. stage[r] \in {"broker", "deleteRow", "ok"}
          BY <1>1, <3>1, <4>1, <4>2 DEF Inv, SparedShape
        <4> QED BY <1>1, <3>1, <4>1, <4>3 DEF Waiting
      <3> QED BY <3>1 DEF Foreign
    <2>2. Alone(u)
      BY <1>1 DEF Alone
    <2>3. \A r \in Of(id) : Kind(r) \notin Permissions
      BY <1>1, IdleChain DEF Permissions
    <2> QED BY <1>1, <2>1, <2>2, <2>3 DEF Inv, WriterOwns
  <1>2. Inv => WriterOwnsExchange
    BY <1>1 DEF WriterOwnsExchange
  <1> QED BY <1>2, Invariance, PTL

(* RabbitClient.getUpdatedPermission: who made an exchange may write to    *)
(* it, unless requests of this user overlapped or the user has no          *)
(* permission for the vhost at all.                                        *)
THEOREM OwnersMayWrite == Spec => []OwnerMayWrite
  <1>1. ASSUME Inv, NEW id \in Id, Idle(id), Unbroken(id), exchange[id] # None,
               ~ \E r \in met : UserOf(r) = UserOf(exchange[id]),
               UserOf(exchange[id]) \in permitted
        PROVE  id \in write[UserOf(exchange[id])]
    <2>1. exchange[id] \in Of(id)
      BY <1>1 DEF Inv, Made
    <2>2. Kind(exchange[id]) \notin Permissions
      BY <1>1, <2>1, IdleChain DEF Permissions
    <2> QED BY <1>1, <2>2 DEF Inv, OwnerWrites, Alone
  <1>2. Inv => OwnerMayWrite
    BY <1>1 DEF OwnerMayWrite
  <1> QED BY <1>2, Invariance, PTL

(* RabbitClient.registerAdaptor and deleteAdapter, with the statements of  *)
(* ManagementApiImpl: what a success says is so at the step that says it,  *)
(* for a request that met no other and for which RabbitMQ answered with no *)
(* status that the client does not expect.                                 *)
THEOREM SuccessesMeanAdaptors == Spec => SuccessMeansAdaptor
  <1> DEFINE Sure(r) ==
        /\ stage[r] # "ok" /\ stage'[r] = "ok" /\ r \notin met
        /\ \A f \in faults : IdOf(f[2]) = IdOf(r) => f[1] # "unexpected"
  <1>1. ASSUME Inv, Next, NEW r \in Request, Sure(r)
        PROVE  IF Registers(r)
               THEN /\ row'[IdOf(r)] = r /\ exchange'[IdOf(r)] = r
                    /\ bound'[IdOf(r)] = 1..Bindings /\ IdOf(r) \in write'[UserOf(r)]
               ELSE row'[IdOf(r)] = None /\ exchange'[IdOf(r)] = None
    <2>1. TypeOK /\ Shape(r) /\ Chain(r) /\ Expected(IdOf(r)) /\ \A o \in Request : Shape(o)
      BY <1>1 DEF Inv, Expected
    <2>2. Acts(r)
      <3>1. ~Reset
        BY <1>1 DEF Reset
      <3>2. PICK o \in Request : Acts(o)
        BY <1>1, <3>1, Steps
      <3> QED BY <1>1, <2>1, <3>2, Frame
    <2>3. \/ Registers(r) /\ stage[r] = "broker" /\ answer[r] = "ok"
             /\ UNCHANGED <<row, exchange, bound, write, users, permitted>>
          \/ /\ stage[r] = "deleteRow" /\ row'[IdOf(r)] = None
             /\ UNCHANGED <<exchange, bound, write>>
      BY <1>1, <2>1, <2>2, ClientMoves, CallMoves, StatementMoves, QueryFailsMoves, ReplyMoves
         DEF Acts
    <2>4. r \in InFlight \ met
      BY <1>1, <2>3 DEF InFlight, Working, Waiting
    <2>5. CASE Registers(r)
      <3>1. RegisterChain(r) /\ stage[r] = "broker" /\ answer[r] = "ok"
        BY <2>1, <2>3, <2>4, <2>5 DEF Chain, Shape, RegisterShape
      <3> QED BY <2>3, <2>5, <3>1 DEF RegisterChain
    <2>6. CASE ~Registers(r)
      <3>1. DeleteChain(r) /\ stage[r] = "deleteRow" /\ answer[r] = "ok"
        BY <2>1, <2>3, <2>4, <2>6 DEF Chain, Shape, DeleteShape
      <3> QED BY <2>3, <2>6, <3>1 DEF DeleteChain
    <2> QED BY <2>5, <2>6
  <1>2. Inv /\ [Next]_vars =>
          [\A r \in Request :
             Sure(r) => LET id == IdOf(r)
                        IN  IF Registers(r)
                            THEN /\ row'[id] = r /\ exchange'[id] = r
                                 /\ bound'[id] = 1..Bindings /\ id \in write'[UserOf(r)]
                            ELSE row'[id] = None /\ exchange'[id] = None]_vars
    BY <1>1
  <1> QED BY <1>2, Invariance, PTL DEF Spec, SuccessMeansAdaptor
=============================================================================
