--------------------- MODULE StreamingSubscriptionProofs --------------------
(* Theorems about StreamingSubscription, for every value of its constants. *)
EXTENDS StreamingSubscription, FiniteSetTheorems, TLAPS

-----------------------------------------------------------------------------
(* Calls and promises keep their types.                                    *)

LEMMA NewCallType ==
  ASSUME NEW r \in Request, NEW kind \in Kind, NEW key \in Entity \cup {None}
  PROVE  NewCall(r, kind, key) \in Call
  BY DEF NewCall, Call, Status

LEMMA RollbackType ==
  ASSUME NEW r \in Request, NEW key \in Entity \cup {None}
  PROVE  Rollback(r, key) \in Call
  BY DEF Rollback, NewCall, Call, Kind, Status

LEMMA RequestFields ==
  ASSUME NEW r \in Request
  PROVE  /\ request[r].op \in Operation
         /\ request[r].user \in User
         /\ request[r].queue \in Queue
         /\ request[r].entities \subseteq Entity
         /\ IsFiniteSet(request[r].entities)
  BY RequestAssumption

LEMMA CallFields ==
  ASSUME NEW c \in Call
  PROVE  /\ c.req \in Request /\ c.kind \in Kind /\ c.status \in Status
         /\ c.key \in Entity \cup {None} /\ c.view \subseteq Queue
         /\ UserOf(c) \in User /\ QueueOf(c) \in Queue
  BY RequestFields DEF Call, UserOf, QueueOf

LEMMA SettleType ==
  ASSUME TypeOK, NEW r \in Request, NEW outcome \in {"ok", "fail"},
         \/ Settle(r, outcome) \/ Unsettled
  PROVE  promise' \in [Request -> Outcome]
  BY DEF TypeOK, Settle, Unsettled, Outcome

LEMMA AnswerType ==
  ASSUME TypeOK, NEW c \in calls, NEW status \in Status, Answer(c, status)
  PROVE  calls' \subseteq Call
  <1>1. c \in Call /\ UserOf(c) \in User
    BY CallFields DEF TypeOK, BrokerTypeOK
  <1>2. readPerm[UserOf(c)] \subseteq Queue
    BY <1>1 DEF TypeOK, BrokerTypeOK
  <1> DEFINE view == IF c.kind = "getPermissions" /\ status = "ok"
                     THEN readPerm[UserOf(c)] ELSE c.view
  <1>3. view \subseteq Queue
    BY <1>1, <1>2, CallFields
  <1> HIDE DEF view
  <1>4. [c EXCEPT !.status = status, !.view = view] \in Call
    BY <1>1, <1>3 DEF Call
  <1>5. calls' = (calls \ {c}) \cup {[c EXCEPT !.status = status, !.view = view]}
    BY DEF Answer, view
  <1> QED BY <1>4, <1>5 DEF TypeOK, BrokerTypeOK

LEMMA ExecuteType ==
  ASSUME TypeOK, NEW c \in calls, Execute(c)
  PROVE  /\ password' \in [User -> Request \cup {None}]
         /\ saved' \in [User -> Request \cup {None}]
         /\ permitted' \subseteq User /\ queues' \subseteq Queue
         /\ bindings' \subseteq Queue \X Exchange
         /\ readPerm' \in [User -> SUBSET Queue]
         /\ creator' \in [Queue -> Request \cup {None}]
         /\ granted' \subseteq Request
  <1>1. c \in Call
    BY DEF TypeOK, BrokerTypeOK
  <1>2. UserOf(c) \in User /\ QueueOf(c) \in Queue /\ c.req \in Request
        /\ c.view \subseteq Queue
    BY <1>1, CallFields
  <1>3. permitted' \subseteq User /\ granted' \subseteq Request
    BY <1>2 DEF Execute, TypeOK, BrokerTypeOK
  <1>8. /\ password' \in [User -> Request \cup {None}]
        /\ saved' \in [User -> Request \cup {None}]
    BY <1>2 DEF Execute, TypeOK, BrokerTypeOK
  <1>4. queues' \subseteq Queue
    BY <1>2 DEF Execute, TypeOK, BrokerTypeOK
  <1>5. bindings' \subseteq Queue \X Exchange
    BY <1>2 DEF Execute, Bindable, TypeOK, BrokerTypeOK
  <1>6. readPerm' \in [User -> SUBSET Queue]
    BY <1>2 DEF Execute, TypeOK, BrokerTypeOK
  <1>7. creator' \in [Queue -> Request \cup {None}]
    BY <1>2 DEF Execute, TypeOK, BrokerTypeOK
  <1> QED BY <1>3, <1>4, <1>5, <1>6, <1>7, <1>8

LEMMA VerdictType ==
  ASSUME NEW c
  PROVE  Verdict(c) \in Status
  BY DEF Verdict, Status

(* Every call a callback sends is a call.                                  *)
LEMMA CallbackCalls ==
  ASSUME TypeOK, NEW c \in calls, Callback(c)
  PROVE  calls' \subseteq Call
  <1>1. c \in Call /\ c.req \in Request /\ c.key \in Entity \cup {None}
        /\ c.view \subseteq Queue /\ QueueOf(c) \in Queue
    BY CallFields DEF TypeOK, BrokerTypeOK
  <1>2. request[c.req].entities \subseteq Entity
    BY <1>1, RequestFields
  <1>3. BindAll(c.req) \subseteq Call
    BY <1>1, <1>2, NewCallType DEF BindAll, Kind
  <1>4. {} \subseteq Call
    OBVIOUS
  <1>5. \A kind \in Kind : NewCall(c.req, kind, c.key) \in Call /\ NewCall(c.req, kind, None) \in Call
    BY <1>1, NewCallType
  <1>6. Rollback(c.req, c.key) \in Call
    BY <1>1, RollbackType
  <1>7. {Rollback(c.req, e) : e \in request[c.req].entities \cap {Blank}} \subseteq Call
    BY <1>1, <1>2, RollbackType
  <1>8. getUpdatedPermission(c) \subseteq Queue
    BY <1>1 DEF getUpdatedPermission
  <1>9. [NewCall(c.req, "putPermissions", c.key) EXCEPT !.view = getUpdatedPermission(c)] \in Call
    BY <1>5, <1>8 DEF Call, Kind
  <1>10. \A S : S \subseteq Call /\ Return(c, S) => calls' \subseteq Call
    BY DEF Return, TypeOK, BrokerTypeOK
  <1>19. \A kind \in Kind : Then(c, kind) => calls' \subseteq Call
    BY <1>5, <1>10 DEF Then
  <1>20. CASE UserCallback(c)
    BY <1>20, <1>4, <1>10, <1>19 DEF UserCallback, OnUserPut, OnVhostPut,
       OnUserSelected, OnPasswordPut, OnUserUpdated, Kind, DbKind
  <1>11. CASE OnUserFound(c) \/ OnUserSaved(c)
    BY <1>11, <1>4, <1>10, <1>19 DEF OnUserFound, OnUserSaved, Kind
  <1>12. CASE OnQueueCreated(c)
    BY <1>12, <1>3, <1>4, <1>7, <1>10 DEF OnQueueCreated
  <1>13. CASE OnQueueListed(c)
    BY <1>13, <1>3, <1>4, <1>10 DEF OnQueueListed
  <1>14. CASE OnBound(c)
    BY <1>14, <1>4, <1>5, <1>6, <1>10 DEF OnBound, Kind
  <1>15. CASE OnRolledBack(c)
    BY <1>15, <1>4, <1>10 DEF OnRolledBack
  <1>16. CASE OnDeleted(c)
    BY <1>16, <1>4, <1>5, <1>10 DEF OnDeleted, Kind
  <1>17. CASE OnPermissionsRead(c)
    BY <1>17, <1>4, <1>6, <1>9, <1>10 DEF OnPermissionsRead, PermissionFailed
  <1>18. CASE OnPermissionsWritten(c)
    BY <1>18, <1>4, <1>6, <1>10 DEF OnPermissionsWritten, PermissionFailed
  <1> QED BY <1>11, <1>12, <1>13, <1>14, <1>15, <1>16, <1>17, <1>18, <1>20
         DEF Callback, QueueCallback

(* How a callback leaves the promise of its request.                       *)
LEMMA CallbackSettles ==
  ASSUME NEW c, Callback(c)
  PROVE  /\ \/ \E o \in {"ok", "fail"} : Settle(c.req, o)
            \/ Unsettled
         /\ keyed' = keyed \/ keyed' = keyed \cup {c.req}
  <1>1. CASE UserCallback(c)
    BY <1>1 DEF UserCallback, OnUserPut, OnVhostPut, OnUserSelected,
         OnPasswordPut, OnUserUpdated
  <1>2. CASE OnUserFound(c) \/ OnUserSaved(c)
    BY <1>2 DEF OnUserFound, OnUserSaved
  <1>3. CASE QueueCallback(c) /\ UNCHANGED keyed
    BY <1>3 DEF QueueCallback, OnQueueCreated, OnQueueListed, OnBound,
         OnRolledBack, OnDeleted, OnPermissionsRead, OnPermissionsWritten,
         PermissionFailed
  <1> QED BY <1>1, <1>2, <1>3 DEF Callback

LEMMA CallbackTypes ==
  ASSUME TypeOK, NEW c \in calls, Callback(c)
  PROVE  TypeOK'
  <1>1. c.req \in Request
    BY CallFields DEF TypeOK, BrokerTypeOK
  <1>2. calls' \subseteq Call
    BY CallbackCalls
  <1>3. BrokerTypeOK'
    BY <1>2 DEF Callback, brokerState, TypeOK, BrokerTypeOK
  <1>4. Cardinality(request[c.req].entities) \in Nat
    BY <1>1, RequestFields, FS_CardinalityType
  <1>5. totalBindCount' \in Nat /\ totalBindSuccess' \in Nat
    BY <1>4 DEF TypeOK, Callback, QueueCallback, OnUserFound, OnUserSaved,
         OnQueueCreated, OnQueueListed, OnBound, OnRolledBack, OnDeleted,
         OnPermissionsRead, OnPermissionsWritten, ResetCounters, KeepCounters
  <1>6. /\ \/ \E o \in {"ok", "fail"} : Settle(c.req, o)
           \/ Unsettled
        /\ keyed' = keyed \/ keyed' = keyed \cup {c.req}
    BY CallbackSettles
  <1>8. keyed' \subseteq Request
    BY <1>1, <1>6 DEF TypeOK
  <1>7. promise' \in [Request -> Outcome]
    BY <1>1, <1>6, SettleType
  <1> QED BY <1>3, <1>5, <1>7, <1>8 DEF TypeOK

(* The state always has its declared type.                                 *)
THEOREM TypeCorrect == Spec => []TypeOK
  <1>1. Init => TypeOK
    BY FaultAssumption DEF Init, BrokerInit, TypeOK, BrokerTypeOK, Outcome
  <1>2. TypeOK /\ [Next]_vars => TypeOK'
    <2> SUFFICES ASSUME TypeOK, [Next]_vars PROVE TypeOK'
      OBVIOUS
    <2>1. ASSUME NEW r \in Request, NEW first \in Kind, Arrive(r, first),
                 ResetCounters(r) \/ KeepCounters
          PROVE  TypeOK'
      <3>1. NewCall(r, first, None) \in Call
        BY NewCallType
      <3>2. calls' \subseteq Call
        BY <2>1, <3>1 DEF Arrive, TypeOK, BrokerTypeOK
      <3>3. BrokerTypeOK'
        BY <2>1, <3>2 DEF Arrive, brokerState, TypeOK, BrokerTypeOK
      <3>4. Cardinality(request[r].entities) \in Nat
        BY RequestFields, FS_CardinalityType
      <3> QED BY <2>1, <3>3, <3>4
             DEF Arrive, ResetCounters, KeepCounters, TypeOK, Outcome
    <2>2. CASE Client
      BY <2>1, <2>2 DEF Client, registerStreamingSubscription, Kind, DbKind,
           appendStreamingSubscription, deleteStreamingSubscription, resetPassword
    <2>3. ASSUME NEW c \in calls, Serve(c), UNCHANGED serviceVars
          PROVE  TypeOK'
      <3>1. Verdict(c) \in Status
        BY VerdictType
      <3> QED BY <2>3, <3>1, AnswerType, ExecuteType
              DEF Serve, TypeOK, BrokerTypeOK, serviceVars
    <2>4. ASSUME NEW c \in calls, Fault(c), UNCHANGED serviceVars
          PROVE  TypeOK'
      <3>1. calls' \subseteq Call
        BY <2>4, AnswerType DEF Fault, Status
      <3>2. faults' \in 0..MaxFaults
        BY <2>4, FaultAssumption DEF Fault, TypeOK, BrokerTypeOK
      <3>3. UNCHANGED brokerState \/ Execute(c)
        BY <2>4 DEF Fault
      <3>4. CASE UNCHANGED brokerState
        BY <2>4, <3>1, <3>2, <3>4 DEF TypeOK, BrokerTypeOK, brokerState, serviceVars
      <3>5. CASE Execute(c)
        BY <2>4, <3>1, <3>2, <3>5, ExecuteType DEF TypeOK, BrokerTypeOK, serviceVars
      <3> QED BY <3>3, <3>4, <3>5
    <2>5. CASE Service
      BY <2>5, CallbackTypes DEF Service
    <2>6. CASE UNCHANGED vars
      BY <2>6 DEF vars, brokerVars, brokerState, serviceVars, TypeOK, BrokerTypeOK
    <2> QED BY <2>2, <2>3, <2>4, <2>5, <2>6 DEF Next, Broker
  <1> QED BY <1>1, <1>2, PTL DEF Spec
-----------------------------------------------------------------------------
(* Grants.  The two facts about grants rest on one inductive invariant:    *)
(* every call belongs to a request that arrived, every permission value    *)
(* that travels in a call was asked for by the call's user, a permission   *)
(* write of a register or append contains its queue, and once it was       *)
(* performed the request is in granted.                                    *)

Asked(u, q) ==
  \E r \in Request : /\ request[r].user = u /\ request[r].queue = q
                    /\ Subscribes(r) /\ promise[r] # "none"

CallsAskedFor ==
  \A c \in calls :
    /\ promise[c.req] # "none"
    /\ \A q \in c.view : Asked(UserOf(c), q)

WritesGrant ==
  \A c \in calls :
    c.kind = "putPermissions" /\ Subscribes(c.req) =>
      /\ QueueOf(c) \in c.view
      /\ c.status = "ok" => c.req \in granted

GrantInv ==
  /\ TypeOK
  /\ PermissionIsolation
  /\ CallsAskedFor
  /\ WritesGrant
  /\ GrantBeforeSuccess

LEMMA AskedStays ==
  ASSUME \A r \in Request : promise[r] # "none" => promise'[r] # "none",
         NEW u, NEW q, Asked(u, q)
  PROVE  Asked(u, q)'
  BY DEF Asked

(* Promises never return to "none".                                        *)
LEMMA PromiseGrows ==
  ASSUME TypeOK, [Next]_vars
  PROVE  \A r \in Request : promise[r] # "none" => promise'[r] # "none"
  <1>1. ASSUME NEW r \in Request, NEW first, Arrive(r, first)
        PROVE  \A s \in Request : promise[s] # "none" => promise'[s] # "none"
    BY <1>1 DEF Arrive, TypeOK, Outcome
  <1>2. CASE Client
    BY <1>1, <1>2 DEF Client, registerStreamingSubscription,
         appendStreamingSubscription, deleteStreamingSubscription, resetPassword
  <1>3. CASE Broker
    BY <1>3 DEF Broker, serviceVars
  <1>4. ASSUME NEW c \in calls, Callback(c)
        PROVE  \A s \in Request : promise[s] # "none" => promise'[s] # "none"
    <2>1. \/ \E o \in {"ok", "fail"} : Settle(c.req, o)
          \/ Unsettled
      BY <1>4, CallbackSettles
    <2> QED BY <2>1 DEF Settle, Unsettled, TypeOK, Outcome
  <1>5. CASE UNCHANGED vars
    BY <1>5 DEF vars, serviceVars
  <1> QED BY <1>2, <1>3, <1>4, <1>5 DEF Next, Service

(* What a broker step leaves of the calls: one of them gets a status, and  *)
(* if it reads permissions, a view.                                        *)
LEMMA BrokerCalls ==
  ASSUME GrantInv, NEW c \in calls, NEW status \in Status, Answer(c, status)
  PROVE  \A d \in calls' :
           \/ d \in calls
           \/ /\ d.req = c.req /\ d.kind = c.kind /\ d.status = status
              /\ UserOf(d) = UserOf(c) /\ QueueOf(d) = QueueOf(c)
              /\ \/ d.view = c.view
                 \/ d.kind = "getPermissions" /\ d.view = readPerm[UserOf(c)]
  <1>1. c \in Call
    BY DEF GrantInv, TypeOK, BrokerTypeOK
  <1> DEFINE view == IF c.kind = "getPermissions" /\ status = "ok"
                     THEN readPerm[UserOf(c)] ELSE c.view
             answered == [c EXCEPT !.status = status, !.view = view]
  <1>2. calls' = (calls \ {c}) \cup {answered}
    BY DEF Answer
  <1>3. /\ answered.req = c.req /\ answered.kind = c.kind
        /\ answered.status = status /\ answered.view = view
    BY <1>1 DEF Call
  <1>4. UserOf(answered) = UserOf(c) /\ QueueOf(answered) = QueueOf(c)
    BY <1>3 DEF UserOf, QueueOf
  <1> HIDE DEF answered
  <1> QED BY <1>2, <1>3, <1>4

(* A broker step preserves the invariant; the broker either performs the   *)
(* call or keeps its state, and answers "ok" only for a call it performed. *)
LEMMA BrokerGrants ==
  ASSUME GrantInv, NEW c \in calls, NEW status \in Status, Answer(c, status),
         UNCHANGED serviceVars, TypeOK', c.status = "sent",
         \/ Execute(c)
         \/ UNCHANGED brokerState,
         status = "ok" => Execute(c) /\ Verdict(c) = "ok"
  PROVE  GrantInv'
  <1>1. promise' = promise
    BY DEF serviceVars
  <1>2. c.req \in Request /\ UserOf(c) \in User /\ QueueOf(c) \in Queue /\ c \in Call
    BY CallFields DEF GrantInv, TypeOK, BrokerTypeOK
  <1>3. \A d \in calls' :
           \/ d \in calls
           \/ /\ d.req = c.req /\ d.kind = c.kind /\ d.status = status
              /\ UserOf(d) = UserOf(c) /\ QueueOf(d) = QueueOf(c)
              /\ \/ d.view = c.view
                 \/ d.kind = "getPermissions" /\ d.view = readPerm[UserOf(c)]
    BY BrokerCalls
  <1>4. \A u, q : Asked(u, q) => Asked(u, q)'
    BY <1>1 DEF Asked
  <1>5. \A u \in User : \A q \in readPerm[u] : Asked(u, q)
    BY DEF GrantInv, PermissionIsolation, Asked
  <1>6. CallsAskedFor'
    <2> SUFFICES ASSUME NEW d \in calls'
                 PROVE  promise[d.req] # "none" /\ \A q \in d.view : Asked(UserOf(d), q)
      BY <1>1, <1>4 DEF CallsAskedFor, UserOf
    <2> QED BY <1>2, <1>3, <1>5 DEF GrantInv, CallsAskedFor
  <1>7. PermissionIsolation'
    <2>1. \A u \in User : \A q \in readPerm'[u] : Asked(u, q)
      <3>1. CASE readPerm' = readPerm
        BY <1>5, <3>1
      <3>2. CASE readPerm' = [readPerm EXCEPT ![UserOf(c)] = c.view]
        BY <1>2, <1>5, <3>2 DEF GrantInv, CallsAskedFor, TypeOK, BrokerTypeOK
      <3> QED BY <3>1, <3>2 DEF Execute, brokerState
    <2> QED BY <2>1, <1>4 DEF PermissionIsolation, Asked
  <1>8. granted \subseteq granted'
    BY DEF Execute, brokerState
  <1>9. WritesGrant'
    <2> SUFFICES ASSUME NEW d \in calls', d.kind = "putPermissions",
                        Subscribes(d.req)
                 PROVE  QueueOf(d) \in d.view /\ (d.status = "ok" => d.req \in granted')
      BY DEF WritesGrant, QueueOf, Subscribes
    <2>1. CASE d \in calls
      BY <2>1, <1>8 DEF GrantInv, WritesGrant
    <2>2. CASE d \notin calls
      <3>1. d.req = c.req /\ d.kind = c.kind /\ d.status = status
            /\ QueueOf(d) = QueueOf(c) /\ d.view = c.view
        BY <2>2, <1>3
      <3>2. QueueOf(c) \in c.view
        BY <3>1 DEF GrantInv, WritesGrant
      <3>3. d.status = "ok" => c.req \in granted'
        BY <3>1, <3>2 DEF Execute, Verdict, Found
      <3> QED BY <3>1, <3>2, <3>3
    <2> QED BY <2>1, <2>2
  <1>10. GrantBeforeSuccess'
    BY <1>1, <1>8 DEF GrantInv, GrantBeforeSuccess
  <1> QED BY <1>6, <1>7, <1>9, <1>10 DEF GrantInv
(* The calls a callback makes: a permission write carries what was read,   *)
(* with the queue of the request added or, for a delete, removed; the      *)
(* others carry no permissions.                                            *)
LEMMA CallbackSends ==
  ASSUME TypeOK, NEW c \in calls, Callback(c)
  PROVE  \A d \in calls' :
           \/ d \in calls
           \/ /\ d.req = c.req /\ d.status = "sent"
              /\ \/ d.kind # "putPermissions" /\ d.view = {}
                 \/ d.kind = "putPermissions" /\ d.view = getUpdatedPermission(c)
  <1> DEFINE Fits(d) == /\ d.req = c.req /\ d.status = "sent"
                        /\ \/ d.kind # "putPermissions" /\ d.view = {}
                           \/ d.kind = "putPermissions" /\ d.view = getUpdatedPermission(c)
  <1>1. \A kind, key : kind # "putPermissions" => Fits(NewCall(c.req, kind, key))
    BY DEF NewCall
  <1>2. \A key : Fits(Rollback(c.req, key))
    BY DEF NewCall, Rollback
  <1>3. Fits([NewCall(c.req, "putPermissions", c.key) EXCEPT !.view = getUpdatedPermission(c)])
    BY DEF NewCall
  <1>4. \A d \in BindAll(c.req) : Fits(d)
    BY <1>1 DEF BindAll
  <1>5. \A S : Return(c, S) /\ (\A d \in S : Fits(d)) =>
               \A d \in calls' : d \in calls \/ Fits(d)
    BY DEF Return
  <1> HIDE DEF Fits
  <1>6. \E S : Return(c, S) /\ \A d \in S : Fits(d)
    <2>1. CASE UserCallback(c) \/ OnUserFound(c) \/ OnUserSaved(c)
      BY <2>1, <1>1 DEF UserCallback, OnUserPut, OnVhostPut, OnUserSelected,
         OnPasswordPut, OnUserUpdated, OnUserFound, OnUserSaved, Then
    <2>2. CASE OnQueueCreated(c)
      BY <2>2, <1>2, <1>4 DEF OnQueueCreated
    <2>3. CASE OnQueueListed(c)
      BY <2>3, <1>4 DEF OnQueueListed
    <2>4. CASE OnBound(c)
      BY <2>4, <1>1, <1>2 DEF OnBound
    <2>5. CASE OnRolledBack(c)
      BY <2>5 DEF OnRolledBack
    <2>6. CASE OnDeleted(c)
      BY <2>6, <1>1 DEF OnDeleted
    <2>7. CASE OnPermissionsRead(c)
      BY <2>7, <1>2, <1>3 DEF OnPermissionsRead, PermissionFailed
    <2>8. CASE OnPermissionsWritten(c)
      BY <2>8, <1>2 DEF OnPermissionsWritten, PermissionFailed
    <2> QED BY <2>1, <2>2, <2>3, <2>4, <2>5, <2>6, <2>7, <2>8
           DEF Callback, QueueCallback
  <1> QED BY <1>5, <1>6 DEF Fits

LEMMA CallbackGrants ==
  ASSUME GrantInv, NEW c \in calls, Callback(c), TypeOK',
         \A r \in Request : promise[r] # "none" => promise'[r] # "none"
  PROVE  GrantInv'
  <1>1. c \in Call /\ c.req \in Request /\ QueueOf(c) \in Queue
    BY CallFields DEF GrantInv, TypeOK, BrokerTypeOK
  <1>2. readPerm' = readPerm /\ granted' = granted
    BY DEF Callback, brokerState
  <1>3. \A u, q : Asked(u, q) => Asked(u, q)'
    BY AskedStays
  <1>4. \A d \in calls' :
           \/ d \in calls
           \/ /\ d.req = c.req /\ d.status = "sent"
              /\ \/ d.kind # "putPermissions" /\ d.view = {}
                 \/ d.kind = "putPermissions" /\ d.view = getUpdatedPermission(c)
    BY CallbackSends DEF GrantInv
  <1>5. PermissionIsolation'
    BY <1>2, <1>3 DEF GrantInv, PermissionIsolation, Asked
  <1>6. promise[c.req] # "none" /\ \A q \in c.view : Asked(UserOf(c), q)
    BY DEF GrantInv, CallsAskedFor
  <1>7. \A q \in getUpdatedPermission(c) : Asked(UserOf(c), q)
    BY <1>1, <1>6 DEF getUpdatedPermission, Asked, UserOf, QueueOf
  <1>8. CallsAskedFor'
    <2> SUFFICES ASSUME NEW d \in calls'
                 PROVE  promise[d.req] # "none" /\ d.req \in Request
                        /\ \A q \in d.view : Asked(UserOf(d), q)
      BY <1>3 DEF CallsAskedFor, UserOf
    <2>1. CASE d \in calls
      BY <2>1, CallFields DEF GrantInv, CallsAskedFor, TypeOK, BrokerTypeOK
    <2>2. CASE d \notin calls
      BY <2>2, <1>1, <1>4, <1>6, <1>7 DEF UserOf
    <2> QED BY <2>1, <2>2
  <1>9. WritesGrant'
    <2> SUFFICES ASSUME NEW d \in calls', d.kind = "putPermissions",
                        Subscribes(d.req)
                 PROVE  QueueOf(d) \in d.view /\ (d.status = "ok" => d.req \in granted)
      BY <1>2 DEF WritesGrant, QueueOf, Subscribes
    <2>1. CASE d \in calls
      BY <2>1 DEF GrantInv, WritesGrant
    <2>2. CASE d \notin calls
      BY <2>2, <1>4 DEF getUpdatedPermission, QueueOf
    <2> QED BY <2>1, <2>2
  <1>10. GrantBeforeSuccess'
    <2> SUFFICES ASSUME NEW r \in Request, promise'[r] = "ok", Subscribes(r)
                 PROVE  r \in granted
      BY <1>2 DEF GrantBeforeSuccess, Subscribes
    <2>1. CASE promise[r] = "ok"
      BY <2>1 DEF GrantInv, GrantBeforeSuccess
    <2>2. CASE promise[r] # "ok"
      <3>1. \E o \in {"ok", "fail"} : Settle(c.req, o)
        BY <2>2, CallbackSettles DEF Unsettled
      <3>2. r = c.req
        BY <2>2, <3>1 DEF Settle, GrantInv, TypeOK
      <3>3. ~UserCallback(c) /\ ~OnUserFound(c) /\ ~OnUserSaved(c)
        BY <2>2, <3>2 DEF UserCallback, OnUserPut, OnVhostPut, OnUserSelected,
             OnPasswordPut, OnUserUpdated, OnUserFound, OnUserSaved, Subscribes,
             Settle, Unsettled, GrantInv, TypeOK
      <3>4. c.kind = "putPermissions" /\ c.status = "ok"
        BY <2>2, <3>2, <3>3 DEF Callback, QueueCallback, OnQueueCreated,
             OnQueueListed, OnBound, OnRolledBack, OnDeleted, OnPermissionsRead,
             OnPermissionsWritten, PermissionFailed, Subscribes, Settle,
             Unsettled, GrantInv, TypeOK
      <3> QED BY <3>2, <3>4 DEF GrantInv, WritesGrant
    <2> QED BY <2>1, <2>2
  <1> QED BY <1>5, <1>8, <1>9, <1>10 DEF GrantInv

LEMMA ArriveGrants ==
  ASSUME GrantInv, NEW r \in Request, NEW first \in Kind \ {"putPermissions"},
         Arrive(r, first), TypeOK',
         \A s \in Request : promise[s] # "none" => promise'[s] # "none"
  PROVE  GrantInv'
  <1>1. readPerm' = readPerm /\ granted' = granted
    BY DEF Arrive, brokerState
  <1>2. \A u, q : Asked(u, q) => Asked(u, q)'
    BY AskedStays
  <1>3. PermissionIsolation'
    BY <1>1, <1>2 DEF GrantInv, PermissionIsolation, Asked
  <1>4. calls' = calls \cup {NewCall(r, first, None)}
    BY DEF Arrive
  <1>5. promise'[r] = "pending"
    BY DEF Arrive, GrantInv, TypeOK
  <1>6. CallsAskedFor'
    <2> SUFFICES ASSUME NEW d \in calls'
                 PROVE  promise'[d.req] # "none" /\ \A q \in d.view : Asked(UserOf(d), q)'
      BY DEF CallsAskedFor
    <2>1. CASE d \in calls
      BY <2>1, <1>2, CallFields DEF GrantInv, CallsAskedFor, TypeOK, BrokerTypeOK, UserOf
    <2>2. CASE d = NewCall(r, first, None)
      BY <2>2, <1>5 DEF NewCall
    <2> QED BY <1>4, <2>1, <2>2
  <1>7. WritesGrant'
    BY <1>1, <1>4 DEF GrantInv, WritesGrant, NewCall, QueueOf
  <1>8. GrantBeforeSuccess'
    BY <1>1 DEF GrantInv, GrantBeforeSuccess, Arrive, TypeOK
  <1> QED BY <1>3, <1>6, <1>7, <1>8 DEF GrantInv

(* The invariant about grants holds in every reachable state.              *)
THEOREM GrantsInvariant == Spec => []GrantInv
  <1>1. Init => GrantInv
    <2> SUFFICES ASSUME Init PROVE GrantInv
      OBVIOUS
    <2>1. TypeOK
      BY FaultAssumption DEF Init, BrokerInit, TypeOK, BrokerTypeOK, Outcome
    <2> QED BY <2>1 DEF Init, BrokerInit, GrantInv, PermissionIsolation,
              CallsAskedFor, WritesGrant, GrantBeforeSuccess
  <1>2. GrantInv /\ TypeOK' /\ [Next]_vars => GrantInv'
    <2> SUFFICES ASSUME GrantInv, TypeOK', [Next]_vars PROVE GrantInv'
      OBVIOUS
    <2>1. \A r \in Request : promise[r] # "none" => promise'[r] # "none"
      BY PromiseGrows DEF GrantInv
    <2>2. CASE Client
      BY <2>1, <2>2, ArriveGrants DEF Client, registerStreamingSubscription,
           appendStreamingSubscription, deleteStreamingSubscription,
           resetPassword, Kind, DbKind
    <2>3. ASSUME NEW c \in calls, Serve(c), UNCHANGED serviceVars
          PROVE  GrantInv'
      BY <2>3, VerdictType, BrokerGrants DEF Serve
    <2>4. ASSUME NEW c \in calls, Fault(c), UNCHANGED serviceVars
          PROVE  GrantInv'
      <3>1. \E status \in Status \ {"ok"} :
              Answer(c, status) /\ (Execute(c) \/ UNCHANGED brokerState)
        BY <2>4 DEF Fault, Status
      <3> QED BY <2>4, <3>1, BrokerGrants DEF Fault
    <2>5. CASE Service
      BY <2>1, <2>5, CallbackGrants DEF Service
    <2>6. CASE UNCHANGED vars
      BY <2>6 DEF vars, brokerVars, brokerState, serviceVars, GrantInv, PermissionIsolation,
           CallsAskedFor, WritesGrant, GrantBeforeSuccess, Asked
    <2> QED BY <2>2, <2>3, <2>4, <2>5, <2>6 DEF Next, Broker
  <1> QED BY <1>1, <1>2, TypeCorrect, PTL DEF Spec

(* Nobody is ever given the right to read a queue that no request of       *)
(* theirs named, whatever the faults and however many requests overlap.    *)
THEOREM Isolation == Spec => []PermissionIsolation
  <1>1. GrantInv => PermissionIsolation
    BY DEF GrantInv
  <1> QED BY <1>1, GrantsInvariant, PTL

(* Success is never reported before the grant was written, whatever the    *)
(* faults and however many requests overlap.                               *)
THEOREM SuccessIsGranted == Spec => []GrantBeforeSuccess
  <1>1. GrantInv => GrantBeforeSuccess
    BY DEF GrantInv
  <1> QED BY <1>1, GrantsInvariant, PTL

-----------------------------------------------------------------------------
(* Rollbacks.  While one request at a time has calls under way and every   *)
(* status is one the client knows, a register that is past createQueue     *)
(* works on a queue it made itself, or on none.                            *)

OneAtATime == \A c, d \in calls : c.req = d.req

BeforeQueue == {"getUser", "putUser", "putVhost", "insertUser"}

PastCreateQueue(c) ==
  /\ request[c.req].op = "register"
  /\ \/ c.kind \notin BeforeQueue \cup {"createQueue"}
     \/ c.kind = "createQueue" /\ c.status = "ok"

OwnsQueue ==
  \A c \in calls :
    PastCreateQueue(c) /\ QueueOf(c) \in queues => creator[QueueOf(c)] = c.req

NothingUnexpected == \A c \in calls : c.status # "unexpected"

RollbackInv ==
  /\ TypeOK
  /\ IsFiniteSet(calls)
  /\ OneAtATime
  /\ OwnsQueue
  /\ NothingUnexpected

LEMMA FiniteImage ==
  ASSUME NEW S, IsFiniteSet(S), NEW f
  PROVE  IsFiniteSet({f[x] : x \in S})
  <1> DEFINE T == {f[x] : x \in S}
             g == [x \in S |-> f[x]]
  <1>1. g \in Surjection(S, T)
    BY DEF Surjection
  <1> QED BY <1>1, FS_Surjection

(* A callback sends finitely many calls.                                   *)
LEMMA FiniteSends ==
  ASSUME NEW r \in Request
  PROVE  /\ IsFiniteSet(BindAll(r))
         /\ IsFiniteSet({Rollback(r, e) : e \in request[r].entities \cap {Blank}})
  <1>1. IsFiniteSet(request[r].entities)
    BY RequestFields
  <1>2. IsFiniteSet(BindAll(r))
    <2>1. IsFiniteSet(request[r].entities \ {Blank})
      BY <1>1, FS_Difference
    <2> DEFINE S == request[r].entities \ {Blank}
               f == [e \in S |-> NewCall(r, "bind", e)]
    <2>2. BindAll(r) = {f[e] : e \in S}
      BY DEF BindAll
    <2>3. IsFiniteSet(S)
      BY <2>1
    <2> HIDE DEF S, f
    <2>4. IsFiniteSet({f[e] : e \in S})
      BY <2>3, FiniteImage
    <2> QED BY <2>2, <2>4
  <1>3. IsFiniteSet({Rollback(r, e) : e \in request[r].entities \cap {Blank}})
    <2>1. IsFiniteSet(request[r].entities \cap {Blank})
      BY <1>1, FS_Intersection
    <2> DEFINE f == [e \in request[r].entities \cap {Blank} |-> Rollback(r, e)]
    <2>2. {Rollback(r, e) : e \in request[r].entities \cap {Blank}}
          = {f[e] : e \in request[r].entities \cap {Blank}}
      OBVIOUS
    <2> QED BY <2>1, <2>2, FiniteImage
  <1> QED BY <1>2, <1>3

(* When at most one request may be in flight, one can only arrive when     *)
(* nothing is under way.                                                   *)
LEMMA ArriveAlone ==
  ASSUME MaxInFlight = 1, IsFiniteSet(calls), NEW r, NEW first, Arrive(r, first)
  PROVE  calls = {}
  <1>1. IsFiniteSet(InFlight)
    <2> DEFINE f == [c \in calls |-> c.req]
    <2>1. InFlight = {f[c] : c \in calls}
      BY DEF InFlight
    <2> QED BY <2>1, FiniteImage
  <1>2. Cardinality(InFlight) \in Nat /\ Cardinality(InFlight) < 1
    BY <1>1, FS_CardinalityType DEF Arrive
  <1>3. InFlight = {}
    BY <1>1, <1>2, FS_EmptySet
  <1> QED BY <1>3 DEF InFlight

(* A callback sends finitely many calls, all of its own request, and none  *)
(* that is past createQueue unless it is so itself.                        *)
LEMMA CallbackFollows ==
  ASSUME RollbackInv, NEW c \in calls, Callback(c)
  PROVE  /\ IsFiniteSet(calls')
         /\ \A d \in calls' :
              \/ d \in calls
              \/ /\ d.req = c.req /\ d.status = "sent"
                 /\ PastCreateQueue(d) => PastCreateQueue(c)
  <1> DEFINE Fits(d) == /\ d.req = c.req /\ d.status = "sent"
                        /\ PastCreateQueue(d) => PastCreateQueue(c)
  <1>1. c \in Call /\ c.req \in Request /\ c.status # "unexpected"
    BY CallFields DEF RollbackInv, NothingUnexpected, TypeOK, BrokerTypeOK
  <1>3. \A kind, key : /\ NewCall(c.req, kind, key).req = c.req
                       /\ NewCall(c.req, kind, key).kind = kind
                       /\ NewCall(c.req, kind, key).status = "sent"
    BY DEF NewCall
  <1>4. \A key : /\ Rollback(c.req, key).req = c.req
                 /\ Rollback(c.req, key).kind = "deleteQueue"
                 /\ Rollback(c.req, key).status = "sent"
    BY DEF NewCall, Rollback
  <1>5. IsFiniteSet(BindAll(c.req))
    BY <1>1, FiniteSends
  <1>6. IsFiniteSet({Rollback(c.req, e) : e \in request[c.req].entities \cap {Blank}})
    BY <1>1, FiniteSends
  <1>7. IsFiniteSet({}) /\ \A x : IsFiniteSet({x})
    BY FS_EmptySet, FS_Singleton
  <1>8. \A S : Return(c, S) /\ IsFiniteSet(S) => IsFiniteSet(calls')
    <2>1. IsFiniteSet(calls \ {c})
      BY FS_Difference DEF RollbackInv
    <2> QED BY <2>1, FS_Union DEF Return
  <1>9. \A S : Return(c, S) /\ (\A d \in S : Fits(d)) =>
               \A d \in calls' : d \in calls \/ Fits(d)
    BY DEF Return
  <1>10. PastCreateQueue(c) => \A d : d.req = c.req /\ d.status = "sent" => Fits(d)
    OBVIOUS
  <1>11. \A d : d.req = c.req /\ d.status = "sent" /\ d.kind \in BeforeQueue \cup {"createQueue"}
                => Fits(d)
    BY DEF PastCreateQueue
  <1>12. request[c.req].op # "register" =>
           \A d : d.req = c.req /\ d.status = "sent" => Fits(d)
    BY DEF PastCreateQueue
  <1> HIDE DEF Fits
  <1> DEFINE Good == \E S : Return(c, S) /\ IsFiniteSet(S) /\ \A d \in S : Fits(d)
  <1>13. Return(c, {}) => Good
    BY <1>7
  <1>14. ASSUME NEW d, Fits(d), Return(c, {d}) PROVE Good
    BY <1>7, <1>14
  <1>15. PastCreateQueue(c) \/ request[c.req].op # "register" =>
           \A d : d.req = c.req /\ d.status = "sent" => Fits(d)
    BY <1>10, <1>12
  <1>16. Good
    <2>1. CASE UserCallback(c) \/ OnUserFound(c) \/ OnUserSaved(c)
      <3>1. \A kind \in BeforeQueue \cup {"createQueue"} : Fits(NewCall(c.req, kind, None))
        BY <1>3, <1>11
      <3>2. \A kind \in BeforeQueue \cup {"createQueue"} : Then(c, kind) => Good
        BY <3>1, <1>14 DEF Then
      <3>3. CASE OnUserFound(c) \/ OnUserSaved(c)
        BY <3>2, <3>3, <1>13 DEF OnUserFound, OnUserSaved, BeforeQueue
      <3>4. CASE OnUserPut(c) \/ OnVhostPut(c)
        BY <3>2, <3>4, <1>13 DEF OnUserPut, OnVhostPut, BeforeQueue
      <3>5. CASE OnUserSelected(c)
        BY <3>2, <3>5, <1>13 DEF OnUserSelected, BeforeQueue
      <3>6. CASE OnPasswordPut(c)
        <4>1. Fits(NewCall(c.req, "updateUser", None))
          BY <3>6, <1>3, <1>12 DEF OnPasswordPut
        <4> QED BY <3>6, <4>1, <1>13, <1>14 DEF OnPasswordPut, Then
      <3>7. CASE OnUserUpdated(c)
        BY <3>7, <1>13 DEF OnUserUpdated
      <3> QED BY <2>1, <3>3, <3>4, <3>5, <3>6, <3>7 DEF UserCallback
    <2>2. CASE OnQueueCreated(c)
      <3>1. CASE c.status = "ok"
        <4>1. PastCreateQueue(c) \/ request[c.req].op # "register"
          BY <2>2, <3>1 DEF PastCreateQueue, OnQueueCreated
        <4> DEFINE S == BindAll(c.req) \cup
                        {Rollback(c.req, e) : e \in request[c.req].entities \cap {Blank}}
        <4>2. IsFiniteSet(S)
          BY <1>5, <1>6, FS_Union
        <4>3. \A d \in S : Fits(d)
          BY <4>1, <1>3, <1>4, <1>15 DEF BindAll
        <4>4. Return(c, S)
          BY <2>2, <3>1 DEF OnQueueCreated
        <4> QED BY <4>2, <4>3, <4>4
      <3>2. CASE c.status # "ok"
        <4>1. Return(c, {})
          BY <2>2, <3>2, <1>1 DEF OnQueueCreated
        <4> QED BY <4>1, <1>13
      <3> QED BY <3>1, <3>2
    <2>3. CASE OnQueueListed(c)
      <3>1. PastCreateQueue(c) \/ request[c.req].op # "register"
        BY <2>3 DEF PastCreateQueue, BeforeQueue, OnQueueListed
      <3>2. \A d \in BindAll(c.req) : Fits(d)
        BY <3>1, <1>3, <1>15 DEF BindAll
      <3>3. Return(c, BindAll(c.req)) \/ Return(c, {})
        BY <2>3 DEF OnQueueListed
      <3> QED BY <3>2, <3>3, <1>5, <1>13
    <2>4. CASE QueueCallback(c) /\ c.kind \notin {"createQueue", "listQueue"}
      <3>1. PastCreateQueue(c) \/ request[c.req].op # "register"
        BY <2>4 DEF PastCreateQueue, BeforeQueue, QueueCallback, OnQueueCreated,
             OnQueueListed, OnBound, OnRolledBack, OnDeleted, OnPermissionsRead,
             OnPermissionsWritten
      <3>2. \A d : d.req = c.req /\ d.status = "sent" => Fits(d)
        BY <3>1, <1>15
      <3>3. \A kind, key : Fits(NewCall(c.req, kind, key)) /\ Fits(Rollback(c.req, key))
        BY <3>2, <1>3, <1>4
      <3>4. Fits([NewCall(c.req, "putPermissions", c.key)
                    EXCEPT !.view = getUpdatedPermission(c)])
        BY <3>2 DEF NewCall
      <3>5. CASE OnBound(c)
        BY <3>3, <3>5, <1>13, <1>14 DEF OnBound
      <3>6. CASE OnRolledBack(c)
        BY <3>6, <1>13 DEF OnRolledBack
      <3>7. CASE OnDeleted(c)
        BY <3>3, <3>7, <1>13, <1>14 DEF OnDeleted
      <3>8. CASE OnPermissionsRead(c)
        BY <3>3, <3>4, <3>8, <1>13, <1>14 DEF OnPermissionsRead, PermissionFailed
      <3>9. CASE OnPermissionsWritten(c)
        BY <3>3, <3>9, <1>13, <1>14 DEF OnPermissionsWritten, PermissionFailed
      <3> QED BY <2>4, <3>5, <3>6, <3>7, <3>8, <3>9
             DEF QueueCallback, OnQueueCreated, OnQueueListed
    <2> QED BY <2>1, <2>2, <2>3, <2>4
           DEF Callback, QueueCallback, OnQueueCreated, OnQueueListed, OnBound,
               OnRolledBack, OnDeleted, OnPermissionsRead, OnPermissionsWritten
  <1> QED BY <1>8, <1>9, <1>16 DEF Fits

LEMMA CallbackRollback ==
  ASSUME RollbackInv, NEW c \in calls, Callback(c), TypeOK'
  PROVE  RollbackInv'
  <1>1. /\ IsFiniteSet(calls')
        /\ \A d \in calls' :
             \/ d \in calls
             \/ /\ d.req = c.req /\ d.status = "sent"
                /\ PastCreateQueue(d) => PastCreateQueue(c)
    BY CallbackFollows
  <1>2. queues' = queues /\ creator' = creator
    BY DEF Callback, brokerState
  <1>3. OneAtATime'
    BY <1>1 DEF RollbackInv, OneAtATime
  <1>4. OwnsQueue'
    <2> SUFFICES ASSUME NEW d \in calls', PastCreateQueue(d), QueueOf(d) \in queues
                 PROVE  creator[QueueOf(d)] = d.req
      BY <1>2 DEF OwnsQueue, PastCreateQueue, QueueOf
    <2>1. CASE d \in calls
      BY <2>1 DEF RollbackInv, OwnsQueue
    <2>2. CASE d \notin calls
      BY <2>2, <1>1 DEF RollbackInv, OwnsQueue, QueueOf
    <2> QED BY <2>1, <2>2
  <1>5. NothingUnexpected'
    BY <1>1 DEF RollbackInv, NothingUnexpected
  <1> QED BY <1>1, <1>3, <1>4, <1>5 DEF RollbackInv

LEMMA BrokerRollback ==
  ASSUME RollbackInv, NEW c \in calls, c.status = "sent", TypeOK',
         NEW status \in Status \ {"unexpected"}, Answer(c, status),
         \/ Execute(c)
         \/ UNCHANGED brokerState,
         status = "ok" => Execute(c) /\ Verdict(c) = "ok"
  PROVE  RollbackInv'
  <1>1. c \in Call /\ c.req \in Request /\ QueueOf(c) \in Queue
    BY CallFields DEF RollbackInv, TypeOK, BrokerTypeOK
  <1> DEFINE view == IF c.kind = "getPermissions" /\ status = "ok"
                     THEN readPerm[UserOf(c)] ELSE c.view
             answered == [c EXCEPT !.status = status, !.view = view]
  <1>2. calls' = (calls \ {c}) \cup {answered}
    BY DEF Answer
  <1>3. /\ answered.req = c.req /\ answered.kind = c.kind
        /\ answered.status = status /\ QueueOf(answered) = QueueOf(c)
    BY <1>1 DEF Call, QueueOf
  <1> HIDE DEF answered
  <1>4. IsFiniteSet(calls')
    BY <1>2, FS_AddElement, FS_Difference DEF RollbackInv
  <1>5. OneAtATime'
    BY <1>2, <1>3 DEF RollbackInv, OneAtATime
  <1>6. NothingUnexpected'
    BY <1>2, <1>3 DEF RollbackInv, NothingUnexpected
  <1>7. OwnsQueue'
    <2> SUFFICES ASSUME NEW d \in calls', PastCreateQueue(d), QueueOf(d) \in queues'
                 PROVE  creator'[QueueOf(d)] = d.req
      BY DEF OwnsQueue, PastCreateQueue, QueueOf
    <2>1. d.req = c.req /\ QueueOf(d) = QueueOf(c)
      BY <1>2, <1>3 DEF RollbackInv, OneAtATime, QueueOf
    <2>2. CASE QueueOf(c) \notin queues
      <3>1. c.kind = "createQueue" /\ Execute(c)
        BY <2>1, <2>2 DEF Execute, brokerState
      <3> QED BY <1>1, <2>1, <2>2, <3>1 DEF Execute, RollbackInv, TypeOK, BrokerTypeOK
    <2>3. CASE QueueOf(c) \in queues
      <3>1. creator' = creator
        BY <2>3 DEF Execute, brokerState
      <3>2. CASE d \in calls
        BY <2>1, <2>3, <3>1, <3>2 DEF RollbackInv, OwnsQueue
      <3>3. CASE d \notin calls
        <4>1. d.kind = c.kind /\ d.status = status
          BY <3>3, <1>2, <1>3
        <4>2. ~(c.kind = "createQueue" /\ status = "ok")
          BY <2>3 DEF Verdict
        <4>3. PastCreateQueue(c)
          BY <2>1, <4>1, <4>2 DEF PastCreateQueue
        <4> QED BY <2>1, <2>3, <3>1, <4>3 DEF RollbackInv, OwnsQueue
      <3> QED BY <3>2, <3>3
    <2> QED BY <2>2, <2>3
  <1> QED BY <1>4, <1>5, <1>6, <1>7 DEF RollbackInv

(* Requests handled one at a time, by a broker that answers with statuses  *)
(* the client knows, never undo more than their own work.                  *)
THEOREM RollbackSafe ==
  ASSUME MaxInFlight = 1, "unexpected" \notin FaultKinds
  PROVE  Spec => []RollbackOwn
  <1>1. Init => RollbackInv
    <2> SUFFICES ASSUME Init PROVE RollbackInv
      OBVIOUS
    <2>1. TypeOK
      BY FaultAssumption DEF Init, BrokerInit, TypeOK, BrokerTypeOK, Outcome
    <2> QED BY <2>1, FS_EmptySet DEF Init, BrokerInit, RollbackInv, OneAtATime,
              OwnsQueue, NothingUnexpected
  <1>2. RollbackInv /\ TypeOK' /\ [Next]_vars => RollbackInv'
    <2> SUFFICES ASSUME RollbackInv, TypeOK', [Next]_vars PROVE RollbackInv'
      OBVIOUS
    <2>1. ASSUME NEW r \in Request, NEW first \in Kind, Arrive(r, first),
                 ~PastCreateQueue(NewCall(r, first, None))
          PROVE  RollbackInv'
      <3>1. calls' = {NewCall(r, first, None)}
        BY <2>1, ArriveAlone DEF RollbackInv, Arrive
      <3>2. IsFiniteSet(calls')
        BY <3>1, FS_Singleton
      <3>3. OneAtATime' /\ NothingUnexpected'
        BY <3>1 DEF OneAtATime, NothingUnexpected, NewCall
      <3>4. OwnsQueue'
        BY <2>1, <3>1 DEF OwnsQueue, PastCreateQueue
      <3> QED BY <3>2, <3>3, <3>4 DEF RollbackInv
    <2>2. CASE Client
      BY <2>1, <2>2 DEF Client, registerStreamingSubscription, Kind, NewCall,
           appendStreamingSubscription, deleteStreamingSubscription,
           resetPassword, DbKind, PastCreateQueue, BeforeQueue
    <2>3. ASSUME NEW c \in calls, Serve(c) PROVE RollbackInv'
      <3>1. Verdict(c) \in Status \ {"unexpected"}
        BY DEF Verdict, Status
      <3> QED BY <2>3, <3>1, BrokerRollback DEF Serve
    <2>4. ASSUME NEW c \in calls, Fault(c) PROVE RollbackInv'
      <3>1. Answer(c, "failed") /\ (Execute(c) \/ UNCHANGED brokerState)
        BY <2>4 DEF Fault
      <3>2. "failed" \in Status \ {"unexpected"}
        BY DEF Status
      <3> QED BY <2>4, <3>1, <3>2, BrokerRollback DEF Fault
    <2>5. CASE Service
      BY <2>5, CallbackRollback DEF Service
    <2>6. CASE UNCHANGED vars
      BY <2>6 DEF vars, brokerVars, brokerState, serviceVars, RollbackInv, OneAtATime,
           OwnsQueue, NothingUnexpected, PastCreateQueue, QueueOf
    <2> QED BY <2>2, <2>3, <2>4, <2>5, <2>6 DEF Next, Broker
  <1>3. RollbackInv => RollbackOwn
    BY DEF RollbackInv, OwnsQueue, RollbackOwn, PastCreateQueue, BeforeQueue
  <1> QED BY <1>1, <1>2, <1>3, TypeCorrect, PTL DEF Spec
-----------------------------------------------------------------------------
(* Passwords.  While one request at a time has calls under way, the chain  *)
(* that makes or changes a user is alone, and what it has done to the      *)
(* password still stands.                                                  *)

UserKind == {"getUser", "putUser", "putVhost", "insertUser", "selectUser", "updateUser"}

Alone == \A c, d \in calls : c.kind \in UserKind => d = c

Registers(c) == request[c.req].op = "register"
Resets(c) == request[c.req].op = "reset"

(* What a call under way knows of the password of its user.                *)
Knows(c) ==
  /\ c.kind \in {"getUser", "putVhost", "insertUser"} => Registers(c)
  /\ c.kind \in {"selectUser", "updateUser"} => Resets(c)
  /\ c.kind = "putUser" => Registers(c) \/ Resets(c)
  /\ \/ c.kind = "getUser" /\ c.status = "notFound"
     \/ c.kind = "putUser" /\ c.status = "sent" /\ Registers(c)
     => password[UserOf(c)] = None
  /\ \/ c.kind \in {"putVhost", "insertUser", "updateUser"}
     \/ c.kind = "putUser" /\ c.status \in {"ok", "exists"}
     \/ c.req \in keyed
     => password[UserOf(c)] = c.req

(* A reset that has changed the password, but not yet the row.             *)
Renewing(c) ==
  \/ c.kind = "putUser" /\ c.status = "exists" /\ Resets(c)
  \/ c.kind = "updateUser" /\ c.status = "sent"

RowsFollow ==
  \A u \in User : saved[u] # None =>
    /\ password[u] # None
    /\ faults = 0 => saved[u] = password[u] \/ \E c \in calls : UserOf(c) = u /\ Renewing(c)

KeyInv ==
  /\ TypeOK /\ IsFiniteSet(calls) /\ OneAtATime /\ Alone
  /\ \A c \in calls : Knows(c)
  /\ \A r \in keyed : promise[r] # "none"
  /\ RowsFollow
LEMMA PromiseKept ==
  ASSUME TypeOK, NEW c \in calls, Callback(c)
  PROVE  \A r \in Request : promise[r] # "none" => promise'[r] # "none"
  BY CallbackSettles DEF Settle, Unsettled, TypeOK, Outcome

(* The calls of createUserIfNotExist and resetPassword follow each other.  *)
Follows(kind, c) ==
  \/ kind = "putUser" /\ c.kind = "getUser" /\ c.status = "notFound"
  \/ kind = "putVhost" /\ c.kind = "putUser" /\ c.status = "ok" /\ Registers(c)
  \/ kind = "insertUser" /\ c.kind = "putVhost"
  \/ kind = "createQueue" /\ (c.kind = "insertUser" \/ (c.kind = "getUser" /\ c.status = "ok"))
  \/ kind = "putUser" /\ c.kind = "selectUser"
  \/ kind = "updateUser" /\ c.kind = "putUser" /\ c.status = "exists" /\ Resets(c)

LEMMA UserSends ==
  ASSUME NEW c, c.status # "sent", UserCallback(c) \/ OnUserFound(c) \/ OnUserSaved(c)
  PROVE  /\ c.kind \in UserKind
         /\ \/ Return(c, {}) /\ ~Renewing(c)
            \/ \E kind : Then(c, kind) /\ Follows(kind, c)
         /\ \/ UNCHANGED keyed
            \/ keyed' = keyed \cup {c.req} /\ c.kind \in {"insertUser", "updateUser"}
  <1>1. CASE OnUserPut(c) \/ OnVhostPut(c)
    BY <1>1 DEF OnUserPut, OnVhostPut, UserKind, Renewing, Follows, Registers, Resets
  <1>2. CASE OnUserSelected(c) \/ OnPasswordPut(c)
    BY <1>2 DEF OnUserSelected, OnPasswordPut, UserKind, Renewing, Follows, Resets
  <1>3. CASE OnUserUpdated(c)
    BY <1>3 DEF OnUserUpdated, UserKind, Renewing
  <1>4. CASE OnUserFound(c)
    BY <1>4 DEF OnUserFound, UserKind, Renewing, Follows
  <1>5. CASE OnUserSaved(c)
    BY <1>5 DEF OnUserSaved, UserKind, Renewing, Follows
  <1> QED BY <1>1, <1>2, <1>3, <1>4, <1>5 DEF UserCallback

(* What follows the creation of a queue.                                   *)
LaterKind == {"bind", "deleteQueue", "getPermissions", "putPermissions"}

LEMMA QueueSends ==
  ASSUME TypeOK, NEW c \in calls, QueueCallback(c)
  PROVE  /\ c.kind \notin UserKind
         /\ \E S : /\ Return(c, S) /\ IsFiniteSet(S)
                   /\ \A d \in S : d.req = c.req /\ d.status = "sent" /\ d.kind \in LaterKind
  <1> DEFINE Fits(d) == d.req = c.req /\ d.status = "sent" /\ d.kind \in LaterKind
             Good == \E S : Return(c, S) /\ IsFiniteSet(S) /\ \A d \in S : Fits(d)
  <1>1. c.req \in Request
    BY CallFields DEF TypeOK, BrokerTypeOK
  <1>2. \A key : /\ Fits(Rollback(c.req, key)) /\ Fits(NewCall(c.req, "bind", key))
                 /\ Fits(NewCall(c.req, "getPermissions", key))
    BY DEF Rollback, NewCall, LaterKind
  <1>3. Fits([NewCall(c.req, "putPermissions", c.key) EXCEPT !.view = getUpdatedPermission(c)])
    BY DEF NewCall, LaterKind
  <1>4. IsFiniteSet({}) /\ \A x : IsFiniteSet({x})
    BY FS_EmptySet, FS_Singleton
  <1> HIDE DEF Fits
  <1>5. Return(c, {}) => Good
    BY <1>4
  <1>6. \A d : Fits(d) /\ Return(c, {d}) => Good
    BY <1>4
  <1>7. /\ IsFiniteSet(BindAll(c.req))
        /\ \A d \in BindAll(c.req) : Fits(d)
    BY <1>1, <1>2, FiniteSends DEF BindAll
  <1>8. c.kind \notin UserKind
    BY DEF QueueCallback, OnQueueCreated, OnQueueListed, OnBound, OnRolledBack, OnDeleted,
       OnPermissionsRead, OnPermissionsWritten, UserKind
  <1>9. CASE OnQueueCreated(c)
    <2> DEFINE U == {Rollback(c.req, e) : e \in request[c.req].entities \cap {Blank}}
    <2>1. IsFiniteSet(U) /\ \A d \in U : Fits(d)
      BY <1>1, <1>2, FiniteSends
    <2>2. Return(c, BindAll(c.req) \cup U) \/ Return(c, {})
      BY <1>9 DEF OnQueueCreated
    <2> HIDE DEF U
    <2>3. IsFiniteSet(BindAll(c.req) \cup U)
      BY <1>7, <2>1, FS_Union
    <2>4. \A d \in BindAll(c.req) \cup U : Fits(d)
      BY <1>7, <2>1
    <2> QED BY <1>5, <1>8, <2>2, <2>3, <2>4 DEF Fits
  <1>10. CASE OnQueueListed(c)
    <2>1. Return(c, BindAll(c.req)) \/ Return(c, {})
      BY <1>10 DEF OnQueueListed
    <2> QED BY <1>5, <1>7, <1>8, <2>1 DEF Fits
  <1>11. ASSUME OnBound(c) \/ OnRolledBack(c) \/ OnDeleted(c) PROVE Good
    BY <1>2, <1>5, <1>6, <1>11 DEF OnBound, OnRolledBack, OnDeleted
  <1>12. ASSUME OnPermissionsRead(c) \/ OnPermissionsWritten(c) PROVE Good
    BY <1>2, <1>3, <1>5, <1>6, <1>12 DEF OnPermissionsRead, OnPermissionsWritten, PermissionFailed
  <1> QED BY <1>8, <1>9, <1>10, <1>11, <1>12 DEF QueueCallback, Fits

LEMMA CallbackKeys ==
  ASSUME KeyInv, GrantInv, NEW c \in calls, Callback(c), TypeOK'
  PROVE  KeyInv'
  <1>1. /\ c.req \in Request /\ c.status # "sent" /\ Knows(c)
        /\ password' = password /\ saved' = saved /\ faults' = faults
    BY CallFields DEF KeyInv, TypeOK, BrokerTypeOK, Callback, brokerState
  <1>2. CASE QueueCallback(c) /\ UNCHANGED keyed
    <2>1. c.kind \notin UserKind
      BY <1>2, QueueSends DEF KeyInv
    <2>2. PICK S : /\ Return(c, S) /\ IsFiniteSet(S)
                   /\ \A d \in S : d.req = c.req /\ d.kind \notin UserKind
      BY <1>2, QueueSends DEF KeyInv, LaterKind, UserKind
    <2>3. \A d \in calls : d.kind \notin UserKind
      BY <2>1 DEF KeyInv, Alone
    <2>4. calls' = (calls \ {c}) \cup S
      BY <2>2 DEF Return
    <2>5. IsFiniteSet(calls') /\ OneAtATime' /\ Alone'
      <3>1. IsFiniteSet(calls')
        BY <2>2, <2>4, FS_Difference, FS_Union DEF KeyInv
      <3> QED BY <2>2, <2>3, <2>4, <3>1 DEF KeyInv, OneAtATime, Alone
    <2>6. ASSUME NEW d \in calls' PROVE Knows(d)'
      <3>1. CASE d \in calls
        BY <1>1, <1>2, <3>1 DEF KeyInv, Knows, UserOf, Registers, Resets
      <3>2. CASE d \in S
        <4>1. d.req = c.req /\ UserOf(d) = UserOf(c) /\ d.kind \notin UserKind
          BY <2>2, <3>2 DEF UserOf
        <4> QED BY <1>1, <1>2, <4>1 DEF Knows, UserOf, UserKind
      <3> QED BY <2>4, <3>1, <3>2
    <2>7. \A d \in calls : ~Renewing(d)
      BY <2>3 DEF Renewing, UserKind
    <2>8. RowsFollow'
      BY <1>1, <2>7 DEF KeyInv, RowsFollow
    <2>9. \A r \in keyed' : promise'[r] # "none"
      BY <1>2, PromiseKept DEF KeyInv, TypeOK
    <2> QED BY <2>5, <2>6, <2>8, <2>9 DEF KeyInv
  <1>3. CASE UserCallback(c) \/ OnUserFound(c) \/ OnUserSaved(c)
    <2>1. /\ c.kind \in UserKind
          /\ \/ Return(c, {}) /\ ~Renewing(c)
             \/ \E kind : Then(c, kind) /\ Follows(kind, c)
          /\ \/ UNCHANGED keyed
             \/ keyed' = keyed \cup {c.req} /\ c.kind \in {"insertUser", "updateUser"}
      BY <1>1, <1>3, UserSends
    <2>2. calls = {c}
      BY <2>1 DEF KeyInv, Alone
    <2>3. c.req \in keyed' => password[UserOf(c)] = c.req
      BY <1>1, <2>1 DEF Knows
    <2>4. \A r \in keyed' : promise'[r] # "none"
      <3>1. \A r \in keyed' : r \in Request /\ promise[r] # "none"
        BY <1>1, <2>1 DEF KeyInv, TypeOK, GrantInv, CallsAskedFor
      <3> QED BY <3>1, PromiseKept DEF KeyInv
    <2>5. CASE Return(c, {}) /\ ~Renewing(c)
      <3>1. calls' = {}
        BY <2>2, <2>5 DEF Return
      <3>2. RowsFollow'
        BY <1>1, <2>2, <2>5 DEF KeyInv, RowsFollow
      <3>3. IsFiniteSet(calls') /\ OneAtATime' /\ Alone'
        BY <3>1, FS_EmptySet DEF OneAtATime, Alone
      <3> QED BY <2>4, <3>1, <3>2, <3>3 DEF KeyInv
    <2>6. ASSUME NEW kind, Then(c, kind), Follows(kind, c) PROVE KeyInv'
      <3> DEFINE d == NewCall(c.req, kind, None)
      <3>1. calls' = {d}
        BY <2>2, <2>6 DEF Return, Then
      <3>2. d.req = c.req /\ d.kind = kind /\ d.status = "sent" /\ UserOf(d) = UserOf(c)
        BY DEF NewCall, UserOf
      <3> HIDE DEF d
      <3>3. IsFiniteSet(calls') /\ OneAtATime' /\ Alone'
        BY <3>1, FS_Singleton DEF OneAtATime, Alone
      <3>4. /\ kind \in {"getUser", "putVhost", "insertUser"} => Registers(c)
            /\ kind \in {"selectUser", "updateUser"} => Resets(c)
            /\ kind = "putUser" => Registers(c) \/ Resets(c)
            /\ kind = "putUser" /\ Registers(c) => password[UserOf(c)] = None
            /\ kind \in {"putVhost", "insertUser", "updateUser"} => password[UserOf(c)] = c.req
        BY <1>1, <2>6 DEF Follows, Knows, Registers, Resets
      <3>5. Knows(d)'
        BY <1>1, <2>3, <3>2, <3>4 DEF Knows, UserOf, Registers, Resets
      <3>6. Renewing(c) => Renewing(d)
        BY <1>1, <2>6, <3>2 DEF Renewing, Follows, Resets, Registers
      <3>7. RowsFollow'
        BY <1>1, <2>2, <3>1, <3>2, <3>6 DEF KeyInv, RowsFollow, UserOf, Renewing, Resets
      <3> QED BY <2>4, <3>1, <3>3, <3>5, <3>7 DEF KeyInv
    <2> QED BY <2>1, <2>5, <2>6
  <1> QED BY <1>2, <1>3 DEF Callback

(* What the broker does to passwords and rows.                             *)
LEMMA BrokerKeys ==
  ASSUME KeyInv, NEW c \in calls, c.status = "sent", NEW status \in Status, Answer(c, status),
         \/ Execute(c) /\ status = Verdict(c) /\ UNCHANGED faults
         \/ /\ Execute(c) \/ UNCHANGED brokerState
            /\ status \in {"failed", "unexpected"} /\ faults' = faults + 1,
         UNCHANGED serviceVars, TypeOK'
  PROVE  KeyInv'
  <1>1. /\ c \in Call /\ c.req \in Request /\ UserOf(c) \in User /\ c.req # None /\ Knows(c)
        /\ faults \in Nat
    BY CallFields, RequestAssumption DEF KeyInv, TypeOK, BrokerTypeOK
  <1>2. PICK d : /\ calls' = (calls \ {c}) \cup {d}
                 /\ d.req = c.req /\ d.kind = c.kind /\ d.status = status
                 /\ UserOf(d) = UserOf(c)
    <2> DEFINE view == IF c.kind = "getPermissions" /\ status = "ok"
                       THEN readPerm[UserOf(c)] ELSE c.view
               e == [c EXCEPT !.status = status, !.view = view]
    <2>1. calls' = (calls \ {c}) \cup {e}
      BY DEF Answer
    <2>2. e.req = c.req /\ e.kind = c.kind /\ e.status = status
      BY <1>1 DEF Call
    <2>3. UserOf(e) = UserOf(c)
      BY <2>2 DEF UserOf
    <2> HIDE DEF e
    <2> QED BY <2>1, <2>2, <2>3
  <1>3. promise' = promise /\ keyed' = keyed
    BY DEF serviceVars
  <1>4. \A u \in User :
          /\ password'[u] = password[u] \/ (c.kind = "putUser" /\ u = UserOf(c) /\ password'[u] = c.req)
          /\ saved'[u] = saved[u] \/ (/\ c.kind \in {"insertUser", "updateUser"} /\ u = UserOf(c)
                                      /\ saved'[u] = c.req)
    BY <1>1 DEF Execute, brokerState, KeyInv, TypeOK, BrokerTypeOK
  <1>5. /\ Execute(c) /\ c.kind = "putUser" => password'[UserOf(c)] = c.req
        /\ Execute(c) /\ c.kind = "updateUser" /\ saved[UserOf(c)] # None => saved'[UserOf(c)] = c.req
    BY <1>1 DEF Execute, KeyInv, TypeOK, BrokerTypeOK
  <1>6. IsFiniteSet(calls') /\ OneAtATime' /\ Alone'
    <2>1. IsFiniteSet(calls')
      BY <1>2, FS_AddElement, FS_Difference DEF KeyInv
    <2> QED BY <1>2, <2>1 DEF KeyInv, OneAtATime, Alone
  <1>7. CASE c.kind \notin UserKind
    <2>1. \A u \in User : password'[u] = password[u] /\ saved'[u] = saved[u]
      BY <1>4, <1>7 DEF UserKind
    <2>2. \A e \in calls : e.kind \notin UserKind /\ UserOf(e) \in User
      BY <1>7, CallFields DEF KeyInv, Alone, TypeOK, BrokerTypeOK
    <2>3. ASSUME NEW e \in calls' PROVE Knows(e)'
      <3>1. e.kind \notin UserKind /\ UserOf(e) \in User /\ (e.req \in keyed => password[UserOf(e)] = e.req)
        BY <1>1, <1>2, <2>2 DEF KeyInv, Knows
      <3> QED BY <1>3, <2>1, <3>1 DEF Knows, UserOf, UserKind
    <2>4. \A e \in calls : ~Renewing(e)
      BY <2>2 DEF Renewing, UserKind
    <2>5. faults' = 0 => faults = 0
      BY <1>1
    <2>6. RowsFollow'
      BY <2>1, <2>4, <2>5 DEF KeyInv, RowsFollow
    <2> QED BY <1>3, <1>6, <2>3, <2>6 DEF KeyInv
  <1>8. CASE c.kind \in UserKind
    <2>1. calls = {c} /\ calls' = {d}
      BY <1>2, <1>8 DEF KeyInv, Alone
    <2>2. c.kind # "putUser" => password'[UserOf(c)] = password[UserOf(c)]
      BY <1>1, <1>4
    <2>3. c.kind = "getUser" /\ status = "notFound" => password[UserOf(c)] = None
      BY DEF Verdict, Found
    <2>4. c.kind = "putUser" /\ status \in {"ok", "exists"} => password'[UserOf(c)] = c.req
      BY <1>5
    <2>5. c.req \in keyed => password'[UserOf(c)] = c.req
      BY <1>1, <1>4 DEF Knows
    <2>6. status # "sent"
      BY DEF Verdict
    <2>7. Knows(d)'
      BY <1>1, <1>2, <1>3, <2>2, <2>3, <2>4, <2>5, <2>6 DEF Knows, UserOf, Registers, Resets
    <2>8. RowsFollow'
      <3> SUFFICES ASSUME NEW u \in User, saved'[u] # None
                   PROVE  /\ password'[u] # None
                          /\ faults' = 0 => saved'[u] = password'[u] \/ (UserOf(d) = u /\ Renewing(d))
        BY <2>1 DEF RowsFollow, UserOf, Renewing, Resets
      <3>1. saved[u] # None => /\ password[u] # None
                               /\ faults = 0 => saved[u] = password[u] \/ (UserOf(c) = u /\ Renewing(c))
        BY <2>1 DEF KeyInv, RowsFollow
      <3>2. CASE u # UserOf(c)
        BY <1>1, <1>4, <3>1, <3>2
      <3>3. CASE u = UserOf(c) /\ c.kind \in {"insertUser", "updateUser"}
        <4>1. password'[u] = c.req
          BY <1>1, <2>2, <3>3 DEF Knows
        <4>2. faults' = 0 => faults = 0 /\ Execute(c)
          BY <1>1
        <4>3. faults' = 0 => saved'[u] = c.req
          <5>1. CASE c.kind = "updateUser"
            BY <1>4, <1>5, <3>3, <4>2, <5>1
          <5>2. CASE c.kind = "insertUser"
            BY <1>4, <3>1, <3>3, <4>1, <4>2, <5>2, <2>2 DEF Renewing
          <5> QED BY <3>3, <5>1, <5>2
        <4> QED BY <1>1, <4>1, <4>3
      <3>4. CASE u = UserOf(c) /\ c.kind = "putUser"
        <4>1. saved'[u] = saved[u] /\ password[u] # None
          BY <1>4, <3>1, <3>4
        <4>2. ~Registers(c)
          BY <1>1, <3>4, <4>1 DEF Knows
        <4>3. password'[u] # None
          BY <1>1, <1>4, <4>1
        <4>4. faults' = 0 => status = "exists"
          BY <1>1, <3>4, <4>1 DEF Verdict
        <4>5. Resets(c)
          BY <1>1, <3>4, <4>2 DEF Knows
        <4> QED BY <1>2, <3>4, <4>3, <4>4, <4>5 DEF Renewing, Resets
      <3>5. CASE u = UserOf(c) /\ c.kind \notin {"insertUser", "updateUser", "putUser"}
        BY <1>1, <1>4, <3>1, <3>5 DEF Renewing
      <3> QED BY <3>2, <3>3, <3>4, <3>5
    <2> QED BY <1>3, <1>6, <2>1, <2>7, <2>8 DEF KeyInv
  <1> QED BY <1>7, <1>8

LEMMA ArriveKeys ==
  ASSUME MaxInFlight = 1, KeyInv, NEW r \in Request, NEW first, Arrive(r, first), TypeOK',
         first \in UserKind =>
           \/ first = "getUser" /\ request[r].op = "register"
           \/ first = "selectUser" /\ request[r].op = "reset"
  PROVE  KeyInv'
  <1> DEFINE c == NewCall(r, first, None)
  <1>1. calls = {} /\ calls' = {c}
    BY ArriveAlone DEF KeyInv, Arrive
  <1>2. c.req = r /\ c.kind = first /\ c.status = "sent"
    BY DEF NewCall
  <1>3. keyed' = keyed /\ password' = password /\ saved' = saved /\ faults' = faults
    BY DEF Arrive, brokerState
  <1>4. r \notin keyed /\ \A o \in keyed : promise'[o] # "none"
    BY <1>3 DEF Arrive, KeyInv, TypeOK
  <1> HIDE DEF c
  <1>5. IsFiniteSet(calls') /\ OneAtATime' /\ Alone'
    BY <1>1, FS_Singleton DEF OneAtATime, Alone
  <1>6. Knows(c)'
    BY <1>2, <1>3, <1>4 DEF Knows, Registers, Resets, UserKind
  <1>7. RowsFollow'
    BY <1>1, <1>3 DEF KeyInv, RowsFollow
  <1> QED BY <1>1, <1>3, <1>4, <1>5, <1>6, <1>7 DEF KeyInv

LEMMA KeysStay ==
  ASSUME MaxInFlight = 1, KeyInv, GrantInv, TypeOK', [Next]_vars
  PROVE  KeyInv'
  <1>1. CASE Client
    BY <1>1, ArriveKeys DEF Client, registerStreamingSubscription, appendStreamingSubscription,
       deleteStreamingSubscription, resetPassword, UserKind
  <1>2. ASSUME NEW c \in calls, Serve(c), UNCHANGED serviceVars PROVE KeyInv'
    BY <1>2, VerdictType, BrokerKeys DEF Serve
  <1>3. ASSUME NEW c \in calls, Fault(c), UNCHANGED serviceVars PROVE KeyInv'
    <2>1. PICK status \in {"failed", "unexpected"} :
            Answer(c, status) /\ (Execute(c) \/ UNCHANGED brokerState)
      BY <1>3 DEF Fault
    <2>2. status \in Status /\ c.status = "sent" /\ faults' = faults + 1
      BY <1>3 DEF Fault, Status
    <2> QED BY <1>3, <2>1, <2>2, BrokerKeys
  <1>4. CASE Service
    BY <1>4, CallbackKeys DEF Service
  <1>5. CASE UNCHANGED vars
    BY <1>5 DEF vars, brokerVars, brokerState, serviceVars, KeyInv, OneAtATime, Alone, Knows,
       Registers, Resets, UserOf, RowsFollow, Renewing
  <1> QED BY <1>1, <1>2, <1>3, <1>4, <1>5 DEF Next, Broker

LEMMA KeyInvariant ==
  ASSUME MaxInFlight = 1
  PROVE  Spec => []KeyInv
  <1>1. Init => KeyInv
    <2> SUFFICES ASSUME Init PROVE KeyInv
      OBVIOUS
    <2>1. TypeOK
      BY FaultAssumption DEF Init, BrokerInit, TypeOK, BrokerTypeOK, Outcome
    <2> QED BY <2>1, FS_EmptySet DEF Init, BrokerInit, KeyInv, OneAtATime, Alone, RowsFollow
  <1>2. KeyInv /\ GrantInv /\ TypeOK' /\ [Next]_vars => KeyInv'
    BY KeysStay
  <1> QED BY <1>1, <1>2, TypeCorrect, GrantsInvariant, PTL DEF Spec

(* Requests handled one at a time, createUserIfNotExist and resetPassword  *)
(* leave in subscription_users the password that RabbitMQ accepts, unless  *)
(* a call went wrong: an interrupted reset changes only one of the two.    *)
THEOREM SavedKeysCurrent ==
  ASSUME MaxInFlight = 1
  PROVE  Spec => []SavedKeyCurrent
  <1>1. KeyInv => SavedKeyCurrent
    BY DEF KeyInv, RowsFollow, SavedKeyCurrent
  <1> QED BY <1>1, KeyInvariant, PTL

(* Requests handled one at a time, a password that is handed out is the    *)
(* one RabbitMQ accepts, whatever went wrong before: the answer of a       *)
(* register comes many calls after the one that set the password.          *)
THEOREM KeysHandedOutWork ==
  ASSUME MaxInFlight = 1
  PROVE  Spec => KeyHandedOutWorks
  <1>1. KeyInv /\ TypeOK' /\ GrantInv /\ [Next]_vars =>
          \A r \in Request :
            promise[r] = "pending" /\ promise'[r] = "ok" /\ r \in keyed' =>
              password'[request[r].user] = r
    <2> SUFFICES ASSUME KeyInv, GrantInv, [Next]_vars, NEW r \in Request,
                        promise[r] = "pending", promise'[r] = "ok", r \in keyed'
                 PROVE  password'[request[r].user] = r
      OBVIOUS
    <2>1. ASSUME NEW o \in Request, NEW first, Arrive(o, first) PROVE FALSE
      BY <2>1 DEF Arrive, KeyInv, TypeOK
    <2>2. ~Client
      BY <2>1 DEF Client, registerStreamingSubscription, appendStreamingSubscription,
         deleteStreamingSubscription, resetPassword
    <2>3. ~Broker /\ ~UNCHANGED vars
      BY DEF Broker, vars, serviceVars
    <2>4. PICK c \in calls : Callback(c)
      BY <2>2, <2>3 DEF Next, Service
    <2>5. c.req = r
      BY <2>4, CallbackSettles DEF Settle, Unsettled, KeyInv, TypeOK
    <2>6. password' = password /\ c.status # "sent" /\ Knows(c)
      BY <2>4 DEF Callback, brokerState, KeyInv
    <2>7. r \in keyed \/ c.kind \in {"insertUser", "updateUser"}
      <3>1. QueueCallback(c) /\ UNCHANGED keyed => r \in keyed
        OBVIOUS
      <3>2. UserCallback(c) \/ OnUserFound(c) \/ OnUserSaved(c) =>
              keyed' = keyed \/ c.kind \in {"insertUser", "updateUser"}
        BY <2>6, UserSends
      <3> QED BY <2>4, <3>1, <3>2 DEF Callback
    <2> QED BY <2>5, <2>6, <2>7 DEF Knows, UserOf
  <1> QED BY <1>1, KeyInvariant, TypeCorrect, GrantsInvariant, PTL DEF Spec, KeyHandedOutWorks

==============================================================================
