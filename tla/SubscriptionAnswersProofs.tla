---------------------- MODULE SubscriptionAnswersProofs ---------------------
(* Theorems about StreamingSubscription: what the answer to a request says *)
(* about its queue, for every value of the constants.                      *)
EXTENDS StreamingSubscriptionProofs

-----------------------------------------------------------------------------
(* What one step does to the calls.                                        *)

(* The broker answers c: d takes its place.                                *)
AnsweredBy(c, d, status) ==
  /\ calls' = (calls \ {c}) \cup {d}
  /\ d.req = c.req /\ d.kind = c.kind /\ d.key = c.key /\ d.status = status
  /\ d.view = IF c.kind = "getPermissions" /\ status = "ok" THEN readPerm[UserOf(c)] ELSE c.view
  /\ d \in Call

LEMMA BrokerAnswers ==
  ASSUME TypeOK, NEW c \in calls, NEW status \in Status, Answer(c, status)
  PROVE  \E d : AnsweredBy(c, d, status)
  <1> DEFINE view == IF c.kind = "getPermissions" /\ status = "ok"
                     THEN readPerm[UserOf(c)] ELSE c.view
             d == [c EXCEPT !.status = status, !.view = view]
  <1>1. c \in Call /\ view \subseteq Queue
    BY CallFields DEF TypeOK, BrokerTypeOK
  <1>2. calls' = (calls \ {c}) \cup {d}
    BY DEF Answer
  <1> HIDE DEF view
  <1>3. /\ d.req = c.req /\ d.kind = c.kind /\ d.key = c.key /\ d.status = status
        /\ d.view = view /\ d \in Call
    BY <1>1 DEF Call
  <1> QED BY <1>2, <1>3 DEF AnsweredBy, view

(* A step of the broker performs a call and answers with the verdict, or   *)
(* is a fault.                                                             *)
LEMMA BrokerStep ==
  ASSUME TypeOK, NEW c \in calls, Serve(c) \/ Fault(c), UNCHANGED serviceVars
  PROVE  \E status \in Status \ {"sent"} : \E d :
           /\ AnsweredBy(c, d, status) /\ c.status = "sent"
           /\ Execute(c) \/ UNCHANGED brokerState
           /\ \/ Execute(c) /\ status = Verdict(c) /\ UNCHANGED faults
              \/ /\ faults < MaxFaults
                 /\ \/ status = "failed" /\ "requestLost" \in FaultKinds /\ UNCHANGED brokerState
                    \/ status = "failed" /\ "replyLost" \in FaultKinds /\ Execute(c)
                    \/ status = "unexpected" /\ "unexpected" \in FaultKinds /\ UNCHANGED brokerState
  <1>1. CASE Serve(c)
    <2>1. Verdict(c) \in Status \ {"sent"}
      BY DEF Verdict, Status
    <2> QED BY <1>1, <2>1, BrokerAnswers DEF Serve
  <1>2. CASE Fault(c)
    <2>1. {"failed", "unexpected"} \subseteq Status \ {"sent"}
      BY DEF Status
    <2> QED BY <1>2, <2>1, BrokerAnswers DEF Fault
  <1> QED BY <1>1, <1>2

-----------------------------------------------------------------------------
(* Heads.  However many requests overlap, the calls of a register up to    *)
(* createQueue follow each other: the one under way is alone.              *)

HeadKind == BeforeQueue \cup {"createQueue"}

Heads(c) == Registers(c) /\ c.kind \in HeadKind

(* Which requests make which calls.                                        *)
KindsFit(c) ==
  /\ c.kind = "listQueue" => request[c.req].op = "append"
  /\ c.kind \in HeadKind \ {"putUser"} => Registers(c)
  /\ c.kind = "putUser" => Registers(c) \/ Resets(c)
  /\ c.kind \in {"selectUser", "updateUser"} => Resets(c)

HeadsAlone == \A c, d \in calls : c.req = d.req /\ Heads(c) => d = c

HeadInv ==
  /\ GrantInv
  /\ HeadsAlone
  /\ \A c \in calls : KindsFit(c)

(* What a callback sends: the next call of the head of a register, or      *)
(* calls that are past it.                                                 *)
LEMMA HeadSends ==
  ASSUME HeadInv, NEW c \in calls, Callback(c)
  PROVE  \E S : /\ Return(c, S)
                /\ \A d \in S : d.req = c.req /\ d.status = "sent" /\ KindsFit(d)
                /\ \/ \A d \in S : ~Heads(d)
                   \/ \E d : S = {d} /\ Heads(c) /\ c.kind # "createQueue"
  <1>1. TypeOK /\ c.status # "sent" /\ KindsFit(c)
    BY DEF HeadInv, GrantInv, Callback
  <1> DEFINE Fits(d) == d.req = c.req /\ d.status = "sent" /\ KindsFit(d)
             Fine(S) == /\ \A d \in S : Fits(d)
                        /\ \/ \A d \in S : ~Heads(d)
                           \/ \E d : S = {d} /\ Heads(c) /\ c.kind # "createQueue"
  <1>2. CASE UserCallback(c) \/ OnUserFound(c) \/ OnUserSaved(c)
    <2>1. \/ Return(c, {})
          \/ \E kind : Then(c, kind) /\ Follows(kind, c)
      BY <1>1, <1>2, UserSends
    <2>2. Fine({})
      OBVIOUS
    <2>3. ASSUME NEW kind, Follows(kind, c) PROVE Fine({NewCall(c.req, kind, None)})
      <3> DEFINE d == NewCall(c.req, kind, None)
      <3>1. d.req = c.req /\ d.status = "sent" /\ d.kind = kind
        BY DEF NewCall
      <3> SUFFICES Fine({d})
        OBVIOUS
      <3> HIDE DEF d
      <3>2. KindsFit(d)
        BY <1>1, <2>3, <3>1 DEF Follows, KindsFit, Registers, Resets, HeadKind, BeforeQueue
      <3>3. Heads(d) => Heads(c) /\ c.kind # "createQueue"
        BY <1>1, <2>3, <3>1 DEF Follows, KindsFit, Registers, Resets, HeadKind, BeforeQueue, Heads
      <3>4. CASE Heads(d)
        BY <3>1, <3>2, <3>3, <3>4
      <3>5. CASE ~Heads(d)
        BY <3>1, <3>2, <3>5
      <3> QED BY <3>4, <3>5
    <2> HIDE DEF Fine
    <2>4. \E S : Return(c, S) /\ Fine(S)
      BY <2>1, <2>2, <2>3 DEF Then
    <2> QED BY <2>4 DEF Fine
  <1>3. CASE QueueCallback(c)
    <2>1. PICK S : /\ Return(c, S)
                   /\ \A d \in S : d.req = c.req /\ d.status = "sent" /\ d.kind \in LaterKind
      BY <1>1, <1>3, QueueSends
    <2>2. \A d \in S : KindsFit(d) /\ ~Heads(d)
      BY <2>1 DEF LaterKind, KindsFit, Heads, HeadKind, BeforeQueue
    <2> QED BY <2>1, <2>2
  <1> QED BY <1>2, <1>3 DEF Callback

LEMMA CallbackHeads ==
  ASSUME HeadInv, GrantInv', NEW c \in calls, Callback(c)
  PROVE  HeadInv'
  <1>1. c.status # "sent"
    BY DEF Callback
  <1>2. PICK S : /\ Return(c, S)
                 /\ \A d \in S : d.req = c.req /\ d.status = "sent" /\ KindsFit(d)
                 /\ \/ \A d \in S : ~Heads(d)
                    \/ \E d : S = {d} /\ Heads(c) /\ c.kind # "createQueue"
    BY HeadSends
  <1>3. calls' = (calls \ {c}) \cup S
    BY <1>2 DEF Return
  <1>4. HeadsAlone'
    <2> SUFFICES ASSUME NEW d \in calls', NEW e \in calls', d.req = e.req, Heads(d)
                 PROVE  e = d
      BY DEF HeadsAlone, Heads, Registers
    <2>1. CASE d \in calls
      <3>1. e \in calls \/ e.req = c.req
        BY <1>2, <1>3
      <3>2. c \notin calls'
        BY <1>1, <1>2, <1>3
      <3>3. \A o \in calls : o.req = d.req => o = d
        BY <2>1 DEF HeadInv, HeadsAlone
      <3> QED BY <3>1, <3>2, <3>3
    <2>2. CASE d \in S
      <3>1. S = {d} /\ Heads(c) /\ d.req = c.req
        BY <1>2, <2>2
      <3> QED BY <1>3, <3>1 DEF HeadInv, HeadsAlone
    <2> QED BY <1>3, <2>1, <2>2
  <1>5. \A d \in calls' : KindsFit(d)'
    BY <1>2, <1>3 DEF HeadInv, KindsFit, Registers, Resets
  <1> QED BY <1>4, <1>5 DEF HeadInv

LEMMA HeadInvariant == Spec => []HeadInv
  <1>1. Init /\ GrantInv => HeadInv
    BY DEF Init, BrokerInit, HeadInv, HeadsAlone
  <1>2. HeadInv /\ GrantInv' /\ [Next]_vars => HeadInv'
    <2> SUFFICES ASSUME HeadInv, GrantInv', [Next]_vars PROVE HeadInv'
      OBVIOUS
    <2>1. ASSUME NEW r \in Request, NEW first, Arrive(r, first),
                 \/ first = "getUser" /\ request[r].op = "register"
                 \/ first = "selectUser" /\ request[r].op = "reset"
                 \/ first = "listQueue" /\ request[r].op = "append"
                 \/ first = "deleteQueue"
          PROVE  HeadInv'
      <3>1. \A d \in calls : d.req # r
        BY <2>1 DEF HeadInv, GrantInv, CallsAskedFor, Arrive
      <3> DEFINE c == NewCall(r, first, None)
      <3>2. calls' = calls \cup {c} /\ c.req = r /\ c.kind = first
        BY <2>1 DEF Arrive, NewCall
      <3> HIDE DEF c
      <3>3. HeadsAlone'
        BY <3>1, <3>2 DEF HeadInv, HeadsAlone, Heads, Registers
      <3>4. \A d \in calls' : KindsFit(d)'
        BY <2>1, <3>2 DEF HeadInv, KindsFit, Registers, Resets, HeadKind, BeforeQueue
      <3> QED BY <3>3, <3>4 DEF HeadInv
    <2>2. CASE Client
      BY <2>1, <2>2 DEF Client, registerStreamingSubscription, resetPassword,
         appendStreamingSubscription, deleteStreamingSubscription
    <2>3. CASE Broker
      <3>1. PICK c \in calls : Serve(c) \/ Fault(c)
        BY <2>3 DEF Broker
      <3>2. PICK d, status : AnsweredBy(c, d, status)
        BY <2>3, <3>1, BrokerAnswers, VerdictType DEF Serve, Fault, Status, HeadInv, GrantInv
      <3>3. HeadsAlone'
        BY <3>2 DEF AnsweredBy, HeadInv, HeadsAlone, Heads, Registers
      <3>4. \A e \in calls' : KindsFit(e)'
        BY <3>2 DEF AnsweredBy, HeadInv, KindsFit, Registers, Resets
      <3> QED BY <3>3, <3>4 DEF HeadInv
    <2>4. CASE Service
      BY <2>4, CallbackHeads DEF Service
    <2>5. CASE UNCHANGED vars
      BY <2>5 DEF vars, brokerVars, HeadInv, HeadsAlone, KindsFit, Heads, Registers, Resets
    <2> QED BY <2>2, <2>3, <2>4, <2>5 DEF Next
  <1> QED BY <1>1, <1>2, GrantsInvariant, PTL DEF Spec

-----------------------------------------------------------------------------
(* Failed registers.  A register made the queue only if its one createQueue*)
(* was answered with "ok", and a rollback that was answered has taken that *)
(* queue down.                                                             *)

MadeOnce ==
  \A q \in queues :
    /\ creator[q] \in Request /\ promise[creator[q]] # "none"
    /\ \A c \in calls : c.req = creator[q] /\ Heads(c) =>
         c.kind = "createQueue" /\ c.status = "ok"

Undone ==
  \A c \in calls :
    /\ c.kind = "deleteQueue" /\ Registers(c) /\ c.status \notin {"sent", "failed"}
    /\ QueueOf(c) \in queues
    => creator[QueueOf(c)] # c.req

UndoInv ==
  HeadInv /\ MadeOnce /\ Undone /\ NothingUnexpected

LEMMA CallbackUndo ==
  ASSUME UndoInv, HeadInv', NEW c \in calls, Callback(c)
  PROVE  UndoInv'
  <1>1. /\ TypeOK /\ c.status # "sent" /\ queues' = queues /\ creator' = creator /\ KindsFit(c)
        /\ c.req \in Request /\ c.status # "unexpected"
    BY CallFields DEF UndoInv, HeadInv, GrantInv, TypeOK, BrokerTypeOK, Callback, brokerState,
       NothingUnexpected
  <1>2. \A r \in Request : promise[r] # "none" => promise'[r] # "none"
    BY <1>1, PromiseKept
  <1>4. PICK S : /\ Return(c, S)
                 /\ \A d \in S : d.req = c.req /\ d.status = "sent" /\ KindsFit(d)
                 /\ \/ \A d \in S : ~Heads(d)
                    \/ \E d : S = {d} /\ Heads(c) /\ c.kind # "createQueue"
    BY HeadSends DEF UndoInv
  <1>5. calls' = (calls \ {c}) \cup S
    BY <1>4 DEF Return
  <1>7. MadeOnce'
    <2> SUFFICES ASSUME NEW q \in queues
                 PROVE  /\ creator[q] \in Request /\ promise'[creator[q]] # "none"
                        /\ \A d \in calls' : d.req = creator[q] /\ Heads(d) =>
                             d.kind = "createQueue" /\ d.status = "ok"
      BY <1>1 DEF MadeOnce, Heads, Registers
    <2>1. creator[q] \in Request /\ promise'[creator[q]] # "none"
      BY <1>2 DEF UndoInv, MadeOnce
    <2>2. ASSUME NEW d \in calls', d.req = creator[q], Heads(d)
          PROVE  d \in calls
      BY <1>4, <1>5, <2>2 DEF UndoInv, MadeOnce
    <2> QED BY <2>1, <2>2 DEF UndoInv, MadeOnce
  <1>8. Undone'
    <2> SUFFICES ASSUME NEW d \in calls', d.kind = "deleteQueue", Registers(d),
                        d.status \notin {"sent", "failed"}, QueueOf(d) \in queues
                 PROVE  creator[QueueOf(d)] # d.req
      BY <1>1 DEF Undone, Registers, QueueOf
    <2> QED BY <1>4, <1>5 DEF UndoInv, Undone
  <1>9. NothingUnexpected'
    BY <1>4, <1>5 DEF UndoInv, NothingUnexpected
  <1> QED BY <1>7, <1>8, <1>9 DEF UndoInv

LEMMA BrokerUndo ==
  ASSUME UndoInv, HeadInv', FaultKinds \subseteq {"requestLost"},
         NEW c \in calls, Serve(c) \/ Fault(c), UNCHANGED serviceVars
  PROVE  UndoInv'
  <1>1. /\ TypeOK /\ KindsFit(c) /\ c.req \in Request /\ promise' = promise
        /\ QueueOf(c) \in Queue /\ promise[c.req] # "none"
    BY CallFields DEF UndoInv, HeadInv, GrantInv, CallsAskedFor, TypeOK, BrokerTypeOK, serviceVars
  <1>2. PICK status \in Status \ {"sent"} : \E d :
          /\ AnsweredBy(c, d, status) /\ c.status = "sent"
          /\ \/ Execute(c) /\ status = Verdict(c)
             \/ status = "failed" /\ UNCHANGED brokerState
    BY <1>1, BrokerStep
  <1>10. PICK d : /\ AnsweredBy(c, d, status) /\ c.status = "sent"
                  /\ \/ Execute(c) /\ status = Verdict(c)
                     \/ status = "failed" /\ UNCHANGED brokerState
    BY <1>2
  <1>3. /\ calls' = (calls \ {c}) \cup {d}
        /\ d.req = c.req /\ d.kind = c.kind /\ d.status = status
        /\ QueueOf(d) = QueueOf(c) /\ (Heads(d) <=> Heads(c)) /\ KindsFit(d)
        /\ status # "unexpected"
    BY <1>1, <1>10 DEF AnsweredBy, QueueOf, Heads, KindsFit, Registers, Resets, Verdict
  <1>5. NothingUnexpected'
    BY <1>3 DEF UndoInv, NothingUnexpected
  <1>6. CASE c.kind = "createQueue" /\ QueueOf(c) \notin queues /\ Execute(c)
    <2>1. /\ queues' = queues \cup {QueueOf(c)} /\ creator' = [creator EXCEPT ![QueueOf(c)] = c.req]
          /\ Heads(c)
      BY <1>1, <1>6 DEF Execute, KindsFit, Heads, HeadKind
    <2>2. creator'[QueueOf(c)] = c.req /\ \A q \in queues : creator'[q] = creator[q]
      BY <1>1, <1>6, <2>1 DEF TypeOK, BrokerTypeOK
    <2>3. status = "ok"
      BY <1>2, <1>6, <2>1 DEF Verdict, Found, brokerState
    <2>4. \A e \in calls' : e.req = c.req => e = d
      BY <1>3, <2>1 DEF UndoInv, HeadInv, HeadsAlone
    <2>5. MadeOnce'
      <3> SUFFICES ASSUME NEW q \in queues'
                   PROVE  /\ creator'[q] \in Request /\ promise[creator'[q]] # "none"
                          /\ \A e \in calls' : e.req = creator'[q] /\ Heads(e) =>
                               e.kind = "createQueue" /\ e.status = "ok"
        BY <1>1 DEF MadeOnce, Heads, Registers
      <3>1. CASE q = QueueOf(c)
        BY <1>1, <1>3, <1>6, <2>2, <2>3, <2>4, <3>1
      <3>2. CASE q \in queues
        <4>1. c.req # creator[q]
          BY <1>2, <2>1, <3>2 DEF UndoInv, MadeOnce
        <4> QED BY <1>3, <2>2, <3>2, <4>1 DEF UndoInv, MadeOnce
      <3> QED BY <2>1, <3>1, <3>2
    <2>6. Undone'
      <3> SUFFICES ASSUME NEW e \in calls', e.kind = "deleteQueue", Registers(e),
                          e.status \notin {"sent", "failed"}, QueueOf(e) \in queues'
                   PROVE  creator'[QueueOf(e)] # e.req
        BY DEF Undone, Registers, QueueOf
      <3>1. e \in calls /\ e.req # c.req
        BY <1>3, <1>6, <2>4
      <3>2. CASE QueueOf(e) = QueueOf(c)
        BY <2>2, <3>1, <3>2
      <3>3. CASE QueueOf(e) \in queues
        BY <2>2, <3>1, <3>3 DEF UndoInv, Undone
      <3> QED BY <2>1, <3>2, <3>3
    <2> QED BY <1>5, <2>5, <2>6 DEF UndoInv
  <1>7. CASE ~(c.kind = "createQueue" /\ QueueOf(c) \notin queues /\ Execute(c))
    <2>1. /\ creator' = creator /\ queues' \subseteq queues
          /\ c.kind = "deleteQueue" /\ Execute(c) => QueueOf(c) \notin queues'
      BY <1>2, <1>7 DEF Execute, brokerState
    <2>2. MadeOnce'
      <3> SUFFICES ASSUME NEW q \in queues, NEW e \in calls', e.req = creator[q], Heads(e)
                   PROVE  e.kind = "createQueue" /\ e.status = "ok"
        BY <1>1, <2>1 DEF MadeOnce, Heads, Registers, UndoInv
      <3>1. c.req # creator[q] \/ ~Heads(c)
        BY <1>2 DEF UndoInv, MadeOnce
      <3> QED BY <1>3, <3>1 DEF UndoInv, MadeOnce
    <2>3. Undone'
      <3> SUFFICES ASSUME NEW e \in calls', e.kind = "deleteQueue", Registers(e),
                          e.status \notin {"sent", "failed"}, QueueOf(e) \in queues'
                   PROVE  creator'[QueueOf(e)] # e.req
        BY DEF Undone, Registers, QueueOf
      <3>1. CASE e \in calls
        BY <2>1, <3>1 DEF UndoInv, Undone
      <3>2. CASE e = d
        BY <1>2, <1>3, <2>1, <3>2
      <3> QED BY <1>3, <3>1, <3>2
    <2> QED BY <1>5, <2>2, <2>3 DEF UndoInv
  <1> QED BY <1>6, <1>7

LEMMA ArriveUndo ==
  ASSUME UndoInv, HeadInv', NEW r \in Request, NEW first, Arrive(r, first)
  PROVE  UndoInv'
  <1> DEFINE c == NewCall(r, first, None)
  <1>1. calls' = calls \cup {c} /\ queues' = queues /\ creator' = creator
    BY DEF Arrive, brokerState
  <1>2. c.req = r /\ c.kind = first /\ c.status = "sent"
    BY DEF NewCall
  <1> HIDE DEF c
  <1>3. TypeOK /\ \A d \in calls : d.req # r /\ d.req \in Request
    BY CallFields DEF UndoInv, HeadInv, GrantInv, CallsAskedFor, TypeOK, BrokerTypeOK, Arrive
  <1>4. \A o \in Request : promise[o] # "none" => o # r /\ promise'[o] # "none"
    BY <1>3 DEF Arrive, TypeOK
  <1>6. MadeOnce'
    BY <1>1, <1>2, <1>4 DEF UndoInv, MadeOnce, Heads, Registers
  <1>7. Undone' /\ NothingUnexpected'
    BY <1>1, <1>2 DEF UndoInv, Undone, NothingUnexpected, Registers, QueueOf
  <1> QED BY <1>6, <1>7 DEF UndoInv

LEMMA UndoInvariant ==
  ASSUME FaultKinds \subseteq {"requestLost"}
  PROVE  Spec => []UndoInv
  <1>1. Init /\ HeadInv => UndoInv
    BY DEF Init, BrokerInit, UndoInv, MadeOnce, Undone, NothingUnexpected
  <1>2. UndoInv /\ HeadInv' /\ [Next]_vars => UndoInv'
    <2> SUFFICES ASSUME UndoInv, HeadInv', [Next]_vars PROVE UndoInv'
      OBVIOUS
    <2>1. CASE Client
      BY <2>1, ArriveUndo DEF Client, registerStreamingSubscription, resetPassword,
         appendStreamingSubscription, deleteStreamingSubscription
    <2>2. CASE Broker
      BY <2>2, BrokerUndo DEF Broker
    <2>3. CASE Service
      BY <2>3, CallbackUndo DEF Service
    <2>4. CASE UNCHANGED vars
      BY <2>4 DEF vars, brokerVars, brokerState, serviceVars, UndoInv, MadeOnce, Undone,
         NothingUnexpected, Heads, Registers, QueueOf
    <2> QED BY <2>1, <2>2, <2>3, <2>4 DEF Next
  <1> QED BY <1>1, <1>2, HeadInvariant, PTL DEF Spec

(* Which callbacks answer that a register failed.                          *)
LEMMA RegisterFails ==
  ASSUME UndoInv, NEW c \in calls, Callback(c), Registers(c),
         promise[c.req] = "pending", promise'[c.req] = "fail"
  PROVE  \/ c.kind = "createQueue" /\ c.status # "ok"
         \/ c.kind = "deleteQueue" /\ c.status \notin {"sent", "failed"}
  <1>1. /\ c.status \in Status \ {"sent", "unexpected"} /\ KindsFit(c) /\ ~Resets(c)
        /\ ~Unsettled /\ ~Settle(c.req, "ok")
    BY CallFields DEF UndoInv, HeadInv, GrantInv, TypeOK, BrokerTypeOK, NothingUnexpected, Callback,
       Registers, Resets, Unsettled, Settle
  <1>2. CASE UserCallback(c)
    BY <1>1, <1>2 DEF UserCallback, OnUserPut, OnVhostPut, OnUserSelected, OnPasswordPut,
       OnUserUpdated, KindsFit, Resets
  <1>3. CASE OnUserFound(c) \/ OnUserSaved(c)
    BY <1>1, <1>3 DEF OnUserFound, OnUserSaved
  <1>4. CASE OnQueueCreated(c) \/ OnQueueListed(c)
    BY <1>1, <1>4 DEF OnQueueCreated, OnQueueListed, KindsFit, Registers
  <1>5. CASE OnBound(c) \/ OnRolledBack(c) \/ OnDeleted(c)
    BY <1>1, <1>5 DEF OnBound, OnRolledBack, OnDeleted, Registers
  <1>6. CASE OnPermissionsRead(c) \/ OnPermissionsWritten(c)
    BY <1>1, <1>6 DEF OnPermissionsRead, OnPermissionsWritten, PermissionFailed
  <1> QED BY <1>2, <1>3, <1>4, <1>5, <1>6 DEF Callback, QueueCallback

(* However many requests overlap, a register that is answered with failure *)
(* has left no queue of its own, when the only thing that goes wrong is    *)
(* that calls do not reach RabbitMQ: the alias can be registered again.    *)
(* (A createQueue whose answer is lost leaves the queue behind.)           *)
THEOREM FailuresLeaveNoQueue ==
  ASSUME FaultKinds \subseteq {"requestLost"}
  PROVE  Spec => FailedRegisterLeavesNoQueue
  <1>1. UndoInv /\ [Next]_vars =>
          \A r \in Request :
            promise[r] = "pending" /\ promise'[r] = "fail" /\ request[r].op = "register" =>
              ~(request[r].queue \in queues' /\ creator'[request[r].queue] = r)
    <2> SUFFICES ASSUME UndoInv, [Next]_vars, NEW r \in Request, promise[r] = "pending",
                        promise'[r] = "fail", request[r].op = "register"
                 PROVE  ~(request[r].queue \in queues' /\ creator'[request[r].queue] = r)
      OBVIOUS
    <2>1. ASSUME NEW o \in Request, NEW first, Arrive(o, first) PROVE FALSE
      BY <2>1 DEF Arrive, UndoInv, HeadInv, GrantInv, TypeOK
    <2>2. ~Client /\ ~Broker /\ ~UNCHANGED vars
      BY <2>1 DEF Client, registerStreamingSubscription, appendStreamingSubscription,
         deleteStreamingSubscription, resetPassword, Broker, vars, serviceVars
    <2>3. PICK c \in calls : Callback(c)
      BY <2>2 DEF Next, Service
    <2>4. c.req = r /\ QueueOf(c) = request[r].queue /\ Registers(c)
      BY <2>3, CallbackSettles DEF Settle, Unsettled, UndoInv, HeadInv, GrantInv, TypeOK,
         QueueOf, Registers
    <2>5. queues' = queues /\ creator' = creator
      BY <2>3 DEF Callback, brokerState
    <2>6. \/ c.kind = "createQueue" /\ c.status # "ok"
          \/ c.kind = "deleteQueue" /\ c.status \notin {"sent", "failed"}
      BY <2>3, <2>4, RegisterFails
    <2> QED BY <2>4, <2>5, <2>6
            DEF UndoInv, MadeOnce, Undone, Heads, HeadKind
  <1> QED BY <1>1, UndoInvariant, PTL DEF Spec, FailedRegisterLeavesNoQueue

-----------------------------------------------------------------------------
(* Permitted users.  A user the broker knows has a permission in the vhost *)
(* or a register of theirs is about to give it: overlapping creations of a *)
(* user do not take that call from each other.                             *)

Permits(c) ==
  /\ Registers(c)
  /\ \/ c.kind = "putUser" /\ c.status = "ok"
     \/ c.kind = "putVhost" /\ c.status = "sent"

Created(c) ==
  \/ c.kind = "putVhost"
  \/ c.kind = "putUser" /\ c.status = "ok"

PermitInv ==
  /\ \A u \in User : password[u] # None =>
       u \in permitted \/ \E c \in calls : UserOf(c) = u /\ Permits(c)
  /\ \A c \in calls : Created(c) => password[UserOf(c)] # None

LEMMA CallbackPermits ==
  ASSUME PermitInv, HeadInv, NEW c \in calls, Callback(c), ~Resets(c)
  PROVE  PermitInv'
  <1>1. c.status # "sent" /\ password' = password /\ permitted' = permitted /\ KindsFit(c)
    BY DEF Callback, brokerState, HeadInv
  <1>2. CASE UserCallback(c) \/ OnUserFound(c) \/ OnUserSaved(c)
    <2>1. CASE Permits(c)
      <3>1. Then(c, "putVhost")
        BY <1>1, <1>2, <2>1 DEF Permits, UserCallback, OnUserPut, OnVhostPut, OnUserSelected,
           OnPasswordPut, OnUserUpdated, OnUserFound, OnUserSaved, Registers
      <3> DEFINE d == NewCall(c.req, "putVhost", None)
      <3>2. calls' = (calls \ {c}) \cup {d}
        BY <3>1 DEF Then, Return
      <3>3. d.req = c.req /\ d.kind = "putVhost" /\ d.status = "sent"
        BY DEF NewCall
      <3> HIDE DEF d
      <3>4. UserOf(d) = UserOf(c) /\ Permits(d) /\ Created(c)
        BY <1>1, <2>1, <3>3 DEF UserOf, Permits, Registers, Created
      <3>5. \A u \in User : password[u] # None =>
              u \in permitted \/ \E e \in calls' : UserOf(e) = u /\ Permits(e)
        BY <3>2, <3>4 DEF PermitInv
      <3>6. \A e \in calls' : Created(e) => password[UserOf(e)] # None
        BY <3>2, <3>4 DEF PermitInv
      <3> QED BY <1>1, <3>5, <3>6 DEF PermitInv, Permits, Created, Registers, UserOf
    <2>2. CASE ~Permits(c)
      <3>1. PICK S : /\ Return(c, S)
                     /\ \A d \in S : ~Created(d)
        <4>1. \/ Return(c, {})
              \/ \E kind : Then(c, kind) /\ Follows(kind, c)
          BY <1>1, <1>2, UserSends
        <4>2. \A kind : Follows(kind, c) => kind # "putVhost"
          BY <2>2 DEF Follows, Permits
        <4>3. \A kind : kind # "putVhost" => ~Created(NewCall(c.req, kind, None))
          BY DEF NewCall, Created
        <4>4. ASSUME NEW kind, Then(c, kind), kind # "putVhost"
              PROVE  \E S : Return(c, S) /\ \A d \in S : ~Created(d)
          <5> DEFINE T == {NewCall(c.req, kind, None)}
          <5>1. Return(c, T)
            BY <4>4 DEF Then
          <5>2. \A d \in T : ~Created(d)
            BY <4>3, <4>4
          <5> QED BY <5>1, <5>2
        <4>5. CASE Return(c, {})
          BY <4>5
        <4> QED BY <4>1, <4>2, <4>4, <4>5
      <3>2. calls' = (calls \ {c}) \cup S
        BY <3>1 DEF Return
      <3> QED BY <1>1, <2>2, <3>1, <3>2 DEF PermitInv, Permits, Created, Registers, UserOf
    <2> QED BY <2>1, <2>2
  <1>3. CASE QueueCallback(c)
    <2>1. PICK S : /\ Return(c, S)
                   /\ \A d \in S : d.req = c.req /\ d.status = "sent" /\ d.kind \in LaterKind
      BY <1>3, QueueSends DEF HeadInv, GrantInv
    <2>2. calls' = (calls \ {c}) \cup S
      BY <2>1 DEF Return
    <2>3. ~Permits(c) /\ \A d \in S : ~Created(d)
      BY <1>3, <2>1, QueueSends DEF LaterKind, Created, Permits, UserKind, HeadInv, GrantInv
    <2> QED BY <1>1, <2>2, <2>3 DEF PermitInv, Permits, Created, Registers, UserOf
  <1> QED BY <1>2, <1>3 DEF Callback

LEMMA BrokerPermits ==
  ASSUME PermitInv, HeadInv, NEW c \in calls, Serve(c), ~Resets(c), UNCHANGED serviceVars
  PROVE  PermitInv'
  <1>1. /\ TypeOK /\ KindsFit(c) /\ c.req \in Request /\ UserOf(c) \in User /\ c.req # None
        /\ Verdict(c) \in Status
    BY CallFields, VerdictType, RequestAssumption DEF HeadInv, GrantInv, TypeOK, BrokerTypeOK
  <1>2. PICK d : AnsweredBy(c, d, Verdict(c))
    BY <1>1, BrokerAnswers DEF Serve
  <1>3. /\ calls' = (calls \ {c}) \cup {d}
        /\ d.req = c.req /\ d.kind = c.kind /\ d.status = Verdict(c) /\ UserOf(d) = UserOf(c)
        /\ c.status = "sent" /\ Execute(c)
    BY <1>2 DEF AnsweredBy, UserOf, Serve
  <1>4. \A u \in User :
          /\ password'[u] = password[u] \/ (c.kind = "putUser" /\ u = UserOf(c))
          /\ password[u] # None => password'[u] # None
    BY <1>1, <1>3 DEF Execute, TypeOK, BrokerTypeOK
  <1>5. permitted \subseteq permitted'
    BY <1>3 DEF Execute
  <1>6. Created(d) => password'[UserOf(c)] # None
    <2>1. CASE c.kind = "putUser"
      BY <1>1, <1>3, <2>1 DEF Execute, TypeOK, BrokerTypeOK
    <2>2. CASE c.kind # "putUser"
      BY <1>1, <1>3, <1>4, <2>2 DEF PermitInv, Created
    <2> QED BY <2>1, <2>2
  <1>7. \A e \in calls' : Created(e) => password'[UserOf(e)] # None
    <2>1. \A e \in calls : UserOf(e) \in User
      BY <1>1, CallFields DEF TypeOK, BrokerTypeOK
    <2> QED BY <1>3, <1>4, <1>6, <2>1 DEF PermitInv
  <1>8. ASSUME NEW u \in User, password'[u] # None
        PROVE  u \in permitted' \/ \E e \in calls' : UserOf(e) = u /\ Permits(e)
    <2>1. CASE password[u] = None
      <3>1. c.kind = "putUser" /\ u = UserOf(c) /\ Registers(c)
        BY <1>1, <1>4, <1>8, <2>1 DEF KindsFit
      <3>2. Verdict(c) = "ok"
        BY <2>1, <3>1 DEF Verdict, Found
      <3> QED BY <1>3, <3>1, <3>2 DEF Permits, Registers
    <2>2. CASE password[u] # None /\ u \notin permitted
      <3>1. PICK e \in calls : UserOf(e) = u /\ Permits(e)
        BY <2>2 DEF PermitInv
      <3>2. CASE e = c
        <4>1. c.kind = "putVhost" /\ Found(c)
          BY <1>1, <1>3, <2>2, <3>1, <3>2 DEF Permits, Found
        <4> QED BY <1>3, <3>1, <3>2, <4>1 DEF Execute
      <3> QED BY <1>3, <3>1, <3>2
    <2> QED BY <1>5, <2>1, <2>2
  <1>9. (\A u \in User : password'[u] # None =>
           u \in permitted' \/ \E e \in calls' : UserOf(e) = u /\ Permits(e))
        /\ (\A e \in calls' : Created(e) => password'[UserOf(e)] # None)
    BY <1>7, <1>8
  <1> QED BY <1>9 DEF PermitInv, Permits, Created, Registers, UserOf

LEMMA PermitInvariant ==
  ASSUME MaxFaults = 0, \A r \in Request : request[r].op # "reset"
  PROVE  Spec => []PermitInv
  <1>1. Init => PermitInv
    BY DEF Init, BrokerInit, PermitInv
  <1>2. PermitInv /\ HeadInv /\ [Next]_vars => PermitInv'
    <2> SUFFICES ASSUME PermitInv, HeadInv, [Next]_vars PROVE PermitInv'
      OBVIOUS
    <2>1. \A c \in calls : ~Resets(c) /\ UserOf(c) \in User
      BY CallFields DEF HeadInv, GrantInv, TypeOK, BrokerTypeOK, Resets
    <2>2. ASSUME NEW r \in Request, NEW first, Arrive(r, first), first \notin {"putUser", "putVhost"}
          PROVE  PermitInv'
      <3> DEFINE c == NewCall(r, first, None)
      <3>1. calls' = calls \cup {c} /\ password' = password /\ permitted' = permitted
        BY <2>2 DEF Arrive, brokerState
      <3>2. ~Created(c)
        BY <2>2 DEF NewCall, Created
      <3> HIDE DEF c
      <3> QED BY <3>1, <3>2 DEF PermitInv, Permits, Created, Registers, UserOf
    <2>3. CASE Client
      BY <2>2, <2>3 DEF Client, registerStreamingSubscription, resetPassword,
         appendStreamingSubscription, deleteStreamingSubscription
    <2>4. CASE Broker
      <3>1. \A c \in calls : ~Fault(c)
        BY DEF Fault, HeadInv, GrantInv, TypeOK, BrokerTypeOK
      <3> QED BY <2>1, <2>4, <3>1, BrokerPermits DEF Broker
    <2>5. CASE Service
      BY <2>1, <2>5, CallbackPermits DEF Service
    <2>6. CASE UNCHANGED vars
      BY <2>6 DEF vars, brokerVars, brokerState, PermitInv, Permits, Created, Registers, UserOf
    <2> QED BY <2>3, <2>4, <2>5, <2>6 DEF Next
  <1> QED BY <1>1, <1>2, HeadInvariant, PTL DEF Spec

(* However many registers overlap, every user that createUserIfNotExist    *)
(* makes ends up with a permission in the vhost, as long as no call goes   *)
(* wrong.  (A reset of the password of a user the broker does not know     *)
(* makes that user too, and gives it none.)                                *)
THEOREM UsersArePermitted ==
  ASSUME MaxFaults = 0, \A r \in Request : request[r].op # "reset"
  PROVE  Spec => []UsersPermitted
  <1>1. PermitInv => UsersPermitted
    BY DEF PermitInv, UsersPermitted
  <1> QED BY <1>1, PermitInvariant, PTL

-----------------------------------------------------------------------------
(* Answers.  While one request at a time has calls under way, the two      *)
(* counters are its own: together with the bindings whose call may still   *)
(* succeed they never exceed the number of entities, and they reach it     *)
(* only if every binding was made.                                         *)

(* Every entity has its exchange.                                          *)
Plain(r) == request[r].entities \subseteq Exchange

(* The bindings of a request are answered alike: all of them have their    *)
(* exchange, or none has, or a blank entity keeps the count from being     *)
(* reached.                                                                *)
Unmixed(r) ==
  \/ Plain(r)
  \/ Blank \in request[r].entities
  \/ request[r].entities \cap Exchange = {}

Alive == {c \in calls : c.kind = "bind" /\ c.status # "failed"}

(* The count of the bindings is out of reach.                              *)
Short == totalBindSuccess + Cardinality(Alive) < totalBindCount

LaterRegister(c) == Registers(c) /\ c.kind \in {"bind", "deleteQueue"}

(* Only bindings, and the rollbacks of a register, have company.           *)
AloneInService ==
  \A c, d \in calls : d = c \/ c.kind = "bind" \/ LaterRegister(c)

(* Before the bindings.                                                    *)
FreshFacts(c) ==
  /\ promise[c.req] = "pending"
  /\ c.kind \in {"createQueue", "listQueue"} =>
       totalBindCount = Cardinality(request[c.req].entities) /\ totalBindSuccess = 0
  /\ c.kind \in {"createQueue", "listQueue"} /\ c.status = "ok" => QueueOf(c) \in queues

(* A binding, and what its answer means.                                   *)
BindFacts(c) ==
  /\ Subscribes(c.req) /\ c.key \in request[c.req].entities \ {Blank}
  /\ c.status \in {"sent", "ok", "notFound", "failed"}
  /\ c.status = "ok" => c.key \in Exchange
  /\ c.status = "notFound" => QueueOf(c) \notin queues \/ c.key \notin Exchange
  /\ ~Registers(c) => QueueOf(c) \in queues

(* Nothing has gone wrong yet for the request that binds.                  *)
Intact(r) ==
  /\ promise[r] = "pending" /\ request[r].queue \in queues
  /\ \A d \in calls : d.kind = "bind"
  /\ \A e \in request[r].entities :
       \/ <<request[r].queue, e>> \in bindings
       \/ \E d \in calls : d.key = e /\ d.status = "sent"

TallyFacts(c) ==
  /\ totalBindCount = Cardinality(request[c.req].entities)
  /\ totalBindSuccess + Cardinality(Alive) <= totalBindCount
  /\ c.status = "failed" \/ Blank \in request[c.req].entities => Short
  /\ Plain(c.req) => Short \/ Intact(c.req)

(* The permission is written when every binding was made.                  *)
GrantFacts(c) ==
  /\ ~Resets(c)
  /\ Subscribes(c.req) =>
       /\ promise[c.req] = "pending"
       /\ QueueOf(c) \in queues
       /\ \A e \in request[c.req].entities : <<QueueOf(c), e>> \in bindings
       /\ c.kind = "putPermissions" /\ c.status = "ok" => QueueOf(c) \in readPerm[UserOf(c)]

(* A queue that was taken down stays so; only a register goes on after it  *)
(* was answered.                                                           *)
UndoFacts(c) ==
  /\ ~Resets(c)
  /\ promise[c.req] = "pending" \/ LaterRegister(c)
  /\ c.status \notin {"sent", "failed"} => QueueOf(c) \notin queues

RegisterFacts(c) ==
  promise[c.req] = "pending" \/ (promise[c.req] = "fail" /\ QueueOf(c) \notin queues)

Facts(c) ==
  /\ c.kind \in UserKind \cup {"createQueue", "listQueue"} => FreshFacts(c)
  /\ c.kind = "bind" => BindFacts(c) /\ TallyFacts(c)
  /\ c.kind \in {"getPermissions", "putPermissions"} => GrantFacts(c)
  /\ c.kind = "deleteQueue" => UndoFacts(c)
  /\ LaterRegister(c) => RegisterFacts(c)

AnswerInv ==
  /\ NothingUnexpected
  /\ AloneInService
  /\ \A c \in calls : Facts(c)

(* All that is used of a state in the steps below.                         *)
Known == AnswerInv /\ HeadInv /\ KeyInv

LEMMA AliveCount ==
  ASSUME IsFiniteSet(calls)
  PROVE  IsFiniteSet(Alive) /\ Cardinality(Alive) \in Nat
  BY FS_Subset, FS_CardinalityType DEF Alive

(* The calls that bind are as many as the entities that are not blank.     *)
LEMMA BindAllCount ==
  ASSUME NEW r \in Request
  PROVE  /\ Cardinality(BindAll(r)) \in Nat /\ Cardinality(request[r].entities) \in Nat
         /\ Cardinality(BindAll(r)) <= Cardinality(request[r].entities)
         /\ Blank \in request[r].entities =>
              Cardinality(BindAll(r)) < Cardinality(request[r].entities)
  <1> DEFINE E == request[r].entities
             f == [e \in E \ {Blank} |-> NewCall(r, "bind", e)]
  <1>1. IsFiniteSet(E) /\ IsFiniteSet(E \ {Blank})
        /\ Cardinality(E \ {Blank}) = IF Blank \in E THEN Cardinality(E) - 1 ELSE Cardinality(E)
    BY RequestFields, FS_RemoveElement
  <1>2. Cardinality(E) \in Nat
    BY <1>1, FS_CardinalityType
  <1>3. f \in Surjection(E \ {Blank}, BindAll(r))
    BY DEF Surjection, BindAll
  <1>4. /\ IsFiniteSet(BindAll(r))
        /\ Cardinality(BindAll(r)) <= Cardinality(E \ {Blank})
    BY <1>1, <1>3, FS_Surjection
  <1>5. Cardinality(BindAll(r)) \in Nat
    BY <1>4, FS_CardinalityType
  <1> HIDE DEF E
  <1>6. /\ Cardinality(BindAll(r)) <= Cardinality(E)
        /\ Blank \in E => Cardinality(BindAll(r)) < Cardinality(E)
    BY <1>1, <1>2, <1>4, <1>5
  <1> QED BY <1>2, <1>5, <1>6 DEF E

(* Nothing under way, or one call.                                         *)
LEMMA NoneLeft ==
  ASSUME calls' = {}
  PROVE  AnswerInv'
  BY DEF AnswerInv, NothingUnexpected, AloneInService

LEMMA OneLeft ==
  ASSUME NEW d, calls' = {d}, d.status # "unexpected", Facts(d)'
  PROVE  AnswerInv'
  BY DEF AnswerInv, NothingUnexpected, AloneInService

LEMMA SentFresh ==
  ASSUME NEW d, calls' = {d}, d.status = "sent", promise'[d.req] = "pending",
         d.kind \in UserKind \cup {"createQueue", "listQueue"},
         d.kind \in {"createQueue", "listQueue"} =>
           totalBindCount' = Cardinality(request[d.req].entities) /\ totalBindSuccess' = 0
  PROVE  AnswerInv'
  <1>1. FreshFacts(d)'
    BY DEF FreshFacts
  <1>2. Facts(d)'
    BY <1>1 DEF Facts, UserKind, LaterRegister
  <1> QED BY <1>2, OneLeft

(* A user is created or renewed, and the queue comes next.                 *)
LEMMA UserAnswers ==
  ASSUME Known, NEW c \in calls, Callback(c),
         UserCallback(c) \/ OnUserFound(c) \/ OnUserSaved(c)
  PROVE  AnswerInv'
  <1>1. c.status # "sent" /\ c.kind \in UserKind /\ calls = {c}
    BY UserSends DEF Callback, Known, KeyInv, Alone
  <1>2. promise[c.req] = "pending"
    BY <1>1 DEF Known, AnswerInv, Facts, FreshFacts
  <1>3. Return(c, {}) => AnswerInv'
    BY <1>1, NoneLeft DEF Return
  <1>4. ASSUME NEW kind, Then(c, kind), Unsettled, kind \in UserKind \cup {"createQueue"},
               kind = "createQueue" => ResetCounters(c.req)
        PROVE  AnswerInv'
    <2> DEFINE d == NewCall(c.req, kind, None)
    <2>1. calls' = {d}
      BY <1>1, <1>4 DEF Then, Return
    <2>2. d.req = c.req /\ d.kind = kind /\ d.status = "sent"
      BY DEF NewCall
    <2> HIDE DEF d
    <2> QED BY <1>2, <1>4, <2>1, <2>2, SentFresh DEF Unsettled, ResetCounters, UserKind
  <1>5. CASE UserCallback(c)
    BY <1>3, <1>4, <1>5 DEF UserCallback, OnUserPut, OnVhostPut, OnUserSelected,
       OnPasswordPut, OnUserUpdated, UserKind
  <1>6. CASE OnUserFound(c) \/ OnUserSaved(c)
    BY <1>3, <1>4, <1>6 DEF OnUserFound, OnUserSaved, UserKind
  <1> QED BY <1>5, <1>6

(* The queue is there: the bindings are sent, and the rollback of a blank  *)
(* one.                                                                    *)
LEMMA BindingsSent ==
  ASSUME Known, NEW c \in calls, c.kind \in {"createQueue", "listQueue"}, c.status = "ok",
         Subscribes(c.req), calls = {c}, NEW U, Return(c, BindAll(c.req) \cup U), KeepCounters,
         UNCHANGED brokerState, promise' = promise \/ (~Registers(c) /\ Settle(c.req, "fail")
                                                    /\ Blank \in request[c.req].entities),
         \A d \in U : d.req = c.req /\ d.kind = "deleteQueue" /\ d.status = "sent",
         U # {} => Registers(c) /\ Blank \in request[c.req].entities
  PROVE  AnswerInv'
  <1>1. /\ c.req \in Request /\ promise[c.req] = "pending" /\ QueueOf(c) \in queues
        /\ totalBindCount = Cardinality(request[c.req].entities) /\ totalBindSuccess = 0
    BY CallFields DEF Known, AnswerInv, Facts, FreshFacts, HeadInv, GrantInv, TypeOK, BrokerTypeOK
  <1>2. calls' = BindAll(c.req) \cup U
    BY CallFields DEF Return, BindAll, NewCall
  <1>3. \A d \in BindAll(c.req) : /\ d.req = c.req /\ d.kind = "bind" /\ d.status = "sent"
                                  /\ d.key \in request[c.req].entities \ {Blank}
    BY DEF BindAll, NewCall
  <1>4. Alive' = BindAll(c.req)
    BY <1>2, <1>3 DEF Alive
  <1>5. /\ totalBindSuccess' + Cardinality(Alive') <= totalBindCount'
        /\ Blank \in request[c.req].entities => Short'
        /\ totalBindCount' = Cardinality(request[c.req].entities)
    BY <1>1, <1>4, BindAllCount DEF KeepCounters, Short
  <1>6. queues' = queues /\ (promise' = promise \/ Blank \in request[c.req].entities)
    BY DEF brokerState
  <1>7. ASSUME ~Short' PROVE Intact(c.req)'
    <2>1. Blank \notin request[c.req].entities /\ calls' = BindAll(c.req)
      BY <1>2, <1>5, <1>7
    <2>2. promise' = promise /\ queues' = queues /\ request[c.req].queue \in queues
      BY <1>1, <2>1 DEF brokerState, QueueOf
    <2>3. ASSUME NEW e \in request[c.req].entities
          PROVE  \E d \in calls' : d.key = e /\ d.status = "sent"
      <3>1. NewCall(c.req, "bind", e) \in BindAll(c.req)
        BY <2>1 DEF BindAll
      <3> QED BY <2>1, <3>1 DEF NewCall
    <2> QED BY <1>1, <1>3, <2>1, <2>2, <2>3 DEF Intact
  <1>8. ASSUME NEW d \in BindAll(c.req) PROVE Facts(d)'
    <2>1. d.req = c.req /\ d.kind = "bind" /\ d.status = "sent" /\ QueueOf(d) = QueueOf(c)
          /\ d.key \in request[c.req].entities \ {Blank}
      BY <1>3 DEF QueueOf
    <2>2. BindFacts(d)'
      BY <1>1, <2>1 DEF BindFacts, brokerState, QueueOf, Subscribes
    <2>3. TallyFacts(d)'
      BY <1>5, <1>7, <2>1 DEF TallyFacts
    <2>4. LaterRegister(d) => RegisterFacts(d)'
      BY <1>1, <2>1 DEF LaterRegister, RegisterFacts, Registers
    <2> QED BY <2>1, <2>2, <2>3, <2>4 DEF Facts, UserKind, LaterRegister, Registers
  <1>9. ASSUME NEW d \in U PROVE Facts(d)'
    <2>1. Registers(c) /\ promise'[c.req] = "pending" /\ d.req = c.req
      BY <1>1, <1>9
    <2> QED BY <1>9, <2>1 DEF Facts, UserKind, LaterRegister, Registers, Resets, UndoFacts, RegisterFacts
  <1>10. AloneInService' /\ NothingUnexpected'
    BY <1>2, <1>3 DEF AloneInService, LaterRegister, Registers, NothingUnexpected
  <1> QED BY <1>2, <1>8, <1>9, <1>10 DEF AnswerInv

(* The callbacks of createQueue and listQueue.                             *)
LEMMA QueueAnswers ==
  ASSUME Known, NEW c \in calls, c.status # "sent", OnQueueCreated(c) \/ OnQueueListed(c),
         UNCHANGED brokerState
  PROVE  AnswerInv'
  <1>1. calls = {c} /\ c.status # "unexpected" /\ KindsFit(c)
    BY DEF OnQueueCreated, OnQueueListed, Known, AnswerInv, AloneInService, LaterRegister,
       NothingUnexpected, HeadInv
  <1>2. CASE c.status # "ok"
    BY <1>1, <1>2, NoneLeft DEF OnQueueCreated, OnQueueListed, Return
  <1>3. CASE c.status = "ok" /\ OnQueueCreated(c)
    <2> DEFINE U == {Rollback(c.req, e) : e \in request[c.req].entities \cap {Blank}}
    <2>1. Registers(c) /\ Subscribes(c.req)
      BY <1>1, <1>3 DEF OnQueueCreated, KindsFit, HeadKind, Registers, Subscribes
    <2>2. \A d \in U : d.req = c.req /\ d.kind = "deleteQueue" /\ d.status = "sent"
      BY DEF Rollback, NewCall
    <2>3. U # {} => Blank \in request[c.req].entities
      OBVIOUS
    <2>4. Return(c, BindAll(c.req) \cup U) /\ KeepCounters /\ promise' = promise
          /\ c.kind = "createQueue"
      BY <1>3 DEF OnQueueCreated, Unsettled
    <2> HIDE DEF U
    <2> QED BY <1>1, <1>3, <2>1, <2>2, <2>3, <2>4, BindingsSent
  <1>4. CASE c.status = "ok" /\ OnQueueListed(c)
    <2> DEFINE U == {d \in calls : FALSE}
    <2>1. ~Registers(c) /\ Subscribes(c.req)
      BY <1>1, <1>4 DEF OnQueueListed, KindsFit, Registers, Subscribes
    <2>2. U = {}
      OBVIOUS
    <2> HIDE DEF U
    <2>3. Return(c, BindAll(c.req) \cup U) /\ KeepCounters /\ c.kind = "listQueue"
      BY <1>4, <2>2 DEF OnQueueListed, Return
    <2>4. promise' = promise \/ (~Registers(c) /\ Settle(c.req, "fail")
                                /\ Blank \in request[c.req].entities)
      BY <1>4, <2>1 DEF OnQueueListed, Unsettled
    <2>5. /\ \A d \in U : d.req = c.req /\ d.kind = "deleteQueue" /\ d.status = "sent"
          /\ U # {} => Registers(c) /\ Blank \in request[c.req].entities
      BY <2>2
    <2> QED BY <1>1, <1>4, <2>1, <2>3, <2>4, <2>5, BindingsSent
  <1> QED BY <1>2, <1>3, <1>4

(* A binding that was answered moves from the ones that may still succeed  *)
(* to the ones that were counted.                                          *)
LEMMA BoundCounts ==
  ASSUME TypeOK, IsFiniteSet(calls), NEW c \in calls, c.kind = "bind",
         UNCHANGED totalBindCount,
         totalBindSuccess' = totalBindSuccess + (IF c.status = "failed" THEN 0 ELSE 1),
         NEW S, Return(c, S), \A d \in S : d.kind # "bind"
  PROVE  /\ Alive' = Alive \ {c}
         /\ totalBindSuccess' + Cardinality(Alive)' = totalBindSuccess + Cardinality(Alive)
         /\ Short' <=> Short
         /\ IsFiniteSet(Alive') /\ Cardinality(Alive') \in Nat
  <1>1. Alive' = Alive \ {c}
    BY DEF Alive, Return
  <1>2. IsFiniteSet(Alive) /\ Cardinality(Alive) \in Nat
    BY AliveCount
  <1>3. IsFiniteSet(Alive') /\ Cardinality(Alive') \in Nat
        /\ Cardinality(Alive') = IF c \in Alive THEN Cardinality(Alive) - 1 ELSE Cardinality(Alive)
    BY <1>1, <1>2, FS_RemoveElement, FS_CardinalityType
  <1>4. c \in Alive <=> c.status # "failed"
    BY DEF Alive
  <1>5. totalBindSuccess' + Cardinality(Alive)' = totalBindSuccess + Cardinality(Alive)
    BY <1>2, <1>3, <1>4 DEF TypeOK
  <1>6. Short' <=> Short
    BY <1>5 DEF Short
  <1> QED BY <1>1, <1>3, <1>5, <1>6

(* While the count can still be reached, every answer was a binding.       *)
LEMMA CountedBound ==
  ASSUME Known, NEW c \in calls, c.kind = "bind", c.status # "sent", ~Short,
         Unmixed(c.req)
  PROVE  /\ Blank \notin request[c.req].entities
         /\ c.status # "failed"
         /\ c.status = "ok" => Intact(c.req)
         /\ c.status = "notFound" => ~Plain(c.req)
  <1>1. BindFacts(c) /\ TallyFacts(c)
    BY DEF Known, AnswerInv, Facts
  <1>2. c.status # "failed" /\ Blank \notin request[c.req].entities
    BY <1>1 DEF TallyFacts
  <1>3. c.status = "ok" => Plain(c.req)
    BY <1>1, <1>2 DEF BindFacts, Unmixed
  <1>4. Plain(c.req) => Intact(c.req)
    BY <1>1 DEF TallyFacts
  <1>5. c.status = "notFound" => ~Plain(c.req)
    BY <1>1, <1>4 DEF BindFacts, Plain, Intact, QueueOf
  <1> QED BY <1>2, <1>3, <1>4, <1>5

(* The callback of a binding.                                              *)
LEMMA BindAnswers ==
  ASSUME Known, NEW c \in calls, c.status # "sent", OnBound(c), UNCHANGED brokerState,
         Unmixed(c.req)
  PROVE  AnswerInv'
  <1>1. /\ TypeOK /\ IsFiniteSet(calls) /\ c.kind = "bind" /\ c.req \in Request
        /\ BindFacts(c) /\ TallyFacts(c) /\ (Registers(c) => RegisterFacts(c))
    BY CallFields DEF OnBound, Known, KeyInv, TypeOK, BrokerTypeOK, AnswerInv, Facts, LaterRegister
  <1>2. queues' = queues /\ bindings' = bindings /\ readPerm' = readPerm
    BY DEF brokerState
  <1>3. ASSUME NEW e \in calls, e # c
        PROVE  e.req = c.req /\ (e.kind = "bind" \/ LaterRegister(e)) /\ Facts(e)
    BY <1>3 DEF Known, AnswerInv, AloneInService, KeyInv, OneAtATime
  <1>4. CASE /\ c.status \in {"failed", "notFound"} /\ Registers(c)
    <2> DEFINE d == Rollback(c.req, c.key)
    <2>1. Return(c, {d}) /\ promise' = promise
      BY <1>4 DEF OnBound, Unsettled, Registers
    <2>2. d.req = c.req /\ d.kind = "deleteQueue" /\ d.status = "sent"
      BY DEF Rollback, NewCall
    <2> HIDE DEF d
    <2>3. /\ totalBindCount' = totalBindCount /\ (Short' <=> Short)
          /\ totalBindSuccess' + Cardinality(Alive)' = totalBindSuccess + Cardinality(Alive)
      BY <1>1, <2>1, <2>2, BoundCounts DEF OnBound
    <2>4. ASSUME NEW e \in calls, e # c PROVE Facts(e)'
      <3>1. e.kind = "bind" => BindFacts(e)'
        BY <1>2, <1>3, <2>4 DEF Facts, BindFacts, QueueOf, Subscribes, Registers
      <3>2. e.kind = "bind" => TallyFacts(e)'
        <4>1. Plain(c.req) => Short
          BY <1>1, <1>4, CountedBound DEF Plain
        <4> QED BY <1>3, <2>3, <2>4, <4>1 DEF Facts, TallyFacts, Plain
      <3>3. LaterRegister(e) => RegisterFacts(e)'
        BY <1>2, <1>3, <2>1, <2>4 DEF Facts, RegisterFacts, QueueOf
      <3>4. e.kind = "deleteQueue" => UndoFacts(e)'
        BY <1>2, <1>3, <2>4 DEF Facts, UndoFacts, LaterRegister, Registers, Resets, QueueOf
      <3> QED BY <1>3, <2>4, <3>1, <3>2, <3>3, <3>4 DEF Facts, UserKind, LaterRegister, Registers
    <2>5. Facts(d)'
      BY <1>1, <1>2, <1>4, <2>1, <2>2
         DEF Facts, UndoFacts, RegisterFacts, LaterRegister, Registers, Resets, UserKind, QueueOf
    <2>6. LaterRegister(d)
      BY <1>4, <2>2 DEF LaterRegister, Registers
    <2>7. AloneInService' /\ NothingUnexpected'
      BY <1>3, <2>1, <2>2, <2>6
         DEF Return, AloneInService, LaterRegister, Registers, NothingUnexpected, Known, AnswerInv
    <2> QED BY <2>1, <2>4, <2>5, <2>7 DEF AnswerInv, Return
  <1>5. CASE /\ ~(c.status \in {"failed", "notFound"} /\ Registers(c))
             /\ Return(c, {})
    <2>1. /\ totalBindCount' = totalBindCount /\ (Short' <=> Short)
          /\ totalBindSuccess' + Cardinality(Alive)' = totalBindSuccess + Cardinality(Alive)
      BY <1>1, <1>5, BoundCounts DEF OnBound
    <2>2. /\ Registers(c) \/ c.status = "ok" => promise' = promise
      BY <1>1, <1>5 DEF OnBound, Unsettled, BindFacts, Subscribes, Registers
    <2>3. calls' = calls \ {c}
      BY <1>5 DEF Return
    <2>4. ASSUME NEW e \in calls, e # c PROVE Facts(e)'
      <3>1. e.kind = "bind" => BindFacts(e)'
        BY <1>2, <1>3, <2>4 DEF Facts, BindFacts, QueueOf, Subscribes, Registers
      <3>2. e.kind = "bind" => TallyFacts(e)'
        <4>1. Plain(c.req) => Short \/ Intact(c.req)'
          <5> SUFFICES ASSUME Plain(c.req), ~Short PROVE Intact(c.req)'
            OBVIOUS
          <5>1. Intact(c.req) /\ c.status = "ok"
            BY <1>1, CountedBound DEF BindFacts
          <5> QED BY <1>2, <2>2, <2>3, <5>1 DEF Intact
        <4> QED BY <1>3, <2>1, <2>4, <4>1 DEF Facts, TallyFacts, Plain
      <3>3. LaterRegister(e) => RegisterFacts(e)'
        BY <1>2, <1>3, <2>2, <2>4 DEF Facts, RegisterFacts, QueueOf, LaterRegister, Registers
      <3>4. e.kind = "deleteQueue" => UndoFacts(e)'
        BY <1>2, <1>3, <2>4 DEF Facts, UndoFacts, LaterRegister, Registers, Resets, QueueOf
      <3> QED BY <1>3, <2>4, <3>1, <3>2, <3>3, <3>4 DEF Facts, UserKind, LaterRegister, Registers
    <2>5. AloneInService' /\ NothingUnexpected'
      BY <2>3 DEF AloneInService, LaterRegister, Registers, NothingUnexpected, Known, AnswerInv
    <2> QED BY <2>3, <2>4, <2>5 DEF AnswerInv
  <1>6. CASE /\ c.status \notin {"failed", "notFound"}
             /\ totalBindSuccess' = totalBindCount
             /\ Return(c, {NewCall(c.req, "getPermissions", c.key)})
    <2> DEFINE d == NewCall(c.req, "getPermissions", c.key)
    <2>1. Return(c, {d}) /\ totalBindSuccess' = totalBindCount
      BY <1>6
    <2>2. d.req = c.req /\ d.kind = "getPermissions" /\ d.status = "sent"
      BY DEF NewCall
    <2> HIDE DEF d
    <2>3. /\ totalBindCount' = totalBindCount /\ (Short' <=> Short) /\ Alive' = Alive \ {c}
          /\ totalBindSuccess' + Cardinality(Alive)' = totalBindSuccess + Cardinality(Alive)
          /\ IsFiniteSet(Alive') /\ Cardinality(Alive') \in Nat
      BY <1>1, <2>1, <2>2, BoundCounts DEF OnBound
    <2>4. ~Short /\ c.status = "ok" /\ promise' = promise
      BY <1>1, <1>6, <2>1, <2>3 DEF Short, TypeOK, OnBound, BindFacts, Unsettled
    <2>5. Intact(c.req)
      BY <1>1, <2>4, CountedBound
    <2>6. Alive' = {}
      <3>1. Cardinality(Alive') = 0
        BY <1>1, <2>1, <2>3 DEF TallyFacts, TypeOK
      <3> QED BY <2>3, <3>1, FS_EmptySet
    <2>7. ASSUME NEW e \in calls PROVE e = c
      <3>1. e.kind = "bind"
        BY <2>5 DEF Intact
      <3>2. e.status # "failed"
        BY <2>4, <2>7, <3>1 DEF Known, AnswerInv, Facts, TallyFacts
      <3> QED BY <2>3, <2>6, <3>1, <3>2 DEF Alive
    <2>8. calls' = {d}
      BY <2>1, <2>7 DEF Return
    <2>9. Facts(d)'
      <3>1. GrantFacts(d)'
        BY <1>1, <1>2, <2>2, <2>4, <2>5, <2>7
           DEF GrantFacts, Intact, QueueOf, BindFacts, Subscribes, Resets
      <3> QED BY <2>2, <3>1 DEF Facts, UserKind, LaterRegister
    <2> QED BY <2>2, <2>8, <2>9, OneLeft
  <1> QED BY <1>1, <1>4, <1>5, <1>6 DEF OnBound, BindFacts, Registers, Subscribes

(* The callback of a rollback: only those of a register have company.      *)
LEMMA RollbackAnswers ==
  ASSUME Known, NEW c \in calls, c.status # "sent", OnRolledBack(c), UNCHANGED brokerState
  PROVE  AnswerInv'
  <1>1. /\ TypeOK /\ c.req \in Request /\ c.kind = "deleteQueue" /\ UndoFacts(c)
        /\ calls' = calls \ {c} /\ queues' = queues /\ KeepCounters
        /\ c.status # "failed" => QueueOf(c) \notin queues
        /\ promise' = promise \/ (c.status # "failed" /\ Settle(c.req, "fail"))
    BY CallFields DEF OnRolledBack, Return, Unsettled, Known, KeyInv, TypeOK, BrokerTypeOK,
       AnswerInv, Facts, UndoFacts, brokerState
  <1>2. CASE ~Registers(c)
    <2>1. calls = {c}
      BY <1>1, <1>2 DEF Known, AnswerInv, AloneInService, LaterRegister
    <2> QED BY <1>1, <2>1, NoneLeft
  <1>3. CASE Registers(c)
    <2>1. ASSUME NEW e \in calls, e # c
          PROVE  e.req = c.req /\ (e.kind = "bind" \/ LaterRegister(e)) /\ Facts(e)
      BY <2>1 DEF Known, AnswerInv, AloneInService, KeyInv, OneAtATime
    <2>2. RegisterFacts(c)
      BY <1>1, <1>3 DEF Known, AnswerInv, Facts, LaterRegister
    <2>3. RegisterFacts(c)'
      BY <1>1, <2>2 DEF RegisterFacts, Settle, TypeOK, QueueOf
    <2>4. ~Intact(c.req)
      BY <1>1 DEF Intact
    <2>5. Alive' = Alive
      BY <1>1 DEF Alive
    <2>6. ASSUME NEW e \in calls, e # c PROVE Facts(e)'
      <3>1. e.kind = "bind" => BindFacts(e)'
        BY <1>1, <2>1, <2>6 DEF Facts, BindFacts, QueueOf, Subscribes, Registers
      <3>2. e.kind = "bind" => TallyFacts(e)'
        BY <1>1, <2>1, <2>4, <2>5, <2>6 DEF Facts, TallyFacts, Plain, Short, KeepCounters
      <3>3. LaterRegister(e) => RegisterFacts(e)'
        BY <2>1, <2>3, <2>6 DEF RegisterFacts, QueueOf
      <3>4. e.kind = "deleteQueue" => UndoFacts(e)'
        BY <1>1, <2>1, <2>6 DEF Facts, UndoFacts, LaterRegister, Registers, Resets, QueueOf
      <3> QED BY <2>1, <2>6, <3>1, <3>2, <3>3, <3>4 DEF Facts, UserKind, LaterRegister, Registers
    <2>7. AloneInService' /\ NothingUnexpected'
      BY <1>1 DEF AloneInService, LaterRegister, Registers, NothingUnexpected, Known, AnswerInv
    <2> QED BY <1>1, <2>6, <2>7 DEF AnswerInv
  <1> QED BY <1>2, <1>3

(* The deleteQueue of a delete, and the calls that change the permission,  *)
(* are alone.                                                              *)
LEMMA GrantAnswers ==
  ASSUME Known, NEW c \in calls, c.status # "sent",
         OnDeleted(c) \/ OnPermissionsRead(c) \/ OnPermissionsWritten(c),
         UNCHANGED brokerState
  PROVE  AnswerInv'
  <1>1. calls = {c} /\ Facts(c) /\ ~Resets(c)
    BY DEF OnDeleted, OnPermissionsRead, OnPermissionsWritten, Known, AnswerInv, AloneInService,
       LaterRegister, Registers, Facts, GrantFacts, UndoFacts
  <1>2. Return(c, {}) => AnswerInv'
    BY <1>1, NoneLeft DEF Return
  <1>3. ASSUME NEW d, Return(c, {d}), Facts(d)', d.status = "sent" PROVE AnswerInv'
    BY <1>1, <1>3, OneLeft DEF Return
  <1>4. CASE OnDeleted(c)
    <2> DEFINE d == NewCall(c.req, "getPermissions", None)
    <2>1. d.req = c.req /\ d.kind = "getPermissions" /\ d.status = "sent"
      BY DEF NewCall
    <2>2. Return(c, {}) \/ Return(c, {d})
      BY <1>4 DEF OnDeleted
    <2> HIDE DEF d
    <2>3. Facts(d)'
      BY <1>1, <1>4, <2>1 DEF OnDeleted, Facts, GrantFacts, Subscribes, UserKind, LaterRegister, Resets
    <2> QED BY <1>2, <1>3, <2>1, <2>2, <2>3
  <1>5. ASSUME PermissionFailed(c), c.kind \in {"getPermissions", "putPermissions"}
        PROVE  AnswerInv'
    <2> DEFINE d == Rollback(c.req, c.key)
    <2>1. d.req = c.req /\ d.kind = "deleteQueue" /\ d.status = "sent"
      BY DEF Rollback, NewCall
    <2>2. /\ Return(c, {}) \/ (Return(c, {d}) /\ request[c.req].op # "delete")
          /\ promise' = promise
      BY <1>5 DEF PermissionFailed, Unsettled
    <2> HIDE DEF d
    <2>3. ASSUME request[c.req].op # "delete" PROVE Facts(d)'
      <3>1. c.req \in Request
        BY CallFields DEF Known, KeyInv, TypeOK, BrokerTypeOK
      <3>2. Subscribes(c.req)
        BY <1>1, <2>3, <3>1, RequestFields DEF Subscribes, Resets, Operation
      <3>3. promise'[c.req] = "pending"
        BY <1>1, <1>5, <2>2, <3>2 DEF Facts, GrantFacts
      <3> QED BY <1>1, <2>1, <3>3
              DEF Facts, UndoFacts, RegisterFacts, UserKind, LaterRegister, Resets
    <2> QED BY <1>2, <1>3, <2>1, <2>2, <2>3
  <1>6. CASE OnPermissionsRead(c) /\ c.status = "ok"
    <2> DEFINE d == [NewCall(c.req, "putPermissions", c.key)
                       EXCEPT !.view = getUpdatedPermission(c)]
    <2>1. d.req = c.req /\ d.kind = "putPermissions" /\ d.status = "sent"
      BY DEF NewCall
    <2>2. Return(c, {d}) /\ promise' = promise /\ c.kind = "getPermissions"
      BY <1>6 DEF OnPermissionsRead, Unsettled
    <2> HIDE DEF d
    <2>3. queues' = queues /\ bindings' = bindings
      BY DEF brokerState
    <2>4. Facts(d)'
      BY <1>1, <2>1, <2>2, <2>3
         DEF Facts, GrantFacts, UserKind, LaterRegister, Resets, Subscribes, QueueOf
    <2> QED BY <1>3, <2>1, <2>2, <2>4
  <1>7. CASE OnPermissionsRead(c) /\ c.status # "ok"
    BY <1>2, <1>5, <1>7 DEF OnPermissionsRead
  <1>8. CASE OnPermissionsWritten(c)
    BY <1>2, <1>5, <1>8 DEF OnPermissionsWritten
  <1> QED BY <1>4, <1>6, <1>7, <1>8

LEMMA CallbackAnswers ==
  ASSUME Known, NEW c \in calls, Callback(c), Unmixed(c.req)
  PROVE  AnswerInv'
  BY UserAnswers, QueueAnswers, BindAnswers, RollbackAnswers, GrantAnswers
     DEF Callback, QueueCallback

-----------------------------------------------------------------------------
(* The broker answers.                                                     *)

(* What an answer says, and what the broker did for it.                    *)
Said(c, status) ==
  /\ Execute(c) \/ UNCHANGED brokerState
  /\ status = "failed" \/ (Execute(c) /\ status = Verdict(c))

LEMMA BrokerSays ==
  ASSUME TypeOK, "unexpected" \notin FaultKinds, NEW c \in calls, Serve(c) \/ Fault(c),
         UNCHANGED serviceVars
  PROVE  \E status \in Status \ {"sent", "unexpected"} :
           \E d : AnsweredBy(c, d, status) /\ Said(c, status) /\ c.status = "sent"
  <1>1. \A status \in Status : status = Verdict(c) => status # "unexpected"
    BY DEF Verdict
  <1>2. PICK status \in Status \ {"sent"} : \E d :
           /\ AnsweredBy(c, d, status) /\ c.status = "sent"
           /\ Execute(c) \/ UNCHANGED brokerState
           /\ \/ Execute(c) /\ status = Verdict(c)
              \/ status = "failed"
    BY BrokerStep
  <1> QED BY <1>1, <1>2 DEF Said

(* The bindings that may still succeed do not become more; a binding that  *)
(* fails is none of them.                                                  *)
LEMMA AnswerCounts ==
  ASSUME TypeOK, IsFiniteSet(calls), NEW c \in calls, c.status = "sent",
         NEW status \in Status, NEW d, AnsweredBy(c, d, status), UNCHANGED serviceVars
  PROVE  /\ totalBindSuccess' + Cardinality(Alive)' <= totalBindSuccess + Cardinality(Alive)
         /\ totalBindCount' = totalBindCount
         /\ Short => Short'
         /\ c.kind = "bind" /\ status = "failed"
            /\ totalBindSuccess + Cardinality(Alive) <= totalBindCount => Short'
  <1>1. IsFiniteSet(Alive) /\ Cardinality(Alive) \in Nat
    BY AliveCount
  <1> DEFINE rest == Alive \ {c}
  <1>2. /\ IsFiniteSet(rest) /\ Cardinality(rest) \in Nat
        /\ Cardinality(rest) = IF c \in Alive THEN Cardinality(Alive) - 1 ELSE Cardinality(Alive)
    BY <1>1, FS_RemoveElement, FS_CardinalityType
  <1>3. Alive' = IF c.kind = "bind" /\ status # "failed" THEN rest \cup {d} ELSE rest
    BY DEF Alive, AnsweredBy
  <1>4. c \in Alive <=> c.kind = "bind"
    BY DEF Alive
  <1> HIDE DEF rest
  <1>5. Cardinality(rest \cup {d}) \in Nat /\ Cardinality(rest \cup {d}) <= Cardinality(rest) + 1
    <2>1. /\ IsFiniteSet(rest \cup {d})
          /\ Cardinality(rest \cup {d}) =
               IF d \in rest THEN Cardinality(rest) ELSE Cardinality(rest) + 1
      BY <1>2, FS_AddElement
    <2>2. Cardinality(rest \cup {d}) \in Nat
      BY <2>1, FS_CardinalityType
    <2> QED BY <1>2, <2>1, <2>2
  <1>6. /\ Cardinality(Alive') \in Nat /\ Cardinality(Alive') <= Cardinality(Alive)
        /\ c.kind = "bind" /\ status = "failed" => Cardinality(Alive') = Cardinality(Alive) - 1
    BY <1>1, <1>2, <1>3, <1>4, <1>5
  <1>7. totalBindSuccess' = totalBindSuccess /\ totalBindCount' = totalBindCount
        /\ totalBindSuccess \in Nat /\ totalBindCount \in Nat
    BY DEF serviceVars, TypeOK
  <1> QED BY <1>1, <1>6, <1>7 DEF Short

(* A call that is alone.                                                   *)
LEMMA AnsweredAlone ==
  ASSUME Known, NEW c \in calls, c.status = "sent", c.kind # "bind", ~LaterRegister(c),
         NEW status \in Status \ {"sent", "unexpected"}, NEW d, AnsweredBy(c, d, status),
         Said(c, status), UNCHANGED serviceVars
  PROVE  AnswerInv'
  <1>1. /\ calls = {c} /\ Facts(c) /\ TypeOK /\ UserOf(c) \in User /\ QueueOf(c) \in Queue
    BY CallFields DEF Known, AnswerInv, AloneInService, KeyInv, TypeOK, BrokerTypeOK
  <1>2. /\ calls' = {d} /\ d.req = c.req /\ d.kind = c.kind /\ d.status = status
        /\ QueueOf(d) = QueueOf(c) /\ UserOf(d) = UserOf(c)
    BY <1>1 DEF AnsweredBy, QueueOf, UserOf
  <1>3. promise' = promise /\ totalBindCount' = totalBindCount /\ totalBindSuccess' = totalBindSuccess
    BY DEF serviceVars
  <1>4. CASE c.kind \in UserKind \cup {"createQueue", "listQueue"}
    <2>1. c.kind \in {"createQueue", "listQueue"} /\ status = "ok" => QueueOf(c) \in queues'
      BY DEF Said, Execute, Verdict, Found, DbKind
    <2>2. FreshFacts(d)'
      BY <1>1, <1>2, <1>3, <1>4, <2>1 DEF Facts, FreshFacts, QueueOf
    <2> QED BY <1>2, <1>4, <2>2, OneLeft DEF Facts, UserKind, LaterRegister
  <1>5. CASE c.kind \in {"getPermissions", "putPermissions"}
    <2>1. queues' = queues /\ bindings' = bindings
      BY <1>5 DEF Said, Execute, brokerState
    <2>2. c.kind = "putPermissions" /\ status = "ok" /\ Subscribes(c.req) =>
            QueueOf(c) \in readPerm'[UserOf(c)]
      <3> SUFFICES ASSUME c.kind = "putPermissions", status = "ok", Subscribes(c.req)
                   PROVE  QueueOf(c) \in readPerm'[UserOf(c)]
        OBVIOUS
      <3>1. Execute(c) /\ Found(c)
        BY DEF Said, Verdict
      <3>2. QueueOf(c) \in c.view
        BY DEF Known, HeadInv, GrantInv, WritesGrant
      <3> QED BY <1>1, <3>1, <3>2 DEF Execute, TypeOK, BrokerTypeOK
    <2>3. GrantFacts(d)'
      BY <1>1, <1>2, <1>3, <1>5, <2>1, <2>2
         DEF Facts, GrantFacts, QueueOf, UserOf, Resets, Subscribes
    <2> QED BY <1>2, <1>5, <2>3, OneLeft DEF Facts, UserKind, LaterRegister
  <1>6. CASE c.kind = "deleteQueue"
    <2>1. status # "failed" => QueueOf(c) \notin queues'
      BY <1>6 DEF Said, Execute
    <2>2. UndoFacts(d)'
      BY <1>1, <1>2, <1>3, <1>6, <2>1 DEF Facts, UndoFacts, QueueOf, LaterRegister, Registers, Resets
    <2>3. ~LaterRegister(d)
      BY <1>2 DEF LaterRegister, Registers
    <2> QED BY <1>2, <1>6, <2>2, <2>3, OneLeft DEF Facts, UserKind, LaterRegister, Registers
  <1> QED BY <1>1, <1>4, <1>5, <1>6, CallFields
          DEF Known, KeyInv, TypeOK, BrokerTypeOK, Kind, DbKind, UserKind

(* The answer to a binding.                                                *)
LEMMA AnsweredBinding ==
  ASSUME Known, NEW c \in calls, c.status = "sent", c.kind = "bind",
         NEW status \in Status \ {"sent", "unexpected"}, NEW d, AnsweredBy(c, d, status),
         Said(c, status), UNCHANGED serviceVars
  PROVE  AnswerInv'
  <1>1. TypeOK /\ IsFiniteSet(calls) /\ Facts(c) /\ BindFacts(c) /\ TallyFacts(c)
    BY DEF Known, AnswerInv, KeyInv, Facts
  <1>2. /\ calls' = (calls \ {c}) \cup {d} /\ d.req = c.req /\ d.kind = "bind" /\ d.key = c.key
        /\ d.status = status /\ QueueOf(d) = QueueOf(c)
    BY DEF AnsweredBy, QueueOf
  <1>3. /\ promise' = promise /\ queues' = queues /\ bindings \subseteq bindings'
        /\ status \in {"ok", "notFound", "failed"}
        /\ status = "ok" => Bindable(c)
        /\ status = "notFound" => ~Bindable(c)
        /\ status # "failed" /\ Bindable(c) => <<QueueOf(c), c.key>> \in bindings'
    BY DEF Said, Execute, Verdict, Found, DbKind, brokerState, serviceVars
  <1>4. /\ totalBindSuccess' + Cardinality(Alive)' <= totalBindSuccess + Cardinality(Alive)
        /\ totalBindCount' = totalBindCount
        /\ Short => Short'
        /\ status = "failed" => Short'
    BY <1>1, AnswerCounts DEF TallyFacts
  <1>5. ASSUME NEW e \in calls PROVE e.req = c.req /\ Facts(e)
    BY DEF Known, AnswerInv, KeyInv, OneAtATime
  <1>6. ASSUME Plain(c.req), ~Short' PROVE Intact(c.req)'
    <2>1. Intact(c.req) /\ status # "failed"
      BY <1>1, <1>4, <1>6 DEF TallyFacts
    <2>2. Bindable(c)
      BY <1>1, <1>6, <2>1 DEF Bindable, Plain, Intact, BindFacts, QueueOf
    <2>3. <<request[c.req].queue, c.key>> \in bindings'
      BY <1>3, <2>1, <2>2 DEF QueueOf
    <2>4. ASSUME NEW e \in request[c.req].entities
          PROVE  \/ <<request[c.req].queue, e>> \in bindings'
                 \/ \E o \in calls' : o.key = e /\ o.status = "sent"
      BY <1>2, <1>3, <2>1, <2>3 DEF Intact
    <2>5. \A o \in calls' : o.kind = "bind"
      BY <1>2, <2>1 DEF Intact
    <2> QED BY <1>3, <2>1, <2>4, <2>5 DEF Intact
  <1>7. TallyFacts(c) => \A o \in calls' : o.kind = "bind" => TallyFacts(o)'
    <2> SUFFICES ASSUME NEW o \in calls', o.kind = "bind" PROVE TallyFacts(o)'
      OBVIOUS
    <2>1. o.req = c.req
      BY <1>2, <1>5
    <2>2. o.status = "failed" => Short'
      BY <1>2, <1>4, <1>5 DEF Facts, TallyFacts
    <2>3. Cardinality(Alive) \in Nat /\ totalBindSuccess \in Nat /\ totalBindCount \in Nat
      BY <1>1, AliveCount DEF TypeOK
    <2>4. IsFiniteSet(calls')
      BY <1>1, <1>2, FS_AddElement, FS_Difference
    <2>5. Cardinality(Alive)' \in Nat /\ totalBindSuccess' \in Nat
      BY <1>1, <2>4, FS_Subset, FS_CardinalityType DEF Alive, TypeOK, serviceVars
    <2>6. totalBindSuccess' + Cardinality(Alive)' <= totalBindCount'
      BY <1>1, <1>4, <2>3, <2>5 DEF TallyFacts
    <2> QED BY <1>1, <1>4, <1>6, <2>1, <2>2, <2>6 DEF TallyFacts, Plain
  <1>8. ASSUME NEW e \in calls, e # c PROVE Facts(e)'
    <2>1. e.kind = "bind" => BindFacts(e)'
      BY <1>3, <1>5, <1>8 DEF Facts, BindFacts, QueueOf, Subscribes, Registers
    <2>2. e.kind = "bind" => TallyFacts(e)'
      BY <1>1, <1>2, <1>7, <1>8
    <2>3. e.kind = "bind" \/ LaterRegister(e)
      BY <1>8 DEF Known, AnswerInv, AloneInService
    <2>4. LaterRegister(e) => RegisterFacts(e)'
      BY <1>3, <1>5, <1>8 DEF Facts, RegisterFacts, QueueOf
    <2>5. e.kind = "deleteQueue" => UndoFacts(e)'
      BY <1>3, <1>5, <1>8 DEF Facts, UndoFacts, LaterRegister, Registers, Resets, QueueOf
    <2> QED BY <2>1, <2>2, <2>3, <2>4, <2>5 DEF Facts, UserKind, LaterRegister, Registers
  <1>9. Facts(d)'
    <2>1. BindFacts(d)'
      BY <1>1, <1>2, <1>3 DEF BindFacts, Bindable, QueueOf, Subscribes, Registers
    <2>2. LaterRegister(d) => RegisterFacts(d)'
      BY <1>1, <1>2, <1>3 DEF Facts, RegisterFacts, LaterRegister, Registers, QueueOf
    <2> QED BY <1>1, <1>2, <1>7, <2>1, <2>2 DEF Facts, UserKind, LaterRegister, Registers
  <1>10. AloneInService' /\ NothingUnexpected'
    BY <1>2 DEF AloneInService, LaterRegister, Registers, NothingUnexpected, Known, AnswerInv
  <1> QED BY <1>2, <1>8, <1>9, <1>10 DEF AnswerInv

(* The answer to the rollback of a register.                               *)
LEMMA AnsweredRollback ==
  ASSUME Known, NEW c \in calls, c.status = "sent", c.kind = "deleteQueue", Registers(c),
         NEW status \in Status \ {"sent", "unexpected"}, NEW d, AnsweredBy(c, d, status),
         Said(c, status), UNCHANGED serviceVars
  PROVE  AnswerInv'
  <1>1. TypeOK /\ IsFiniteSet(calls) /\ UndoFacts(c) /\ RegisterFacts(c) /\ LaterRegister(c)
    BY DEF Known, AnswerInv, KeyInv, Facts, LaterRegister
  <1>2. /\ calls' = (calls \ {c}) \cup {d} /\ d.req = c.req /\ d.kind = "deleteQueue"
        /\ d.status = status /\ QueueOf(d) = QueueOf(c)
    BY DEF AnsweredBy, QueueOf
  <1>3. /\ promise' = promise /\ queues' \subseteq queues
        /\ totalBindCount' = totalBindCount /\ totalBindSuccess' = totalBindSuccess
        /\ status # "failed" => QueueOf(c) \notin queues'
    BY DEF Said, Execute, brokerState, serviceVars
  <1>4. ASSUME NEW e \in calls
        PROVE  e.req = c.req /\ Facts(e) /\ (e.kind = "bind" \/ LaterRegister(e)) /\ Registers(e)
    BY <1>1 DEF Known, AnswerInv, KeyInv, OneAtATime, AloneInService, Registers
  <1>5. Alive' = Alive /\ ~Intact(c.req)
    BY <1>2 DEF Alive, Intact
  <1>6. ASSUME NEW e \in calls PROVE RegisterFacts(e)'
    BY <1>1, <1>3, <1>4 DEF RegisterFacts, QueueOf
  <1>7. ASSUME NEW e \in calls, e # c PROVE Facts(e)'
    <2>1. e.kind = "bind" => BindFacts(e)'
      BY <1>3, <1>4, <1>7 DEF Facts, BindFacts, QueueOf, Subscribes, Registers
    <2>2. e.kind = "bind" => TallyFacts(e)'
      BY <1>3, <1>4, <1>5, <1>7 DEF Facts, TallyFacts, Plain, Short
    <2>3. e.kind = "deleteQueue" => UndoFacts(e)'
      BY <1>3, <1>4, <1>7 DEF Facts, UndoFacts, LaterRegister, Registers, Resets, QueueOf
    <2> QED BY <1>4, <1>6, <1>7, <2>1, <2>2, <2>3 DEF Facts, UserKind, LaterRegister, Registers
  <1>8. Facts(d)'
    <2>1. UndoFacts(d)' /\ RegisterFacts(d)'
      BY <1>1, <1>2, <1>3 DEF UndoFacts, RegisterFacts, LaterRegister, Registers, Resets, QueueOf
    <2> QED BY <1>2, <2>1 DEF Facts, UserKind, LaterRegister, Registers
  <1>9. AloneInService' /\ NothingUnexpected'
    BY <1>1, <1>2 DEF AloneInService, LaterRegister, Registers, NothingUnexpected, Known, AnswerInv
  <1> QED BY <1>2, <1>7, <1>8, <1>9 DEF AnswerInv

LEMMA BrokerKeepsAnswers ==
  ASSUME Known, "unexpected" \notin FaultKinds, NEW c \in calls, Serve(c) \/ Fault(c),
         UNCHANGED serviceVars
  PROVE  AnswerInv'
  <1>1. PICK status \in Status \ {"sent", "unexpected"} :
           \E d : AnsweredBy(c, d, status) /\ Said(c, status) /\ c.status = "sent"
    BY BrokerSays DEF Known, KeyInv
  <1>2. PICK d : AnsweredBy(c, d, status) /\ Said(c, status) /\ c.status = "sent"
    BY <1>1
  <1>3. CASE c.kind # "bind" /\ ~LaterRegister(c)
    BY <1>2, <1>3, AnsweredAlone
  <1>4. CASE c.kind = "bind"
    BY <1>2, <1>4, AnsweredBinding
  <1>5. CASE c.kind # "bind" /\ LaterRegister(c)
    BY <1>2, <1>5, AnsweredRollback DEF LaterRegister
  <1> QED BY <1>3, <1>4, <1>5

-----------------------------------------------------------------------------
(* A request arrives.                                                      *)
LEMMA ArriveAnswers ==
  ASSUME MaxInFlight = 1, Known, NEW r \in Request, NEW first, Arrive(r, first),
         first \in UserKind \cup {"listQueue", "deleteQueue"},
         first = "listQueue" => ResetCounters(r),
         first = "deleteQueue" => request[r].op = "delete"
  PROVE  AnswerInv'
  <1> DEFINE c == NewCall(r, first, None)
  <1>1. calls' = {c}
    BY ArriveAlone DEF Known, KeyInv, Arrive
  <1>2. c.req = r /\ c.kind = first /\ c.status = "sent"
    BY DEF NewCall
  <1>3. promise'[r] = "pending"
    BY DEF Arrive, Known, KeyInv, TypeOK
  <1> HIDE DEF c
  <1>4. CASE first = "deleteQueue"
    <2>1. Facts(c)'
      BY <1>2, <1>3, <1>4 DEF Facts, UndoFacts, UserKind, LaterRegister, Registers, Resets
    <2> QED BY <1>1, <1>2, <2>1, OneLeft
  <1>5. CASE first # "deleteQueue"
    BY <1>1, <1>2, <1>3, <1>5, SentFresh DEF ResetCounters, UserKind
  <1> QED BY <1>4, <1>5

LEMMA AnswersStay ==
  ASSUME MaxInFlight = 1, "unexpected" \notin FaultKinds, \A r \in Request : Unmixed(r),
         Known, [Next]_vars
  PROVE  AnswerInv'
  <1>1. CASE Client
    BY <1>1, ArriveAnswers DEF Client, registerStreamingSubscription, UserKind,
       appendStreamingSubscription, deleteStreamingSubscription, resetPassword
  <1>2. CASE Broker
    BY <1>2, BrokerKeepsAnswers DEF Broker
  <1>3. CASE Service
    BY <1>3, CallbackAnswers, CallFields DEF Service, Known, KeyInv, TypeOK, BrokerTypeOK
  <1>4. CASE UNCHANGED vars
    <2>1. /\ calls' = calls /\ promise' = promise /\ queues' = queues /\ bindings' = bindings
          /\ readPerm' = readPerm /\ totalBindCount' = totalBindCount
          /\ totalBindSuccess' = totalBindSuccess
      BY <1>4 DEF vars, brokerVars, brokerState, serviceVars
    <2>2. (Short' <=> Short) /\ Cardinality(Alive)' = Cardinality(Alive)
      BY <2>1 DEF Short, Alive
    <2>3. AloneInService' /\ NothingUnexpected'
      BY <2>1 DEF Known, AnswerInv, AloneInService, NothingUnexpected, LaterRegister, Registers
    <2>4. ASSUME NEW c \in calls PROVE Facts(c)'
      <3>1. FreshFacts(c) => FreshFacts(c)'
        BY <2>1 DEF FreshFacts, QueueOf
      <3>2. BindFacts(c) => BindFacts(c)'
        BY <2>1 DEF BindFacts, Subscribes, Registers, QueueOf
      <3>3. TallyFacts(c) => TallyFacts(c)'
        BY <2>1, <2>2 DEF TallyFacts, Plain, Intact
      <3>4. GrantFacts(c) => GrantFacts(c)'
        BY <2>1 DEF GrantFacts, Subscribes, Resets, QueueOf, UserOf
      <3>5. UndoFacts(c) => UndoFacts(c)'
        BY <2>1 DEF UndoFacts, LaterRegister, Registers, Resets, QueueOf
      <3>6. RegisterFacts(c) => RegisterFacts(c)'
        BY <2>1 DEF RegisterFacts, QueueOf
      <3> QED BY <3>1, <3>2, <3>3, <3>4, <3>5, <3>6
              DEF Known, AnswerInv, Facts, LaterRegister, Registers
    <2> QED BY <2>1, <2>3, <2>4 DEF AnswerInv
  <1> QED BY <1>1, <1>2, <1>3, <1>4 DEF Next

LEMMA AnswerInvariant ==
  ASSUME MaxInFlight = 1, "unexpected" \notin FaultKinds, \A r \in Request : Unmixed(r)
  PROVE  Spec => [](AnswerInv /\ HeadInv /\ KeyInv)
  <1>1. Init => AnswerInv
    BY DEF Init, BrokerInit, AnswerInv, NothingUnexpected, AloneInService
  <1>2. AnswerInv /\ HeadInv /\ KeyInv /\ [Next]_vars => AnswerInv'
    BY AnswersStay DEF Known
  <1> QED BY <1>1, <1>2, HeadInvariant, KeyInvariant, PTL DEF Spec

(* Only a written permission answers a subscribing request with success.   *)
LEMMA SuccessIsWritten ==
  ASSUME NEW c, Callback(c), Subscribes(c.req), ~Unsettled, ~Settle(c.req, "fail")
  PROVE  c.kind = "putPermissions" /\ c.status = "ok"
  <1>1. ~UserCallback(c) /\ ~OnUserFound(c) /\ ~OnUserSaved(c)
    BY DEF UserCallback, OnUserPut, OnVhostPut, OnUserSelected, OnPasswordPut, OnUserUpdated,
       OnUserFound, OnUserSaved, Subscribes
  <1>2. ~OnQueueCreated(c) /\ ~OnQueueListed(c)
    BY DEF OnQueueCreated, OnQueueListed
  <1>3. ~OnBound(c) /\ ~OnRolledBack(c) /\ ~OnDeleted(c)
    BY DEF OnBound, OnRolledBack, OnDeleted, Subscribes
  <1>4. ~OnPermissionsRead(c)
    BY DEF OnPermissionsRead, PermissionFailed
  <1>5. OnPermissionsWritten(c)
    BY <1>1, <1>2, <1>3, <1>4 DEF Callback, QueueCallback
  <1> QED BY <1>5 DEF OnPermissionsWritten, PermissionFailed

(* A register or append that is answered with success leaves its user with *)
(* a queue that exists, is bound for every entity and may be read: the one *)
(* pair of counters tells it so when requests are handled one at a time,   *)
(* each with all or none of its exchanges there, whatever calls are lost.  *)
THEOREM SuccessesAreSubscribed ==
  ASSUME MaxInFlight = 1, "unexpected" \notin FaultKinds, \A r \in Request : Unmixed(r)
  PROVE  Spec => SuccessMeansSubscribed
  <1>1. AnswerInv /\ HeadInv /\ KeyInv /\ [Next]_vars =>
          \A r \in Request :
            promise[r] = "pending" /\ promise'[r] = "ok" /\ Subscribes(r) =>
              /\ request[r].queue \in queues'
              /\ \A e \in request[r].entities : <<request[r].queue, e>> \in bindings'
              /\ request[r].queue \in readPerm'[request[r].user]
    <2> SUFFICES ASSUME AnswerInv, HeadInv, KeyInv, [Next]_vars, NEW r \in Request,
                        promise[r] = "pending", promise'[r] = "ok", Subscribes(r)
                 PROVE  /\ request[r].queue \in queues'
                        /\ \A e \in request[r].entities : <<request[r].queue, e>> \in bindings'
                        /\ request[r].queue \in readPerm'[request[r].user]
      OBVIOUS
    <2>1. ASSUME NEW o \in Request, NEW first, Arrive(o, first) PROVE FALSE
      BY <2>1 DEF Arrive, KeyInv, TypeOK
    <2>2. ~Client /\ ~Broker /\ ~UNCHANGED vars
      BY <2>1 DEF Client, registerStreamingSubscription, appendStreamingSubscription,
         deleteStreamingSubscription, resetPassword, Broker, vars, serviceVars
    <2>3. PICK c \in calls : Callback(c)
      BY <2>2 DEF Next, Service
    <2>4. c.req = r /\ ~Unsettled /\ ~Settle(c.req, "fail")
      BY <2>3, CallbackSettles DEF Settle, Unsettled, KeyInv, TypeOK
    <2>5. c.kind = "putPermissions" /\ c.status = "ok"
      BY <2>3, <2>4, SuccessIsWritten
    <2>6. GrantFacts(c)
      BY <2>5 DEF AnswerInv, Facts
    <2>7. queues' = queues /\ bindings' = bindings /\ readPerm' = readPerm
      BY <2>3 DEF Callback, brokerState
    <2> QED BY <2>4, <2>5, <2>6, <2>7 DEF GrantFacts, QueueOf, UserOf
  <1> QED BY <1>1, AnswerInvariant, PTL DEF Spec, SuccessMeansSubscribed

-----------------------------------------------------------------------------
(* The contract.  While one request at a time has calls under way, a step  *)
(* moves that request only, and moves it as BrokerService may.             *)

(* How far the request under way is: with one call, with the calls of a    *)
(* register past createQueue, with the bindings of an append.              *)
OneCallShows ==
  \A c : calls = {c} /\ promise[c.req] = "pending" =>
    ProgressOf(c.req) = IF Failing(c) THEN "failing" ELSE IF Done(c) THEN "done" ELSE "asked"

RegisterShows ==
  \A r : /\ promise[r] = "pending" /\ calls # {}
         /\ \A c \in calls : c.req = r /\ LaterRegister(c)
    => ProgressOf(r) = IF request[r].queue \in queues THEN "done" ELSE "failing"

AppendShows ==
  \A r : /\ promise[r] = "pending" /\ calls # {}
         /\ request[r].op = "append" /\ request[r].queue \in queues
         /\ \A c \in calls : c.req = r /\ c.kind = "bind"
    => ProgressOf(r) = IF \E c \in calls : c.status \in {"notFound", "failed"}
                       THEN "failing" ELSE "done"

NothingShows ==
  \A r : /\ promise[r] # "pending" => ProgressOf(r) = promise[r]
         /\ promise[r] = "pending" /\ CallsOf(r) = {} => ProgressOf(r) = "hung"

Shows == OneCallShows /\ RegisterShows /\ AppendShows /\ NothingShows

LEMMA ProgressShows == Shows /\ Shows'
  <1>1. OneCallShows
    BY DEF OneCallShows, ProgressOf, CallsOf
  <1>2. RegisterShows
    <2> SUFFICES ASSUME NEW r, promise[r] = "pending", calls # {},
                        \A c \in calls : c.req = r /\ LaterRegister(c)
                 PROVE  ProgressOf(r) = IF request[r].queue \in queues THEN "done" ELSE "failing"
      BY DEF RegisterShows
    <2>1. \A c \in calls : Done(c) /\ (Failing(c) <=> request[r].queue \notin queues)
      BY DEF Done, Failing, Refused, LaterRegister, Registers, Subscribes, QueueOf
    <2>2. CallsOf(r) = calls
      BY DEF CallsOf
    <2> QED BY <2>1, <2>2 DEF ProgressOf
  <1>3. AppendShows
    <2> SUFFICES ASSUME NEW r, promise[r] = "pending", calls # {}, request[r].op = "append",
                        request[r].queue \in queues, \A c \in calls : c.req = r /\ c.kind = "bind"
                 PROVE  ProgressOf(r) = IF \E c \in calls : c.status \in {"notFound", "failed"}
                                        THEN "failing" ELSE "done"
      BY DEF AppendShows
    <2>1. \A c \in calls : Done(c) /\ (Failing(c) <=> c.status \in {"notFound", "failed"})
      BY DEF Done, Failing, Refused, Subscribes, QueueOf
    <2>2. CallsOf(r) = calls
      BY DEF CallsOf
    <2> QED BY <2>1, <2>2 DEF ProgressOf
  <1>4. NothingShows
    BY DEF NothingShows, ProgressOf
  <1>5. Shows
    BY <1>1, <1>2, <1>3, <1>4 DEF Shows
  <1> QED BY <1>5, PTL

(* Requests but r are where they were.                                     *)
Steady(r) == \A s \in Subscription \ {r} : ProgressOf(s)' = ProgressOf(s)

Moved(r, from, to) ==
  ProgressOf(r) = from /\ ProgressOf(r)' = to

Kept == [Contract!JobNext]_(Contract!jobVars)

LEMMA MovesAreSteps ==
  ASSUME MaxFaults > 0, NEW r \in Subscription, Steady(r), NEW from, NEW to, Moved(r, from, to)
  PROVE  /\ queues' = queues /\ from = to => Kept
         /\ queues' = queues /\ from = "none" /\ to = "asked" => Kept
         /\ queues' = queues /\ from \in {"asked", "done", "failing"} /\ to = "hung" => Kept
         /\ queues' = queues /\ from = "done" /\ to = "ok" => Kept
         /\ queues' = queues /\ from = "failing" /\ to = "fail" => Kept
         /\ from = "asked" /\ to = "done" /\ Contract!Effect(r) => Kept
         /\ from = "asked" /\ to = "failing" /\ (Contract!Effect(r) \/ queues' = queues) => Kept
         /\ /\ from = "done" /\ to = "failing" /\ request[r].op \in {"register", "append"}
            /\ queues' \in {queues, queues \ {request[r].queue}}
            => Kept
  <1>1. Contract!Goto(r, from, to)
    <2> DEFINE after == [s \in Subscription |-> IF s = r THEN to ELSE ProgressOf(s)]
    <2>1. [s \in Subscription |-> ProgressOf(s)]' = after
      BY DEF Moved, Steady
    <2>2. after = [[s \in Subscription |-> ProgressOf(s)] EXCEPT ![r] = to]
      OBVIOUS
    <2>3. [s \in Subscription |-> ProgressOf(s)][r] = from
      BY DEF Moved
    <2> HIDE DEF after
    <2> QED BY <2>1, <2>2, <2>3 DEF Contract!Goto
  <1>2. queues' = queues /\ from = to => UNCHANGED Contract!jobVars
    BY DEF Contract!jobVars, Moved, Steady
  <1>3. \/ Contract!Ask(r) \/ Contract!Perform(r) \/ Contract!Undo(r)
        \/ Contract!Reply(r) \/ Contract!Lose(r) \/ UNCHANGED Contract!jobVars
        => Kept
    BY DEF Kept, Contract!JobNext, Contract!JobStep
  <1>4. Contract!Busy = {s \in Subscription : ProgressOf(s) \in {"asked", "done", "failing"}}
    BY DEF Contract!Busy
  <1>5. queues' = queues /\ from \in {"asked", "done", "failing"} /\ to = "hung" => Kept
    BY <1>1, <1>3, <1>4 DEF Contract!Lose, Moved
  <1>6. queues' = queues /\ from = "done" /\ to = "ok" => Kept
    BY <1>1, <1>3 DEF Contract!Reply
  <1>7. queues' = queues /\ from = "failing" /\ to = "fail" => Kept
    BY <1>1, <1>3 DEF Contract!Reply
  <1>8. from = "asked" /\ to = "done" /\ Contract!Effect(r) => Kept
    BY <1>1, <1>3 DEF Contract!Perform
  <1>9. from = "asked" /\ to = "failing" /\ (Contract!Effect(r) \/ queues' = queues) => Kept
    BY <1>1, <1>3 DEF Contract!Lose
  <1>10. /\ from = "done" /\ to = "failing" /\ request[r].op \in {"register", "append"}
         /\ queues' \in {queues, queues \ {request[r].queue}}
         => Kept
    BY <1>1, <1>3 DEF Contract!Lose, Contract!Undo
  <1>11. queues' = queues /\ from = "none" /\ to = "asked" => Kept
    BY <1>1, <1>3 DEF Contract!Ask
  <1> QED BY <1>2, <1>3, <1>5, <1>6, <1>7, <1>8, <1>9, <1>10, <1>11

LEMMA OthersSteady ==
  ASSUME NEW r, \A c \in calls : c.req = r, \A c \in calls' : c.req = r,
         \A s \in Request \ {r} : promise'[s] = promise[s]
  PROVE  Steady(r)
  <1> SUFFICES ASSUME NEW s \in Subscription \ {r} PROVE ProgressOf(s)' = ProgressOf(s)
    BY DEF Steady
  <1>1. s \in Request /\ s # r /\ CallsOf(s) = {} /\ CallsOf(s)' = {} /\ promise'[s] = promise[s]
    BY DEF Subscription, CallsOf
  <1>2. NothingShows /\ NothingShows'
    BY ProgressShows DEF Shows
  <1>3. ProgressOf(s) = IF promise[s] = "pending" THEN "hung" ELSE promise[s]
    BY <1>1, <1>2 DEF NothingShows
  <1>4. ProgressOf(s)' = IF promise'[s] = "pending" THEN "hung" ELSE promise'[s]
    BY <1>1, <1>2 DEF NothingShows
  <1> QED BY <1>1, <1>3, <1>4

LEMMA StillKept ==
  ASSUME NEW r, Steady(r), queues' = queues,
         r \in Subscription => ProgressOf(r)' = ProgressOf(r)
  PROVE  Kept
  <1>1. \A s \in Subscription : ProgressOf(s)' = ProgressOf(s)
    BY DEF Steady
  <1>2. [s \in Subscription |-> ProgressOf(s)]' = [s \in Subscription |-> ProgressOf(s)]
    BY <1>1
  <1> QED BY <1>2 DEF Kept, Contract!jobVars

(* A request that was answered: its calls do nothing to the queues.        *)
LEMMA SettledKept ==
  ASSUME NEW r, Steady(r), queues' = queues, promise[r] # "pending", promise'[r] = promise[r]
  PROVE  Kept
  <1>1. ProgressOf(r)' = ProgressOf(r)
    BY ProgressShows DEF Shows, NothingShows
  <1> QED BY <1>1, StillKept

(* The broker answers the only call.                                       *)
LEMMA AloneKept ==
  ASSUME MaxFaults > 0, Known, NEW c \in calls, c.status = "sent", calls = {c},
         NEW status \in Status \ {"sent", "unexpected"}, NEW d, AnsweredBy(c, d, status),
         Said(c, status), UNCHANGED serviceVars, Steady(c.req),
         c.req \in Subscription, promise[c.req] = "pending",
         c.kind # "bind", ~LaterRegister(c)
  PROVE  Kept
  <1>1. /\ c.req \in Request /\ QueueOf(c) = request[c.req].queue /\ KindsFit(c)
        /\ c.kind \in Kind
        /\ request[c.req].op \in {"register", "append", "delete"}
    BY CallFields, RequestFields DEF Known, KeyInv, TypeOK, BrokerTypeOK, QueueOf,
       Subscription, Operation, HeadInv
  <1>2. /\ calls' = {d} /\ d.req = c.req /\ d.kind = c.kind /\ d.status = status
        /\ QueueOf(d) = QueueOf(c) /\ promise'[d.req] = "pending"
    BY DEF AnsweredBy, QueueOf, serviceVars
  <1> DEFINE from == IF Failing(c) THEN "failing" ELSE IF Done(c) THEN "done" ELSE "asked"
             to == IF Failing(d)' THEN "failing" ELSE IF Done(d) THEN "done" ELSE "asked"
             q == request[c.req].queue
  <1>3. Moved(c.req, from, to)
    <2>1. ProgressOf(c.req) = from
      BY ProgressShows DEF Shows, OneCallShows
    <2>2. ProgressOf(d.req)' = IF Failing(d)' THEN "failing" ELSE IF Done(d)' THEN "done" ELSE "asked"
      BY <1>2, ProgressShows DEF Shows, OneCallShows
    <2>3. Done(d)' <=> Done(d)
      BY DEF Done, Subscribes
    <2> QED BY <1>2, <2>1, <2>2, <2>3 DEF Moved
  <1>4. CASE c.kind \in UserKind \cup {"getPermissions", "putPermissions"}
    <2>1. queues' = queues
      BY <1>4 DEF UserKind, Said, Execute, brokerState
    <2>2. ~Failing(c) /\ ~Failing(d)' /\ (Done(c) <=> Done(d))
      BY <1>2, <1>4 DEF UserKind, Failing, Refused, Done
    <2> QED BY <1>3, <2>1, <2>2, MovesAreSteps
  <1>5. CASE c.kind = "createQueue"
    <2>1. from = "asked"
      BY <1>5 DEF Failing, Refused, Done
    <2>2. Contract!Effect(c.req) \/ queues' = queues
      BY <1>1, <1>5 DEF Said, Execute, Contract!Effect, KindsFit, HeadKind, BeforeQueue, Registers,
         brokerState
    <2>3. CASE status = "ok"
      <3>1. to = "done"
        BY <1>2, <1>5, <2>3 DEF Failing, Refused, Done
      <3>2. Contract!Effect(c.req)
        BY <1>1, <1>5, <2>3 DEF Said, Execute, Verdict, Contract!Effect, KindsFit, HeadKind,
           BeforeQueue, Registers
      <3> HIDE DEF from, to
      <3> QED BY <1>3, <2>1, <3>1, <3>2, MovesAreSteps
    <2>4. CASE status # "ok"
      <3>1. status \in {"exists", "failed"}
        BY <1>5, <2>4 DEF Said, Verdict, Found
      <3>2. to = "failing"
        BY <1>2, <1>5, <3>1 DEF Failing, Refused
      <3> HIDE DEF from, to
      <3> QED BY <1>3, <2>1, <2>2, <3>2, MovesAreSteps
    <2> QED BY <2>3, <2>4
  <1>6. CASE c.kind = "listQueue"
    <2>1. from = "asked" /\ queues' = queues
      BY <1>6 DEF Failing, Refused, Done, Said, Execute, brokerState
    <2>2. to \in {"done", "failing"}
      BY <1>2, <1>6 DEF Failing, Refused, Done, Said, Verdict, Found
    <2>3. to = "done" => Contract!Effect(c.req)
      BY <1>1, <1>2, <1>6, <2>1
         DEF Failing, Refused, Done, Said, Verdict, Found, Contract!Effect, KindsFit, DbKind
    <2> HIDE DEF from, to
    <2> QED BY <1>3, <2>1, <2>2, <2>3, MovesAreSteps
  <1>7. CASE c.kind = "deleteQueue" /\ request[c.req].op = "delete"
    <2>1. from = "asked" /\ queues' \in {queues, queues \ {q}}
      BY <1>1, <1>7 DEF Failing, Refused, Done, Subscribes, Said, Execute, brokerState
    <2>2. to \in {"done", "failing"}
      BY <1>2, <1>7 DEF Failing, Refused, Done, Said, Verdict, Found
    <2>3. to = "done" => Contract!Effect(c.req)
      BY <1>1, <1>2, <1>7
         DEF Failing, Refused, Done, Said, Verdict, Found, Contract!Effect, DbKind, Subscribes, Execute
    <2>4. queues' = queues \/ Contract!Effect(c.req)
      BY <1>7, <2>1 DEF Contract!Effect
    <2> HIDE DEF from, to
    <2> QED BY <1>3, <2>1, <2>2, <2>3, <2>4, MovesAreSteps
  <1>8. CASE c.kind = "deleteQueue" /\ request[c.req].op = "append"
    <2>1. /\ from = IF q \in queues THEN "done" ELSE "failing"
          /\ to = IF q \in queues' THEN "done" ELSE "failing"
      BY <1>1, <1>2, <1>8 DEF Failing, Refused, Done, Subscribes
    <2>2. queues' \in {queues, queues \ {q}}
      BY <1>1, <1>8 DEF Said, Execute, brokerState
    <2> HIDE DEF from, to
    <2> QED BY <1>3, <1>8, <2>1, <2>2, MovesAreSteps
  <1> QED BY <1>1, <1>4, <1>5, <1>6, <1>7, <1>8 DEF LaterRegister, Registers, Kind, DbKind, UserKind

LEMMA BrokerKept ==
  ASSUME MaxFaults > 0, Known, AnswerInv', NEW c \in calls, c.status = "sent",
         NEW status \in Status \ {"sent", "unexpected"}, NEW d, AnsweredBy(c, d, status),
         Said(c, status), UNCHANGED serviceVars
  PROVE  Kept
  <1>1. /\ c.req \in Request /\ QueueOf(c) = request[c.req].queue /\ KindsFit(c) /\ Facts(c)
        /\ promise' = promise
    BY CallFields DEF Known, KeyInv, TypeOK, BrokerTypeOK, QueueOf, HeadInv, AnswerInv, serviceVars
  <1>2. /\ calls' = (calls \ {c}) \cup {d} /\ d.req = c.req /\ d.kind = c.kind /\ d.status = status
        /\ QueueOf(d) = QueueOf(c)
    BY DEF AnsweredBy, QueueOf
  <1>3. /\ \A e \in calls : e.req = c.req
        /\ \A e \in calls' : e.req = c.req
    BY <1>2 DEF Known, KeyInv, OneAtATime
  <1>4. Steady(c.req)
    BY <1>1, <1>3, OthersSteady
  <1>5. CASE promise[c.req] # "pending" \/ c.req \notin Subscription
    <2>1. queues' = queues
      <3>1. c.kind \notin {"createQueue", "deleteQueue"} => queues' = queues
        BY DEF Said, Execute, brokerState
      <3>2. c.kind # "createQueue"
        BY <1>1, <1>5 DEF Facts, FreshFacts, KindsFit, HeadKind, BeforeQueue, Registers, Subscription
      <3>3. c.kind = "deleteQueue" => QueueOf(c) \notin queues
        BY <1>1, <1>5 DEF Facts, UndoFacts, RegisterFacts, Resets, Subscription
      <3> QED BY <3>1, <3>2, <3>3 DEF Said, Execute, brokerState
    <2> QED BY <1>1, <1>4, <1>5, <2>1, SettledKept, StillKept
  <1>6. CASE /\ promise[c.req] = "pending" /\ c.req \in Subscription
             /\ c.kind # "bind" /\ ~LaterRegister(c)
    <2>1. calls = {c}
      BY <1>6 DEF Known, AnswerInv, AloneInService
    <2> QED BY <1>4, <1>6, <2>1, AloneKept
  <1>7. CASE promise[c.req] = "pending" /\ c.req \in Subscription /\ LaterRegister(c)
    <2> DEFINE q == request[c.req].queue
    <2>1. ASSUME NEW e \in calls PROVE LaterRegister(e)
      BY <1>3, <1>7 DEF Known, AnswerInv, AloneInService, LaterRegister, Registers
    <2>2. \A e \in calls' : LaterRegister(e)
      BY <1>2, <2>1 DEF LaterRegister, Registers
    <2>3. ProgressOf(c.req) = IF q \in queues THEN "done" ELSE "failing"
      BY <1>3, <1>7, <2>1, ProgressShows DEF Shows, RegisterShows
    <2>4. ProgressOf(c.req)' = IF q \in queues' THEN "done" ELSE "failing"
      BY <1>1, <1>2, <1>3, <1>7, <2>2, ProgressShows DEF Shows, RegisterShows, LaterRegister, Registers
    <2>5. queues' \in {queues, queues \ {q}} /\ request[c.req].op = "register"
      BY <1>1, <1>7 DEF Said, Execute, brokerState, LaterRegister, Registers
    <2> HIDE DEF q
    <2>6. \A from, to : Moved(c.req, from, to) <=> ProgressOf(c.req) = from /\ ProgressOf(c.req)' = to
      BY DEF Moved
    <2>7. CASE q \in queues /\ queues' # queues
      <3>1. Moved(c.req, "done", "failing")
        BY <2>3, <2>4, <2>5, <2>6, <2>7
      <3> QED BY <1>4, <1>7, <2>5, <3>1, MovesAreSteps DEF q
    <2>8. CASE q \notin queues \/ queues' = queues
      BY <1>4, <2>3, <2>4, <2>5, <2>8, StillKept
    <2> QED BY <2>7, <2>8
  <1>8. CASE /\ promise[c.req] = "pending" /\ c.req \in Subscription
             /\ c.kind = "bind" /\ ~LaterRegister(c)
    <2> DEFINE Bad(S) == \E e \in S : e.status \in {"notFound", "failed"}
    <2>1. request[c.req].op = "append" /\ request[c.req].queue \in queues /\ queues' = queues
      BY <1>1, <1>8 DEF Facts, BindFacts, Subscribes, Registers, LaterRegister, Said, Execute, brokerState
    <2>2. /\ \A e \in calls : e.kind = "bind"
          /\ \A e \in calls' : e.kind = "bind"
      BY <1>2, <1>3, <1>8 DEF Known, AnswerInv, AloneInService, LaterRegister, Registers
    <2>3. ProgressOf(c.req) = IF Bad(calls) THEN "failing" ELSE "done"
      BY <1>3, <1>8, <2>1, <2>2, ProgressShows DEF Shows, AppendShows
    <2>4. ProgressOf(c.req)' = IF Bad(calls') THEN "failing" ELSE "done"
      BY <1>1, <1>2, <1>3, <1>8, <2>1, <2>2, ProgressShows DEF Shows, AppendShows
    <2>5. Bad(calls) => Bad(calls')
      BY <1>2
    <2> HIDE DEF Bad
    <2>6. CASE Bad(calls') /\ ~Bad(calls)
      <3>1. Moved(c.req, "done", "failing")
        BY <2>3, <2>4, <2>6 DEF Moved
      <3> QED BY <1>4, <1>8, <2>1, <3>1, MovesAreSteps
    <2>7. CASE Bad(calls') <=> Bad(calls)
      BY <1>4, <2>1, <2>3, <2>4, <2>7, StillKept
    <2> QED BY <2>5, <2>6, <2>7
  <1> QED BY <1>5, <1>6, <1>7, <1>8

(* The callback of a call of a request that is not answered yet.           *)
Going(c) ==
  /\ MaxFaults > 0 /\ Known /\ AnswerInv'
  /\ c.status # "sent" /\ queues' = queues /\ Steady(c.req)
  /\ c.req \in Subscription /\ promise[c.req] = "pending"

LEMMA GoingFacts ==
  ASSUME NEW c \in calls, Going(c)
  PROVE  /\ c.req \in Request /\ c.req \in Subscription /\ QueueOf(c) = request[c.req].queue
         /\ KindsFit(c) /\ Facts(c) /\ ~Resets(c) /\ c.status \notin {"sent", "unexpected"}
         /\ request[c.req].op \in {"register", "append", "delete"}
         /\ \A e \in calls : e.req = c.req
         /\ c.kind = "bind" \/ LaterRegister(c) \/ calls = {c}
         /\ ProgressOf(c.req) \in {"asked", "done", "failing"}
         /\ TypeOK
  <1>1. /\ c.req \in Request /\ c.req \in Subscription /\ QueueOf(c) = request[c.req].queue
        /\ KindsFit(c) /\ Facts(c) /\ TypeOK /\ ~Resets(c) /\ c.status \notin {"sent", "unexpected"}
    BY CallFields DEF Going, Known, KeyInv, TypeOK, BrokerTypeOK, QueueOf, HeadInv, AnswerInv,
       NothingUnexpected, Subscription, Resets
  <1>2. request[c.req].op \in {"register", "append", "delete"}
    BY <1>1, RequestFields DEF Operation, Resets
  <1>3. \A e \in calls : e.req = c.req
    BY DEF Going, Known, KeyInv, OneAtATime
  <1>4. c.kind = "bind" \/ LaterRegister(c) \/ calls = {c}
    BY DEF Going, Known, AnswerInv, AloneInService
  <1>5. CallsOf(c.req) # {} /\ promise[c.req] = "pending"
    BY DEF CallsOf, Going
  <1>6. ProgressOf(c.req) \in {"asked", "done", "failing"}
    BY <1>5 DEF ProgressOf
  <1> QED BY <1>1, <1>2, <1>3, <1>4, <1>6

(* Nothing is left under way: the request hangs.                           *)
LEMMA HungKept ==
  ASSUME NEW c \in calls, Going(c), calls' = {}, promise' = promise
  PROVE  Kept
  <1>1. ProgressOf(c.req)' = "hung"
    BY ProgressShows DEF Shows, NothingShows, Going, CallsOf
  <1>2. ProgressOf(c.req) \in {"asked", "done", "failing"} /\ c.req \in Subscription
    BY GoingFacts
  <1>3. Moved(c.req, ProgressOf(c.req), "hung")
    BY <1>1 DEF Moved
  <1> QED BY <1>2, <1>3, MovesAreSteps DEF Going

(* The request is answered.                                                *)
LEMMA AnswerKept ==
  ASSUME NEW c \in calls, Going(c), NEW outcome \in {"ok", "fail"}, Settle(c.req, outcome),
         ProgressOf(c.req) = IF outcome = "ok" THEN "done" ELSE "failing"
  PROVE  Kept
  <1>1. promise'[c.req] = outcome
    BY GoingFacts DEF Going, Settle, TypeOK
  <1>2. ProgressOf(c.req)' = outcome
    BY <1>1, ProgressShows DEF Shows, NothingShows
  <1>3. Moved(c.req, ProgressOf(c.req), outcome) /\ c.req \in Subscription
    BY <1>2, GoingFacts DEF Moved
  <1>4. CASE outcome = "ok"
    BY <1>3, <1>4, MovesAreSteps DEF Going
  <1>5. CASE outcome = "fail"
    BY <1>3, <1>5, MovesAreSteps DEF Going
  <1> QED BY <1>4, <1>5

(* The request goes on, and is as far as it was.                           *)
LEMMA OnwardKept ==
  ASSUME NEW c \in calls, Going(c), ProgressOf(c.req)' = ProgressOf(c.req)
  PROVE  Kept
  BY StillKept DEF Going

(* The only call of a request.                                             *)
LEMMA OnlyShows ==
  ASSUME NEW c \in calls, Going(c), calls = {c}
  PROVE  ProgressOf(c.req) = IF Failing(c) THEN "failing" ELSE IF Done(c) THEN "done" ELSE "asked"
  BY ProgressShows DEF Shows, OneCallShows, Going

LEMMA NextShows ==
  ASSUME NEW c \in calls, Going(c), promise' = promise, NEW d, calls' = {d}, d.req = c.req,
         d.status = "sent"
  PROVE  /\ d.kind \in UserKind \cup {"createQueue"} => ProgressOf(c.req)' = "asked"
         /\ d.kind \in {"getPermissions", "putPermissions"} => ProgressOf(c.req)' = "done"
         /\ d.kind = "deleteQueue" /\ Subscribes(c.req) /\ QueueOf(c) \in queues =>
              ProgressOf(c.req)' = "done"
  <1>1. promise'[d.req] = "pending" /\ queues' = queues
    BY DEF Going
  <1>2. ProgressOf(d.req)' = IF Failing(d)' THEN "failing" ELSE IF Done(d)' THEN "done" ELSE "asked"
    BY <1>1, ProgressShows DEF Shows, OneCallShows
  <1>3. QueueOf(d)' = QueueOf(c)
    BY DEF QueueOf
  <1> QED BY <1>1, <1>2, <1>3 DEF Failing, Refused, Done, UserKind, Subscribes

LEMMA UserKept ==
  ASSUME NEW c \in calls, Going(c), UserCallback(c) \/ OnUserFound(c) \/ OnUserSaved(c)
  PROVE  Kept
  <1>1. /\ KindsFit(c) /\ ~Resets(c) /\ c.status # "sent"
    BY GoingFacts
  <1>2. /\ promise' = promise
        /\ Return(c, {}) \/ \E kind \in UserKind \cup {"createQueue"} : Then(c, kind)
        /\ c.kind \in UserKind
    <2>1. CASE UserCallback(c)
      BY <1>1, <2>1 DEF UserCallback, OnUserPut, OnVhostPut, OnUserSelected, OnPasswordPut,
         OnUserUpdated, KindsFit, Resets, Unsettled, UserKind
    <2>2. CASE OnUserFound(c) \/ OnUserSaved(c)
      BY <2>2 DEF OnUserFound, OnUserSaved, Unsettled, UserKind
    <2> QED BY <2>1, <2>2
  <1>3. calls = {c}
    BY <1>2, GoingFacts DEF UserKind, LaterRegister
  <1>4. ProgressOf(c.req) = "asked"
    BY <1>2, <1>3, OnlyShows DEF Failing, Done, UserKind
  <1>5. CASE Return(c, {})
    BY <1>2, <1>3, <1>5, HungKept DEF Return
  <1>6. ASSUME NEW kind \in UserKind \cup {"createQueue"}, Then(c, kind) PROVE Kept
    <2> DEFINE d == NewCall(c.req, kind, None)
    <2>1. calls' = {d}
      BY <1>3, <1>6 DEF Then, Return
    <2>2. d.req = c.req /\ d.kind = kind /\ d.status = "sent"
      BY DEF NewCall
    <2> HIDE DEF d
    <2>3. ProgressOf(c.req)' = "asked"
      BY <1>2, <2>1, <2>2, NextShows
    <2> QED BY <1>4, <2>3, OnwardKept
  <1> QED BY <1>2, <1>5, <1>6

(* The calls of a register that are left after createQueue.                *)
LEMMA RegisterOnward ==
  ASSUME NEW c \in calls, Going(c), promise' = promise, Registers(c),
         \A e \in calls' : e.req = c.req /\ LaterRegister(e),
         ProgressOf(c.req) = IF QueueOf(c) \in queues THEN "done" ELSE "failing"
  PROVE  Kept
  <1>1. CASE calls' = {}
    BY <1>1, HungKept
  <1>2. CASE calls' # {}
    <2>1. /\ promise'[c.req] = "pending" /\ queues' = queues
          /\ \A e \in calls' : e.req = c.req /\ LaterRegister(e)'
      BY DEF Going, LaterRegister, Registers
    <2>2. ProgressOf(c.req)' = IF request[c.req].queue \in queues' THEN "done" ELSE "failing"
      BY <1>2, <2>1, ProgressShows DEF Shows, RegisterShows
    <2> QED BY <2>1, <2>2, OnwardKept DEF QueueOf
  <1> QED BY <1>1, <1>2

(* The bindings of an append that are left.                                *)
LEMMA AppendOnward ==
  ASSUME NEW c \in calls, Going(c), promise' = promise, request[c.req].op = "append",
         QueueOf(c) \in queues, \A e \in calls' : e.req = c.req /\ e.kind = "bind",
         ProgressOf(c.req) = IF \E e \in calls' : e.status \in {"notFound", "failed"}
                             THEN "failing" ELSE "done"
  PROVE  Kept
  <1>1. CASE calls' = {}
    BY <1>1, HungKept
  <1>2. CASE calls' # {}
    <2>1. promise'[c.req] = "pending" /\ queues' = queues /\ request[c.req].queue \in queues'
      BY DEF Going, QueueOf
    <2>2. ProgressOf(c.req)' = IF \E e \in calls' : e.status \in {"notFound", "failed"}
                               THEN "failing" ELSE "done"
      BY <1>2, <2>1, ProgressShows DEF Shows, AppendShows
    <2> QED BY <2>2, OnwardKept
  <1> QED BY <1>1, <1>2

LEMMA CreatedKept ==
  ASSUME NEW c \in calls, Going(c), OnQueueCreated(c)
  PROVE  Kept
  <1>1. /\ Registers(c) /\ calls = {c} /\ Facts(c) /\ c.status \notin {"sent", "unexpected"}
        /\ c.kind = "createQueue"
    BY GoingFacts DEF OnQueueCreated, KindsFit, HeadKind, LaterRegister
  <1>2. ProgressOf(c.req) = IF c.status = "ok" THEN "done" ELSE "failing"
    BY <1>1, OnlyShows DEF Failing, Refused, Done
  <1>3. CASE c.status = "ok"
    <2> DEFINE U == {Rollback(c.req, e) : e \in request[c.req].entities \cap {Blank}}
    <2>1. calls' = BindAll(c.req) \cup U /\ promise' = promise
      BY <1>1, <1>3 DEF OnQueueCreated, Return, Unsettled
    <2>2. \A e \in BindAll(c.req) \cup U : e.req = c.req /\ e.kind \in {"bind", "deleteQueue"}
      BY DEF BindAll, Rollback, NewCall
    <2> HIDE DEF U
    <2>3. \A e \in calls' : e.req = c.req /\ LaterRegister(e)
      BY <1>1, <2>1, <2>2 DEF LaterRegister, Registers
    <2>4. QueueOf(c) \in queues
      BY <1>1, <1>3 DEF Facts, FreshFacts
    <2> QED BY <1>1, <1>2, <1>3, <2>1, <2>3, <2>4, RegisterOnward
  <1>4. CASE c.status # "ok"
    BY <1>1, <1>2, <1>4, AnswerKept DEF OnQueueCreated
  <1> QED BY <1>3, <1>4

LEMMA ListedKept ==
  ASSUME NEW c \in calls, Going(c), OnQueueListed(c)
  PROVE  Kept
  <1>1. /\ request[c.req].op = "append" /\ calls = {c} /\ Facts(c)
        /\ c.status \notin {"sent", "unexpected"} /\ c.kind = "listQueue"
    BY GoingFacts DEF OnQueueListed, KindsFit, LaterRegister
  <1>2. ProgressOf(c.req) = IF c.status = "ok" /\ Blank \notin request[c.req].entities
                            THEN "done" ELSE "failing"
    BY <1>1, OnlyShows DEF Failing, Refused, Done
  <1>3. CASE c.status = "ok" /\ Blank \notin request[c.req].entities
    <2>1. calls' = BindAll(c.req) /\ promise' = promise
      BY <1>1, <1>3 DEF OnQueueListed, Return, Unsettled
    <2>2. \A e \in BindAll(c.req) : e.req = c.req /\ e.kind = "bind" /\ e.status = "sent"
      BY DEF BindAll, NewCall
    <2>3. QueueOf(c) \in queues
      BY <1>1, <1>3 DEF Facts, FreshFacts
    <2> QED BY <1>1, <1>2, <1>3, <2>1, <2>2, <2>3, AppendOnward
  <1>4. CASE ~(c.status = "ok" /\ Blank \notin request[c.req].entities)
    <2>1. Settle(c.req, "fail")
      BY <1>1, <1>4 DEF OnQueueListed
    <2> QED BY <1>2, <1>4, <2>1, AnswerKept
  <1> QED BY <1>3, <1>4

(* The last binding: the permission is read next.                          *)
LEMMA LastBound ==
  ASSUME NEW c \in calls, Going(c), c.kind = "bind", promise' = promise,
         NEW d, d \notin calls, Return(c, {d}), d.req = c.req, d.kind = "getPermissions",
         d.status = "sent"
  PROVE  /\ calls = {c} /\ QueueOf(c) \in queues
         /\ ProgressOf(c.req)' = "done"
  <1>1. Facts(c) /\ BindFacts(c) /\ calls' = (calls \ {c}) \cup {d}
    BY GoingFacts DEF Return, Facts
  <1>2. calls' = {d} /\ Facts(d)'
    BY <1>1 DEF Going, AnswerInv, AloneInService, LaterRegister
  <1>3. calls = {c}
    BY <1>1, <1>2
  <1>4. QueueOf(c) \in queues
    BY <1>1, <1>2 DEF Facts, GrantFacts, BindFacts, Subscribes, QueueOf, Going
  <1>5. ProgressOf(c.req)' = "done"
    BY <1>2, NextShows
  <1> QED BY <1>3, <1>4, <1>5

LEMMA BoundKept ==
  ASSUME NEW c \in calls, Going(c), OnBound(c)
  PROVE  Kept
  <1>1. /\ c.kind = "bind" /\ Facts(c) /\ BindFacts(c) /\ QueueOf(c) = request[c.req].queue
        /\ c.status \notin {"sent", "unexpected"} /\ promise[c.req] = "pending"
        /\ \A e \in calls : e.req = c.req
        /\ \A e \in calls : e # c => e.kind = "bind" \/ LaterRegister(e)
    BY GoingFacts DEF OnBound, Facts, Going, Known, AnswerInv, AloneInService
  <1> DEFINE g == NewCall(c.req, "getPermissions", c.key)
             b == Rollback(c.req, c.key)
  <1>2. /\ g.req = c.req /\ g.kind = "getPermissions" /\ g.status = "sent"
        /\ b.req = c.req /\ b.kind = "deleteQueue"
    BY DEF NewCall, Rollback
  <1>3. CASE Registers(c)
    <2>1. \A e \in calls : LaterRegister(e)
      BY <1>1, <1>3 DEF LaterRegister, Registers
    <2>2. ProgressOf(c.req) = IF QueueOf(c) \in queues THEN "done" ELSE "failing"
      BY <1>1, <2>1, ProgressShows DEF Shows, RegisterShows
    <2>3. promise' = promise /\ (Return(c, {b}) \/ Return(c, {}) \/ Return(c, {g}))
      BY <1>3 DEF OnBound, Registers, Unsettled
    <2>4. LaterRegister(b)
      BY <1>2, <1>3 DEF LaterRegister, Registers
    <2> HIDE DEF g, b
    <2>5. CASE Return(c, {b}) \/ Return(c, {})
      <3>1. \A e \in calls' : e.req = c.req /\ LaterRegister(e)
        BY <1>1, <1>2, <2>1, <2>4, <2>5 DEF Return
      <3> QED BY <1>3, <2>2, <2>3, <3>1, RegisterOnward
    <2>6. CASE Return(c, {g})
      <3>1. g \notin calls
        BY <1>2, <2>1 DEF LaterRegister
      <3>2. QueueOf(c) \in queues /\ ProgressOf(c.req)' = "done"
        BY <1>1, <1>2, <2>3, <2>6, <3>1, LastBound
      <3> QED BY <2>2, <3>2, OnwardKept
    <2> QED BY <2>3, <2>5, <2>6
  <1>4. CASE ~Registers(c)
    <2> DEFINE Bad(S) == \E e \in S : e.status \in {"notFound", "failed"}
    <2>1. request[c.req].op = "append" /\ QueueOf(c) \in queues
      BY <1>1, <1>4 DEF BindFacts, Subscribes, Registers
    <2>2. \A e \in calls : e.kind = "bind"
      BY <1>1, <1>4 DEF LaterRegister, Registers
    <2>3. ProgressOf(c.req) = IF Bad(calls) THEN "failing" ELSE "done"
      BY <1>1, <2>1, <2>2, ProgressShows DEF Shows, AppendShows
    <2>4. CASE c.status \in {"notFound", "failed"}
      <3>1. Settle(c.req, "fail") /\ ProgressOf(c.req) = "failing"
        BY <2>1, <2>3, <2>4 DEF OnBound
      <3> QED BY <3>1, AnswerKept
    <2>5. CASE c.status \notin {"notFound", "failed"}
      <3>1. promise' = promise /\ (Return(c, {}) \/ Return(c, {g}))
        BY <2>1, <2>5 DEF OnBound, Unsettled
      <3> HIDE DEF g, b
      <3>2. CASE Return(c, {})
        <4>1. calls' = calls \ {c} /\ \A e \in calls' : e.req = c.req /\ e.kind = "bind"
          BY <1>1, <2>2, <3>2 DEF Return
        <4>2. Bad(calls) <=> Bad(calls')
          BY <2>5, <4>1
        <4> QED BY <2>1, <2>3, <3>1, <4>1, <4>2, AppendOnward
      <3>3. CASE Return(c, {g})
        <4>1. g \notin calls
          BY <1>2, <2>2
        <4>2. calls = {c} /\ ProgressOf(c.req)' = "done"
          BY <1>1, <1>2, <3>1, <3>3, <4>1, LastBound
        <4>3. ProgressOf(c.req) = "done"
          BY <2>3, <2>5, <4>2
        <4> QED BY <4>2, <4>3, OnwardKept
      <3> QED BY <3>1, <3>2, <3>3
    <2> QED BY <2>4, <2>5
  <1> QED BY <1>3, <1>4

LEMMA RolledBackKept ==
  ASSUME NEW c \in calls, Going(c), OnRolledBack(c)
  PROVE  Kept
  <1>1. /\ c.kind = "deleteQueue" /\ Facts(c) /\ UndoFacts(c) /\ QueueOf(c) = request[c.req].queue
        /\ c.status \notin {"sent", "unexpected"} /\ promise[c.req] = "pending"
        /\ request[c.req].op \in {"register", "append"}
        /\ \A e \in calls : e.req = c.req
        /\ LaterRegister(c) \/ calls = {c}
        /\ calls' = calls \ {c}
    BY GoingFacts DEF OnRolledBack, Facts, Going, Return
  <1>2. c.status # "failed" => QueueOf(c) \notin queues
    BY <1>1 DEF UndoFacts
  <1>3. CASE Registers(c)
    <2>1. \A e \in calls : LaterRegister(e)
      BY <1>1, <1>3 DEF LaterRegister, Registers, Going, Known, AnswerInv, AloneInService
    <2>2. ProgressOf(c.req) = IF QueueOf(c) \in queues THEN "done" ELSE "failing"
      BY <1>1, <2>1, ProgressShows DEF Shows, RegisterShows
    <2>3. CASE c.status = "failed"
      <3>1. promise' = promise
        BY <2>3 DEF OnRolledBack, Unsettled
      <3> QED BY <1>1, <1>3, <2>1, <2>2, <3>1, RegisterOnward
    <2>4. CASE c.status # "failed"
      BY <1>2, <2>2, <2>4, AnswerKept DEF OnRolledBack
    <2> QED BY <2>3, <2>4
  <1>4. CASE ~Registers(c)
    <2>1. calls = {c}
      BY <1>1, <1>4 DEF LaterRegister
    <2>2. CASE c.status = "failed"
      BY <1>1, <2>1, <2>2, HungKept DEF OnRolledBack, Unsettled
    <2>3. CASE c.status # "failed"
      <3>1. ProgressOf(c.req) = "failing"
        BY <1>1, <1>2, <2>1, <2>3, OnlyShows DEF Failing, Subscribes
      <3> QED BY <2>3, <3>1, AnswerKept DEF OnRolledBack
    <2> QED BY <2>2, <2>3
  <1> QED BY <1>3, <1>4

LEMMA DeletedKept ==
  ASSUME NEW c \in calls, Going(c), OnDeleted(c)
  PROVE  Kept
  <1>1. /\ c.kind = "deleteQueue" /\ request[c.req].op = "delete" /\ calls = {c}
        /\ c.status \notin {"sent", "unexpected"}
    BY GoingFacts DEF OnDeleted, LaterRegister, Registers
  <1>2. ProgressOf(c.req) = IF c.status = "ok" THEN "done" ELSE "failing"
    BY <1>1, OnlyShows DEF Failing, Refused, Done, Subscribes
  <1>3. CASE c.status = "ok"
    BY <1>2, <1>3, AnswerKept DEF OnDeleted
  <1>4. CASE c.status # "ok"
    BY <1>1, <1>2, <1>4, AnswerKept DEF OnDeleted
  <1> QED BY <1>3, <1>4

LEMMA PermissionsKept ==
  ASSUME NEW c \in calls, Going(c), OnPermissionsRead(c) \/ OnPermissionsWritten(c)
  PROVE  Kept
  <1>1. /\ c.kind \in {"getPermissions", "putPermissions"} /\ calls = {c}
        /\ Facts(c) /\ GrantFacts(c) /\ request[c.req].op \in {"register", "append", "delete"}
    BY GoingFacts DEF OnPermissionsRead, OnPermissionsWritten, LaterRegister, Facts
  <1>2. ProgressOf(c.req) = "done"
    BY <1>1, OnlyShows DEF Failing, Done
  <1>3. Return(c, {}) /\ promise' = promise => Kept
    BY <1>1, HungKept DEF Return
  <1>4. CASE PermissionFailed(c)
    <2> DEFINE b == Rollback(c.req, c.key)
    <2>1. promise' = promise /\ (Return(c, {}) \/ (Return(c, {b}) /\ request[c.req].op # "delete"))
      BY <1>4 DEF PermissionFailed, Unsettled
    <2>2. b.req = c.req /\ b.kind = "deleteQueue" /\ b.status = "sent"
      BY DEF Rollback, NewCall
    <2> HIDE DEF b
    <2>3. CASE Return(c, {b}) /\ request[c.req].op # "delete"
      <3>1. Subscribes(c.req) /\ QueueOf(c) \in queues /\ calls' = {b}
        BY <1>1, <2>3 DEF Subscribes, GrantFacts, Return
      <3>2. ProgressOf(c.req)' = "done"
        BY <2>1, <2>2, <3>1, NextShows
      <3> QED BY <1>2, <3>2, OnwardKept
    <2> QED BY <1>3, <2>1, <2>3
  <1>5. CASE OnPermissionsRead(c) /\ ~PermissionFailed(c)
    <2> DEFINE d == [NewCall(c.req, "putPermissions", c.key)
                       EXCEPT !.view = getUpdatedPermission(c)]
    <2>1. promise' = promise /\ (Return(c, {}) \/ Return(c, {d}))
      BY <1>5 DEF OnPermissionsRead, Unsettled
    <2>2. d.req = c.req /\ d.kind = "putPermissions" /\ d.status = "sent"
      BY DEF NewCall
    <2> HIDE DEF d
    <2>3. CASE Return(c, {d})
      <3>1. calls' = {d}
        BY <1>1, <2>3 DEF Return
      <3>2. ProgressOf(c.req)' = "done"
        BY <2>1, <2>2, <3>1, NextShows
      <3> QED BY <1>2, <3>2, OnwardKept
    <2> QED BY <1>3, <2>1, <2>3
  <1>6. CASE OnPermissionsWritten(c) /\ ~PermissionFailed(c)
    <2>1. \/ Settle(c.req, "ok")
          \/ Return(c, {}) /\ promise' = promise
      BY <1>6 DEF OnPermissionsWritten, Unsettled
    <2>2. Settle(c.req, "ok") => Kept
      BY <1>2, AnswerKept
    <2> QED BY <1>3, <2>1, <2>2
  <1> QED BY <1>4, <1>5, <1>6

LEMMA CallbackKept ==
  ASSUME MaxFaults > 0, Known, AnswerInv', NEW c \in calls, Callback(c)
  PROVE  Kept
  <1>1. TypeOK /\ c.req \in Request /\ queues' = queues /\ c.status # "sent"
    BY CallFields DEF Known, KeyInv, TypeOK, BrokerTypeOK, Callback, brokerState
  <1>2. /\ \A e \in calls : e.req = c.req
        /\ \A e \in calls' : e.req = c.req
    <2>1. PICK S : Return(c, S) /\ \A d \in S : d.req = c.req
      BY HeadSends DEF Known
    <2> QED BY <2>1 DEF Return, Known, KeyInv, OneAtATime
  <1>3. (\E o \in {"ok", "fail"} : Settle(c.req, o)) \/ Unsettled
    BY <1>1, CallbackSettles
  <1>4. Steady(c.req)
    <2>1. \A s \in Request \ {c.req} : promise'[s] = promise[s]
      BY <1>1, <1>3 DEF Settle, Unsettled, TypeOK
    <2> QED BY <1>2, <2>1, OthersSteady
  <1>5. CASE promise[c.req] # "pending"
    BY <1>1, <1>3, <1>4, <1>5, SettledKept DEF Settle, Unsettled
  <1>6. CASE c.req \notin Subscription
    BY <1>1, <1>4, <1>6, StillKept
  <1>7. CASE promise[c.req] = "pending" /\ c.req \in Subscription
    <2>1. Going(c)
      BY <1>1, <1>4, <1>7 DEF Going
    <2> QED BY <2>1, UserKept, CreatedKept, ListedKept, BoundKept, RolledBackKept, DeletedKept,
               PermissionsKept DEF Callback, QueueCallback
  <1> QED BY <1>5, <1>6, <1>7

LEMMA ArriveKept ==
  ASSUME MaxInFlight = 1, MaxFaults > 0, Known, NEW r \in Request, NEW first, Arrive(r, first),
         first \in UserKind \cup {"listQueue", "deleteQueue"},
         first = "deleteQueue" => request[r].op = "delete"
  PROVE  Kept
  <1> DEFINE c == NewCall(r, first, None)
  <1>1. calls = {} /\ calls' = {c} /\ queues' = queues
    BY ArriveAlone DEF Known, KeyInv, Arrive, brokerState
  <1>2. c.req = r /\ c.kind = first /\ c.status = "sent"
    BY DEF NewCall
  <1> HIDE DEF c
  <1>3. promise[r] = "none" /\ promise'[r] = "pending"
        /\ \A s \in Request \ {r} : promise'[s] = promise[s]
    BY DEF Arrive, Known, KeyInv, TypeOK
  <1>4. Steady(r)
    BY <1>1, <1>2, <1>3, OthersSteady
  <1>5. ProgressOf(r) = "none"
    BY <1>3, ProgressShows DEF Shows, NothingShows
  <1>6. ProgressOf(c.req)' = IF Failing(c)' THEN "failing" ELSE IF Done(c)' THEN "done" ELSE "asked"
    BY <1>1, <1>2, <1>3, ProgressShows DEF Shows, OneCallShows
  <1>7. ~Failing(c)' /\ ~Done(c)'
    BY <1>2 DEF Failing, Refused, Done, Subscribes, UserKind
  <1>8. Moved(r, "none", "asked")
    BY <1>2, <1>5, <1>6, <1>7 DEF Moved
  <1>9. CASE r \in Subscription
    BY <1>1, <1>4, <1>8, <1>9, MovesAreSteps
  <1>10. CASE r \notin Subscription
    BY <1>1, <1>4, <1>10, StillKept
  <1> QED BY <1>9, <1>10

LEMMA StepsAreKept ==
  ASSUME MaxInFlight = 1, MaxFaults > 0, "unexpected" \notin FaultKinds,
         Known, AnswerInv', [Next]_vars
  PROVE  Kept
  <1>1. CASE Client
    BY <1>1, ArriveKept DEF Client, registerStreamingSubscription, UserKind,
       appendStreamingSubscription, deleteStreamingSubscription, resetPassword
  <1>2. ASSUME NEW c \in calls, Serve(c) \/ Fault(c), UNCHANGED serviceVars PROVE Kept
    <2>1. PICK status \in Status \ {"sent", "unexpected"} :
             \E d : AnsweredBy(c, d, status) /\ Said(c, status) /\ c.status = "sent"
      BY <1>2, BrokerSays DEF Known, KeyInv
    <2> QED BY <1>2, <2>1, BrokerKept
  <1>3. CASE Service
    BY <1>3, CallbackKept DEF Service
  <1>4. CASE UNCHANGED vars
    <2>1. calls' = calls /\ promise' = promise /\ queues' = queues
      BY <1>4 DEF vars, brokerVars, brokerState, serviceVars
    <2>2. ASSUME NEW s \in Subscription PROVE ProgressOf(s)' = ProgressOf(s)
      BY <2>1 DEF ProgressOf, CallsOf, Failing, Refused, Done, Subscribes, QueueOf
    <2>3. [s \in Subscription |-> ProgressOf(s)]' = [s \in Subscription |-> ProgressOf(s)]
      BY <2>2
    <2> QED BY <2>1, <2>3 DEF Kept, Contract!jobVars
  <1> QED BY <1>1, <1>2, <1>3, <1>4 DEF Next, Broker

(* Seen from its callers, register, append and delete of RabbitMQ queues   *)
(* keep to BrokerService, whatever calls are lost, when requests are       *)
(* handled one at a time, each with all or none of its exchanges there:    *)
(* the chains of callbacks never make, keep or take down a queue in a way  *)
(* that the answer does not account for.                                   *)
THEOREM ImplementsContract ==
  ASSUME MaxInFlight = 1, MaxFaults > 0, "unexpected" \notin FaultKinds,
         \A r \in Request : Unmixed(r)
  PROVE  Spec => Implements
  <1>1. Init => Contract!JobInit
    <2> SUFFICES ASSUME Init PROVE Contract!JobInit
      OBVIOUS
    <2>1. queues = {} /\ \A s \in Request : promise[s] = "none"
      BY DEF Init, BrokerInit
    <2>2. \A s \in Subscription : ProgressOf(s) = "none"
      BY <2>1, ProgressShows DEF Shows, NothingShows, Subscription
    <2> QED BY <2>1, <2>2 DEF Contract!JobInit
  <1>2. AnswerInv /\ HeadInv /\ KeyInv /\ AnswerInv' /\ [Next]_vars =>
          [Contract!JobNext]_(Contract!jobVars)
    BY StepsAreKept DEF Kept, Known
  <1> QED BY <1>1, <1>2, AnswerInvariant, PTL DEF Spec, Implements, Contract!JobSpec
-----------------------------------------------------------------------------
(* Permissions.  Nothing is refused and nobody's password is reset; each   *)
(* queue has one user, who asks for at least one entity.                   *)

Matched(r) == request[r].queue \in queues <=> request[r].queue \in readPerm[request[r].user]

Readable(c) == QueueOf(c) \in readPerm[UserOf(c)]

(* The user of c was created for it, and has no queue yet.                 *)
NewHere(c) ==
  \A r \in Request : request[r].user = UserOf(c) => request[r].queue \notin queues

(* Before the request of c changes anything.                               *)
Before(c) ==
  \/ c.kind \in UserKind \cup {"listQueue"}
  \/ c.kind = "createQueue" /\ c.status # "ok"
  \/ c.kind = "deleteQueue" /\ ~Registers(c) /\ c.status # "ok"

(* The binding of a register, or its rollback: the queue is not granted    *)
(* yet, and it goes unless the count is going to be reached.               *)
RegisterMatch(c) ==
  /\ ~Readable(c)
  /\ Blank \in request[c.req].entities /\ QueueOf(c) \in queues =>
       \E d \in calls : d.kind = "deleteQueue" /\ d.status = "sent"
  /\ c.kind = "bind" /\ Blank \notin request[c.req].entities => ~Short

(* The permission, read or ready to be written back.                       *)
GrantMatch(c) ==
  /\ c.status \in {"sent", "ok"}
  /\ password[UserOf(c)] # None
  /\ ~Subscribes(c.req) => QueueOf(c) \notin queues
  /\ c.kind = "getPermissions" /\ c.status = "ok" => c.view = readPerm[UserOf(c)]
  /\ c.kind = "putPermissions" /\ c.status = "sent" =>
       c.view = IF Subscribes(c.req) THEN readPerm[UserOf(c)] \cup {QueueOf(c)}
                ELSE readPerm[UserOf(c)] \ {QueueOf(c)}
  /\ c.kind = "putPermissions" /\ c.status = "ok" => Matched(c.req)

MatchFacts(c) ==
  /\ Before(c) => Matched(c.req)
  /\ c.kind = "bind" /\ ~Registers(c) => Matched(c.req)
  /\ c.kind = "putUser" /\ c.status = "ok" => NewHere(c)
  /\ c.kind = "putVhost" => c.view = {} /\ (c.status = "sent" => NewHere(c))
  /\ c.kind \in {"getUser", "putUser"} /\ c.status = "ok" => password[UserOf(c)] # None
  /\ c.kind = "createQueue" => password[UserOf(c)] # None
  /\ c.kind = "createQueue" /\ c.status = "ok" => ~Readable(c) /\ QueueOf(c) \in queues
  /\ c.kind \in {"bind", "deleteQueue"} => c.status # "failed"
  /\ c.kind \in {"bind", "deleteQueue"} /\ Registers(c) => RegisterMatch(c)
  /\ c.kind = "deleteQueue" /\ ~Registers(c) => request[c.req].op = "delete"
  /\ c.kind = "deleteQueue" /\ ~Registers(c) /\ c.status = "ok" =>
       password[UserOf(c)] # None /\ QueueOf(c) \notin queues
  /\ c.kind \in {"getPermissions", "putPermissions"} => GrantMatch(c)

MatchInv ==
  /\ \A r \in Request : (\A c \in calls : QueueOf(c) # request[r].queue) => Matched(r)
  /\ \A r \in Request : request[r].queue \in queues => password[request[r].user] # None
  /\ \A c, d \in calls : c.kind = "bind" /\ d.kind = "bind" /\ c.key = d.key => c = d
  /\ \A c \in calls : MatchFacts(c)

OneUser ==
  \A r, s \in Request : request[r].queue = request[s].queue => request[r].user = request[s].user

Calm == Known /\ PermitInv /\ MatchInv


(* What the steps below use of a state.                                    *)
LEMMA CalmFacts ==
  ASSUME Calm, NEW c \in calls
  PROVE  /\ TypeOK /\ IsFiniteSet(calls) /\ c.req \in Request /\ c.kind \in Kind
         /\ UserOf(c) \in User /\ QueueOf(c) \in Queue /\ c.req # None
         /\ KindsFit(c) /\ Knows(c) /\ Facts(c) /\ MatchFacts(c) /\ c.status # "unexpected"
         /\ \A e \in calls : e.req = c.req /\ QueueOf(e) = QueueOf(c)
         /\ c.kind # "bind" /\ ~LaterRegister(c) => calls = {c}
         /\ \A e \in calls : e = c \/ e.kind = "bind" \/ LaterRegister(e)
  <1>1. /\ TypeOK /\ IsFiniteSet(calls) /\ KindsFit(c) /\ Knows(c) /\ Facts(c) /\ MatchFacts(c)
        /\ c.status # "unexpected" /\ \A e \in calls : e.req = c.req
    BY DEF Calm, Known, MatchInv, AnswerInv, NothingUnexpected, HeadInv, KeyInv, OneAtATime
  <1>2. c \in Call /\ c.req # None
    BY <1>1, CallFields, RequestAssumption DEF TypeOK, BrokerTypeOK
  <1>3. \A e \in calls : QueueOf(e) = QueueOf(c)
    BY <1>1 DEF QueueOf
  <1>4. /\ c.kind # "bind" /\ ~LaterRegister(c) => calls = {c}
        /\ \A e \in calls : e = c \/ e.kind = "bind" \/ LaterRegister(e)
    BY DEF Calm, Known, AnswerInv, AloneInService
  <1> QED BY <1>1, <1>2, <1>3, <1>4, CallFields

(* Where the broker does nothing, the queues and their readers stay, and   *)
(* so does what is known of a call that stays.                             *)
LEMMA MatchStays ==
  ASSUME UNCHANGED brokerState
  PROVE  /\ \A r : Matched(r)' <=> Matched(r)
         /\ \A c : Readable(c)' <=> Readable(c)
         /\ \A c : NewHere(c)' <=> NewHere(c)
         /\ \A c : Before(c)' <=> Before(c)
         /\ \A c : Registers(c)' <=> Registers(c)
         /\ queues' = queues /\ password' = password /\ readPerm' = readPerm
  BY DEF brokerState, Matched, Readable, NewHere, Before, Registers, UserOf, QueueOf

(* A callback: the request is under way, or its queue is as it should be.  *)
LEMMA CallbackMatch ==
  ASSUME Calm, OneUser, NEW c \in calls, UNCHANGED brokerState, NEW S, Return(c, S),
         \A d \in S : d.req = c.req,
         calls' = {} => Matched(c.req),
         \A d \in calls' : MatchFacts(d)',
         \A d, e \in calls' : d.kind = "bind" /\ e.kind = "bind" /\ d.key = e.key => d = e
  PROVE  MatchInv'
  <1>1. c.req \in Request /\ \A e \in calls : e.req = c.req
    BY CalmFacts
  <1>2. \A d \in calls' : d.req = c.req /\ QueueOf(d) = QueueOf(c)
    BY <1>1 DEF Return, QueueOf
  <1>3. ASSUME NEW r \in Request, \A d \in calls' : QueueOf(d) # request[r].queue
        PROVE  Matched(r)
    <2>1. CASE QueueOf(c) = request[r].queue
      <3>1. calls' = {}
        BY <1>2, <1>3, <2>1
      <3>2. request[r].queue = request[c.req].queue /\ request[r].user = request[c.req].user
        BY <1>1, <2>1 DEF OneUser, QueueOf
      <3> QED BY <3>1, <3>2 DEF Matched
    <2>2. CASE QueueOf(c) # request[r].queue
      BY <1>1, <2>2 DEF Calm, MatchInv, QueueOf
    <2> QED BY <2>1, <2>2
  <1>4. \A r \in Request : (\A d \in calls' : QueueOf(d) # request[r].queue) => Matched(r)'
    BY <1>3, MatchStays
  <1>5. \A r \in Request : request[r].queue \in queues' => password'[request[r].user] # None
    BY MatchStays DEF Calm, MatchInv
  <1>6. MatchInv' <=>
          /\ \A r \in Request : (\A d \in calls' : QueueOf(d) # request[r].queue) => Matched(r)'
          /\ \A r \in Request : request[r].queue \in queues' => password'[request[r].user] # None
          /\ \A d, e \in calls' : d.kind = "bind" /\ e.kind = "bind" /\ d.key = e.key => d = e
          /\ \A d \in calls' : MatchFacts(d)'
    BY DEF MatchInv, QueueOf
  <1> QED BY <1>4, <1>5, <1>6

(* The callback of a call that is alone: nothing follows, or one call.     *)
LEMMA NothingFollows ==
  ASSUME Calm, OneUser, NEW c \in calls, UNCHANGED brokerState, calls = {c}, Return(c, {}),
         Matched(c.req)
  PROVE  MatchInv'
  <1>1. calls' = {}
    BY DEF Return
  <1> QED BY <1>1, CallbackMatch

LEMMA OneFollows ==
  ASSUME Calm, OneUser, NEW c \in calls, UNCHANGED brokerState, calls = {c}, NEW d,
         Return(c, {d}), d.req = c.req, MatchFacts(d)'
  PROVE  MatchInv'
  <1>1. calls' = {d}
    BY DEF Return
  <1> QED BY <1>1, CallbackMatch

(* A request arrives.                                                      *)
LEMMA ArriveMatches ==
  ASSUME MaxInFlight = 1, Calm, NEW r \in Request, NEW first, Arrive(r, first),
         first \in {"getUser", "selectUser", "listQueue", "deleteQueue"},
         first = "deleteQueue" => request[r].op = "delete"
  PROVE  MatchInv'
  <1> DEFINE c == NewCall(r, first, None)
  <1>1. calls = {} /\ calls' = {c} /\ UNCHANGED brokerState
    BY ArriveAlone DEF Calm, Known, KeyInv, Arrive
  <1>2. c.req = r /\ c.kind = first /\ c.status = "sent"
    BY DEF NewCall
  <1> HIDE DEF c
  <1>3. \A s \in Request : Matched(s)'
    BY <1>1, MatchStays DEF Calm, MatchInv
  <1>4. MatchFacts(c)'
    BY <1>2, <1>3 DEF MatchFacts, Registers
  <1>5. \A s \in Request : request[s].queue \in queues' => password'[request[s].user] # None
    BY <1>1, MatchStays DEF Calm, MatchInv
  <1> QED BY <1>1, <1>3, <1>4, <1>5 DEF MatchInv

-----------------------------------------------------------------------------
(* The callbacks.                                                          *)

LEMMA UserMatches ==
  ASSUME Calm, OneUser, NEW c \in calls, Callback(c),
         UserCallback(c) \/ OnUserFound(c) \/ OnUserSaved(c)
  PROVE  MatchInv'
  <1>1. c.status # "sent" /\ UNCHANGED brokerState
    BY DEF Callback
  <1>2. c.kind \in UserKind /\ (Return(c, {}) \/ \E kind : Then(c, kind) /\ Follows(kind, c))
    BY <1>1, UserSends
  <1>3. /\ calls = {c} /\ Matched(c.req) /\ MatchFacts(c) /\ Knows(c) /\ c.req # None
    BY <1>2, CalmFacts DEF LaterRegister, UserKind, MatchFacts, Before
  <1>4. ASSUME NEW kind, Then(c, kind), Follows(kind, c) PROVE MatchInv'
    <2> DEFINE d == NewCall(c.req, kind, None)
    <2>1. Return(c, {d}) /\ d.req = c.req /\ d.kind = kind /\ d.status = "sent" /\ d.view = {}
      BY <1>4 DEF Then, NewCall
    <2> HIDE DEF d
    <2>2. UserOf(d) = UserOf(c) /\ (NewHere(d) <=> NewHere(c))
      BY <2>1 DEF UserOf, NewHere
    <2>3. kind \in {"putUser", "putVhost", "insertUser", "updateUser", "createQueue"}
      BY <1>4 DEF Follows
    <2>4. kind = "putVhost" => NewHere(c)
      BY <1>3, <1>4 DEF Follows, MatchFacts
    <2>5. kind = "createQueue" => password[UserOf(c)] # None
      BY <1>3, <1>4 DEF Follows, MatchFacts, Knows
    <2>6. MatchFacts(d)'
      BY <1>1, <1>3, <2>1, <2>2, <2>3, <2>4, <2>5, MatchStays DEF MatchFacts, UserOf
    <2> QED BY <1>1, <1>3, <2>1, <2>6, OneFollows
  <1> QED BY <1>1, <1>2, <1>3, <1>4, NothingFollows

(* The queue is there and its bindings are sent: without a blank entity    *)
(* their number is the one that is waited for.                             *)
LEMMA AllSent ==
  ASSUME NEW r \in Request, Blank \notin request[r].entities
  PROVE  Cardinality(BindAll(r)) = Cardinality(request[r].entities)
  <1> DEFINE E == request[r].entities
             f == [e \in E |-> NewCall(r, "bind", e)]
  <1>1. IsFiniteSet(E) /\ E \ {Blank} = E
    BY RequestFields
  <1>2. f \in Surjection(E, BindAll(r))
    BY <1>1 DEF Surjection, BindAll
  <1>3. f \in Injection(E, BindAll(r))
    <2>1. \A e : NewCall(r, "bind", e).key = e
      BY DEF NewCall
    <2>2. \A e, g \in E : f[e] = f[g] => e = g
      BY <2>1
    <2>3. f \in [E -> BindAll(r)]
      BY <1>2 DEF Surjection
    <2> HIDE DEF f
    <2> QED BY <2>2, <2>3 DEF Injection, IsInjective
  <1> QED BY <1>1, <1>2, <1>3, FS_Surjection

LEMMA QueueMatches ==
  ASSUME Calm, OneUser, NEW c \in calls, c.status # "sent", UNCHANGED brokerState,
         OnQueueCreated(c) \/ OnQueueListed(c),
         Registers(c) => request[c.req].entities # {}
  PROVE  MatchInv'
  <1>1. /\ calls = {c} /\ c.kind \in {"createQueue", "listQueue"} /\ c.status # "unexpected"
        /\ MatchFacts(c) /\ Facts(c) /\ KindsFit(c) /\ c.req \in Request /\ TypeOK
    BY CalmFacts DEF OnQueueCreated, OnQueueListed, LaterRegister
  <1>2. CASE c.status # "ok"
    BY <1>1, <1>2, NothingFollows DEF OnQueueCreated, OnQueueListed, MatchFacts, Before
  <1>3. CASE c.status = "ok"
    <2> DEFINE U == IF c.kind = "createQueue"
                    THEN {Rollback(c.req, e) : e \in request[c.req].entities \cap {Blank}} ELSE {}
    <2>1. calls' = BindAll(c.req) \cup U
      BY <1>1, <1>3, CallFields DEF OnQueueCreated, OnQueueListed, Return
    <2>2. \A d \in BindAll(c.req) :
            /\ d.req = c.req /\ d.kind = "bind" /\ d.status = "sent"
            /\ d.key \in request[c.req].entities \ {Blank} /\ d = NewCall(c.req, "bind", d.key)
      BY DEF BindAll, NewCall
    <2>3. \A d \in U : d.req = c.req /\ d.kind = "deleteQueue" /\ d.status = "sent"
                       /\ c.kind = "createQueue"
      BY DEF Rollback, NewCall
    <2>4. c.kind = "createQueue" /\ Blank \in request[c.req].entities =>
            \E d \in calls' : d.kind = "deleteQueue" /\ d.status = "sent"
      <3> SUFFICES ASSUME c.kind = "createQueue", Blank \in request[c.req].entities
                   PROVE  \E d \in calls' : d.kind = "deleteQueue" /\ d.status = "sent"
        OBVIOUS
      <3>1. Rollback(c.req, Blank) \in calls'
        BY <2>1
      <3> QED BY <3>1 DEF Rollback, NewCall
    <2>5. calls' = {} => c.kind # "createQueue" \/ request[c.req].entities = {}
      <3> SUFFICES ASSUME c.kind = "createQueue", NEW e \in request[c.req].entities
                   PROVE  calls' # {}
        OBVIOUS
      <3>1. CASE e = Blank
        BY <2>4, <3>1
      <3>2. CASE e # Blank
        BY <2>1, <3>2 DEF BindAll
      <3> QED BY <3>1, <3>2
    <2> HIDE DEF U
    <2>6. Registers(c) <=> c.kind = "createQueue"
      BY <1>1 DEF KindsFit, HeadKind, Registers
    <2>7. Blank \notin request[c.req].entities => ~Short'
      <3> SUFFICES ASSUME Blank \notin request[c.req].entities PROVE ~Short'
        OBVIOUS
      <3>1. Alive' = BindAll(c.req)
        BY <2>1, <2>2, <2>3 DEF Alive
      <3>2. totalBindCount' = Cardinality(request[c.req].entities) /\ totalBindSuccess' = 0
        BY <1>1 DEF Facts, FreshFacts, OnQueueCreated, OnQueueListed, KeepCounters
      <3> QED BY <1>1, <3>1, <3>2, AllSent, BindAllCount DEF Short
    <2>8. c.kind = "listQueue" => Matched(c.req)
      BY <1>1 DEF MatchFacts, Before
    <2>9. ASSUME NEW d \in calls' PROVE MatchFacts(d)'
      <3>1. /\ d.req = c.req /\ d.status = "sent" /\ d.kind \in {"bind", "deleteQueue"}
            /\ d.kind = "deleteQueue" => c.kind = "createQueue"
        BY <2>1, <2>2, <2>3, <2>9
      <3>2. (Registers(d) <=> Registers(c)) /\ UserOf(d) = UserOf(c) /\ QueueOf(d) = QueueOf(c)
            /\ (Readable(d) <=> Readable(c))
        BY <3>1 DEF Registers, UserOf, QueueOf, Readable
      <3>3. CASE Registers(c)
        <4>1. RegisterMatch(d)'
          BY <1>1, <1>3, <2>4, <2>6, <2>7, <3>1, <3>2, <3>3, MatchStays
             DEF RegisterMatch, MatchFacts, QueueOf
        <4> QED BY <3>1, <3>2, <3>3, <4>1, MatchStays DEF MatchFacts, Before, UserKind, Registers
      <3>4. CASE ~Registers(c)
        BY <1>1, <2>6, <2>8, <3>1, <3>2, <3>4, MatchStays
           DEF MatchFacts, Before, UserKind, Registers
      <3> QED BY <3>3, <3>4
    <2>10. Return(c, calls') /\ \A d \in calls' : d.req = c.req
      BY <1>1, <2>1, <2>2, <2>3 DEF Return
    <2>11. \A d, e \in calls' : d.kind = "bind" /\ e.kind = "bind" /\ d.key = e.key => d = e
      BY <2>1, <2>2, <2>3
    <2>12. calls' = {} => Matched(c.req)
      BY <1>1, <2>5, <2>6, <2>8
    <2> QED BY <2>9, <2>10, <2>11, <2>12, CallbackMatch
  <1> QED BY <1>2, <1>3

(* What stays known of a call beside a callback of the same request.       *)
LEMMA BesideStays ==
  ASSUME Calm, NEW c \in calls, NEW e \in calls, e # c, UNCHANGED brokerState,
         c.kind = "bind" \/ LaterRegister(c),
         ~Short => ~Short',
         Registers(c) /\ Blank \in request[c.req].entities /\ QueueOf(c) \in queues =>
           \E d \in calls' : d.kind = "deleteQueue" /\ d.status = "sent"
  PROVE  MatchFacts(e)'
  <1>1. /\ e.req = c.req /\ (e.kind = "bind" \/ LaterRegister(e)) /\ MatchFacts(e)
        /\ QueueOf(e) = QueueOf(c)
    BY CalmFacts
  <1>2. (Registers(e) <=> Registers(c)) /\ e.kind \in {"bind", "deleteQueue"}
        /\ (e.kind = "deleteQueue" => Registers(e))
    BY <1>1 DEF Registers, LaterRegister
  <1>3. Registers(e) => RegisterMatch(e)'
    BY <1>1, <1>2, MatchStays DEF MatchFacts, RegisterMatch, QueueOf
  <1> QED BY <1>1, <1>2, <1>3, MatchStays DEF MatchFacts, Before, UserKind, Registers

(* A register whose binding was answered still has its rollback under way, *)
(* when it has a blank entity.                                             *)
LEMMA RollbackRemains ==
  ASSUME Calm, NEW c \in calls, c.kind = "bind", NEW S, Return(c, S),
         Registers(c), Blank \in request[c.req].entities, QueueOf(c) \in queues
  PROVE  \E d \in calls' : d.kind = "deleteQueue" /\ d.status = "sent"
  <1>1. PICK d \in calls : d.kind = "deleteQueue" /\ d.status = "sent"
    BY CalmFacts DEF MatchFacts, RegisterMatch
  <1> QED BY <1>1 DEF Return

LEMMA BoundMatches ==
  ASSUME Calm, OneUser, AnswerInv', NEW c \in calls, c.status # "sent", UNCHANGED brokerState,
         OnBound(c)
  PROVE  MatchInv'
  <1>1. /\ TypeOK /\ IsFiniteSet(calls) /\ c.kind = "bind" /\ c.req \in Request /\ MatchFacts(c)
        /\ BindFacts(c) /\ TallyFacts(c) /\ c.status \in {"ok", "notFound"}
    BY CalmFacts DEF OnBound, Facts, MatchFacts, BindFacts
  <1>2. Registers(c) => RegisterMatch(c)
    BY <1>1 DEF MatchFacts
  <1>3. ~Registers(c) => Matched(c.req)
    BY <1>1 DEF MatchFacts
  <1>4. ASSUME NEW S, Return(c, S), \A d \in S : d.kind # "bind"
        PROVE  /\ Short' <=> Short
               /\ \A e \in calls : e # c => MatchFacts(e)'
               /\ \A d, e \in calls' : d.kind = "bind" /\ e.kind = "bind" /\ d.key = e.key => d = e
    <2>1. Short' <=> Short
      BY <1>1, <1>4, BoundCounts DEF OnBound
    <2>2. \A e \in calls : e # c => MatchFacts(e)'
      BY <1>1, <1>4, <2>1, BesideStays, RollbackRemains
    <2>3. \A d, e \in calls' : d.kind = "bind" /\ e.kind = "bind" /\ d.key = e.key => d = e
      BY <1>4 DEF Return, Calm, MatchInv
    <2> QED BY <2>1, <2>2, <2>3
  <1>5. CASE c.status = "notFound" /\ Registers(c)
    <2> DEFINE d == Rollback(c.req, c.key)
    <2>1. Return(c, {d})
      BY <1>5 DEF OnBound, Registers
    <2>2. d.req = c.req /\ d.kind = "deleteQueue" /\ d.status = "sent"
      BY DEF Rollback, NewCall
    <2> HIDE DEF d
    <2>3. d \in calls' /\ calls' \subseteq calls \cup {d} /\ c \notin calls' \ {d}
      BY <2>1 DEF Return
    <2>4. Registers(d) /\ UserOf(d) = UserOf(c) /\ QueueOf(d) = QueueOf(c)
          /\ (Readable(d) <=> Readable(c))
      BY <1>5, <2>2 DEF Registers, UserOf, QueueOf, Readable
    <2>5. RegisterMatch(d)'
      BY <1>2, <1>5, <2>2, <2>3, <2>4, MatchStays DEF RegisterMatch, QueueOf
    <2>6. MatchFacts(d)'
      BY <2>2, <2>4, <2>5, MatchStays DEF MatchFacts, Before, UserKind, Registers
    <2>7. \A e \in calls' : MatchFacts(e)'
      BY <1>4, <2>1, <2>2, <2>3, <2>6
    <2> QED BY <1>4, <2>1, <2>2, <2>3, <2>7, CallbackMatch
  <1>6. CASE ~(c.status = "notFound" /\ Registers(c)) /\ Return(c, {})
            /\ ~(c.status = "ok" /\ totalBindSuccess' = totalBindCount)
    <2>1. calls' = calls \ {c}
      BY <1>6 DEF Return
    <2>2. \A e \in calls' : MatchFacts(e)'
      BY <1>4, <1>6, <2>1
    <2>3. ASSUME calls' = {}, Registers(c) PROVE Matched(c.req)
      <3>1. c.status = "ok"
        BY <1>1, <1>6, <2>3
      <3>2. QueueOf(c) \notin queues
        <4>1. CASE Blank \in request[c.req].entities
          BY <1>1, <1>6, <2>3, <4>1, RollbackRemains
        <4>2. CASE Blank \notin request[c.req].entities
          <5>1. ~Short
            BY <1>1, <1>2, <2>3, <4>2 DEF RegisterMatch
          <5>2. /\ totalBindSuccess' + Cardinality(Alive)' = totalBindSuccess + Cardinality(Alive)
                /\ totalBindCount' = totalBindCount
            BY <1>1, <1>6, BoundCounts DEF OnBound
          <5>3. Cardinality(Alive)' = 0
            <6>1. Alive' = {}
              BY <2>3 DEF Alive
            <6> QED BY <6>1, FS_EmptySet
          <5>4. totalBindSuccess' = totalBindCount
            BY <1>1, <5>1, <5>2, <5>3, AliveCount DEF Short, TallyFacts, TypeOK, OnBound
          <5> QED BY <1>6, <3>1, <5>4
        <4> QED BY <4>1, <4>2
      <3> QED BY <1>2, <2>3, <3>2 DEF RegisterMatch, Readable, Matched, QueueOf, UserOf
    <2> QED BY <1>3, <1>4, <1>6, <2>2, <2>3, CallbackMatch
  <1>7. CASE /\ c.status = "ok" /\ totalBindSuccess' = totalBindCount
             /\ Return(c, {NewCall(c.req, "getPermissions", c.key)})
    <2> DEFINE d == NewCall(c.req, "getPermissions", c.key)
    <2>1. Return(c, {d}) /\ d.req = c.req /\ d.kind = "getPermissions" /\ d.status = "sent"
      BY <1>7 DEF NewCall
    <2> HIDE DEF d
    <2>2. d \in calls'
      BY <2>1 DEF Return
    <2>3. calls' = {d} /\ GrantFacts(d)'
      BY <2>1, <2>2 DEF AnswerInv, AloneInService, Facts, LaterRegister
    <2>4. Subscribes(d.req) /\ UserOf(d) = UserOf(c) /\ QueueOf(d) = QueueOf(c)
      BY <1>1, <2>1 DEF BindFacts, UserOf, QueueOf
    <2>5. QueueOf(d) \in queues
      BY <2>3, <2>4, MatchStays DEF GrantFacts, Subscribes, QueueOf
    <2>6. password[UserOf(d)] # None
      BY <1>1, <2>1, <2>5 DEF Calm, MatchInv, QueueOf, UserOf
    <2>7. GrantMatch(d)'
      BY <2>1, <2>4, <2>6, MatchStays DEF GrantMatch, Subscribes, UserOf
    <2>8. MatchFacts(d)'
      BY <2>1, <2>7 DEF MatchFacts, Before, UserKind
    <2> QED BY <2>1, <2>2, <2>3, <2>8, CallbackMatch
  <1>8. \/ Return(c, {NewCall(c.req, "getPermissions", c.key)})
           /\ c.status = "ok" /\ totalBindSuccess' = totalBindCount
        \/ Return(c, {}) /\ ~(c.status = "ok" /\ totalBindSuccess' = totalBindCount)
        \/ c.status = "notFound" /\ Registers(c)
    <2>1. c.status = "notFound" => request[c.req].op \in {"register", "append"}
      BY <1>1 DEF BindFacts, Subscribes
    <2> QED BY <1>1, <2>1 DEF OnBound, Registers
  <1> QED BY <1>5, <1>6, <1>7, <1>8

LEMMA RollbackMatches ==
  ASSUME Calm, OneUser, NEW c \in calls, c.status # "sent", UNCHANGED brokerState,
         OnRolledBack(c)
  PROVE  MatchInv'
  <1>1. /\ c.kind = "deleteQueue" /\ c.req \in Request /\ MatchFacts(c) /\ Facts(c) /\ Registers(c)
        /\ calls' = calls \ {c} /\ Return(c, {})
    BY CalmFacts DEF OnRolledBack, MatchFacts, Return
  <1>2. QueueOf(c) \notin queues /\ ~Readable(c)
    BY <1>1 DEF MatchFacts, Facts, UndoFacts, RegisterMatch
  <1>3. Matched(c.req)
    BY <1>2 DEF Matched, Readable, QueueOf, UserOf
  <1>4. Short' <=> Short
    <2>1. Alive' = Alive
      BY <1>1 DEF Alive
    <2> QED BY <2>1 DEF Short, OnRolledBack, KeepCounters
  <1>5. \A e \in calls' : MatchFacts(e)'
    BY <1>1, <1>2, <1>4, BesideStays DEF LaterRegister
  <1>6. \A d, e \in calls' : d.kind = "bind" /\ e.kind = "bind" /\ d.key = e.key => d = e
    BY <1>1 DEF Calm, MatchInv
  <1> QED BY <1>1, <1>3, <1>5, <1>6, CallbackMatch

(* A delete goes on to the permission once its queue is gone.              *)
LEMMA DeleteMatches ==
  ASSUME Calm, OneUser, NEW c \in calls, c.status # "sent", UNCHANGED brokerState, OnDeleted(c)
  PROVE  MatchInv'
  <1>1. /\ c.kind = "deleteQueue" /\ ~Registers(c) /\ ~Subscribes(c.req) /\ calls = {c}
        /\ MatchFacts(c) /\ c.status # "unexpected"
    BY CalmFacts DEF OnDeleted, Registers, Subscribes, LaterRegister
  <1>2. CASE c.status # "ok"
    BY <1>1, <1>2, NothingFollows DEF OnDeleted, MatchFacts, Before
  <1>3. CASE c.status = "ok"
    <2> DEFINE d == NewCall(c.req, "getPermissions", None)
    <2>1. Return(c, {d}) /\ d.req = c.req /\ d.kind = "getPermissions" /\ d.status = "sent"
      BY <1>3 DEF OnDeleted, NewCall
    <2> HIDE DEF d
    <2>2. UserOf(d) = UserOf(c) /\ QueueOf(d) = QueueOf(c)
      BY <2>1 DEF UserOf, QueueOf
    <2>3. password[UserOf(c)] # None /\ QueueOf(c) \notin queues
      BY <1>1, <1>3 DEF MatchFacts
    <2>4. GrantMatch(d)'
      BY <1>1, <2>1, <2>2, <2>3, MatchStays DEF GrantMatch, Subscribes, UserOf, QueueOf
    <2>5. MatchFacts(d)'
      BY <2>1, <2>4 DEF MatchFacts, Before, UserKind
    <2> QED BY <1>1, <2>1, <2>5, OneFollows
  <1> QED BY <1>2, <1>3

LEMMA GrantMatches ==
  ASSUME Calm, OneUser, NEW c \in calls, c.status # "sent", UNCHANGED brokerState,
         OnPermissionsRead(c) \/ OnPermissionsWritten(c)
  PROVE  MatchInv'
  <1>1. /\ c.kind \in {"getPermissions", "putPermissions"} /\ calls = {c} /\ c.status = "ok"
        /\ GrantMatch(c)
    BY CalmFacts DEF OnPermissionsRead, OnPermissionsWritten, LaterRegister, MatchFacts, GrantMatch
  <1>2. CASE OnPermissionsRead(c)
    <2> DEFINE d == [NewCall(c.req, "putPermissions", c.key) EXCEPT !.view = getUpdatedPermission(c)]
    <2>1. Return(c, {d}) /\ c.kind = "getPermissions"
      BY <1>1, <1>2 DEF OnPermissionsRead
    <2>2. d.req = c.req /\ d.kind = "putPermissions" /\ d.status = "sent"
          /\ d.view = getUpdatedPermission(c)
      BY DEF NewCall
    <2> HIDE DEF d
    <2>3. UserOf(d) = UserOf(c) /\ QueueOf(d) = QueueOf(c)
      BY <2>2 DEF UserOf, QueueOf
    <2>4. d.view = IF Subscribes(c.req) THEN readPerm[UserOf(c)] \cup {QueueOf(c)}
                   ELSE readPerm[UserOf(c)] \ {QueueOf(c)}
      BY <1>1, <2>1, <2>2 DEF GrantMatch, getUpdatedPermission
    <2>5. GrantMatch(d)'
      BY <1>1, <2>2, <2>3, <2>4, MatchStays DEF GrantMatch, Subscribes, UserOf, QueueOf
    <2>6. MatchFacts(d)'
      BY <2>2, <2>5 DEF MatchFacts, Before, UserKind
    <2> QED BY <1>1, <2>1, <2>2, <2>6, OneFollows
  <1>3. CASE OnPermissionsWritten(c)
    BY <1>1, <1>3, NothingFollows DEF OnPermissionsWritten, GrantMatch
  <1> QED BY <1>2, <1>3

LEMMA CallbackMatches ==
  ASSUME Calm, OneUser, AnswerInv', NEW c \in calls, Callback(c),
         \A r \in Request : request[r].op = "register" => request[r].entities # {}
  PROVE  MatchInv'
  <1>1. Registers(c) => request[c.req].entities # {}
    BY CalmFacts DEF Registers
  <1> QED BY <1>1, UserMatches, QueueMatches, BoundMatches, RollbackMatches, DeleteMatches,
             GrantMatches DEF Callback, QueueCallback

-----------------------------------------------------------------------------
(* The broker.                                                             *)

(* c is performed and answered; d takes its place.                         *)
Performed(c, d) ==
  /\ c.status = "sent" /\ Execute(c) /\ AnsweredBy(c, d, Verdict(c))
  /\ UNCHANGED serviceVars

LEMMA PerformedFacts ==
  ASSUME Calm, NEW c \in calls, NEW d, Performed(c, d)
  PROVE  /\ calls' = (calls \ {c}) \cup {d}
         /\ d.req = c.req /\ d.kind = c.kind /\ d.key = c.key /\ d.status = Verdict(c)
         /\ UserOf(d) = UserOf(c) /\ QueueOf(d) = QueueOf(c) /\ (Registers(d) <=> Registers(c))
         /\ \A u \in User : password[u] # None => password'[u] # None
         /\ c.kind # "putUser" => password' = password
         /\ c.kind \notin {"createQueue", "deleteQueue"} => queues' = queues
         /\ c.kind \notin {"putVhost", "putPermissions"} => readPerm' = readPerm
  <1>1. c.req # None /\ UserOf(c) \in User /\ TypeOK
    BY CalmFacts
  <1>2. /\ calls' = (calls \ {c}) \cup {d}
        /\ d.req = c.req /\ d.kind = c.kind /\ d.key = c.key /\ d.status = Verdict(c)
        /\ Execute(c)
    BY DEF Performed, AnsweredBy
  <1>3. UserOf(d) = UserOf(c) /\ QueueOf(d) = QueueOf(c) /\ (Registers(d) <=> Registers(c))
    BY <1>2 DEF UserOf, QueueOf, Registers
  <1>4. /\ c.kind # "putUser" => password' = password
        /\ c.kind \notin {"createQueue", "deleteQueue"} => queues' = queues
        /\ c.kind \notin {"putVhost", "putPermissions"} => readPerm' = readPerm
    BY <1>2 DEF Execute
  <1>5. \A u \in User : password[u] # None => password'[u] # None
    BY <1>1, <1>2 DEF Execute, TypeOK, BrokerTypeOK
  <1> QED BY <1>2, <1>3, <1>4, <1>5

(* A user who was created for this request has no queue, and may read      *)
(* none once the permission in the vhost is given.                         *)
LEMMA VhostKeeps ==
  ASSUME Calm, NEW c \in calls, NEW d, Performed(c, d), c.kind = "putVhost"
  PROVE  \A r \in Request : Matched(r) => Matched(r)'
  <1>1. /\ c.view = {} /\ NewHere(c) /\ UserOf(c) \in User /\ TypeOK /\ Execute(c)
        /\ queues' = queues
    BY CalmFacts, PerformedFacts DEF MatchFacts, Performed
  <1>2. ASSUME NEW u \in User
        PROVE  readPerm'[u] = readPerm[u] \/ (u = UserOf(c) /\ readPerm'[u] = {})
    BY <1>1 DEF Execute, TypeOK, BrokerTypeOK
  <1>3. ASSUME NEW r \in Request, Matched(r) PROVE Matched(r)'
    <2>1. request[r].user \in User
      BY RequestFields
    <2> QED BY <1>1, <1>2, <1>3, <2>1 DEF Matched, NewHere
  <1> QED BY <1>3

(* The permission of the user changes by the queue of the request.         *)
LEMMA GrantPerformed ==
  ASSUME Calm, NEW c \in calls, NEW d, Performed(c, d), c.kind = "putPermissions"
  PROVE  /\ Verdict(c) = "ok"
         /\ \A u \in User \ {UserOf(c)} : readPerm'[u] = readPerm[u]
         /\ readPerm'[UserOf(c)] = IF Subscribes(c.req) THEN readPerm[UserOf(c)] \cup {QueueOf(c)}
                                   ELSE readPerm[UserOf(c)] \ {QueueOf(c)}
         /\ Matched(c.req)'
  <1>1. /\ GrantMatch(c) /\ UserOf(c) \in User /\ TypeOK /\ Execute(c) /\ c.status = "sent"
        /\ GrantFacts(c) /\ queues' = queues /\ c.req \in Request
    BY CalmFacts, PerformedFacts DEF MatchFacts, Performed, Facts
  <1>2. Found(c)
    BY <1>1 DEF GrantMatch, Found
  <1>3. Verdict(c) = "ok"
    BY <1>2 DEF Verdict
  <1>4. /\ \A u \in User \ {UserOf(c)} : readPerm'[u] = readPerm[u]
        /\ readPerm'[UserOf(c)] = c.view
    BY <1>1, <1>2 DEF Execute, TypeOK, BrokerTypeOK
  <1>5. c.view = IF Subscribes(c.req) THEN readPerm[UserOf(c)] \cup {QueueOf(c)}
                 ELSE readPerm[UserOf(c)] \ {QueueOf(c)}
    BY <1>1 DEF GrantMatch
  <1>6. Matched(c.req)'
    BY <1>1, <1>4, <1>5 DEF Matched, GrantFacts, GrantMatch, QueueOf, UserOf
  <1> QED BY <1>3, <1>4, <1>5, <1>6

(* Nothing happens to the queues of others, nor to the one of this request *)
(* in their permissions.                                                   *)
LEMMA OthersMatched ==
  ASSUME Calm, NEW c \in calls, NEW d, Performed(c, d)
  PROVE  \A r \in Request : request[r].queue # QueueOf(c) /\ Matched(r) => Matched(r)'
  <1>1. Execute(c)
    BY DEF Performed
  <1>2. CASE c.kind = "putVhost"
    BY <1>2, VhostKeeps
  <1>3. CASE c.kind = "putPermissions"
    <2>1. queues' = queues
      BY <1>3, PerformedFacts
    <2>2. \A r \in Request : request[r].user \in User
      BY RequestFields
    <2> QED BY <1>3, <2>1, <2>2, GrantPerformed DEF Matched
  <1>4. CASE c.kind \notin {"putVhost", "putPermissions"}
    <2>1. readPerm' = readPerm
      BY <1>4, PerformedFacts
    <2>2. \A q : q # QueueOf(c) => (q \in queues' <=> q \in queues)
      BY <1>1 DEF Execute
    <2> QED BY <2>1, <2>2 DEF Matched
  <1> QED BY <1>2, <1>3, <1>4

(* What is left to show for an answer: what it says of the queue.          *)
LEMMA PerformedMatch ==
  ASSUME Calm, OneUser, NEW c \in calls, NEW d, Performed(c, d), MatchFacts(d)',
         \A e \in calls : e # c => MatchFacts(e)'
  PROVE  MatchInv'
  <1>1. /\ calls' = (calls \ {c}) \cup {d} /\ d.kind = c.kind /\ d.key = c.key
        /\ QueueOf(d) = QueueOf(c) /\ c.req \in Request
        /\ \A e \in calls : QueueOf(e) = QueueOf(c)
    BY PerformedFacts, CalmFacts
  <1>2. ASSUME NEW r \in Request, \A e \in calls' : QueueOf(e) # request[r].queue
        PROVE  Matched(r)'
    <2>1. request[r].queue # QueueOf(c) /\ \A e \in calls : QueueOf(e) # request[r].queue
      BY <1>1, <1>2
    <2>2. Matched(r)
      BY <2>1 DEF Calm, MatchInv
    <2> QED BY <2>1, <2>2, OthersMatched
  <1>3. ASSUME NEW r \in Request, request[r].queue \in queues'
        PROVE  password'[request[r].user] # None
    <2>1. CASE request[r].queue \in queues
      BY <2>1, PerformedFacts, RequestFields DEF Calm, MatchInv
    <2>2. CASE request[r].queue \notin queues
      <3>1. c.kind = "createQueue" /\ request[r].queue = QueueOf(c)
        BY <1>3, <2>2 DEF Performed, Execute
      <3>2. password[UserOf(c)] # None
        BY <3>1, CalmFacts DEF MatchFacts
      <3>3. request[r].user = UserOf(c)
        BY <1>1, <3>1 DEF OneUser, QueueOf, UserOf
      <3> QED BY <3>2, <3>3, PerformedFacts, RequestFields
    <2> QED BY <2>1, <2>2
  <1>4. \A e, f \in calls' : e.kind = "bind" /\ f.kind = "bind" /\ e.key = f.key => e = f
    BY <1>1 DEF Calm, MatchInv
  <1>5. \A e \in calls' : MatchFacts(e)'
    BY <1>1
  <1>6. MatchInv' <=>
          /\ \A r \in Request : (\A e \in calls' : QueueOf(e) # request[r].queue) => Matched(r)'
          /\ \A r \in Request : request[r].queue \in queues' => password'[request[r].user] # None
          /\ \A e, f \in calls' : e.kind = "bind" /\ f.kind = "bind" /\ e.key = f.key => e = f
          /\ \A e \in calls' : MatchFacts(e)'
    BY DEF MatchInv, QueueOf
  <1> QED BY <1>2, <1>3, <1>4, <1>5, <1>6

(* A call that is alone.                                                   *)
LEMMA AloneMatches ==
  ASSUME Calm, OneUser, NEW c \in calls, NEW d, Performed(c, d), c.kind # "bind",
         ~LaterRegister(c), ~Resets(c)
  PROVE  MatchInv'
  <1>1. /\ calls = {c} /\ MatchFacts(c) /\ Facts(c) /\ Knows(c) /\ KindsFit(c) /\ c.req \in Request
        /\ UserOf(c) \in User /\ QueueOf(c) \in Queue /\ c.req # None /\ c.kind \in Kind /\ TypeOK
    BY CalmFacts
  <1>2. /\ d.req = c.req /\ d.kind = c.kind /\ d.status = Verdict(c) /\ c.status = "sent"
        /\ UserOf(d) = UserOf(c) /\ QueueOf(d) = QueueOf(c) /\ (Registers(d) <=> Registers(c))
        /\ Execute(c)
    BY PerformedFacts DEF Performed
  <1>3. d.view = IF c.kind = "getPermissions" /\ Verdict(c) = "ok" THEN readPerm[UserOf(c)] ELSE c.view
    BY DEF Performed, AnsweredBy
  <1>4. MatchFacts(d)' => MatchInv'
    BY <1>1, PerformedMatch
  <1>5. CASE c.kind \in {"getUser", "insertUser", "selectUser", "updateUser", "listQueue"}
    <2>1. /\ Matched(c.req)' <=> Matched(c.req)
          /\ c.kind = "getUser" /\ Verdict(c) = "ok" => password'[UserOf(c)] # None
      BY <1>5, PerformedFacts DEF Matched, Verdict, Found, DbKind
    <2>2. MatchFacts(d)'
      BY <1>1, <1>2, <1>5, <2>1 DEF MatchFacts, Before, UserKind, UserOf
    <2> QED BY <1>4, <2>2
  <1>6. CASE c.kind = "putUser"
    <2>1. /\ Matched(c.req)' <=> Matched(c.req)
          /\ NewHere(c)' <=> NewHere(c)
      BY <1>6, PerformedFacts DEF Matched, NewHere, UserOf
    <2>2. password'[UserOf(c)] # None
      BY <1>1, <1>2, <1>6 DEF Execute, TypeOK, BrokerTypeOK
    <2>3. password[UserOf(c)] = None
      BY <1>1, <1>2, <1>6 DEF Knows, KindsFit
    <2>4. NewHere(c)
      BY <2>3 DEF Calm, MatchInv, NewHere
    <2>5. NewHere(d)'
      BY <1>2, <2>1, <2>4 DEF NewHere, UserOf
    <2>6. MatchFacts(d)'
      BY <1>1, <1>2, <1>6, <2>1, <2>2, <2>5 DEF MatchFacts, Before, UserKind, UserOf
    <2> QED BY <1>4, <2>6
  <1>7. CASE c.kind = "putVhost"
    <2>1. Matched(c.req)' /\ c.view = {}
      BY <1>1, <1>7, VhostKeeps DEF MatchFacts, Before, UserKind
    <2>2. Verdict(c) # "sent"
      BY DEF Verdict
    <2>3. MatchFacts(d)'
      BY <1>2, <1>3, <1>7, <2>1, <2>2 DEF MatchFacts, Before
    <2> QED BY <1>4, <2>3
  <1>8. CASE c.kind = "createQueue"
    <2>1. Matched(c.req) /\ password'[UserOf(c)] # None /\ readPerm' = readPerm
      BY <1>1, <1>2, <1>8, PerformedFacts DEF MatchFacts, Before
    <2>2. Verdict(c) # "ok" => Matched(c.req)'
      BY <1>2, <1>8, <2>1 DEF Verdict, Found, Execute, Matched, QueueOf
    <2>3. Verdict(c) = "ok" => ~Readable(c)' /\ QueueOf(c) \in queues'
      BY <1>2, <1>8, <2>1 DEF Verdict, Execute, Matched, Readable, QueueOf, UserOf
    <2>4. MatchFacts(d)'
      BY <1>2, <1>8, <2>1, <2>2, <2>3 DEF MatchFacts, Before, UserKind, Readable, QueueOf, UserOf
    <2> QED BY <1>4, <2>4
  <1>9. CASE c.kind = "deleteQueue"
    <2>1. ~Registers(c) /\ Matched(c.req) /\ request[c.req].op = "delete" /\ readPerm' = readPerm
          /\ password' = password
      BY <1>1, <1>2, <1>9, PerformedFacts DEF MatchFacts, Before, LaterRegister
    <2>2. Verdict(c) = IF QueueOf(c) \in queues THEN "ok" ELSE "notFound"
      BY <1>9 DEF Verdict, Found, DbKind
    <2>3. queues' = queues \ {QueueOf(c)}
      BY <1>2, <1>9 DEF Execute
    <2>4. Verdict(c) # "ok" => Matched(c.req)'
      BY <2>1, <2>2, <2>3 DEF Matched, QueueOf
    <2>5. Verdict(c) = "ok" => password'[UserOf(c)] # None /\ QueueOf(c) \notin queues'
      BY <1>1, <2>1, <2>2, <2>3 DEF Calm, MatchInv, QueueOf, UserOf
    <2>6. MatchFacts(d)'
      BY <1>2, <1>9, <2>1, <2>2, <2>4, <2>5
         DEF MatchFacts, Before, UserKind, Registers, QueueOf, UserOf
    <2> QED BY <1>4, <2>6
  <1>10. CASE c.kind = "getPermissions"
    <2>1. GrantMatch(c) /\ queues' = queues /\ readPerm' = readPerm /\ password' = password
      BY <1>1, <1>10, PerformedFacts DEF MatchFacts
    <2>2. UserOf(c) \in permitted
      BY <1>1, <1>10, <2>1 DEF Calm, PermitInv, Permits, GrantMatch
    <2>3. Verdict(c) = "ok"
      BY <1>10, <2>1, <2>2 DEF Verdict, Found, GrantMatch
    <2>4. GrantMatch(d)'
      BY <1>2, <1>3, <1>10, <2>1, <2>3 DEF GrantMatch, Subscribes, QueueOf, UserOf
    <2>5. MatchFacts(d)'
      BY <1>2, <1>10, <2>4 DEF MatchFacts, Before, UserKind
    <2> QED BY <1>4, <2>5
  <1>11. CASE c.kind = "putPermissions"
    <2>1. GrantMatch(c) /\ queues' = queues /\ password' = password /\ Verdict(c) = "ok"
          /\ Matched(c.req)'
      BY <1>1, <1>11, PerformedFacts, GrantPerformed DEF MatchFacts
    <2>2. GrantMatch(d)'
      BY <1>2, <1>11, <2>1 DEF GrantMatch, Subscribes, QueueOf, UserOf
    <2>3. MatchFacts(d)'
      BY <1>2, <1>11, <2>2 DEF MatchFacts, Before, UserKind
    <2> QED BY <1>4, <2>3
  <1> QED BY <1>1, <1>5, <1>6, <1>7, <1>8, <1>9, <1>10, <1>11 DEF Kind, DbKind

(* The bindings are as many as before when one of them is answered.        *)
LEMMA AnsweredExactly ==
  ASSUME Calm, NEW c \in calls, NEW d, Performed(c, d), c.kind = "bind",
         Verdict(c) # "failed", c.status # "failed"
  PROVE  ~Short => ~Short'
  <1>1. /\ calls' = (calls \ {c}) \cup {d} /\ d.kind = "bind" /\ d.key = c.key
        /\ d.status = Verdict(c) /\ IsFiniteSet(calls)
    BY PerformedFacts, CalmFacts
  <1> DEFINE rest == Alive \ {c}
  <1>2. c \in Alive /\ Alive' = rest \cup {d}
    BY <1>1 DEF Alive
  <1>3. d \notin rest
    BY <1>1 DEF Alive, Calm, MatchInv
  <1>4. IsFiniteSet(Alive) /\ Cardinality(Alive) \in Nat
    BY <1>1, AliveCount
  <1>5. IsFiniteSet(rest) /\ Cardinality(rest) = Cardinality(Alive) - 1
    BY <1>2, <1>4, FS_RemoveElement
  <1> HIDE DEF rest
  <1>6. Cardinality(Alive') = Cardinality(rest) + 1
    BY <1>2, <1>3, <1>5, FS_AddElement
  <1> QED BY <1>4, <1>5, <1>6 DEF Short, Performed, serviceVars

LEMMA BindingMatches ==
  ASSUME Calm, OneUser, NEW c \in calls, NEW d, Performed(c, d), c.kind = "bind"
  PROVE  MatchInv'
  <1>1. /\ calls' = (calls \ {c}) \cup {d} /\ d.req = c.req /\ d.kind = "bind"
        /\ d.status = Verdict(c) /\ c.status = "sent"
        /\ UserOf(d) = UserOf(c) /\ QueueOf(d) = QueueOf(c) /\ (Registers(d) <=> Registers(c))
        /\ queues' = queues /\ readPerm' = readPerm /\ password' = password /\ MatchFacts(c)
    BY PerformedFacts, CalmFacts DEF Performed
  <1>2. Verdict(c) # "failed"
    BY DEF Verdict
  <1>3. ~Short => ~Short'
    BY <1>1, <1>2, AnsweredExactly
  <1>4. /\ \A r : Matched(r)' <=> Matched(r)
        /\ \A e : Readable(e)' <=> Readable(e)
        /\ \A e : Registers(e)' <=> Registers(e)
    BY <1>1 DEF Matched, Readable, Registers, UserOf, QueueOf
  <1>5. ASSUME NEW e \in calls, RegisterMatch(e), NEW f \in calls', f.kind \in {"bind", "deleteQueue"},
               f.req = e.req, f.kind = e.kind
        PROVE  RegisterMatch(f)'
    <2>1. (Readable(f) <=> Readable(e)) /\ QueueOf(f) = QueueOf(e)
      BY <1>5 DEF Readable, QueueOf, UserOf
    <2>2. (\E o \in calls : o.kind = "deleteQueue" /\ o.status = "sent") =>
            \E o \in calls' : o.kind = "deleteQueue" /\ o.status = "sent"
      BY <1>1
    <2> QED BY <1>1, <1>3, <1>4, <1>5, <2>1, <2>2 DEF RegisterMatch, QueueOf
  <1>6. MatchFacts(d)'
    <2>1. Registers(d) => RegisterMatch(d)'
      BY <1>1, <1>5 DEF MatchFacts
    <2> QED BY <1>1, <1>2, <1>4, <2>1 DEF MatchFacts, Before, UserKind
  <1>7. ASSUME NEW e \in calls, e # c PROVE MatchFacts(e)'
    <2>1. (e.kind = "bind" \/ LaterRegister(e)) /\ MatchFacts(e) /\ e \in calls'
      BY <1>1, <1>7, CalmFacts
    <2>2. e.kind \in {"bind", "deleteQueue"} /\ (e.kind = "deleteQueue" => Registers(e))
      BY <2>1 DEF LaterRegister
    <2>3. Registers(e) => RegisterMatch(e)'
      BY <1>5, <2>1, <2>2 DEF MatchFacts
    <2> QED BY <1>4, <2>1, <2>2, <2>3 DEF MatchFacts, Before, UserKind
  <1> QED BY <1>6, <1>7, PerformedMatch

LEMMA RollbackPerformed ==
  ASSUME Calm, OneUser, NEW c \in calls, NEW d, Performed(c, d), c.kind = "deleteQueue",
         Registers(c)
  PROVE  MatchInv'
  <1>1. /\ calls' = (calls \ {c}) \cup {d} /\ d.req = c.req /\ d.kind = "deleteQueue"
        /\ d.status = Verdict(c) /\ UserOf(d) = UserOf(c) /\ QueueOf(d) = QueueOf(c) /\ Registers(d)
        /\ readPerm' = readPerm /\ LaterRegister(c) /\ Verdict(c) # "failed"
    BY PerformedFacts DEF LaterRegister, Verdict
  <1>2. QueueOf(c) \notin queues'
    BY DEF Performed, Execute
  <1>3. Short' <=> Short
    <2>1. Alive' = Alive
      BY <1>1 DEF Alive
    <2> QED BY <2>1 DEF Short, Performed, serviceVars
  <1>4. ASSUME NEW e \in calls
        PROVE  /\ Registers(e) /\ e.kind \in {"bind", "deleteQueue"} /\ e.status # "failed"
               /\ RegisterMatch(e) /\ QueueOf(e) = QueueOf(c) /\ e.req = c.req
    BY <1>1, CalmFacts DEF LaterRegister, MatchFacts, Registers
  <1>5. ASSUME NEW e \in calls PROVE RegisterMatch(e)'
    <2>1. QueueOf(e)' = QueueOf(c) /\ (Readable(e)' <=> Readable(e))
      BY <1>1, <1>4 DEF QueueOf, Readable, UserOf
    <2> QED BY <1>2, <1>3, <1>4, <2>1 DEF RegisterMatch
  <1>6. ASSUME NEW e \in calls PROVE MatchFacts(e)'
    BY <1>4, <1>5 DEF MatchFacts, Before, UserKind, Registers
  <1>7. MatchFacts(d)'
    <2>1. RegisterMatch(d)'
      BY <1>1, <1>2, <1>5 DEF RegisterMatch, Readable, QueueOf, UserOf
    <2> QED BY <1>1, <2>1 DEF MatchFacts, Before, UserKind, Registers
  <1> QED BY <1>6, <1>7, PerformedMatch

LEMMA BrokerMatches ==
  ASSUME Calm, OneUser, MaxFaults = 0, NEW c \in calls, Serve(c) \/ Fault(c),
         UNCHANGED serviceVars, ~Resets(c)
  PROVE  MatchInv'
  <1>1. TypeOK /\ Verdict(c) \in Status
    BY CalmFacts, VerdictType
  <1>2. ~Fault(c)
    BY <1>1 DEF Fault, TypeOK, BrokerTypeOK
  <1>3. PICK d : Performed(c, d)
    BY <1>1, <1>2, BrokerAnswers DEF Serve, Performed
  <1> QED BY <1>3, AloneMatches, BindingMatches, RollbackPerformed DEF LaterRegister

LEMMA MatchInvariant ==
  ASSUME MaxInFlight = 1, MaxFaults = 0, "unexpected" \notin FaultKinds, OneUser,
         \A r \in Request : Unmixed(r) /\ request[r].op # "reset",
         \A r \in Request : request[r].op = "register" => request[r].entities # {}
  PROVE  Spec => []MatchInv
  <1>1. Init => MatchInv
    BY RequestFields DEF Init, BrokerInit, MatchInv, Matched
  <1>2. Known /\ Known' /\ PermitInv /\ MatchInv /\ [Next]_vars => MatchInv'
    <2> SUFFICES ASSUME Known, Known', PermitInv, MatchInv, [Next]_vars PROVE MatchInv'
      OBVIOUS
    <2>1. Calm /\ AnswerInv'
      BY DEF Calm, Known
    <2>2. CASE Client
      BY <2>1, <2>2, ArriveMatches DEF Client, registerStreamingSubscription,
         appendStreamingSubscription, deleteStreamingSubscription, resetPassword
    <2>3. CASE Broker
      <3>1. \A c \in calls : ~Resets(c)
        BY <2>1, CalmFacts DEF Resets
      <3> QED BY <2>1, <2>3, <3>1, BrokerMatches DEF Broker
    <2>4. CASE Service
      BY <2>1, <2>4, CallbackMatches DEF Service
    <2>5. CASE UNCHANGED vars
      <3>1. /\ UNCHANGED brokerState /\ calls' = calls
            /\ totalBindCount' = totalBindCount /\ totalBindSuccess' = totalBindSuccess
        BY <2>5 DEF vars, brokerVars, serviceVars
      <3>2. (Short' <=> Short)
        BY <3>1 DEF Short, Alive
      <3>3. ASSUME NEW c \in calls PROVE MatchFacts(c)'
        <4>1. MatchFacts(c)
          BY DEF MatchInv
        <4>2. RegisterMatch(c) => RegisterMatch(c)'
          BY <3>1, <3>2, MatchStays DEF RegisterMatch, QueueOf
        <4>3. GrantMatch(c) => GrantMatch(c)'
          BY MatchStays, <3>1 DEF GrantMatch, Subscribes, UserOf, QueueOf
        <4> QED BY <3>1, <4>1, <4>2, <4>3, MatchStays DEF MatchFacts, UserOf, QueueOf
      <3> QED BY <3>1, <3>3, MatchStays DEF MatchInv, QueueOf
    <2> QED BY <2>2, <2>3, <2>4, <2>5 DEF Next
  <1>3. Spec => []Known
    <2>1. \A r \in Request : Unmixed(r)
      OBVIOUS
    <2>2. Spec => [](AnswerInv /\ HeadInv /\ KeyInv)
      BY <2>1, AnswerInvariant
    <2>3. AnswerInv /\ HeadInv /\ KeyInv => Known
      BY DEF Known
    <2> QED BY <2>2, <2>3, PTL
  <1>4. Spec => []PermitInv
    <2>1. \A r \in Request : request[r].op # "reset"
      OBVIOUS
    <2> QED BY <2>1, PermitInvariant
  <1> QED BY <1>1, <1>2, <1>3, <1>4, PTL DEF Spec

(* Requests handled one at a time, none of them a reset, and no call going *)
(* wrong: whenever nothing is under way, a user may read the queue of a    *)
(* registration exactly when it exists.  So a register that fails leaves   *)
(* neither, an append changes nothing of it, and a delete that was already *)
(* answered still takes the permission back.                               *)
THEOREM PermissionsAgree ==
  ASSUME MaxInFlight = 1, MaxFaults = 0, "unexpected" \notin FaultKinds, OneUser,
         \A r \in Request : Unmixed(r) /\ request[r].op # "reset",
         \A r \in Request : request[r].op = "register" => request[r].entities # {}
  PROVE  Spec => []PermissionsMatchQueues
  <1>1. MatchInv => PermissionsMatchQueues
    BY DEF MatchInv, PermissionsMatchQueues, Matched
  <1> QED BY <1>1, MatchInvariant, PTL
==============================================================================
