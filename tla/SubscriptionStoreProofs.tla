----------------------- MODULE SubscriptionStoreProofs -----------------------
(***************************************************************************)
(* Theorems about SubscriptionStore, for every set of requests, queues and *)
(* entities, any number of requests at a time and of faults of every kind. *)
(***************************************************************************)
EXTENDS SubscriptionStore, FiniteSetTheorems, TLAPS

Op(r) == request[r].op
QueueOf(r) == request[r].queue
Adds(r) == Op(r) \in {"create", "append"}

(* A request whose job goes on after the event bus gave up on it.          *)
Hurt(r) == stage[r] = "stuck" /\ \E f \in faults : f[2] = r

Shape(r) ==
  /\ stage[r] \in {"insert", "undo", "undoRow"} => Adds(r)
  /\ stage[r] \in {"lookup", "deleteRow"} => Op(r) = "delete"
  /\ stage[r] \in {"select", "update"} => Op(r) = "update"
  /\ stage[r] = "job" => Op(r) # "update"
  /\ Main(r) \in Busy => stage[r] = "job" \/ Hurt(r)
  /\ Compensation(r) \in Busy => stage[r] = "undo" \/ Hurt(r)

(* Requests for the queue have come one after the other.                   *)
OneAtATime(q) == \A r, o \in Asking(q) \cap InFlight : r = o

(* What a statement that succeeded has found or left.                      *)
Stored(r) ==
  reply[r] = "ok" =>
    /\ stage[r] = "insert" => row[Key(r)] # None /\ (Op(r) = "create" => row[Key(r)] = r)
    /\ stage[r] = "select" => row[Key(r)] # None
    /\ stage[r] = "update" => row[Key(r)] = r
    /\ stage[r] \in {"deleteRow", "undoRow"} => RowsOf(QueueOf(r)) = {}

(* The broker service has answered, or will, that the queue is there, or   *)
(* that it is gone.                                                        *)
Holds(r) ==
  /\ Adds(r)
  /\ \/ stage[r] = "insert"
     \/ stage[r] = "job" /\ work[Main(r)] \in {"done", "ok"}

Leaves(r) ==
  \/ stage[r] \in {"deleteRow", "undoRow"}
  \/ Op(r) = "delete" /\ stage[r] = "job" /\ work[Main(r)] \in {"done", "ok"}
  \/ stage[r] = "undo" /\ work[Compensation(r)] \in {"done", "ok"}

(* No job of another request is still under way.                           *)
Lone(r) == \A o \in Asking(QueueOf(r)) \ {r} : stage[o] # "stuck" \/ \A f \in faults : f[2] # o

Chain(r) ==
  Lone(r) => /\ Holds(r) => QueueOf(r) \in queues
             /\ Leaves(r) => QueueOf(r) \notin queues

Updates(r) == stage[r] = "update" => row[Key(r)] # None

Serial(q) ==
  OneAtATime(q) /\ \A r \in Asking(q) : Stored(r) /\ Updates(r) /\ Chain(r)

(* Nothing went wrong for the queue.                                       *)
Clean(q) == \A f \in faults : QueueOf(f[2]) # q

RowsKept(q) ==
  Clean(q) =>
    /\ q \notin queues /\ RowsOf(q) # {} => \E r \in Asking(q) : Leaves(r)
    /\ \A r \in Asking(q) :
         /\ Op(r) = "create" /\ stage[r] = "job" /\ work[Main(r)] = "done" => RowsOf(q) = {}
         /\ stage[r] \in {"deleteRow", "undoRow"} => reply[r] # "refused"

(* No call to RabbitMQ was lost, and every create was answered.            *)
Kept(q) ==
  /\ \A f \in faults : QueueOf(f[2]) = q => f[1] # "broker"
  /\ \A r \in Asking(q) : Op(r) = "create" => stage[r] # "stuck"

(* A create that has made the queue will insert a row, or undo it.         *)
Makes(r) ==
  /\ Op(r) = "create"
  /\ \/ Holds(r)
     \/ stage[r] = "undo" /\ work[Compensation(r)] = "asked"

QueueKept(q) ==
  Kept(q) =>
    /\ q \in queues /\ RowsOf(q) = {} => \E r \in Asking(q) : Makes(r)
    /\ \A r \in Asking(q) : Leaves(r) => q \notin queues

Inv ==
  /\ TypeOK
  /\ \A r \in Request : Shape(r)
  /\ \A q \in Queue \ met : Serial(q) /\ RowsKept(q) /\ QueueKept(q)
-----------------------------------------------------------------------------
(* Constants and types.                                                    *)

LEMMA Requests ==
  ASSUME NEW r \in Request
  PROVE  /\ Op(r) \in {"create", "append", "update", "delete"}
         /\ QueueOf(r) \in Queue /\ Key(r) \in Queue \X Entity /\ Key(r)[1] = QueueOf(r)
         /\ r \in Asking(QueueOf(r)) /\ r # None
  BY StoreAssumption DEF Op, QueueOf, Key, Asking

LEMMA Jobs ==
  ASSUME NEW r \in Request
  PROVE  /\ Main(r) \in Job /\ Compensation(r) \in Job
         /\ \A o \in Request : Main(r) # Compensation(o) /\ (Main(r) = Main(o) => r = o)
                               /\ (Compensation(r) = Compensation(o) => r = o)
         /\ job[Main(r)].queue = QueueOf(r) /\ job[Compensation(r)].queue = QueueOf(r)
         /\ job[Compensation(r)].op = "delete"
         /\ job[Main(r)].op = "register" <=> Op(r) = "create"
         /\ job[Main(r)].op = "append" <=> Op(r) = "append"
         /\ job[Main(r)].op = "delete" <=> Op(r) \in {"delete", "update"}
  <1>1. Main(r) \in Job /\ Compensation(r) \in Job
    BY StoreJobs DEF Main, Compensation
  <1>2. /\ job[Main(r)] = [op |-> JobOf(r), queue |-> request[r].queue]
        /\ job[Compensation(r)] = [op |-> "delete", queue |-> request[r].queue]
    BY <1>1, StoreJobs DEF Main, Compensation
  <1>3. \A o \in Request : /\ Main(r) # Compensation(o)
                           /\ Main(r) = Main(o) => r = o
                           /\ Compensation(r) = Compensation(o) => r = o
    BY DEF Main, Compensation
  <1> QED BY <1>1, <1>2, <1>3, Requests DEF JobOf, QueueOf, Op

LEMMA JobKinds ==
  ASSUME NEW j \in Job
  PROVE  \E r \in Request : r = j[1] /\ (j = Main(r) \/ j = Compensation(r))
  BY StoreJobs DEF Main, Compensation

-----------------------------------------------------------------------------
(* A callback or a client: a request ends, sends a statement or asks for a *)
(* job.                                                                    *)

Blamed(r) == \E f \in faults : f[2] = r

Ends(r) ==
  /\ stage'[r] \in {"ok", "fail", "stuck"} /\ UNCHANGED <<work, reply>>
  /\ stage[r] \in {"new"} \cup Waiting
  /\ stage[r] = "insert" => reply[r] = "ok" /\ stage'[r] = "ok"
  /\ stage[r] = "undo" => \/ work[Compensation(r)] = "fail" /\ stage'[r] = "fail"
                          \/ stage'[r] = "stuck" /\ Blamed(r)'
  /\ stage[r] = "job" => \/ work[Main(r)] = "fail"
                         \/ work[Main(r)] = "ok" /\ stage'[r] = "stuck" /\ Adds(r)
                         \/ stage'[r] = "stuck" /\ Blamed(r)'
  /\ stage'[r] = "ok" => stage[r] \in {"insert", "deleteRow", "update"}
  /\ stage[r] \in {"deleteRow", "update"} =>
       \/ reply[r] = "ok" /\ stage'[r] = "ok"
       \/ reply[r] = "refused" /\ stage'[r] = "fail"
  /\ stage[r] = "undoRow" => reply[r] \in {"ok", "refused"} /\ stage'[r] = "fail"
  /\ stage[r] \in {"lookup", "select", "new"} => stage'[r] \in {"fail", "stuck"}

Sends(r) ==
  /\ reply' = [reply EXCEPT ![r] = "sent"] /\ UNCHANGED work
  /\ \/ stage[r] = "new" /\ stage'[r] = "select" /\ Op(r) = "update"
     \/ stage[r] = "new" /\ stage'[r] = "lookup" /\ Op(r) = "delete"
     \/ stage[r] = "job" /\ stage'[r] = "deleteRow" /\ Op(r) = "delete" /\ work[Main(r)] = "ok"
     \/ stage[r] = "job" /\ stage'[r] = "insert" /\ Adds(r) /\ work[Main(r)] = "ok"
     \/ stage[r] = "undo" /\ stage'[r] = "undoRow" /\ work[Compensation(r)] = "ok"
     \/ stage[r] = "select" /\ stage'[r] = "update" /\ reply[r] = "ok"

Asks(r) ==
  /\ UNCHANGED reply
  /\ \/ /\ stage[r] = "new" /\ stage'[r] = "job" /\ Adds(r)
        /\ work[Main(r)] = "none" /\ work' = [work EXCEPT ![Main(r)] = "asked"]
     \/ /\ stage[r] = "lookup" /\ stage'[r] = "job"
        /\ work[Main(r)] = "none" /\ work' = [work EXCEPT ![Main(r)] = "asked"]
     \/ /\ stage[r] = "insert" /\ stage'[r] = "undo" /\ reply[r] = "refused"
        /\ work[Compensation(r)] = "none"
        /\ work' = [work EXCEPT ![Compensation(r)] = "asked"]

Turn(r) ==
  /\ UNCHANGED <<queues, row>>
  /\ stage' = [stage EXCEPT ![r] = stage'[r]]
  /\ faults \subseteq faults'
  /\ \A f \in faults' : f \in faults \/ (f[2] = r /\ f[1] # "broker")
  /\ Ends(r) \/ Sends(r) \/ Asks(r)

Meets(r) ==
  IF stage[r] = "new"
  THEN met' = IF Rivals(r) = {} THEN met ELSE met \cup {QueueOf(r)}
  ELSE UNCHANGED met

LEMMA Broken ==
  ASSUME NEW r \in Request, NEW kind, Break(kind, r)
  PROVE  /\ faults \subseteq faults' /\ Blamed(r)'
         /\ \A f \in faults' : f \in faults \/ (f[2] = r /\ f[1] = kind)
  <1>1. faults' = faults \cup {<<kind, r, stage[r]>>}
    BY DEF Break
  <1>2. <<kind, r, stage[r]>>[1] = kind /\ <<kind, r, stage[r]>>[2] = r
    OBVIOUS
  <1> QED BY <1>1, <1>2 DEF Blamed

LEMMA Tos ==
  ASSUME TypeOK, NEW r \in Request, NEW there, To(r, there)
  PROVE  stage' = [stage EXCEPT ![r] = stage'[r]] /\ stage'[r] = there
  BY DEF To, TypeOK

LEMMA EndTurn ==
  ASSUME TypeOK, NEW r \in Request, NEW there, End(r, there)
  PROVE  /\ UNCHANGED <<queues, work, row, reply>>
         /\ stage' = [stage EXCEPT ![r] = stage'[r]] /\ stage'[r] = there
  BY Tos DEF End, jobVars

LEMMA ExecuteTurn ==
  ASSUME TypeOK, NEW r \in Request, NEW there, Execute(r, there)
  PROVE  /\ UNCHANGED <<queues, work, row>>
         /\ reply' = [reply EXCEPT ![r] = "sent"]
         /\ stage' = [stage EXCEPT ![r] = stage'[r]] /\ stage'[r] = there
  BY Tos DEF Execute, Send, jobVars

LEMMA AskTurn ==
  ASSUME TypeOK, NEW r \in Request, NEW j, NEW there, CallBroker(r, j, there)
  PROVE  /\ UNCHANGED <<queues, row, reply>>
         /\ work[j] = "none" /\ work' = [work EXCEPT ![j] = "asked"]
         /\ stage' = [stage EXCEPT ![r] = stage'[r]] /\ stage'[r] = there
  BY Tos DEF CallBroker, Ask, Goto

LEMMA ClientTurn ==
  ASSUME TypeOK, NEW r \in Request, Client(r)
  PROVE  Turn(r) /\ Meets(r)
  <1>1. stage[r] = "new" /\ Meets(r)
    BY DEF Client, createOrAppendSubscription, ItemUnknown, updateSubscription,
           deleteSubscription, Arrive, Meets, QueueOf
  <1>2. CASE createOrAppendSubscription(r)
    <2>1. Adds(r) /\ CallBroker(r, Main(r), "job") /\ Sound
      BY <1>2 DEF createOrAppendSubscription, Arrive, Adds, Op
    <2> QED BY <1>1, <2>1, AskTurn DEF Turn, Asks, Sound
  <1>3. CASE ItemUnknown(r)
    <2>1. Break("miss", r)
      BY <1>3 DEF ItemUnknown
    <2>2. \E there \in {"fail", "stuck"} : End(r, there)
      BY <1>3 DEF ItemUnknown
    <2>3. /\ UNCHANGED <<queues, work, row, reply>> /\ stage'[r] \in {"fail", "stuck"}
          /\ stage' = [stage EXCEPT ![r] = stage'[r]]
      BY <2>2, EndTurn
    <2> QED BY <1>1, <2>1, <2>3, Broken DEF Turn, Ends
  <1>4. CASE updateSubscription(r)
    <2>1. Op(r) = "update" /\ Execute(r, "select") /\ Sound
      BY <1>4 DEF updateSubscription, Arrive, Op
    <2> QED BY <1>1, <2>1, ExecuteTurn DEF Turn, Sends, Sound
  <1>5. CASE deleteSubscription(r)
    <2>1. Op(r) = "delete" /\ Execute(r, "lookup") /\ Sound
      BY <1>5 DEF deleteSubscription, Arrive, Op
    <2> QED BY <1>1, <2>1, ExecuteTurn DEF Turn, Sends, Sound
  <1> QED BY <1>1, <1>2, <1>3, <1>4, <1>5 DEF Client

LEMMA BrokerCallbackTurn ==
  ASSUME TypeOK, NEW r \in Request, Shape(r),
         OnBrokerDone(r) \/ OnBrokerFailed(r) \/ OnCompensated(r) \/ BrokerTimesOut(r)
  PROVE  Turn(r) /\ stage[r] # "new"
  <1>1. CASE OnBrokerDone(r)
    <2>1. stage[r] = "job" /\ work[Main(r)] = "ok"
      BY <1>1 DEF OnBrokerDone, Told
    <2>2. CASE Op(r) = "delete"
      <3>1. Execute(r, "deleteRow") /\ Sound
        BY <1>1, <2>2 DEF OnBrokerDone, Op
      <3> QED BY <2>1, <2>2, <3>1, ExecuteTurn DEF Turn, Sends, Sound
    <2>3. CASE Op(r) # "delete"
      <3>1. Adds(r)
        BY <2>1, <2>3, Requests DEF Shape, Adds
      <3>2. CASE Execute(r, "insert") /\ Sound
        BY <2>1, <3>1, <3>2, ExecuteTurn DEF Turn, Sends, Sound
      <3>3. CASE End(r, "stuck") /\ (Sound \/ Break("miss", r))
        BY <2>1, <3>1, <3>3, EndTurn, Broken DEF Turn, Ends, Sound, Waiting
      <3> QED BY <1>1, <2>3, <3>2, <3>3 DEF OnBrokerDone, Op
    <2> QED BY <2>2, <2>3
  <1>2. CASE OnBrokerFailed(r)
    <2>1. stage[r] = "job" /\ work[Main(r)] = "fail" /\ Sound
      BY <1>2 DEF OnBrokerFailed, Told
    <2>2. End(r, "fail") \/ End(r, "stuck")
      BY <1>2 DEF OnBrokerFailed
    <2> QED BY <2>1, <2>2, EndTurn DEF Turn, Ends, Sound, Waiting
  <1>3. CASE OnCompensated(r)
    <2>1. stage[r] = "undo" /\ Sound
      BY <1>3, Jobs DEF OnCompensated, Told
    <2>2. CASE work[Compensation(r)] = "ok" /\ Execute(r, "undoRow")
      BY <2>1, <2>2, ExecuteTurn DEF Turn, Sends, Sound
    <2>3. CASE work[Compensation(r)] = "fail" /\ End(r, "fail")
      BY <2>1, <2>3, EndTurn DEF Turn, Ends, Sound, Waiting
    <2> QED BY <1>3, <2>2, <2>3 DEF OnCompensated, Told
  <1>4. CASE BrokerTimesOut(r)
    <2>1. stage[r] \in {"job", "undo"} /\ Break("timeout", r) /\ End(r, "stuck")
      BY <1>4 DEF BrokerTimesOut
    <2> QED BY <2>1, EndTurn, Broken DEF Turn, Ends, Waiting
  <1> QED BY <1>1, <1>2, <1>3, <1>4

LEMMA StatementCallbackTurn ==
  ASSUME TypeOK, NEW r \in Request, Shape(r),
         \/ OnInserted(r) \/ OnRowUndone(r) \/ OnRowDeleted(r)
         \/ OnLookedUp(r) \/ OnSelected(r) \/ OnUpdated(r)
  PROVE  Turn(r) /\ stage[r] # "new"
  <1>1. Sound
    BY DEF OnInserted, OnRowUndone, OnRowDeleted, OnLookedUp, OnSelected, OnUpdated
  <1>2. CASE OnInserted(r)
    <2>1. CASE reply[r] = "ok" /\ End(r, "ok")
      BY <1>1, <1>2, <2>1, EndTurn DEF OnInserted, Turn, Ends, Sound, Waiting
    <2>2. CASE reply[r] = "refused" /\ CallBroker(r, Compensation(r), "undo")
      BY <1>1, <1>2, <2>2, AskTurn DEF OnInserted, Turn, Asks, Sound
    <2> QED BY <1>2, <2>1, <2>2 DEF OnInserted
  <1>3. CASE OnRowUndone(r)
    BY <1>1, <1>3, EndTurn DEF OnRowUndone, Turn, Ends, Sound, Waiting
  <1>4. CASE OnRowDeleted(r) \/ OnUpdated(r)
    <2>1. /\ stage[r] \in {"deleteRow", "update"} /\ reply[r] \in {"ok", "refused"}
          /\ End(r, IF reply[r] = "ok" THEN "ok" ELSE "fail")
      BY <1>4 DEF OnRowDeleted, OnUpdated
    <2> QED BY <1>1, <2>1, EndTurn DEF Turn, Ends, Sound, Waiting
  <1>5. CASE OnLookedUp(r)
    <2>1. stage[r] = "lookup"
      BY <1>5 DEF OnLookedUp
    <2>2. CASE CallBroker(r, Main(r), "job")
      BY <1>1, <2>1, <2>2, AskTurn DEF Turn, Asks, Sound
    <2>3. CASE End(r, "fail") \/ End(r, "stuck")
      BY <1>1, <2>1, <2>3, EndTurn DEF Turn, Ends, Sound, Waiting
    <2> QED BY <1>5, <2>2, <2>3 DEF OnLookedUp
  <1>6. CASE OnSelected(r)
    <2>1. CASE reply[r] = "ok" /\ Execute(r, "update")
      BY <1>1, <1>6, <2>1, ExecuteTurn DEF OnSelected, Turn, Sends, Sound
    <2>2. CASE End(r, "fail")
      BY <1>1, <1>6, <2>2, EndTurn DEF OnSelected, Turn, Ends, Sound, Waiting
    <2> QED BY <1>6, <2>1, <2>2 DEF OnSelected
  <1> QED BY <1>2, <1>3, <1>4, <1>5, <1>6

-----------------------------------------------------------------------------
(* The database performs a statement, or says that it did not.             *)

Ran(r) ==
  /\ reply[r] = "sent" /\ stage[r] \in Statement
  /\ UNCHANGED <<queues, work, stage, met>>
  /\ reply' = [reply EXCEPT ![r] = reply'[r]] /\ reply'[r] \in {"ok", "empty", "refused"}
  /\ faults \subseteq faults'
  /\ \A f \in faults' : f \in faults \/ (f[2] = r /\ f[1] # "broker")
  /\ UNCHANGED row \/ Write(r)
  /\ reply'[r] # "refused" => Write(r) /\ reply'[r] = Verdict(r)
  /\ reply'[r] = "refused" => stage[r] = "insert" \/ Blamed(r)'

LEMMA VerdictTypes ==
  ASSUME NEW r \in Request
  PROVE  /\ Verdict(r) \in {"ok", "empty", "refused"}
         /\ Verdict(r) = "refused" => stage[r] = "insert"
         /\ Verdict(r) = "ok" /\ stage[r] = "insert" => Inserts(r) \/ Op(r) # "create"
         /\ Verdict(r) = "ok" /\ stage[r] = "select" => row[Key(r)] # None
  BY DEF Verdict, Op

LEMMA StatementRuns ==
  ASSUME TypeOK, NEW r \in Request, executeQuery(r) \/ QueryFails(r), UNCHANGED met
  PROVE  Ran(r)
  <1>1. reply[r] = "sent" /\ stage[r] \in Statement
    BY DEF executeQuery, QueryFails, Answer, TypeOK
  <1>2. CASE executeQuery(r)
    <2>1. Answer(r, Verdict(r)) /\ Write(r) /\ Sound
      BY <1>2 DEF executeQuery
    <2>2. /\ reply' = [reply EXCEPT ![r] = Verdict(r)]
          /\ UNCHANGED <<queues, work, stage, faults>>
      BY <2>1 DEF Answer, jobVars, Sound
    <2>3. reply'[r] = Verdict(r)
      BY <2>2 DEF TypeOK
    <2> QED BY <1>1, <2>1, <2>2, <2>3, VerdictTypes DEF Ran
  <1>3. CASE QueryFails(r)
    <2>1. /\ reply' = [reply EXCEPT ![r] = "refused"]
          /\ UNCHANGED <<queues, work, stage>>
      BY <1>3 DEF QueryFails, Answer, jobVars
    <2>2. reply'[r] = "refused"
      BY <2>1 DEF TypeOK
    <2>3. /\ \E kind \in {"refused", "replyLost"} : Break(kind, r)
          /\ UNCHANGED row \/ Write(r)
      BY <1>3 DEF QueryFails
    <2>4. /\ faults \subseteq faults' /\ Blamed(r)'
          /\ \A f \in faults' : f \in faults \/ (f[2] = r /\ f[1] # "broker")
      BY <2>3, Broken
    <2> QED BY <1>1, <2>1, <2>2, <2>3, <2>4 DEF Ran
  <1> QED BY <1>2, <1>3

(* A statement writes the row of its key, or takes those of its queue.     *)
LEMMA Writes ==
  ASSUME TypeOK, NEW r \in Request, Write(r)
  PROVE  /\ row' \in [Queue \X Entity -> Request \cup {None}]
         /\ \A k \in Queue \X Entity : row'[k] # row[k] =>
              \/ k = Key(r) /\ row'[k] = r /\ (Inserts(r) \/ (stage[r] = "update" /\ row[k] # None))
              \/ k[1] = QueueOf(r) /\ Deletes(r) /\ row'[k] = None
         /\ Inserts(r) \/ (stage[r] = "update" /\ row[Key(r)] # None) => row'[Key(r)] = r
         /\ Deletes(r) => \A k \in Queue \X Entity : k[1] = QueueOf(r) => row'[k] = None
  <1>1. Key(r) \in Queue \X Entity
    BY Requests
  <1>2. \A k \in Queue \X Entity :
          row'[k] = CASE k = Key(r) /\ Inserts(r) -> r
                      [] k = Key(r) /\ stage[r] = "update" /\ row[k] # None -> r
                      [] k[1] = request[r].queue /\ Deletes(r) -> None
                      [] OTHER -> row[k]
    BY DEF Write
  <1>3. Deletes(r) => ~Inserts(r) /\ stage[r] # "update"
    BY DEF Deletes, Inserts
  <1>4. \A k \in Queue \X Entity :
          /\ row'[k] # row[k] =>
               \/ /\ k = Key(r) /\ row'[k] = r
                  /\ Inserts(r) \/ (stage[r] = "update" /\ row[k] # None)
               \/ k[1] = QueueOf(r) /\ Deletes(r) /\ row'[k] = None
          /\ row'[k] \in Request \cup {None}
    BY <1>2 DEF QueueOf, TypeOK
  <1>5. Inserts(r) \/ (stage[r] = "update" /\ row[Key(r)] # None) => row'[Key(r)] = r
    <2>1. CASE Inserts(r)
      BY <1>1, <1>2, <2>1 DEF Inserts, Deletes
    <2>2. CASE stage[r] = "update" /\ row[Key(r)] # None
      BY <1>1, <1>2, <2>2 DEF Inserts, Deletes
    <2> QED BY <2>1, <2>2
  <1>6. Deletes(r) => \A k \in Queue \X Entity : k[1] = QueueOf(r) => row'[k] = None
    BY <1>2, <1>3 DEF QueueOf
  <1>7. row' \in [Queue \X Entity -> Request \cup {None}]
    BY <1>4 DEF Write
  <1> QED BY <1>4, <1>5, <1>6, <1>7

-----------------------------------------------------------------------------
(* A job of the broker service goes on.                                    *)

Worked(j) ==
  /\ j \in Busy /\ UNCHANGED <<row, stage, reply, met>>
  /\ work' = [work EXCEPT ![j] = work'[j]] /\ work'[j] \in Progress \ {"none", "asked"}
  /\ faults \subseteq faults' /\ \A f \in faults' : f \in faults \/ f[2] = j[1]
  /\ \/ UNCHANGED queues
     \/ job[j].op = "register" /\ queues' = queues \cup {job[j].queue}
     \/ queues' = queues \ {job[j].queue}
  /\ work'[j] = "done" =>
       /\ work[j] = "asked"
       /\ job[j].op \in {"register", "append"} => job[j].queue \in queues'
       /\ job[j].op = "register" => job[j].queue \notin queues
       /\ job[j].op = "delete" => queues' = queues \ {job[j].queue}
  /\ work'[j] = "ok" => work[j] = "done" /\ UNCHANGED queues

(* What is more when no call was lost.                                     *)
WorkedWell(j) ==
  /\ UNCHANGED faults
  /\ work[j] = "done" => work'[j] = "ok" \/ (work'[j] = "failing" /\ job[j].op # "delete")
  /\ job[j].queue \in queues' => job[j].queue \in queues \/ work'[j] = "done"
  /\ job[j].queue \in queues /\ job[j].queue \notin queues' =>
       \/ job[j].op = "delete" /\ work[j] = "asked" /\ work'[j] = "done"
       \/ job[j].op = "register" /\ work[j] = "done"
  /\ job[j].op = "register" /\ work[j] = "done" /\ work'[j] = "failing" =>
       job[j].queue \notin queues'
  /\ job[j].op = "delete" /\ work[j] = "asked" /\ work'[j] # "done" =>
       job[j].queue \notin queues'

LEMMA Effects ==
  ASSUME TypeOK, NEW j \in Job, Effect(j)
  PROVE  \/ /\ job[j].op = "register" /\ job[j].queue \notin queues
            /\ queues' = queues \cup {job[j].queue}
         \/ job[j].op = "append" /\ job[j].queue \in queues /\ UNCHANGED queues
         \/ job[j].op = "delete" /\ queues' = queues \ {job[j].queue}
  BY DEF Effect

LEMMA GotoMoves ==
  ASSUME TypeOK, NEW j \in Job, NEW from, NEW to, Goto(j, from, to)
  PROVE  work[j] = from /\ work' = [work EXCEPT ![j] = work'[j]] /\ work'[j] = to
  BY DEF Goto, TypeOK, JobTypeOK

LEMMA JobWorks ==
  ASSUME TypeOK, NEW j \in Job, j \in Busy, JobStep(j), UNCHANGED storeVars
  PROVE  Worked(j) /\ WorkedWell(j)
  <1>1. UNCHANGED <<row, stage, reply, faults, met>>
    BY DEF storeVars
  <1>2. CASE Perform(j)
    <2>1. /\ work[j] = "asked" /\ work' = [work EXCEPT ![j] = work'[j]] /\ work'[j] = "done"
      BY <1>2, GotoMoves DEF Perform
    <2> QED BY <1>1, <1>2, <2>1, Effects DEF Perform, Worked, WorkedWell, Progress
  <1>3. CASE Undo(j)
    <2>1. /\ work[j] = "done" /\ work' = [work EXCEPT ![j] = work'[j]] /\ work'[j] = "failing"
      BY <1>3, GotoMoves DEF Undo
    <2> QED BY <1>1, <1>3, <2>1 DEF Undo, Worked, WorkedWell, Progress
  <1>4. CASE Refuse(j)
    <2>1. /\ work[j] = "asked" /\ work' = [work EXCEPT ![j] = work'[j]] /\ work'[j] = "failing"
      BY <1>4, GotoMoves DEF Refuse
    <2> QED BY <1>1, <1>4, <2>1 DEF Refuse, Worked, WorkedWell, Progress
  <1>5. CASE Reply(j)
    <2>1. /\ work' = [work EXCEPT ![j] = work'[j]]
          /\ \/ work[j] = "done" /\ work'[j] = "ok"
             \/ work[j] = "failing" /\ work'[j] = "fail"
      BY <1>5, GotoMoves DEF Reply
    <2> QED BY <1>1, <1>5, <2>1 DEF Reply, Worked, WorkedWell, Progress
  <1> QED BY <1>2, <1>3, <1>4, <1>5 DEF JobStep

LEMMA JobLoses ==
  ASSUME TypeOK, NEW j \in Job, j \in Busy, Break("broker", j[1]), Lose(j),
         UNCHANGED <<row, stage, reply, met>>
  PROVE  /\ Worked(j) /\ work'[j] \in {"failing", "hung"}
         /\ \E f \in faults' : f[1] = "broker" /\ f[2] = j[1]
  <1>1. /\ faults \subseteq faults' /\ \A f \in faults' : f \in faults \/ f[2] = j[1]
        /\ \E f \in faults' : f[1] = "broker" /\ f[2] = j[1]
    <2>1. faults' = faults \cup {<<"broker", j[1], stage[j[1]]>>}
      BY DEF Break
    <2>2. /\ <<"broker", j[1], stage[j[1]]>>[1] = "broker"
          /\ <<"broker", j[1], stage[j[1]]>>[2] = j[1]
      OBVIOUS
    <2> QED BY <2>1, <2>2
  <1>2. /\ work' = [work EXCEPT ![j] = work'[j]] /\ work'[j] \in {"failing", "hung"}
        /\ \/ UNCHANGED queues
           \/ job[j].op = "register" /\ queues' = queues \cup {job[j].queue}
           \/ queues' = queues \ {job[j].queue}
    <2>1. CASE Goto(j, "asked", "failing") /\ Effect(j)
      BY <2>1, GotoMoves, Effects
    <2>2. CASE Goto(j, "done", "failing") /\ queues' = queues \ {job[j].queue}
      BY <2>2, GotoMoves
    <2>3. CASE (Goto(j, "asked", "failing") \/ Goto(j, "done", "failing")) /\ UNCHANGED queues
      BY <2>3, GotoMoves
    <2>4. CASE Goto(j, work[j], "hung") /\ UNCHANGED queues
      BY <2>4, GotoMoves
    <2> QED BY <2>1, <2>2, <2>3, <2>4 DEF Lose
  <1> QED BY <1>1, <1>2 DEF Worked, Progress

LEMMA NotSent ==
  ASSUME TypeOK, NEW r \in Request, Client(r) \/ Callback(r) \/ BrokerTimesOut(r)
  PROVE  reply[r] # "sent"
  <1>1. CASE stage[r] \in {"new", "job", "undo"}
    BY <1>1 DEF TypeOK, Statement
  <1>2. CASE stage[r] \notin {"new", "job", "undo"}
    BY <1>2, Jobs DEF Client, createOrAppendSubscription, ItemUnknown, updateSubscription,
       deleteSubscription, Arrive, Callback, OnBrokerDone, OnBrokerFailed, OnInserted,
       OnCompensated, OnRowUndone, OnRowDeleted, OnLookedUp, OnSelected, OnUpdated, Told,
       BrokerTimesOut
  <1> QED BY <1>1, <1>2

(* Every step is one of these.                                             *)
LEMMA Steps ==
  ASSUME TypeOK, \A r \in Request : Shape(r), [Next]_vars
  PROVE  \/ UNCHANGED vars
         \/ \E r \in Request : Turn(r) /\ Meets(r) /\ reply[r] # "sent"
         \/ \E r \in Request : Ran(r)
         \/ \E j \in Job : /\ Worked(j)
                           /\ \/ WorkedWell(j)
                              \/ \E f \in faults' : f[1] = "broker" /\ f[2] = j[1]
  <1>1. CASE BrokerStep
    <2>1. PICK j \in Busy : JobStep(j) /\ UNCHANGED storeVars
      BY <1>1 DEF BrokerStep
    <2>2. j \in Job
      BY DEF Busy
    <2> QED BY <2>1, <2>2, JobWorks
  <1>2. CASE BrokerFault
    <2>1. PICK j \in Busy :
            Break("broker", j[1]) /\ Lose(j) /\ UNCHANGED <<row, stage, reply, met>>
      BY <1>2 DEF BrokerFault
    <2>2. j \in Job
      BY DEF Busy
    <2> QED BY <2>1, <2>2, JobLoses
  <1>3. ASSUME NEW r \in Request, Client(r) PROVE Turn(r) /\ Meets(r) /\ reply[r] # "sent"
    BY <1>3, ClientTurn, NotSent
  <1>4. ASSUME NEW r \in Request, Callback(r) \/ BrokerTimesOut(r), UNCHANGED met
        PROVE  Turn(r) /\ Meets(r) /\ reply[r] # "sent"
    BY <1>4, BrokerCallbackTurn, StatementCallbackTurn, NotSent DEF Callback, Meets
  <1>5. ASSUME NEW r \in Request, executeQuery(r) \/ QueryFails(r), UNCHANGED met
        PROVE  Ran(r)
    BY <1>5, StatementRuns
  <1> QED BY <1>1, <1>2, <1>3, <1>4, <1>5 DEF Next, Work

-----------------------------------------------------------------------------
(* Types and the shape of a chain.                                         *)

LEMMA FaultTypes ==
  ASSUME TypeOK, [Next]_vars
  PROVE  faults' \subseteq FaultKinds \X Request \X Stage
  <1>1. ASSUME NEW r \in Request, NEW kind, Break(kind, r)
        PROVE  faults' \subseteq FaultKinds \X Request \X Stage
    <2>1. faults' = faults \cup {<<kind, r, stage[r]>>} /\ kind \in FaultKinds
      BY <1>1 DEF Break
    <2> QED BY <2>1 DEF TypeOK
  <1>2. CASE UNCHANGED faults
    BY <1>2 DEF TypeOK
  <1>3. CASE BrokerFault
    <2>1. PICK j \in Busy : Break("broker", j[1])
      BY <1>3 DEF BrokerFault
    <2>2. j[1] \in Request
      BY JobKinds DEF Busy
    <2> QED BY <1>1, <2>1, <2>2
  <1>4. ASSUME NEW r \in Request, Client(r) \/ Callback(r)
        PROVE  UNCHANGED faults \/ Break("miss", r)
    <2>1. Client(r) => UNCHANGED faults \/ Break("miss", r)
      BY DEF Client, createOrAppendSubscription, ItemUnknown, updateSubscription,
             deleteSubscription, Sound
    <2>2. OnBrokerDone(r) => UNCHANGED faults \/ Break("miss", r)
      BY DEF OnBrokerDone, Sound
    <2>3. Callback(r) /\ ~OnBrokerDone(r) => UNCHANGED faults
      BY DEF Callback, OnBrokerFailed, OnInserted, OnCompensated, OnRowUndone, OnRowDeleted,
             OnLookedUp, OnSelected, OnUpdated, Sound
    <2> QED BY <1>4, <2>1, <2>2, <2>3
  <1>5. ASSUME NEW r \in Request, QueryFails(r) \/ BrokerTimesOut(r)
        PROVE  \E kind : Break(kind, r)
    BY <1>5 DEF QueryFails, BrokerTimesOut
  <1>6. ASSUME NEW r \in Request, executeQuery(r) PROVE UNCHANGED faults
    BY <1>6 DEF executeQuery, Sound
  <1>7. BrokerStep \/ UNCHANGED vars => UNCHANGED faults
    BY DEF BrokerStep, storeVars, vars
  <1> QED BY <1>1, <1>2, <1>3, <1>4, <1>5, <1>6, <1>7 DEF Next, Work

LEMMA Frame ==
  ASSUME TypeOK, NEW r \in Request, Turn(r)
  PROVE  /\ \A o \in Request \ {r} :
              /\ stage'[o] = stage[o] /\ reply'[o] = reply[o]
              /\ work'[Main(o)] = work[Main(o)] /\ work'[Compensation(o)] = work[Compensation(o)]
         /\ Asks(r) =>
              \/ /\ stage'[r] = "job" /\ work'[Main(r)] = "asked"
                 /\ work'[Compensation(r)] = work[Compensation(r)]
              \/ /\ stage'[r] = "undo" /\ work'[Compensation(r)] = "asked"
                 /\ work'[Main(r)] = work[Main(r)]
         /\ Sends(r) => reply'[r] = "sent"
         /\ stage'[r] \in Stage /\ work' \in [Job -> Progress]
         /\ reply' \in [Request -> {"none", "sent", "ok", "empty", "refused"}]
  <1>1. \A o \in Request : Main(o) \in Job /\ Compensation(o) \in Job
    BY Jobs
  <1>2. \A o \in Request \ {r} : stage'[o] = stage[o]
    BY DEF Turn, TypeOK
  <1>3. stage'[r] \in Stage
    BY DEF Turn, Ends, Sends, Asks, Stage, Waiting
  <1>4. /\ \A o \in Request \ {r} : reply'[o] = reply[o]
        /\ Sends(r) => reply'[r] = "sent"
        /\ reply' \in [Request -> {"none", "sent", "ok", "empty", "refused"}]
    BY DEF Turn, Ends, Sends, Asks, TypeOK
  <1>5. CASE Ends(r) \/ Sends(r)
    <2>1. UNCHANGED work /\ ~Asks(r)
      BY <1>5 DEF Ends, Sends, Asks
    <2> QED BY <1>2, <1>3, <1>4, <2>1 DEF TypeOK, JobTypeOK
  <1>6. CASE Asks(r) /\ stage'[r] = "job"
    <2>1. work' = [work EXCEPT ![Main(r)] = "asked"] /\ Main(r) \in Job
      BY <1>1, <1>6 DEF Asks
    <2>2. /\ work' \in [Job -> Progress] /\ work'[Main(r)] = "asked"
          /\ \A i \in Job : i # Main(r) => work'[i] = work[i]
      BY <2>1 DEF TypeOK, JobTypeOK, Progress
    <2> QED BY <1>1, <1>2, <1>3, <1>4, <1>6, <2>2, Jobs
  <1>7. CASE Asks(r) /\ stage'[r] = "undo"
    <2>1. work' = [work EXCEPT ![Compensation(r)] = "asked"] /\ Compensation(r) \in Job
      BY <1>1, <1>7 DEF Asks
    <2>2. /\ work' \in [Job -> Progress] /\ work'[Compensation(r)] = "asked"
          /\ \A i \in Job : i # Compensation(r) => work'[i] = work[i]
      BY <2>1 DEF TypeOK, JobTypeOK, Progress
    <2> QED BY <1>1, <1>2, <1>3, <1>4, <1>7, <2>2, Jobs
  <1> QED BY <1>5, <1>6, <1>7 DEF Turn, Asks

LEMMA TypeStep ==
  ASSUME TypeOK, \A r \in Request : Shape(r), [Next]_vars
  PROVE  TypeOK'
  <1>1. faults' \subseteq FaultKinds \X Request \X Stage
    BY FaultTypes
  <1>2. CASE UNCHANGED vars
    BY <1>2 DEF vars, jobVars, storeVars, TypeOK, JobTypeOK
  <1>3. ASSUME NEW r \in Request, Turn(r), Meets(r), reply[r] # "sent" PROVE TypeOK'
    <2>1. met' \subseteq Queue
      BY <1>3, Requests DEF Meets, TypeOK
    <2>2. stage' \in [Request -> Stage]
      BY <1>3, Frame DEF Turn, TypeOK
    <2>3. /\ work' \in [Job -> Progress]
          /\ reply' \in [Request -> {"none", "sent", "ok", "empty", "refused"}]
      BY <1>3, Frame
    <2>4. \A o \in Request : reply'[o] = "sent" => stage'[o] \in Statement
      <3>1. \A o \in Request \ {r} : reply'[o] = "sent" => stage'[o] \in Statement
        BY <1>3, Frame DEF TypeOK
      <3>2. reply'[r] = "sent" => stage'[r] \in Statement
        BY <1>3 DEF Turn, Ends, Sends, Asks, Statement
      <3> QED BY <3>1, <3>2
    <2> QED BY <1>1, <1>3, <2>1, <2>2, <2>3, <2>4 DEF Turn, TypeOK, JobTypeOK
  <1>4. ASSUME NEW r \in Request, Ran(r) PROVE TypeOK'
    <2>1. row' \in [Queue \X Entity -> Request \cup {None}]
      BY <1>4, Writes DEF Ran, TypeOK
    <2>2. /\ reply' \in [Request -> {"none", "sent", "ok", "empty", "refused"}]
          /\ \A o \in Request : reply'[o] = "sent" => stage'[o] \in Statement
      BY <1>4 DEF Ran, TypeOK
    <2> QED BY <1>1, <1>4, <2>1, <2>2 DEF Ran, TypeOK, JobTypeOK
  <1>5. ASSUME NEW j \in Job, Worked(j) PROVE TypeOK'
    <2>1. work' \in [Job -> Progress] /\ queues' \subseteq {job[i].queue : i \in Job}
      BY <1>5 DEF Worked, TypeOK, JobTypeOK
    <2> QED BY <1>1, <1>5, <2>1 DEF Worked, TypeOK, JobTypeOK
  <1> QED BY <1>2, <1>3, <1>4, <1>5, Steps

(* What a job that goes on is to its request, and leaves to the others.    *)
LEMMA JobFrame ==
  ASSUME TypeOK, NEW j \in Job, Worked(j)
  PROVE  \E r \in Request :
           /\ r = j[1] /\ QueueOf(r) = job[j].queue
           /\ \/ j = Main(r) /\ work'[Compensation(r)] = work[Compensation(r)]
              \/ j = Compensation(r) /\ work'[Main(r)] = work[Main(r)]
           /\ \A o \in Request \ {r} : /\ work'[Main(o)] = work[Main(o)]
                                       /\ work'[Compensation(o)] = work[Compensation(o)]
  <1>1. PICK r \in Request : r = j[1] /\ (j = Main(r) \/ j = Compensation(r))
    BY JobKinds
  <1>2. \A i \in Job \ {j} : work'[i] = work[i]
    BY DEF Worked, TypeOK, JobTypeOK
  <1> QED BY <1>1, <1>2, Jobs

LEMMA ShapeStep ==
  ASSUME TypeOK, \A r \in Request : Shape(r), [Next]_vars, NEW o \in Request
  PROVE  Shape(o)'
  <1>1. CASE UNCHANGED vars
    BY <1>1 DEF vars, jobVars, storeVars, Shape, Busy, Hurt
  <1>2. ASSUME NEW r \in Request, Turn(r), reply[r] # "sent" PROVE Shape(o)'
    <2>1. Main(o) \in Job /\ Compensation(o) \in Job
      BY Jobs
    <2>2. CASE o # r
      <3>1. /\ stage'[o] = stage[o] /\ work'[Main(o)] = work[Main(o)]
            /\ work'[Compensation(o)] = work[Compensation(o)]
        BY <1>2, <2>2, Frame
      <3>2. faults \subseteq faults'
        BY <1>2 DEF Turn
      <3> QED BY <2>1, <3>1, <3>2 DEF Shape, Hurt, Busy, Adds
    <2>3. CASE o = r /\ Ends(r)
      <3>1. /\ Main(r) \in Busy => stage'[r] = "stuck" /\ Blamed(r)'
            /\ Compensation(r) \in Busy => stage'[r] = "stuck" /\ Blamed(r)'
        BY <2>3 DEF Ends, Shape, Hurt, Busy, Waiting
      <3>2. Busy' = Busy /\ stage'[r] \in {"ok", "fail", "stuck"}
        BY <2>3 DEF Ends, Busy
      <3> QED BY <2>3, <3>1, <3>2 DEF Shape, Hurt, Blamed
    <2>4. CASE o = r /\ Sends(r)
      BY <1>2, <2>1, <2>4 DEF Turn, Sends, Shape, Hurt, Busy, Adds
    <2>5. CASE o = r /\ Asks(r)
      BY <1>2, <2>1, <2>5, Frame DEF Turn, Asks, Shape, Hurt, Busy, Adds
    <2> QED BY <1>2, <2>2, <2>3, <2>4, <2>5 DEF Turn
  <1>3. ASSUME NEW r \in Request, Ran(r) PROVE Shape(o)'
    BY <1>3 DEF Ran, Shape, Hurt, Busy
  <1>4. ASSUME NEW j \in Job, Worked(j) PROVE Shape(o)'
    <2>1. Main(o) \in Job /\ Compensation(o) \in Job
      BY Jobs
    <2>2. \A i \in Job : i \in Busy' => i \in Busy
      BY <1>4 DEF Worked, Busy, TypeOK, JobTypeOK
    <2> QED BY <1>4, <2>1, <2>2 DEF Worked, Shape, Hurt
  <1> QED BY <1>1, <1>2, <1>3, <1>4, Steps

-----------------------------------------------------------------------------
(* What happens to a queue of which no requests overlapped.                *)

LEMMA Waits ==
  ASSUME NEW r \in Request, Holds(r) \/ Leaves(r)
  PROVE  r \in InFlight
  BY DEF Holds, Leaves, InFlight, Waiting

LEMMA Turns ==
  ASSUME TypeOK, NEW r \in Request, Turn(r), NEW o \in Request
  PROVE  /\ Holds(o)' => Holds(o)
         /\ Leaves(o)' => Leaves(o)
         /\ o # r => (Holds(o)' <=> Holds(o)) /\ (Leaves(o)' <=> Leaves(o))
         /\ stage'[o] = "stuck" => stage[o] = "stuck" \/ (o = r /\ Ends(r))
         /\ stage[o] = "stuck" => stage'[o] = "stuck"
  <1>1. CASE o # r
    BY <1>1, Frame DEF Holds, Leaves, Adds
  <1>2. CASE o = r /\ Ends(r)
    BY <1>2 DEF Ends, Holds, Leaves, Waiting
  <1>3. CASE o = r /\ Sends(r)
    BY <1>3 DEF Sends, Holds, Leaves
  <1>4. CASE o = r /\ Asks(r)
    <2>1. stage'[r] \in {"job", "undo"} /\ stage[r] # "stuck"
      BY <1>4 DEF Asks
    <2>2. CASE stage'[r] = "job"
      BY <1>4, <2>1, <2>2, Frame DEF Holds, Leaves
    <2>3. CASE stage'[r] = "undo"
      BY <1>4, <2>1, <2>3, Frame DEF Holds, Leaves
    <2> QED BY <1>4, <2>1, <2>2, <2>3
  <1> QED BY <1>1, <1>2, <1>3, <1>4 DEF Turn

LEMMA Runs ==
  ASSUME NEW r \in Request, Ran(r), NEW o \in Request
  PROVE  /\ Holds(o)' <=> Holds(o)
         /\ Leaves(o)' <=> Leaves(o)
         /\ stage'[o] = stage[o]
  BY DEF Ran, Holds, Leaves, Adds

LEMMA Works ==
  ASSUME TypeOK, NEW j \in Job, Worked(j), NEW r \in Request, r = j[1], Shape(r)
  PROVE  /\ \A p : p # QueueOf(r) => (p \in queues' <=> p \in queues)
         /\ \A o \in Request \ {r} : (Holds(o)' <=> Holds(o)) /\ (Leaves(o)' <=> Leaves(o))
         /\ Holds(r)' => QueueOf(r) \in queues' \/ (Holds(r) /\ UNCHANGED queues)
         /\ Leaves(r)' => QueueOf(r) \notin queues' \/ (Leaves(r) /\ UNCHANGED queues)
         /\ stage[r] \in {"job", "undo"} \/ Hurt(r)
         /\ \/ j = Main(r) /\ (stage[r] = "job" \/ Hurt(r))
            \/ j = Compensation(r) /\ (stage[r] = "undo" \/ Hurt(r))
  <1>1. /\ QueueOf(r) = job[j].queue
        /\ \/ j = Main(r) /\ work'[Compensation(r)] = work[Compensation(r)]
           \/ j = Compensation(r) /\ work'[Main(r)] = work[Main(r)]
        /\ \A o \in Request \ {r} : /\ work'[Main(o)] = work[Main(o)]
                                    /\ work'[Compensation(o)] = work[Compensation(o)]
    BY JobFrame
  <1>2. \A p : p # QueueOf(r) => (p \in queues' <=> p \in queues)
    BY <1>1 DEF Worked
  <1>3. \A o \in Request \ {r} : (Holds(o)' <=> Holds(o)) /\ (Leaves(o)' <=> Leaves(o))
    BY <1>1 DEF Worked, Holds, Leaves, Adds
  <1>4. \/ j = Main(r) /\ (stage[r] = "job" \/ Hurt(r))
        \/ j = Compensation(r) /\ (stage[r] = "undo" \/ Hurt(r))
    BY <1>1 DEF Worked, Shape
  <1>5. stage[r] \in {"job", "undo", "stuck"} /\ stage'[r] = stage[r]
    BY <1>4 DEF Hurt, Worked
  <1>6. CASE j = Main(r)
    <2>1. Holds(r)' => QueueOf(r) \in queues' \/ (Holds(r) /\ UNCHANGED queues)
      <3>1. Adds(r) => job[j].op \in {"register", "append"}
        BY <1>6, Jobs DEF Adds
      <3> QED BY <1>1, <1>5, <1>6, <3>1 DEF Holds, Worked, Adds
    <2>2. Leaves(r)' => QueueOf(r) \notin queues' \/ (Leaves(r) /\ UNCHANGED queues)
      <3>1. Op(r) = "delete" => job[j].op = "delete"
        BY <1>6, Jobs
      <3>2. stage[r] = "undo" => FALSE
        BY <1>4, <1>6, Jobs DEF Hurt
      <3> QED BY <1>1, <1>5, <1>6, <3>1, <3>2 DEF Leaves, Worked
    <2> QED BY <1>2, <1>3, <1>4, <2>1, <2>2
  <1>7. CASE j = Compensation(r)
    <2>1. job[j].op = "delete" /\ j # Main(r)
      BY <1>7, Jobs
    <2>2. stage[r] # "job"
      BY <1>4, <2>1 DEF Hurt
    <2> QED BY <1>1, <1>2, <1>3, <1>4, <1>5, <1>7, <2>1, <2>2 DEF Holds, Leaves, Worked
  <1> QED BY <1>1, <1>6, <1>7

LEMMA Alone ==
  ASSUME NEW q, OneAtATime(q), NEW r \in Asking(q) \cap InFlight, NEW o \in Asking(q), o # r
  PROVE  stage[o] \notin Waiting
  BY DEF OneAtATime, Asking, InFlight

LEMMA LoneBefore ==
  ASSUME TypeOK, \A r \in Request : Shape(r), [Next]_vars, NEW o \in Request, Lone(o)'
  PROVE  Lone(o)
  <1>1. faults \subseteq faults'
    <2>1. UNCHANGED vars => UNCHANGED faults
      BY DEF vars, storeVars
    <2> QED BY <2>1, Steps DEF Turn, Ran, Worked
  <1>2. \A p \in Request : stage[p] = "stuck" => stage'[p] = "stuck"
    <2>1. UNCHANGED vars => UNCHANGED stage
      BY DEF vars, storeVars
    <2> QED BY <2>1, Steps, Turns DEF Ran, Worked
  <1>3. Asking(QueueOf(o)) \subseteq Request
    BY DEF Asking
  <1> QED BY <1>1, <1>2, <1>3 DEF Lone, Asking, QueueOf

LEMMA OneAtATimeStep ==
  ASSUME TypeOK, \A r \in Request : Shape(r), [Next]_vars,
         NEW q \in Queue, q \notin met', OneAtATime(q)
  PROVE  OneAtATime(q)'
  <1>1. ASSUME NEW r \in Request, Turn(r), Meets(r) PROVE OneAtATime(q)'
    <2> SUFFICES ASSUME NEW a \in Asking(q), NEW b \in Asking(q),
                        stage'[a] \in Waiting, stage'[b] \in Waiting, a # b
                 PROVE  FALSE
      BY DEF OneAtATime, InFlight, Asking
    <2>1. a \in Request /\ b \in Request /\ QueueOf(a) = q /\ QueueOf(b) = q
      BY DEF Asking, QueueOf
    <2>2. stage[r] \in {"new"} \cup Waiting
      BY <1>1 DEF Turn, Ends, Sends, Asks, Waiting
    <2>3. \A o \in {a, b} : o # r => o \in InFlight
      BY <1>1, <2>1, Frame DEF InFlight
    <2>4. CASE r \in InFlight \/ r \notin {a, b}
      BY <2>1, <2>3, <2>4 DEF OneAtATime
    <2>5. CASE stage[r] = "new" /\ r \in {a, b}
      <3>1. QueueOf(r) = q
        BY <2>1, <2>5
      <3>2. Rivals(r) # {}
        BY <2>1, <2>3, <2>5 DEF Rivals, QueueOf
      <3> QED BY <1>1, <2>5, <3>1, <3>2 DEF Meets
    <2> QED BY <1>1, <2>2, <2>4, <2>5 DEF InFlight
  <1>2. UNCHANGED stage => OneAtATime(q)'
    BY DEF OneAtATime, InFlight, Asking
  <1>3. UNCHANGED vars => UNCHANGED stage
    BY DEF vars, storeVars
  <1> QED BY <1>1, <1>2, <1>3, Steps DEF Ran, Worked

LEMMA RanStored ==
  ASSUME TypeOK, NEW r \in Request, Ran(r), Stored(r), Updates(r)
  PROVE  Stored(r)' /\ Updates(r)'
  <1>1. stage'[r] = stage[r] /\ Key(r) \in Queue \X Entity /\ Key(r)[1] = QueueOf(r)
    BY Requests DEF Ran
  <1>2. Updates(r)'
    <2>1. stage[r] = "update" => row'[Key(r)] # None
      BY <1>1, Writes, Requests DEF Ran, Updates, Deletes
    <2> QED BY <1>1, <2>1 DEF Updates, Key
  <1>3. ASSUME reply'[r] = "ok" PROVE Stored(r)'
    <2>1. Write(r) /\ Verdict(r) = "ok"
      BY <1>3 DEF Ran
    <2>2. stage[r] = "insert" =>
            row'[Key(r)] # None /\ (Op(r) = "create" => row'[Key(r)] = r)
      BY <1>1, <2>1, Writes, VerdictTypes, Requests DEF Inserts, Deletes
    <2>3. stage[r] = "select" => row'[Key(r)] # None
      BY <1>1, <2>1, Writes, VerdictTypes, Requests DEF Inserts, Deletes
    <2>4. stage[r] = "update" => row'[Key(r)] = r
      BY <2>1, Writes DEF Updates
    <2>5. stage[r] \in {"deleteRow", "undoRow"} => RowsOf(QueueOf(r))' = {}
      BY <2>1, Writes DEF Deletes, RowsOf, QueueOf
    <2> QED BY <1>1, <2>2, <2>3, <2>4, <2>5 DEF Stored, Key, Op, QueueOf
  <1>4. ASSUME reply'[r] # "ok" PROVE Stored(r)'
    BY <1>4 DEF Stored
  <1> QED BY <1>2, <1>3, <1>4

LEMMA StoredStep ==
  ASSUME TypeOK, \A r \in Request : Shape(r), [Next]_vars,
         NEW q \in Queue, OneAtATime(q), \A r \in Asking(q) : Stored(r) /\ Updates(r),
         NEW o \in Asking(q)
  PROVE  Stored(o)' /\ Updates(o)'
  <1>1. o \in Request /\ QueueOf(o) = q /\ Key(o) \in Queue \X Entity /\ Key(o)[1] = q
    BY Requests DEF Asking, QueueOf
  <1>2. CASE UNCHANGED <<row, stage, reply>>
    BY <1>2 DEF Stored, Updates, RowsOf, Op, Key, QueueOf
  <1>3. ASSUME NEW r \in Request, Turn(r) PROVE Stored(o)' /\ Updates(o)'
    <2>1. CASE o # r
      <3>1. stage'[o] = stage[o] /\ reply'[o] = reply[o] /\ row' = row
        BY <1>1, <1>3, <2>1, Frame DEF Turn
      <3> QED BY <3>1 DEF Stored, Updates, RowsOf, Op, Key, QueueOf
    <2>2. CASE o = r /\ Ends(r)
      BY <2>2 DEF Ends, Stored, Updates
    <2>3. CASE o = r /\ Sends(r)
      <3>1. reply'[o] = "sent" /\ row' = row
        BY <1>3, <2>3, Frame DEF Turn
      <3> QED BY <2>3, <3>1 DEF Sends, Stored, Updates, Key
    <2>4. CASE o = r /\ Asks(r)
      BY <2>4 DEF Asks, Stored, Updates
    <2> QED BY <1>3, <2>1, <2>2, <2>3, <2>4 DEF Turn
  <1>4. ASSUME NEW r \in Request, Ran(r) PROVE Stored(o)' /\ Updates(o)'
    <2>1. stage'[o] = stage[o] /\ (o # r => reply'[o] = reply[o])
      BY <1>1, <1>4 DEF Ran, TypeOK
    <2>2. CASE o = r
      BY <1>4, <2>2, RanStored
    <2>3. CASE o # r /\ \A k \in Queue \X Entity : k[1] = q => row'[k] = row[k]
      <3>1. row'[Key(o)] = row[Key(o)] /\ RowsOf(q)' = RowsOf(q)
        BY <1>1, <2>3 DEF RowsOf
      <3> QED BY <1>1, <2>1, <2>3, <3>1 DEF Stored, Updates, Op, Key, QueueOf
    <2>4. CASE o # r /\ \E k \in Queue \X Entity : k[1] = q /\ row'[k] # row[k]
      <3>1. Write(r) /\ QueueOf(r) = q
        BY <1>4, <2>4, Writes, Requests DEF Ran
      <3>2. r \in Asking(q) \cap InFlight
        BY <1>4, <3>1, Requests DEF Ran, InFlight, Statement, Waiting
      <3>3. stage[o] \notin Waiting
        BY <2>4, <3>2, Alone
      <3> QED BY <2>1, <3>3 DEF Stored, Updates, Waiting
    <2> QED BY <2>2, <2>3, <2>4
  <1>5. UNCHANGED vars => UNCHANGED <<row, stage, reply>>
    BY DEF vars, storeVars
  <1> QED BY <1>2, <1>3, <1>4, <1>5, Steps DEF Worked

LEMMA ChainStep ==
  ASSUME TypeOK, \A r \in Request : Shape(r), [Next]_vars,
         NEW q \in Queue, OneAtATime(q), NEW o \in Asking(q), Chain(o)
  PROVE  Chain(o)'
  <1> SUFFICES ASSUME Lone(o)', Holds(o)' \/ Leaves(o)'
               PROVE  /\ Holds(o)' => QueueOf(o) \in queues'
                      /\ Leaves(o)' => QueueOf(o) \notin queues'
    BY DEF Chain, QueueOf
  <1>1. o \in Request /\ QueueOf(o) = q
    BY DEF Asking, QueueOf
  <1>2. Lone(o)
    BY <1>1, LoneBefore
  <1>3. /\ Holds(o) => QueueOf(o) \in queues
        /\ Leaves(o) => QueueOf(o) \notin queues
    BY <1>2 DEF Chain
  <1>4. CASE UNCHANGED vars
    BY <1>3, <1>4 DEF vars, jobVars, storeVars, Holds, Leaves, Adds
  <1>5. ASSUME NEW r \in Request, Turn(r)
        PROVE  /\ Holds(o)' => QueueOf(o) \in queues'
               /\ Leaves(o)' => QueueOf(o) \notin queues'
    BY <1>1, <1>3, <1>5, Turns DEF Turn
  <1>6. ASSUME NEW r \in Request, Ran(r)
        PROVE  /\ Holds(o)' => QueueOf(o) \in queues'
               /\ Leaves(o)' => QueueOf(o) \notin queues'
    BY <1>1, <1>3, <1>6, Runs DEF Ran
  <1>7. ASSUME NEW j \in Job, Worked(j)
        PROVE  /\ Holds(o)' => QueueOf(o) \in queues'
               /\ Leaves(o)' => QueueOf(o) \notin queues'
    <2>1. PICK r \in Request : r = j[1]
      BY JobKinds
    <2>2. CASE r = o
      BY <1>3, <1>7, <2>1, <2>2, Works
    <2>3. CASE r # o /\ QueueOf(r) # q
      BY <1>1, <1>3, <1>7, <2>1, <2>3, Works
    <2>4. CASE r # o /\ QueueOf(r) = q
      <3>1. Holds(o) \/ Leaves(o)
        BY <1>1, <1>7, <2>1, <2>4, Works
      <3>2. o \in Asking(q) \cap InFlight /\ r \in Asking(q)
        BY <1>1, <2>4, <3>1, Waits, Requests
      <3>3. stage[r] \notin {"job", "undo"}
        BY <2>4, <3>2, Alone DEF Waiting
      <3>4. Hurt(r)
        BY <1>7, <2>1, <3>3, Works
      <3> QED BY <1>1, <1>2, <2>4, <3>2, <3>4 DEF Lone, Hurt
    <2> QED BY <2>2, <2>3, <2>4
  <1> QED BY <1>4, <1>5, <1>6, <1>7, Steps

-----------------------------------------------------------------------------
(* Rows whose queue is gone, while nothing goes wrong for it.              *)

LEMMA RowsKeptTurn ==
  ASSUME TypeOK, NEW q \in Queue, \A r \in Asking(q) : Stored(r), RowsKept(q),
         Clean(q), Clean(q)', NEW r \in Request, Turn(r)
  PROVE  RowsKept(q)'
  <1>1. /\ q \notin queues /\ RowsOf(q) # {} => \E w \in Asking(q) : Leaves(w)
        /\ \A o \in Asking(q) :
             /\ Op(o) = "create" /\ stage[o] = "job" /\ work[Main(o)] = "done" => RowsOf(q) = {}
             /\ stage[o] \in {"deleteRow", "undoRow"} => reply[o] # "refused"
    BY DEF RowsKept
  <1>2. queues' = queues /\ RowsOf(q)' = RowsOf(q)
    BY DEF Turn, RowsOf
  <1>3. \A o \in Asking(q) : o \in Request /\ QueueOf(o) = q
    BY DEF Asking, QueueOf
  <1>4. q \notin queues /\ RowsOf(q) # {} => \E w \in Asking(q) : Leaves(w)'
    <2> SUFFICES ASSUME q \notin queues, RowsOf(q) # {} PROVE \E w \in Asking(q) : Leaves(w)'
      OBVIOUS
    <2>1. PICK w \in Asking(q) : Leaves(w)
      BY <1>1
    <2>2. CASE w # r
      BY <1>3, <2>1, <2>2, Turns
    <2>3. CASE w = r /\ Ends(r)
      <3>1. ~Blamed(r)'
        BY <1>3, <2>3 DEF Clean, Blamed, QueueOf
      <3>2. reply[r] = "ok" /\ stage[r] \in {"deleteRow", "undoRow"} => RowsOf(q) = {}
        BY <1>3, <2>3 DEF Stored
      <3>3. stage[r] \in {"deleteRow", "undoRow"} => reply[r] \notin {"ok", "refused"}
        BY <1>1, <2>3, <3>2
      <3>4. ~Leaves(r)
        BY <2>3, <3>1, <3>3 DEF Ends, Leaves, Adds
      <3> QED BY <2>1, <2>3, <3>4
    <2>4. CASE w = r /\ Sends(r)
      BY <2>1, <2>4 DEF Sends, Leaves, Adds
    <2>5. CASE w = r /\ Asks(r)
      BY <2>1, <2>5 DEF Asks, Leaves
    <2> QED BY <2>2, <2>3, <2>4, <2>5 DEF Turn
  <1>5. ASSUME NEW o \in Asking(q)
        PROVE  /\ Op(o) = "create" /\ stage'[o] = "job" /\ work'[Main(o)] = "done" => RowsOf(q) = {}
               /\ stage'[o] \in {"deleteRow", "undoRow"} => reply'[o] # "refused"
    <2>1. CASE o # r
      BY <1>1, <1>3, <2>1, Frame
    <2>2. CASE o = r
      <3>1. stage'[r] = "job" => work'[Main(r)] = "asked"
        BY Frame DEF Turn, Ends, Sends
      <3>2. stage'[r] \in {"deleteRow", "undoRow"} => reply'[r] = "sent"
        BY Frame DEF Turn, Ends, Asks
      <3> QED BY <2>2, <3>1, <3>2
    <2> QED BY <2>1, <2>2
  <1> QED BY <1>2, <1>4, <1>5 DEF RowsKept, Asking, Op

LEMMA CleanChain ==
  ASSUME NEW q, Serial(q), Clean(q), NEW r \in Asking(q)
  PROVE  /\ Holds(r) => q \in queues
         /\ Leaves(r) => q \notin queues
         /\ ~Hurt(r)
  <1>1. \A o \in Asking(q) : o \in Request /\ QueueOf(o) = q
    BY DEF Asking, QueueOf
  <1>2. Lone(r)
    BY <1>1 DEF Clean, Lone
  <1> QED BY <1>1, <1>2 DEF Serial, Chain, Clean, Hurt

LEMMA RowsKeptRun ==
  ASSUME TypeOK, NEW q \in Queue, Serial(q), RowsKept(q),
         Clean(q), Clean(q)', NEW r \in Request, Shape(r), Ran(r)
  PROVE  RowsKept(q)'
  <1>1. /\ q \notin queues /\ RowsOf(q) # {} => \E w \in Asking(q) : Leaves(w)
        /\ \A o \in Asking(q) :
             /\ Op(o) = "create" /\ stage[o] = "job" /\ work[Main(o)] = "done" => RowsOf(q) = {}
             /\ stage[o] \in {"deleteRow", "undoRow"} => reply[o] # "refused"
    BY DEF RowsKept
  <1>2. queues' = queues /\ work' = work /\ stage' = stage
    BY DEF Ran
  <1>3. \A o \in Asking(q) : o \in Request /\ QueueOf(o) = q
    BY DEF Asking, QueueOf
  <1>4. ASSUME RowsOf(q)' # {}, RowsOf(q) = {}
        PROVE  r \in Asking(q) \cap InFlight /\ stage[r] = "insert" /\ q \in queues
    <2>1. PICK k \in Queue \X Entity : k[1] = q /\ row'[k] # None /\ row[k] = None
      BY <1>4 DEF RowsOf
    <2>2. Inserts(r) /\ k = Key(r)
      BY <2>1, Writes DEF Ran
    <2>3. r \in Asking(q) \cap InFlight /\ stage[r] = "insert"
      BY <2>1, <2>2, Requests DEF Inserts, InFlight, Waiting
    <2>4. Holds(r)
      BY <2>3 DEF Holds, Shape
    <2> QED BY <2>3, <2>4, CleanChain
  <1>5. q \notin queues /\ RowsOf(q)' # {} => \E w \in Asking(q) : Leaves(w)'
    BY <1>1, <1>3, <1>4, Runs
  <1>6. ASSUME NEW o \in Asking(q)
        PROVE  /\ Op(o) = "create" /\ stage[o] = "job" /\ work[Main(o)] = "done" =>
                    RowsOf(q)' = {}
               /\ stage[o] \in {"deleteRow", "undoRow"} => reply'[o] # "refused"
    <2>1. ASSUME stage[o] = "job", RowsOf(q) = {} PROVE RowsOf(q)' = {}
      <3>1. o \in InFlight
        BY <1>3, <2>1 DEF InFlight, Waiting
      <3> QED BY <1>4, <2>1, <3>1 DEF Serial, OneAtATime
    <2>2. stage[o] \in {"deleteRow", "undoRow"} => reply'[o] # "refused"
      <3>1. CASE o # r
        BY <1>1, <1>3, <3>1 DEF Ran, TypeOK
      <3>2. CASE o = r
        <4>1. ~Blamed(r)'
          BY <1>3, <3>2 DEF Clean, Blamed, QueueOf
        <4> QED BY <3>2, <4>1 DEF Ran
      <3> QED BY <3>1, <3>2
    <2> QED BY <1>1, <2>1, <2>2
  <1> QED BY <1>2, <1>5, <1>6 DEF RowsKept, Asking, Op

LEMMA RowsKeptWork ==
  ASSUME TypeOK, NEW q \in Queue, Serial(q), RowsKept(q), Clean(q),
         \A o \in Request : Shape(o), NEW j \in Job, Worked(j), WorkedWell(j)
  PROVE  RowsKept(q)'
  <1>1. /\ q \notin queues /\ RowsOf(q) # {} => \E w \in Asking(q) : Leaves(w)
        /\ \A o \in Asking(q) :
             /\ Op(o) = "create" /\ stage[o] = "job" /\ work[Main(o)] = "done" => RowsOf(q) = {}
             /\ stage[o] \in {"deleteRow", "undoRow"} => reply[o] # "refused"
    BY DEF RowsKept
  <1>2. stage' = stage /\ reply' = reply /\ RowsOf(q)' = RowsOf(q)
    BY DEF Worked, RowsOf
  <1>3. \A o \in Asking(q) : o \in Request /\ QueueOf(o) = q
    BY DEF Asking, QueueOf
  <1>4. PICK r \in Request : /\ r = j[1] /\ QueueOf(r) = job[j].queue
                             /\ \A o \in Request \ {r} : work'[Main(o)] = work[Main(o)]
    BY JobFrame
  <1>5. /\ \A p : p # QueueOf(r) => (p \in queues' <=> p \in queues)
        /\ \A o \in Request \ {r} : Leaves(o)' <=> Leaves(o)
        /\ \/ j = Main(r) /\ (stage[r] = "job" \/ Hurt(r))
           \/ j = Compensation(r) /\ (stage[r] = "undo" \/ Hurt(r))
    BY <1>4, Works
  <1>6. CASE QueueOf(r) # q
    <2>1. /\ q \in queues' <=> q \in queues
          /\ \A o \in Asking(q) : (Leaves(o)' <=> Leaves(o)) /\ work'[Main(o)] = work[Main(o)]
      BY <1>3, <1>4, <1>5, <1>6
    <2> QED BY <1>1, <1>2, <2>1 DEF RowsKept, Clean, Asking, Op
  <1>7. CASE QueueOf(r) = q
    <2>1. /\ r \in Asking(q) \cap InFlight
          /\ \/ j = Main(r) /\ stage[r] = "job"
             \/ j = Compensation(r) /\ stage[r] = "undo"
      <3>1. r \in Asking(q)
        BY <1>7, Requests
      <3>2. ~Hurt(r)
        BY <3>1, CleanChain
      <3> QED BY <1>5, <3>1, <3>2 DEF InFlight, Waiting
    <2>2. \A w \in Asking(q) : w \in InFlight => w = r
      BY <2>1 DEF Serial, OneAtATime
    <2>3. work[j] \in {"asked", "done", "failing"}
      BY DEF Worked, Busy
    <2>4. q \notin queues' /\ RowsOf(q) # {} => Leaves(r)'
      <3> SUFFICES ASSUME q \notin queues', RowsOf(q) # {} PROVE Leaves(r)'
        OBVIOUS
      <3>1. CASE q \in queues
        <4>1. ~(job[j].op = "register" /\ work[j] = "done")
          <5>1. ASSUME job[j].op = "register", work[j] = "done" PROVE FALSE
            <6>1. j = Main(r) /\ stage[r] = "job" /\ Op(r) = "create"
              BY <2>1, <5>1, Jobs
            <6> QED BY <1>1, <2>1, <5>1, <6>1
          <5> QED BY <5>1
        <4>2. job[j].op = "delete" /\ work'[j] = "done"
          BY <1>4, <1>7, <3>1, <4>1 DEF WorkedWell
        <4>3. CASE j = Main(r) /\ stage[r] = "job"
          <5>1. Op(r) = "delete"
            BY <4>2, <4>3, Jobs DEF Shape
          <5> QED BY <1>2, <4>2, <4>3, <5>1 DEF Leaves, Op
        <4>4. CASE j = Compensation(r) /\ stage[r] = "undo"
          BY <1>2, <4>2, <4>4 DEF Leaves
        <4> QED BY <2>1, <4>3, <4>4
      <3>2. CASE q \notin queues
        <4>1. Leaves(r)
          <5>1. PICK w \in Asking(q) : Leaves(w)
            BY <1>1, <3>2
          <5> QED BY <1>3, <2>2, <5>1, Waits
        <4>2. work[j] = "done" /\ job[j].op = "delete"
          BY <2>1, <2>3, <4>1, Jobs DEF Leaves
        <4>3. work'[j] = "ok"
          BY <4>2 DEF WorkedWell
        <4> QED BY <1>2, <2>1, <4>1, <4>3 DEF Leaves, Op
      <3> QED BY <3>1, <3>2
    <2>5. ASSUME NEW o \in Asking(q), Op(o) = "create", stage[o] = "job", work'[Main(o)] = "done"
          PROVE  RowsOf(q) = {}
      <3>1. o = r
        BY <1>3, <2>2, <2>5 DEF InFlight, Waiting
      <3>2. j = Main(r) /\ job[j].op = "register"
        BY <2>1, <2>5, <3>1, Jobs
      <3>3. q \notin queues
        BY <1>4, <1>7, <2>5, <3>1, <3>2 DEF Worked
      <3>4. ASSUME NEW w \in Asking(q), Leaves(w) PROVE FALSE
        <4>1. Leaves(r)
          BY <1>3, <2>2, <3>4, Waits
        <4> QED BY <2>5, <3>1, <4>1 DEF Leaves
      <3> QED BY <1>1, <3>3, <3>4
    <2> QED BY <1>1, <1>2, <2>1, <2>4, <2>5 DEF RowsKept, Asking, Op
  <1> QED BY <1>6, <1>7

LEMMA RowsKeptStep ==
  ASSUME TypeOK, \A r \in Request : Shape(r), [Next]_vars,
         NEW q \in Queue, Serial(q), RowsKept(q)
  PROVE  RowsKept(q)'
  <1> SUFFICES ASSUME Clean(q)' PROVE RowsKept(q)'
    BY DEF RowsKept
  <1>1. CASE UNCHANGED vars
    BY <1>1 DEF vars, jobVars, storeVars, RowsKept, Clean, RowsOf, Leaves, Asking, Op
  <1>2. ASSUME faults \subseteq faults' PROVE Clean(q)
    BY <1>2 DEF Clean, QueueOf
  <1>3. ASSUME NEW r \in Request, Turn(r) PROVE RowsKept(q)'
    BY <1>2, <1>3, RowsKeptTurn DEF Serial, Turn
  <1>4. ASSUME NEW r \in Request, Ran(r) PROVE RowsKept(q)'
    BY <1>2, <1>4, RowsKeptRun DEF Ran
  <1>5. ASSUME NEW j \in Job, Worked(j), WorkedWell(j) PROVE RowsKept(q)'
    BY <1>2, <1>5, RowsKeptWork DEF Worked
  <1>6. ASSUME NEW j \in Job, Worked(j), NEW f \in faults', f[2] = j[1] PROVE RowsKept(q)'
    <2>1. PICK r \in Request : r = j[1]
      BY JobKinds
    <2>2. QueueOf(r) # q
      BY <1>6, <2>1 DEF Clean, QueueOf
    <2>3. /\ q \in queues' <=> q \in queues
          /\ \A o \in Asking(q) : (Leaves(o)' <=> Leaves(o)) /\ work'[Main(o)] = work[Main(o)]
      BY <1>6, <2>1, <2>2, Works, JobFrame DEF Asking, QueueOf
    <2>4. Clean(q) /\ stage' = stage /\ reply' = reply /\ RowsOf(q)' = RowsOf(q)
      BY <1>2, <1>6 DEF Worked, RowsOf
    <2> QED BY <2>3, <2>4 DEF RowsKept, Asking, Op
  <1> QED BY <1>1, <1>3, <1>4, <1>5, <1>6, Steps

-----------------------------------------------------------------------------
(* Queues without a row, while every create is answered and no call to     *)
(* RabbitMQ is lost.                                                       *)

LEMMA QueueKeptTurn ==
  ASSUME TypeOK, NEW q \in Queue, \A o \in Asking(q) : Stored(o), QueueKept(q),
         Kept(q), Kept(q)', NEW r \in Request, Turn(r)
  PROVE  QueueKept(q)'
  <1>1. /\ q \in queues /\ RowsOf(q) = {} => \E w \in Asking(q) : Makes(w)
        /\ \A o \in Asking(q) : Leaves(o) => q \notin queues
    BY DEF QueueKept
  <1>2. queues' = queues /\ RowsOf(q)' = RowsOf(q)
    BY DEF Turn, RowsOf
  <1>3. \A o \in Asking(q) : o \in Request /\ QueueOf(o) = q
    BY DEF Asking, QueueOf
  <1>4. \A o \in Asking(q) : Leaves(o)' => q \notin queues
    BY <1>1, <1>3, Turns
  <1>5. ASSUME NEW w \in Asking(q), Makes(w), RowsOf(q) = {} PROVE Makes(w)'
    <2>1. Op(w) = "create" /\ Adds(w) /\ Op(w)' = Op(w) /\ Adds(w)' = Adds(w)
      BY <1>5 DEF Makes, Adds, Op
    <2>2. CASE w # r
      <3>1. /\ stage'[w] = stage[w] /\ work'[Main(w)] = work[Main(w)]
            /\ work'[Compensation(w)] = work[Compensation(w)]
        BY <1>3, <2>2, Frame
      <3> QED BY <1>5, <2>1, <3>1 DEF Makes, Holds
    <2>3. CASE w = r /\ Ends(r)
      <3>1. stage'[r] # "stuck"
        BY <1>3, <2>1, <2>3 DEF Kept, Op, Asking
      <3>2. stage[r] = "insert" => row[Key(r)] # None
        BY <2>3 DEF Ends, Stored
      <3>3. stage[r] # "insert"
        BY <1>3, <1>5, <2>3, <3>2, Requests DEF RowsOf
      <3>4. stage[r] = "undo" => work[Compensation(r)] = "fail"
        BY <2>3, <3>1 DEF Ends
      <3>5. stage[r] = "job" => work[Main(r)] = "fail"
        BY <2>3, <3>1 DEF Ends
      <3> QED BY <1>5, <2>3, <3>3, <3>4, <3>5 DEF Makes, Holds
    <2>4. CASE w = r /\ Sends(r)
      BY <1>5, <2>1, <2>4 DEF Sends, Makes, Holds
    <2>5. CASE w = r /\ Asks(r)
      <3>1. stage'[r] = "undo" /\ work'[Compensation(r)] = "asked"
        BY <1>5, <2>5, Frame DEF Asks, Makes, Holds
      <3> QED BY <2>1, <2>5, <3>1 DEF Makes
    <2> QED BY <2>2, <2>3, <2>4, <2>5 DEF Turn
  <1>6. Asking(q)' = Asking(q)
    BY DEF Asking
  <1> QED BY <1>1, <1>2, <1>4, <1>5, <1>6 DEF QueueKept

LEMMA QueueKeptRun ==
  ASSUME TypeOK, NEW q \in Queue, QueueKept(q), Kept(q), NEW r \in Request, Ran(r)
  PROVE  QueueKept(q)'
  <1>1. /\ q \in queues /\ RowsOf(q) = {} => \E w \in Asking(q) : Makes(w)
        /\ \A o \in Asking(q) : Leaves(o) => q \notin queues
    BY DEF QueueKept
  <1>2. queues' = queues /\ work' = work /\ stage' = stage /\ Asking(q)' = Asking(q)
    BY DEF Ran, Asking
  <1>3. ASSUME RowsOf(q)' = {}, RowsOf(q) # {} PROVE q \notin queues
    <2>1. PICK k \in Queue \X Entity : k[1] = q /\ row'[k] = None /\ row[k] # None
      BY <1>3 DEF RowsOf
    <2>2. Deletes(r) /\ QueueOf(r) = q
      BY <2>1, Writes, Requests DEF Ran
    <2> QED BY <1>1, <2>2, Requests DEF Deletes, Leaves
  <1>4. \A o \in Asking(q) : (Leaves(o)' <=> Leaves(o)) /\ (Makes(o)' <=> Makes(o))
    BY <1>2 DEF Leaves, Makes, Holds, Adds, Op
  <1> QED BY <1>1, <1>2, <1>3, <1>4 DEF QueueKept

LEMMA QueueKeptWork ==
  ASSUME TypeOK, NEW q \in Queue, OneAtATime(q), QueueKept(q), Kept(q),
         \A o \in Request : Shape(o), NEW j \in Job, Worked(j),
         WorkedWell(j) \/ job[j].queue # q
  PROVE  QueueKept(q)'
  <1>1. /\ q \in queues /\ RowsOf(q) = {} => \E w \in Asking(q) : Makes(w)
        /\ \A o \in Asking(q) : Leaves(o) => q \notin queues
    BY DEF QueueKept
  <1>2. stage' = stage /\ RowsOf(q)' = RowsOf(q) /\ Asking(q)' = Asking(q)
    BY DEF Worked, RowsOf, Asking
  <1>3. \A o \in Asking(q) : o \in Request /\ QueueOf(o) = q
    BY DEF Asking, QueueOf
  <1>4. PICK r \in Request :
          /\ r = j[1] /\ QueueOf(r) = job[j].queue
          /\ \A o \in Request \ {r} : work'[Compensation(o)] = work[Compensation(o)]
    BY JobFrame
  <1>5. /\ \A p : p # QueueOf(r) => (p \in queues' <=> p \in queues)
        /\ \A o \in Request \ {r} : (Holds(o)' <=> Holds(o)) /\ (Leaves(o)' <=> Leaves(o))
        /\ Leaves(r)' => QueueOf(r) \notin queues' \/ (Leaves(r) /\ UNCHANGED queues)
        /\ \/ j = Main(r) /\ (stage[r] = "job" \/ Hurt(r))
           \/ j = Compensation(r) /\ (stage[r] = "undo" \/ Hurt(r))
    BY <1>4, Works
  <1>6. \A o \in Request \ {r} : Makes(o)' <=> Makes(o)
    BY <1>2, <1>4, <1>5 DEF Makes, Op
  <1>7. CASE QueueOf(r) # q
    <2>1. /\ q \in queues' <=> q \in queues
          /\ \A o \in Asking(q) : (Leaves(o)' <=> Leaves(o)) /\ (Makes(o)' <=> Makes(o))
      BY <1>3, <1>5, <1>6, <1>7
    <2> QED BY <1>1, <1>2, <2>1 DEF QueueKept
  <1>8. CASE QueueOf(r) = q
    <2>1. r \in Asking(q) /\ WorkedWell(j)
      BY <1>4, <1>8, Requests
    <2>2. Op(r) = "create" => /\ r \in InFlight
                              /\ \/ j = Main(r) /\ stage[r] = "job"
                                 \/ j = Compensation(r) /\ stage[r] = "undo"
      BY <1>5, <2>1 DEF Kept, Hurt, InFlight, Waiting
    <2>3. ASSUME q \in queues', q \notin queues
          PROVE  /\ Op(r) = "create" /\ stage[r] = "job" /\ r \in InFlight
                 /\ j = Main(r) /\ work'[j] = "done"
      <3>1. job[j].op = "register" /\ work'[j] = "done"
        BY <1>4, <1>8, <2>1, <2>3 DEF Worked, WorkedWell
      <3>2. j = Main(r) /\ Op(r) = "create"
        BY <1>5, <3>1, Jobs
      <3> QED BY <2>2, <3>1, <3>2, Jobs
    <2>4. ASSUME NEW o \in Asking(q), Leaves(o)', q \in queues' PROVE FALSE
      <3>1. Leaves(o)
        BY <1>3, <1>5, <1>8, <2>4
      <3>2. r \in InFlight /\ stage[r] = "job" /\ Op(r) = "create"
        BY <1>1, <2>3, <2>4, <3>1
      <3>3. o = r
        BY <1>3, <2>1, <3>1, <3>2, Waits DEF OneAtATime
      <3> QED BY <3>1, <3>2, <3>3 DEF Leaves
    <2>5. ASSUME q \in queues', RowsOf(q) = {} PROVE \E w \in Asking(q) : Makes(w)'
      <3>1. CASE q \notin queues
        <4>1. Makes(r)'
          BY <1>2, <2>3, <2>5, <3>1 DEF Makes, Holds, Adds, Op
        <4> QED BY <2>1, <4>1
      <3>2. CASE q \in queues
        <4>1. PICK w \in Asking(q) : Makes(w)
          BY <1>1, <2>5, <3>2
        <4>2. CASE w # r
          BY <1>3, <1>6, <4>1, <4>2
        <4>3. CASE w = r
          <5>1. Op(r) = "create" /\ j \in Busy
            BY <4>1, <4>3 DEF Makes, Worked
          <5>2. CASE j = Main(r) /\ stage[r] = "job"
            <6>1. work[j] = "done" /\ job[j].op = "register"
              BY <4>1, <4>3, <5>1, <5>2, Jobs DEF Makes, Holds, Busy
            <6>2. work'[j] = "ok"
              BY <1>4, <1>8, <2>1, <2>5, <6>1 DEF WorkedWell
            <6>3. Makes(r)'
              BY <1>2, <5>1, <5>2, <6>2 DEF Makes, Holds, Adds, Op
            <6> QED BY <2>1, <6>3
          <5>3. CASE j = Compensation(r) /\ stage[r] = "undo"
            <6>1. work[j] = "asked" /\ job[j].op = "delete"
              BY <4>1, <4>3, <5>3, Jobs DEF Makes, Holds
            <6>2. q \notin queues'
              BY <1>4, <1>8, <2>1, <6>1 DEF Worked, WorkedWell
            <6> QED BY <2>5, <6>2
          <5> QED BY <2>2, <5>1, <5>2, <5>3
        <4> QED BY <4>2, <4>3
      <3> QED BY <3>1, <3>2
    <2> QED BY <1>2, <2>4, <2>5 DEF QueueKept
  <1> QED BY <1>7, <1>8

LEMMA QueueKeptStep ==
  ASSUME TypeOK, \A r \in Request : Shape(r), [Next]_vars,
         NEW q \in Queue, Serial(q), QueueKept(q)
  PROVE  QueueKept(q)'
  <1> SUFFICES ASSUME Kept(q)' PROVE QueueKept(q)'
    BY DEF QueueKept
  <1>1. CASE UNCHANGED vars
    BY <1>1 DEF vars, jobVars, storeVars, QueueKept, Kept, RowsOf, Leaves, Makes, Holds, Adds,
       Asking, Op
  <1>2. Asking(q) \subseteq Request /\ Asking(q)' = Asking(q)
    BY DEF Asking
  <1>3. ASSUME faults \subseteq faults',
               \A o \in Request : stage[o] = "stuck" => stage'[o] = "stuck"
        PROVE  Kept(q)
    BY <1>2, <1>3 DEF Kept, QueueOf, Op
  <1>4. ASSUME NEW r \in Request, Turn(r) PROVE QueueKept(q)'
    <2>1. Kept(q)
      BY <1>3, <1>4, Turns DEF Turn
    <2> QED BY <1>4, <2>1, QueueKeptTurn DEF Serial
  <1>5. ASSUME NEW r \in Request, Ran(r) PROVE QueueKept(q)'
    <2>1. Kept(q)
      BY <1>3, <1>5 DEF Ran
    <2> QED BY <1>5, <2>1, QueueKeptRun
  <1>6. ASSUME NEW j \in Job, Worked(j),
               WorkedWell(j) \/ \E f \in faults' : f[1] = "broker" /\ f[2] = j[1]
        PROVE  QueueKept(q)'
    <2>1. Kept(q)
      BY <1>3, <1>6 DEF Worked
    <2>2. WorkedWell(j) \/ job[j].queue # q
      <3>1. PICK r \in Request : r = j[1] /\ QueueOf(r) = job[j].queue
        BY <1>6, JobFrame
      <3> QED BY <1>6, <3>1 DEF Kept, QueueOf
    <2> QED BY <1>6, <2>1, <2>2, QueueKeptWork DEF Serial
  <1> QED BY <1>1, <1>4, <1>5, <1>6, Steps

-----------------------------------------------------------------------------
(* The invariant.                                                          *)

LEMMA MetGrows ==
  ASSUME TypeOK, \A r \in Request : Shape(r), [Next]_vars
  PROVE  met \subseteq met'
  <1>1. UNCHANGED vars => UNCHANGED met
    BY DEF vars, storeVars
  <1> QED BY <1>1, Steps DEF Meets, Ran, Worked

LEMMA InvInit == Init => Inv
  <1> SUFFICES ASSUME Init PROVE Inv
    OBVIOUS
  <1>1. /\ queues = {} /\ work = [j \in Job |-> "none"] /\ faults = {} /\ met = {}
        /\ row = [k \in Queue \X Entity |-> None]
        /\ stage = [r \in Request |-> "new"] /\ reply = [r \in Request |-> "none"]
    BY DEF Init, JobInit
  <1>2. TypeOK
    BY <1>1 DEF TypeOK, JobTypeOK, Progress, Stage
  <1>3. \A r \in Request : /\ stage[r] = "new" /\ reply[r] = "none"
                           /\ Main(r) \notin Busy /\ Compensation(r) \notin Busy
                           /\ ~Holds(r) /\ ~Leaves(r)
    BY <1>1, Jobs DEF Busy, Holds, Leaves
  <1>4. ASSUME NEW r \in Request PROVE Shape(r) /\ Stored(r) /\ Updates(r) /\ Chain(r)
    BY <1>3 DEF Shape, Stored, Updates, Chain
  <1>5. ASSUME NEW q \in Queue PROVE Serial(q) /\ RowsKept(q) /\ QueueKept(q)
    <2>1. \A r \in Asking(q) : r \in Request
      BY DEF Asking
    <2>2. InFlight = {}
      BY <1>3 DEF InFlight, Waiting
    <2>3. RowsOf(q) = {}
      BY <1>1 DEF RowsOf
    <2> QED BY <1>1, <1>3, <1>4, <2>1, <2>2, <2>3 DEF Serial, OneAtATime, RowsKept, QueueKept
  <1> QED BY <1>2, <1>4, <1>5 DEF Inv

LEMMA InvStep == Inv /\ [Next]_vars => Inv'
  <1> SUFFICES ASSUME Inv, [Next]_vars PROVE Inv'
    OBVIOUS
  <1>1. TypeOK /\ \A r \in Request : Shape(r)
    BY DEF Inv
  <1>2. TypeOK' /\ \A r \in Request : Shape(r)'
    BY <1>1, TypeStep, ShapeStep
  <1>3. ASSUME NEW q \in Queue \ met' PROVE (Serial(q) /\ RowsKept(q) /\ QueueKept(q))'
    <2>1. Serial(q) /\ RowsKept(q) /\ QueueKept(q)
      BY <1>1, MetGrows DEF Inv
    <2>2. Serial(q)'
      <3>1. OneAtATime(q)'
        BY <1>1, <2>1, OneAtATimeStep DEF Serial
      <3>2. \A o \in Asking(q) : Stored(o)' /\ Updates(o)'
        BY <1>1, <2>1, StoredStep DEF Serial
      <3>3. \A o \in Asking(q) : Chain(o)'
        BY <1>1, <2>1, ChainStep DEF Serial
      <3> QED BY <3>1, <3>2, <3>3 DEF Serial, Asking
    <2>3. RowsKept(q)' /\ QueueKept(q)'
      BY <1>1, <2>1, RowsKeptStep, QueueKeptStep
    <2> QED BY <2>2, <2>3
  <1> QED BY <1>2, <1>3 DEF Inv

LEMMA Invariance == Spec => []Inv
  BY InvInit, InvStep, PTL DEF Spec

-----------------------------------------------------------------------------
(* The job of a success stands in the table and with the broker.           *)

LEMMA SuccessStored ==
  ASSUME Inv, [Next]_vars, NEW r \in Request,
         stage[r] # "ok", stage'[r] = "ok", Undisturbed(r)
  PROVE  CASE Op(r) = "create" -> QueueOf(r) \in queues' /\ row'[Key(r)] = r
           [] Op(r) = "append" -> QueueOf(r) \in queues' /\ row'[Key(r)] # None
           [] Op(r) = "update" -> row'[Key(r)] = r
           [] OTHER -> QueueOf(r) \notin queues' /\ RowsOf(QueueOf(r))' = {}
  <1> DEFINE q == QueueOf(r)
  <1>1. /\ TypeOK /\ Shape(r) /\ q \in Queue \ met /\ r \in Asking(q)
        /\ \A o \in Request : Shape(o)
    BY Requests DEF Inv, Undisturbed, QueueOf
  <1>2. Turn(r) /\ Ends(r)
    <2>1. ~UNCHANGED vars /\ ~UNCHANGED stage
      BY DEF vars, storeVars
    <2>2. PICK o \in Request : Turn(o)
      BY <1>1, <2>1, Steps DEF Ran, Worked
    <2>3. o = r
      BY <1>1, <2>2, Frame
    <2> QED BY <2>2, <2>3 DEF Turn, Sends, Asks
  <1>3. /\ stage[r] \in {"insert", "deleteRow", "update"} /\ reply[r] = "ok"
        /\ UNCHANGED <<queues, row>>
    BY <1>2 DEF Ends, Turn
  <1>4. Stored(r) /\ Chain(r)
    BY <1>1 DEF Inv, Serial
  <1>5. Lone(r)
    BY DEF Undisturbed, Lone, QueueOf
  <1>6. RowsOf(q)' = RowsOf(q)
    BY <1>3 DEF RowsOf, q, QueueOf
  <1>7. CASE stage[r] = "insert"
    <2>1. Adds(r) /\ Holds(r)
      BY <1>1, <1>7 DEF Shape, Holds
    <2>2. q \in queues
      BY <1>4, <1>5, <2>1 DEF Chain
    <2> QED BY <1>3, <1>4, <1>7, <2>1, <2>2 DEF Stored, Adds
  <1>8. CASE stage[r] = "deleteRow"
    <2>1. Op(r) = "delete" /\ Leaves(r)
      BY <1>1, <1>8 DEF Shape, Leaves
    <2>2. q \notin queues
      BY <1>4, <1>5, <2>1 DEF Chain
    <2> QED BY <1>3, <1>4, <1>6, <1>8, <2>1, <2>2 DEF Stored
  <1>9. CASE stage[r] = "update"
    BY <1>1, <1>3, <1>4, <1>9 DEF Stored, Shape
  <1> QED BY <1>3, <1>7, <1>8, <1>9

-----------------------------------------------------------------------------
(* The tables, the chains and the jobs of the API server and of the broker *)
(* service keep their types, and a statement that has been sent belongs to *)
(* a request that waits for it (SubscriptionService.java,                  *)
(* SubscriptionService.java of the data broker).                           *)
THEOREM StoreHasTypes == Spec => []TypeOK
  <1>1. Inv => TypeOK
    BY DEF Inv
  <1> QED BY <1>1, Invariance, PTL

(* createSubscription never leaves a queue without a row: whatever the     *)
(* database and the catalogue do, a create that was answered has either    *)
(* inserted its row or deleted its queue.  Only requests that overlapped,  *)
(* a call to RabbitMQ that was lost and a create that was never answered   *)
(* are excused.                                                            *)
THEOREM QueuesHaveRows == Spec => []QueueHasRow
  <1>1. Inv => QueueHasRow
    <2> SUFFICES ASSUME Inv, NEW q \in queues \ met, Idle(q), RowsOf(q) = {},
                        ~Broke({"broker"}, q),
                        ~ \E r \in Asking(q) : Op(r) = "create" /\ stage[r] = "stuck"
                 PROVE  FALSE
      BY DEF QueueHasRow, Op
    <2>1. q \in Queue
      <3>1. PICK j \in Job : q = job[j].queue
        BY DEF Inv, TypeOK, JobTypeOK
      <3> QED BY <3>1, JobKinds, Jobs, Requests
    <2>2. QueueKept(q)
      BY <2>1 DEF Inv
    <2>3. Kept(q)
      BY DEF Kept, Broke, QueueOf
    <2>4. PICK r \in Asking(q) : Makes(r)
      BY <2>2, <2>3 DEF QueueKept
    <2>5. stage[r] \in {"insert", "job", "undo"}
      BY <2>4 DEF Makes, Holds
    <2> QED BY <2>5 DEF Idle, Waiting
  <1> QED BY <1>1, Invariance, PTL

(* deleteSubscription and the compensation of appendSubscription take the  *)
(* queue and its rows: when nothing went wrong for a queue and no requests *)
(* of it overlapped, no row is left behind for a queue that is gone.       *)
THEOREM RowsHaveQueues == Spec => []RowHasQueue
  <1>1. Inv => RowHasQueue
    <2> SUFFICES ASSUME Inv, NEW q \in Queue \ (queues \cup met), Idle(q), RowsOf(q) # {},
                        ~Broke(FaultKinds, q)
                 PROVE  FALSE
      BY DEF RowHasQueue
    <2>1. RowsKept(q)
      BY DEF Inv
    <2>2. \A f \in faults : f[1] \in FaultKinds
      BY DEF Inv, TypeOK
    <2>3. Clean(q)
      BY <2>2 DEF Clean, Broke, QueueOf
    <2>4. PICK r \in Asking(q) : Leaves(r)
      BY <2>1, <2>3 DEF RowsKept
    <2>5. r \in Request /\ stage[r] \notin Waiting
      BY DEF Idle, Asking
    <2> QED BY <2>4, <2>5, Waits DEF InFlight
  <1> QED BY <1>1, Invariance, PTL

(* An answer of SubscriptionService that says success is true when it is   *)
(* given: a create or append has queue and row, an update its expiry in    *)
(* the row, and a delete has left neither, although the statement and the  *)
(* job of the broker service were done steps before the answer.            *)
THEOREM SuccessesAreStored == Spec => SuccessMeansStored
  <1>1. Inv /\ [Next]_vars =>
          \A r \in Request :
            stage[r] # "ok" /\ stage'[r] = "ok" /\ Undisturbed(r) =>
              LET q == request[r].queue
              IN  CASE request[r].op = "create" -> q \in queues' /\ row'[Key(r)] = r
                    [] request[r].op = "append" -> q \in queues' /\ row'[Key(r)] # None
                    [] request[r].op = "update" -> row'[Key(r)] = r
                    [] OTHER -> q \notin queues' /\ RowsOf(q)' = {}
    BY SuccessStored DEF Op, QueueOf
  <1> QED BY <1>1, Invariance, PTL DEF Spec, SuccessMeansStored

==============================================================================
