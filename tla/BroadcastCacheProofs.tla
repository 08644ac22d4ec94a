------------------------ MODULE BroadcastCacheProofs ------------------------
(***************************************************************************)
(* Theorems about BroadcastCache, for every set of administration requests,*)
(* any number of them at a time, any number of refreshes under way and     *)
(* every kind of fault.                                                    *)
(***************************************************************************)
EXTENDS BroadcastCache, FiniteSetTheorems, SequenceTheorems, TLAPS

Refreshing == [state : {"idle", "sent", "read"}, snapshot : [Key -> Value]]

(* A value of a key was written by a request for that key.                 *)
Fits(k, v) == v # None => v \in Request /\ KeyOf(v) = k /\ Op(v) # "delete"

Types ==
  /\ table \in [Key -> Value] /\ cache \in [Key -> Value]
  /\ stage \in [Request -> {"new", "saving", "publishing", "ok", "fail"}]
  /\ at \in [Request -> Nat]
  /\ events \in [Table -> Seq(Request)]
  /\ refresh \in [Table \X Slot -> Refreshing]
  /\ faults \subseteq FaultKinds \X Table /\ raced \subseteq Key

Values ==
  /\ \A k \in Key : Fits(k, table[k]) /\ Fits(k, cache[k])
  /\ \A ts \in Table \X Slot, k \in Key : Fits(k, refresh[ts].snapshot[k])
  /\ \A t \in Table : \A n \in 1..Len(events[t]) : QueueOf(events[t][n]) = t

(* What is on its way to the cache for a key: a request that has changed   *)
(* its row, or an event.                                                   *)
Publishing(k) == \E r \in Request : stage[r] = "publishing" /\ KeyOf(r) = k
Queued(k) ==
  \E n \in 1..Len(events[TableOf(k)]) : KeyOf(events[TableOf(k)][n]) = k
Pending(k) == Publishing(k) \/ Queued(k)

(* Requests for the key have come one after the other, and nothing for it  *)
(* was lost.                                                               *)
Clean(k) == k \notin raced /\ ~Broke(k)

OneAtATime(k) ==
  \A r, o \in InFlight : KeyOf(r) = k /\ KeyOf(o) = k => r = o

(* A request that publishes a value has just written it.                   *)
RowIsNew(k) ==
  \A r \in Request : stage[r] = "publishing" /\ KeyOf(r) = k /\ Puts(r) => table[k] = r

(* The last event of a key holds the value of its row.                     *)
LastEvent(k, n) ==
  LET queue == events[TableOf(k)]
  IN  /\ n \in 1..Len(queue) /\ KeyOf(queue[n]) = k
      /\ \A m \in (n + 1)..Len(queue) : KeyOf(queue[m]) # k

EventIsNew(k) ==
  \A n \in 1..Len(events[TableOf(k)]) :
    LastEvent(k, n) /\ Puts(events[TableOf(k)][n]) =>
      Publishing(k) \/ table[k] = events[TableOf(k)][n]

(* A snapshot is the row, unless the change is on its way.                 *)
SnapshotIsNew(k) ==
  \A s \in Slot :
    refresh[<<TableOf(k), s>>].state = "read" =>
      refresh[<<TableOf(k), s>>].snapshot[k] = table[k] \/ Pending(k)

(* The cache is the row, unless the change is on its way.                  *)
CacheIsNew(k) ==
  \/ cache[k] = table[k] \/ Pending(k)
  \/ \E s \in Slot : refresh[<<TableOf(k), s>>].state \in {"sent", "read"}

Follows(k) ==
  Clean(k) => /\ OneAtATime(k) /\ RowIsNew(k) /\ EventIsNew(k)
              /\ SnapshotIsNew(k) /\ CacheIsNew(k)

(* The times of revocations grow, and the row of a client is the last one. *)
Clock ==
  /\ \A r \in Request : at[r] <= Now
  /\ \A r \in Request : stage[r] = "new" => at[r] = 0

Later(k) ==
  Clean(k) =>
    /\ \A r \in InFlight, o \in Request :
         KeyOf(r) = k /\ KeyOf(o) = k /\ stage[o] = "ok" => at[o] <= at[r]
    /\ k \in Client =>
         \A r \in Request : KeyOf(r) = k /\ stage[r] = "ok" =>
           table[k] # None /\ at[r] <= at[table[k]]

Inv == Types /\ Values /\ Clock /\ \A k \in Key : Follows(k) /\ Later(k)

-----------------------------------------------------------------------------
(* Constants and types.                                                    *)

LEMMA Requests ==
  ASSUME NEW r \in Request
  PROVE  /\ KeyOf(r) \in Key /\ QueueOf(r) \in Table
         /\ Op(r) \in {"revoke", "create", "update", "delete"}
         /\ KeyOf(r) \in Client <=> Op(r) = "revoke"
         /\ r # None
  BY BroadcastAssumption DEF KeyOf, QueueOf, Op, TableOf, Table, Key

LEMMA Tables == \A k \in Key : TableOf(k) \in Table
  BY DEF TableOf, Table

LEMMA Starts ==
  /\ Nothing \in [Key -> Value] /\ Idle \in Refreshing /\ Sent \in Refreshing
  /\ Idle.state = "idle" /\ Sent.state = "sent"
  /\ \A k \in Key : Idle.snapshot[k] = None /\ Sent.snapshot[k] = None
  BY DEF Nothing, Value, Idle, Sent, Refreshing

LEMMA EventQueue ==
  ASSUME Types, NEW t \in Table, NEW e, events' = [events EXCEPT ![t] = e], e \in Seq(Request)
  PROVE  events' \in [Table -> Seq(Request)] /\ events'[t] = e
         /\ \A o \in Table \ {t} : events'[o] = events[o]
  BY DEF Types

LEMMA Taken ==
  ASSUME Types, NEW t \in Table, Received(t)
  PROVE  /\ events[t] \in Seq(Request) /\ events[t] # <<>>
         /\ Head(events[t]) \in Request /\ Head(events[t]) = events[t][1]
         /\ Len(events[t]) \in Nat /\ Len(events[t]) >= 1
         /\ events' \in [Table -> Seq(Request)]
         /\ Len(events'[t]) = Len(events[t]) - 1
         /\ \A n \in 1..Len(events'[t]) : events'[t][n] = events[t][n + 1]
         /\ \A o \in Table \ {t} : events'[o] = events[o]
  <1>1. events[t] \in Seq(Request) /\ events[t] # <<>>
    BY DEF Types, Received
  <1>2. Tail(events[t]) \in Seq(Request) /\ events' = [events EXCEPT ![t] = Tail(events[t])]
    BY <1>1 DEF Received
  <1>3. events'[t] = Tail(events[t])
    BY <1>2, EventQueue
  <1>4. \A o \in Table \ {t} : events'[o] = events[o]
    BY <1>2, EventQueue
  <1>5. events' \in [Table -> Seq(Request)]
    BY <1>2, EventQueue
  <1> DEFINE q == events[t]
  <1>6. q \in Seq(Request) /\ q # <<>>
    BY <1>1
  <1> HIDE DEF q
  <1>7. /\ Len(q) \in Nat /\ Len(q) >= 1 /\ Head(q) \in Request /\ Head(q) = q[1]
        /\ Len(Tail(q)) = Len(q) - 1 /\ \A n \in 1..Len(Tail(q)) : Tail(q)[n] = q[n + 1]
    BY <1>6
  <1> QED BY <1>1, <1>3, <1>4, <1>5, <1>7 DEF q

LEMMA Given ==
  ASSUME Types, NEW r \in Request,
         events' = [events EXCEPT ![QueueOf(r)] = Append(@, r)]
  PROVE  /\ events' \in [Table -> Seq(Request)]
         /\ Len(events[QueueOf(r)]) \in Nat
         /\ Len(events'[QueueOf(r)]) = Len(events[QueueOf(r)]) + 1
         /\ events'[QueueOf(r)][Len(events[QueueOf(r)]) + 1] = r
         /\ \A n \in 1..Len(events[QueueOf(r)]) : events'[QueueOf(r)][n] = events[QueueOf(r)][n]
         /\ \A o \in Table \ {QueueOf(r)} : events'[o] = events[o]
  <1> DEFINE t == QueueOf(r)
  <1>1. t \in Table /\ events[t] \in Seq(Request)
    BY Requests DEF Types
  <1>2. /\ Append(events[t], r) \in Seq(Request)
        /\ events' = [events EXCEPT ![t] = Append(events[t], r)]
    BY <1>1
  <1> HIDE DEF t
  <1>3. events'[t] = Append(events[t], r) /\ \A o \in Table \ {t} : events'[o] = events[o]
    BY <1>1, <1>2, EventQueue
  <1>4. events' \in [Table -> Seq(Request)]
    BY <1>1, <1>2, EventQueue
  <1> DEFINE q == events[t]
  <1>5. q \in Seq(Request) /\ r \in Request
    BY <1>1
  <1> HIDE DEF q
  <1>6. /\ Len(q) \in Nat /\ Len(Append(q, r)) = Len(q) + 1
        /\ Append(q, r)[Len(q) + 1] = r
        /\ \A n \in 1..Len(q) : Append(q, r)[n] = q[n]
    BY <1>5
  <1> QED BY <1>3, <1>4, <1>6 DEF q, t

LEMMA RefreshChange ==
  ASSUME Types, NEW t \in Table, NEW s \in Slot, NEW x \in Refreshing,
         refresh' = [refresh EXCEPT ![<<t, s>>] = x]
  PROVE  /\ refresh' \in [Table \X Slot -> Refreshing]
         /\ refresh'[<<t, s>>] = x
         /\ \A o \in Table, p \in Slot :
              <<o, p>> # <<t, s>> => refresh'[<<o, p>>] = refresh[<<o, p>>]
  BY DEF Types

LEMMA StartingType ==
  /\ Starting \in [Table \X Slot -> Refreshing]
  /\ \A t \in Table, s \in Slot : Starting[<<t, s>>] \in {Sent, Idle}
  /\ \A t \in Table : Starting[<<t, "timer">>] = Sent
  BY Starts DEF Starting, Slot

LEMMA TypesInit == Init => Types
  BY Starts, StartingType DEF Init, Types

LEMMA FaultsType ==
  ASSUME Types, NEW t \in Table
  PROVE  /\ Sound => faults' \subseteq FaultKinds \X Table /\ faults \subseteq faults'
         /\ \A kind : Break(kind, t) =>
              /\ faults' \subseteq FaultKinds \X Table /\ faults \subseteq faults'
              /\ <<kind, t>> \in faults'
  BY DEF Types, Sound, Break

LEMMA TypesStep == Types /\ [Next]_vars => Types'
  <1> SUFFICES ASSUME Types, [Next]_vars PROVE Types'
    OBVIOUS
  <1>1. ASSUME NEW r \in Request, Arrive(r) PROVE Types'
    <2>1. Now + 1 \in Nat
      <3>1. IsFiniteSet({o \in Request : at[o] # 0})
        BY FS_Subset, BroadcastAssumption
      <3> QED BY <3>1, FS_CardinalityType DEF Now
    <2> QED BY <1>1, <2>1, Requests DEF Types, Arrive, To, Sound
  <1>2. ASSUME NEW r \in Request, executeQuery(r) \/ QueryRefused(r) PROVE Types'
    <2>1. QueueOf(r) \in Table /\ KeyOf(r) \in Key
      BY Requests
    <2>2. Saved(r) \in Value
      BY <2>1, Requests DEF Saved, Types, Value
    <2>3. faults' \subseteq FaultKinds \X Table
      BY <1>2, <2>1, FaultsType DEF executeQuery, QueryRefused
    <2> QED BY <1>2, <2>1, <2>2, <2>3 DEF Types, executeQuery, QueryRefused, To
  <1>3. ASSUME NEW r \in Request, publishMessage(r) \/ PublishFails(r) PROVE Types'
    <2>1. events' \in [Table -> Seq(Request)]
      BY <1>3, Given DEF publishMessage, PublishFails, Types
    <2>2. faults' \subseteq FaultKinds \X Table
      BY <1>3, Requests, FaultsType DEF publishMessage, PublishFails
    <2> QED BY <1>3, <2>1, <2>2 DEF Types, publishMessage, PublishFails, To
  <1>4. ASSUME NEW t \in Table, put(t) \/ refreshOnEvent(t) \/ EventLost(t) PROVE Types'
    <2>1. /\ events' \in [Table -> Seq(Request)] /\ Head(events[t]) \in Request
          /\ KeyOf(Head(events[t])) \in Key
      BY <1>4, Taken, Requests DEF put, refreshOnEvent, EventLost
    <2>2. faults' \subseteq FaultKinds \X Table
      BY <1>4, FaultsType DEF put, refreshOnEvent, EventLost
    <2>3. CASE put(t)
      BY <2>1, <2>2, <2>3 DEF put, Types, Value
    <2>4. CASE refreshOnEvent(t)
      <3>1. PICK s \in Slot : refresh' = [refresh EXCEPT ![<<t, s>>] = Sent]
        BY <2>4 DEF refreshOnEvent, Slot
      <3>2. refresh' \in [Table \X Slot -> Refreshing]
        BY <3>1, Starts, RefreshChange
      <3> QED BY <2>1, <2>2, <2>4, <3>2 DEF refreshOnEvent, Types
    <2>5. CASE EventLost(t)
      BY <2>1, <2>2, <2>5 DEF EventLost, Types
    <2> QED BY <1>4, <2>3, <2>4, <2>5
  <1>5. ASSUME NEW t \in Table, OnTimer(t) PROVE Types'
    <2>1. refresh' \in [Table \X Slot -> Refreshing]
      BY <1>5, Starts, RefreshChange DEF OnTimer, Slot
    <2> QED BY <1>5, <2>1 DEF OnTimer, Types, Sound
  <1>6. ASSUME NEW t \in Table, Restart(t) PROVE Types'
    BY <1>6, Starts, StartingType, FaultsType DEF Restart, Types
  <1>7. ASSUME NEW t \in Table, NEW s \in Slot, Refresh(t, s) \/ RefreshFails(t, s) PROVE Types'
    <2>1. refresh' \in [Table \X Slot -> Refreshing]
      <3>1. CASE Select(t, s)
        <4> DEFINE x == [state |-> "read",
                         snapshot |-> [k \in Key |-> IF TableOf(k) = t THEN table[k] ELSE None]]
        <4>1. x \in Refreshing
          BY DEF Types, Refreshing, Value
        <4> HIDE DEF x
        <4>2. refresh' = [refresh EXCEPT ![<<t, s>>] = x]
          BY <3>1 DEF Select, x
        <4> QED BY <4>1, <4>2, RefreshChange
      <3>2. CASE OnSelected(t, s) \/ RefreshFails(t, s)
        BY <3>2, Starts, RefreshChange DEF OnSelected, RefreshFails
      <3> QED BY <1>7, <3>1, <3>2 DEF Refresh
    <2>2. cache' \in [Key -> Value]
      BY <1>7 DEF Refresh, Select, OnSelected, RefreshFails, Types, Refreshing
    <2>3. faults' \subseteq FaultKinds \X Table
      BY <1>7, FaultsType DEF Refresh, Select, OnSelected, RefreshFails
    <2> QED BY <1>7, <2>1, <2>2, <2>3 DEF Refresh, Select, OnSelected, RefreshFails, Types
  <1>8. CASE UNCHANGED vars
    BY <1>8 DEF vars, Types
  <1> QED BY <1>1, <1>2, <1>3, <1>4, <1>5, <1>6, <1>7, <1>8 DEF Next

-----------------------------------------------------------------------------
(* Values belong to their keys.                                            *)

LEMMA ValuesStep == Types /\ Values /\ [Next]_vars => Values'
  <1> SUFFICES ASSUME Types, Values, [Next]_vars PROVE Values'
    OBVIOUS
  <1> DEFINE Events == \A t \in Table : \A n \in 1..Len(events[t]) : QueueOf(events[t][n]) = t
             Rows == /\ \A k \in Key : Fits(k, table[k]) /\ Fits(k, cache[k])
                     /\ \A ts \in Table \X Slot, k \in Key : Fits(k, refresh[ts].snapshot[k])
  <1>a. Events'
    <2>1. CASE UNCHANGED events
      BY <2>1 DEF Values
    <2>2. ASSUME NEW t \in Table, Received(t) PROVE Events'
      <3>1. \A n \in 1..Len(events'[t]) : QueueOf(events'[t][n]) = t
        <4> SUFFICES ASSUME NEW n \in 1..Len(events'[t]) PROVE QueueOf(events'[t][n]) = t
          OBVIOUS
        <4>1. /\ Len(events[t]) \in Nat /\ Len(events'[t]) = Len(events[t]) - 1
              /\ events'[t][n] = events[t][n + 1]
          BY <2>2, Taken
        <4>2. n + 1 \in 1..Len(events[t])
          BY <4>1
        <4> QED BY <4>1, <4>2 DEF Values
      <3>2. \A o \in Table \ {t} : events'[o] = events[o]
        BY <2>2, Taken
      <3> QED BY <3>1, <3>2 DEF Values
    <2>3. ASSUME NEW r \in Request, events' = [events EXCEPT ![QueueOf(r)] = Append(@, r)]
          PROVE  Events'
      <3> DEFINE u == QueueOf(r)
                 q == events[u]
                 p == events'[u]
      <3>1. u \in Table /\ Len(q) \in Nat /\ Len(p) = Len(q) + 1 /\ p[Len(q) + 1] = r
        BY <2>3, Given, Requests
      <3>2. \A n \in 1..Len(q) : p[n] = q[n]
        BY <2>3, Given
      <3>3. \A n \in 1..Len(q) : QueueOf(q[n]) = u
        BY <3>1 DEF Values
      <3>4. \A o \in Table \ {u} : events'[o] = events[o]
        BY <2>3, Given
      <3>5. QueueOf(r) = u
        OBVIOUS
      <3>6. \A n \in 1..Len(p) : QueueOf(p[n]) = u
        <4> HIDE DEF p, q, u
        <4> SUFFICES ASSUME NEW n \in 1..Len(p) PROVE QueueOf(p[n]) = u
          OBVIOUS
        <4>1. n \in 1..Len(q) \/ n = Len(q) + 1
          BY <3>1
        <4> QED BY <3>1, <3>2, <3>3, <3>5, <4>1
      <3> QED BY <3>4, <3>6 DEF Values
    <2> QED BY <2>1, <2>2, <2>3
            DEF Next, vars, Arrive, executeQuery, QueryRefused, publishMessage, PublishFails, put,
                refreshOnEvent, OnTimer, EventLost, Restart, Refresh, Select, OnSelected,
                RefreshFails
  <1> SUFFICES Rows'
    BY <1>a DEF Values
  <1>1. CASE UNCHANGED <<table, cache, refresh>>
    BY <1>1 DEF Values
  <1>2. ASSUME NEW r \in Request, executeQuery(r) PROVE Rows'
    <2>1. KeyOf(r) \in Key /\ UNCHANGED <<cache, refresh>>
          /\ table' = [table EXCEPT ![KeyOf(r)] = Saved(r)]
      BY <1>2, Requests DEF executeQuery
    <2>2. Fits(KeyOf(r), Saved(r))
      BY <2>1, Requests DEF Values, Saved, Fits
    <2> QED BY <2>1, <2>2 DEF Values, Types
  <1>3. ASSUME NEW t \in Table, put(t) PROVE Rows'
    <2> DEFINE r == Head(events[t])
    <2>1. r \in Request /\ KeyOf(r) \in Key /\ UNCHANGED <<table, refresh>>
          /\ cache' = [cache EXCEPT ![KeyOf(r)] = r] /\ Op(r) # "delete"
      BY <1>3, Taken, Requests DEF put, Puts
    <2> QED BY <2>1 DEF Values, Types, Fits
  <1>4. ASSUME NEW t \in Table, NEW s \in Slot, NEW x \in Refreshing, UNCHANGED <<table, cache>>,
               refresh' = [refresh EXCEPT ![<<t, s>>] = x], \A k \in Key : Fits(k, x.snapshot[k])
        PROVE  Rows'
    BY <1>4, RefreshChange DEF Values
  <1>5. ASSUME NEW t \in Table, refreshOnEvent(t) \/ OnTimer(t) PROVE Rows'
    <2>1. PICK s \in Slot : refresh' = [refresh EXCEPT ![<<t, s>>] = Sent]
      BY <1>5 DEF refreshOnEvent, OnTimer, Slot
    <2>2. UNCHANGED <<table, cache>> \/ (table' = table /\ cache' = cache)
      BY <1>5 DEF refreshOnEvent, OnTimer
    <2> QED BY <1>4, <2>1, <2>2, Starts DEF Fits
  <1>6. ASSUME NEW t \in Table, Restart(t) PROVE Rows'
    BY <1>6, Starts, StartingType DEF Restart, Values, Fits, Nothing
  <1>7. ASSUME NEW t \in Table, NEW s \in Slot, Refresh(t, s) \/ RefreshFails(t, s) PROVE Rows'
    <2>1. CASE Select(t, s)
      <3> DEFINE x == [state |-> "read",
                       snapshot |-> [k \in Key |-> IF TableOf(k) = t THEN table[k] ELSE None]]
      <3>1. x \in Refreshing /\ \A k \in Key : Fits(k, x.snapshot[k])
        BY DEF Types, Values, Refreshing, Value, Fits
      <3> HIDE DEF x
      <3>2. refresh' = [refresh EXCEPT ![<<t, s>>] = x] /\ UNCHANGED <<table, cache>>
        BY <2>1 DEF Select, x
      <3> QED BY <1>4, <3>1, <3>2
    <2>2. CASE OnSelected(t, s)
      <3>1. /\ refresh' = [refresh EXCEPT ![<<t, s>>] = Idle] /\ UNCHANGED table
            /\ cache' = [k \in Key |-> IF TableOf(k) = t THEN refresh[<<t, s>>].snapshot[k]
                                                         ELSE cache[k]]
        BY <2>2 DEF OnSelected
      <3>2. \A k \in Key : Fits(k, cache'[k])
        BY <3>1 DEF Values
      <3>3. \A ts \in Table \X Slot, k \in Key : Fits(k, refresh'[ts].snapshot[k])
        BY <3>1, Starts, RefreshChange DEF Values, Fits
      <3> QED BY <3>1, <3>2, <3>3 DEF Values
    <2>3. CASE RefreshFails(t, s)
      BY <1>4, <2>3, Starts DEF RefreshFails, Fits
    <2> QED BY <1>7, <2>1, <2>2, <2>3 DEF Refresh
  <1> QED BY <1>1, <1>2, <1>3, <1>5, <1>6, <1>7
          DEF Next, vars, Arrive, publishMessage, QueryRefused, PublishFails, EventLost
-----------------------------------------------------------------------------
(* What a step leaves of what is known of a key.                           *)

SameRow(k) ==
  /\ table'[k] = table[k]
  /\ \A r \in Request : KeyOf(r) = k => stage'[r] = stage[r]

LEMMA CleanBefore ==
  ASSUME Types, [Next]_vars, NEW k \in Key, Clean(k)'
  PROVE  Clean(k)
  <1>1. faults \subseteq faults'
    BY Requests, FaultsType
       DEF Next, vars, Arrive, executeQuery, QueryRefused, publishMessage, PublishFails, put,
           refreshOnEvent, OnTimer, EventLost, Restart, Refresh, Select, OnSelected, RefreshFails,
           Sound
  <1>2. raced \subseteq raced'
    BY DEF Next, vars, Arrive, executeQuery, QueryRefused, publishMessage, PublishFails, put,
           refreshOnEvent, OnTimer, EventLost, Restart, Refresh, Select, OnSelected, RefreshFails
  <1> QED BY <1>1, <1>2 DEF Clean, Broke

(* A fault that loses something for a key.                                 *)
LEMMA Dirty ==
  ASSUME Types, NEW kind \in {"publishLost", "eventLost", "refreshLost"}, NEW k \in Key,
         Break(kind, TableOf(k))
  PROVE  ~Clean(k)'
  <1>1. <<kind, TableOf(k)>> \in faults'
    BY Tables, FaultsType
  <1>2. <<kind, TableOf(k)>>[1] = kind /\ <<kind, TableOf(k)>>[2] = TableOf(k)
    OBVIOUS
  <1> QED BY <1>1, <1>2 DEF Clean, Broke

LEMMA RowFrame ==
  ASSUME NEW k \in Key, SameRow(k)
  PROVE  /\ Publishing(k)' <=> Publishing(k)
         /\ OneAtATime(k) => OneAtATime(k)'
         /\ RowIsNew(k) => RowIsNew(k)'
  <1>1. Publishing(k)' <=> Publishing(k)
    BY DEF SameRow, Publishing
  <1>2. OneAtATime(k) => OneAtATime(k)'
    BY DEF SameRow, OneAtATime, InFlight
  <1>3. RowIsNew(k) => RowIsNew(k)'
    BY DEF SameRow, RowIsNew
  <1> QED BY <1>1, <1>2, <1>3

LEMMA LaterFrame ==
  ASSUME NEW k \in Key, SameRow(k), at' = at, Later(k), Clean(k)
  PROVE  Later(k)'
  BY DEF SameRow, Later, InFlight

LEMMA EventFrame ==
  ASSUME NEW k \in Key, SameRow(k), events'[TableOf(k)] = events[TableOf(k)]
  PROVE  /\ Queued(k)' <=> Queued(k)
         /\ Pending(k)' <=> Pending(k)
         /\ EventIsNew(k) => EventIsNew(k)'
  <1>1. Queued(k)' <=> Queued(k)
    BY DEF Queued
  <1>2. \A n : LastEvent(k, n)' <=> LastEvent(k, n)
    BY DEF LastEvent
  <1>3. EventIsNew(k) => EventIsNew(k)'
    BY <1>2, RowFrame DEF EventIsNew, SameRow
  <1> QED BY <1>1, <1>3, RowFrame DEF Pending

(* The refreshes of the other table.                                       *)
LEMMA RefreshFrame ==
  ASSUME NEW k \in Key, SameRow(k), cache'[k] = cache[k], Pending(k) => Pending(k)',
         \A s \in Slot : refresh'[<<TableOf(k), s>>] = refresh[<<TableOf(k), s>>]
  PROVE  /\ SnapshotIsNew(k) => SnapshotIsNew(k)'
         /\ CacheIsNew(k) => CacheIsNew(k)'
  BY DEF SameRow, SnapshotIsNew, CacheIsNew

LEMMA FollowsFrame ==
  ASSUME NEW k \in Key, SameRow(k), cache'[k] = cache[k],
         events'[TableOf(k)] = events[TableOf(k)],
         \A s \in Slot : refresh'[<<TableOf(k), s>>] = refresh[<<TableOf(k), s>>],
         Follows(k), Clean(k)
  PROVE  Follows(k)'
  <1>1. OneAtATime(k)' /\ RowIsNew(k)'
    BY RowFrame DEF Follows
  <1>2. EventIsNew(k)' /\ (Pending(k) => Pending(k)')
    BY EventFrame DEF Follows
  <1>3. SnapshotIsNew(k)' /\ CacheIsNew(k)'
    BY <1>2, RefreshFrame DEF Follows
  <1> QED BY <1>1, <1>2, <1>3 DEF Follows

(* An event of the table is taken from its queue.                          *)
LEMMA TakenFrame ==
  ASSUME Types, NEW k \in Key, SameRow(k), Received(TableOf(k)), EventIsNew(k)
  PROVE  /\ EventIsNew(k)'
         /\ Queued(k)' => Queued(k)
         /\ KeyOf(Head(events[TableOf(k)])) # k => (Pending(k) => Pending(k)')
         /\ KeyOf(Head(events[TableOf(k)])) = k /\ Puts(Head(events[TableOf(k)])) =>
              Pending(k)' \/ table'[k] = Head(events[TableOf(k)])
  <1> DEFINE q == events[TableOf(k)]
             p == events'[TableOf(k)]
  <1>1. /\ Len(q) \in Nat /\ Len(q) >= 1 /\ Len(p) = Len(q) - 1
        /\ \A n \in 1..Len(p) : p[n] = q[n + 1]
        /\ Head(q) = q[1]
    BY Taken, Tables
  <1>2. /\ Queued(k) <=> \E n \in 1..Len(q) : KeyOf(q[n]) = k
        /\ Queued(k)' <=> \E n \in 1..Len(p) : KeyOf(p[n]) = k
    BY DEF Queued
  <1>3. /\ \A n : LastEvent(k, n) <=> /\ n \in 1..Len(q) /\ KeyOf(q[n]) = k
                                      /\ \A m \in (n + 1)..Len(q) : KeyOf(q[m]) # k
        /\ \A n : LastEvent(k, n)' <=> /\ n \in 1..Len(p) /\ KeyOf(p[n]) = k
                                       /\ \A m \in (n + 1)..Len(p) : KeyOf(p[m]) # k
    BY DEF LastEvent
  <1>4. /\ \A n \in 1..Len(q) : LastEvent(k, n) /\ Puts(q[n]) => Publishing(k) \/ table[k] = q[n]
        /\ EventIsNew(k)' <=>
             \A n \in 1..Len(p) : LastEvent(k, n)' /\ Puts(p[n]) =>
               Publishing(k)' \/ table'[k] = p[n]
    BY DEF EventIsNew
  <1>5. Publishing(k)' <=> Publishing(k)
    BY RowFrame
  <1> HIDE DEF q, p
  <1>6. ASSUME NEW n \in 1..Len(p), LastEvent(k, n)'
        PROVE  n + 1 \in 1..Len(q) /\ LastEvent(k, n + 1) /\ p[n] = q[n + 1]
    <2>1. n + 1 \in 1..Len(q) /\ p[n] = q[n + 1] /\ KeyOf(p[n]) = k
      BY <1>1, <1>3, <1>6
    <2>2. ASSUME NEW m \in (n + 1 + 1)..Len(q) PROVE KeyOf(q[m]) # k
      <3>1. m - 1 \in (n + 1)..Len(p) /\ m - 1 \in 1..Len(p) /\ (m - 1) + 1 = m
        BY <1>1
      <3>2. p[m - 1] = q[(m - 1) + 1] /\ KeyOf(p[m - 1]) # k
        BY <1>1, <1>3, <1>6, <3>1
      <3>3. p[m - 1] = q[m]
        BY <3>1, <3>2
      <3> QED BY <3>2, <3>3
    <2> QED BY <1>3, <2>1, <2>2
  <1>7. EventIsNew(k)'
    BY <1>4, <1>5, <1>6 DEF SameRow
  <1>8. Queued(k)' => Queued(k)
    <2> SUFFICES ASSUME NEW n \in 1..Len(p), KeyOf(p[n]) = k PROVE Queued(k)
      BY <1>2
    <2>1. n + 1 \in 1..Len(q)
      BY <1>1
    <2> QED BY <1>1, <1>2, <2>1
  <1>9. ASSUME NEW n \in 1..Len(q), KeyOf(q[n]) = k, n # 1 PROVE Queued(k)'
    <2>1. n - 1 \in 1..Len(p) /\ (n - 1) + 1 = n
      BY <1>1, <1>9
    <2> QED BY <1>1, <1>2, <1>9, <2>1
  <1>10. KeyOf(Head(q)) # k => (Pending(k) => Pending(k)')
    BY <1>1, <1>2, <1>5, <1>9 DEF Pending
  <1>11. ASSUME KeyOf(Head(q)) = k, Puts(Head(q)) PROVE Pending(k)' \/ table'[k] = Head(q)
    <2>1. CASE \E m \in (1 + 1)..Len(q) : KeyOf(q[m]) = k
      <3>1. PICK m \in (1 + 1)..Len(q) : KeyOf(q[m]) = k
        BY <2>1
      <3>2. m \in 1..Len(q) /\ m # 1
        BY <1>1
      <3> QED BY <1>9, <3>1, <3>2 DEF Pending
    <2>2. CASE \A m \in (1 + 1)..Len(q) : KeyOf(q[m]) # k
      <3>1. 1 \in 1..Len(q) /\ LastEvent(k, 1)
        BY <1>1, <1>3, <1>11, <2>2
      <3> QED BY <1>1, <1>4, <1>5, <1>11, <3>1 DEF Pending, SameRow
    <2> QED BY <2>1, <2>2
  <1> QED BY <1>7, <1>8, <1>10, <1>11 DEF q

(* An event of another key is put on the queue of the table.               *)
LEMMA GivenFrame ==
  ASSUME Types, NEW k \in Key, NEW r \in Request, SameRow(k), KeyOf(r) # k,
         events' = [events EXCEPT ![QueueOf(r)] = Append(@, r)], EventIsNew(k)
  PROVE  EventIsNew(k)' /\ (Pending(k) => Pending(k)')
  <1>1. CASE QueueOf(r) # TableOf(k)
    <2>1. events'[TableOf(k)] = events[TableOf(k)]
      BY <1>1, Given, Tables
    <2> QED BY <2>1, EventFrame
  <1>2. CASE QueueOf(r) = TableOf(k)
    <2> DEFINE q == events[TableOf(k)]
               p == events'[TableOf(k)]
    <2>1. /\ Len(q) \in Nat /\ Len(p) = Len(q) + 1 /\ p[Len(q) + 1] = r
          /\ \A n \in 1..Len(q) : p[n] = q[n]
      <3>1. /\ Len(events[QueueOf(r)]) \in Nat
            /\ Len(events'[QueueOf(r)]) = Len(events[QueueOf(r)]) + 1
            /\ events'[QueueOf(r)][Len(events[QueueOf(r)]) + 1] = r
            /\ \A n \in 1..Len(events[QueueOf(r)]) :
                 events'[QueueOf(r)][n] = events[QueueOf(r)][n]
        BY Given
      <3> QED BY <1>2, <3>1
    <2>2. /\ Queued(k) <=> \E n \in 1..Len(q) : KeyOf(q[n]) = k
          /\ Queued(k)' <=> \E n \in 1..Len(p) : KeyOf(p[n]) = k
      BY DEF Queued
    <2>3. /\ \A n : LastEvent(k, n) <=> /\ n \in 1..Len(q) /\ KeyOf(q[n]) = k
                                        /\ \A m \in (n + 1)..Len(q) : KeyOf(q[m]) # k
          /\ \A n : LastEvent(k, n)' <=> /\ n \in 1..Len(p) /\ KeyOf(p[n]) = k
                                         /\ \A m \in (n + 1)..Len(p) : KeyOf(p[m]) # k
      BY DEF LastEvent
    <2>4. /\ \A n \in 1..Len(q) : LastEvent(k, n) /\ Puts(q[n]) => Publishing(k) \/ table[k] = q[n]
          /\ EventIsNew(k)' <=>
               \A n \in 1..Len(p) : LastEvent(k, n)' /\ Puts(p[n]) =>
                 Publishing(k)' \/ table'[k] = p[n]
      BY DEF EventIsNew
    <2>5. Publishing(k)' <=> Publishing(k)
      BY RowFrame
    <2> HIDE DEF q, p
    <2>6. ASSUME NEW n \in 1..Len(p), LastEvent(k, n)'
          PROVE  n \in 1..Len(q) /\ LastEvent(k, n) /\ p[n] = q[n]
      <3>1. n # Len(q) + 1
        BY <2>1, <2>3, <2>6
      <3>2. n \in 1..Len(q)
        BY <2>1, <3>1
      <3>3. KeyOf(q[n]) = k
        BY <2>1, <2>3, <2>6, <3>2
      <3>4. ASSUME NEW m \in (n + 1)..Len(q) PROVE KeyOf(q[m]) # k
        <4>1. m \in (n + 1)..Len(p) /\ m \in 1..Len(q)
          BY <2>1
        <4> QED BY <2>1, <2>3, <2>6, <4>1
      <3> QED BY <2>1, <2>3, <3>2, <3>3, <3>4
    <2>7. EventIsNew(k)'
      BY <2>4, <2>5, <2>6 DEF SameRow
    <2>8. Queued(k) => Queued(k)'
      <3> SUFFICES ASSUME NEW n \in 1..Len(q), KeyOf(q[n]) = k PROVE Queued(k)'
        BY <2>2
      <3>1. n \in 1..Len(p)
        BY <2>1
      <3> QED BY <2>1, <2>2, <3>1
    <2> QED BY <2>5, <2>7, <2>8 DEF Pending
  <1> QED BY <1>1, <1>2
-----------------------------------------------------------------------------
(* A clean key is followed: one action at a time.                          *)

(* Only requests for a key change its row and their stages.                *)
LEMMA Elsewhere ==
  ASSUME Types, NEW k \in Key, NEW r \in Request, KeyOf(r) # k,
         Arrive(r) \/ executeQuery(r) \/ QueryRefused(r) \/ publishMessage(r) \/ PublishFails(r)
  PROVE  SameRow(k) /\ cache' = cache /\ refresh' = refresh
  BY DEF Types, SameRow, Arrive, executeQuery, QueryRefused, publishMessage, PublishFails, To

LEMMA ArriveFollows ==
  ASSUME Types, NEW k \in Key, NEW r \in Request, Arrive(r), Follows(k), Clean(k), Clean(k)'
  PROVE  Follows(k)'
  <1>1. stage' = [stage EXCEPT ![r] = "saving"] /\ stage[r] = "new"
    BY DEF Arrive, To
  <1>2. UNCHANGED <<table, cache, events, refresh>>
    BY DEF Arrive
  <1>3. Publishing(k)' <=> Publishing(k)
    BY <1>1 DEF Publishing, Types
  <1>4. Queued(k)' <=> Queued(k)
    BY <1>2 DEF Queued
  <1>5. OneAtATime(k)'
    <2>1. KeyOf(r) = k => \A o \in InFlight : KeyOf(o) # k
      BY DEF Arrive, Clean
    <2> QED BY <1>1, <2>1 DEF Follows, OneAtATime, InFlight, Types
  <1>6. RowIsNew(k)'
    BY <1>1, <1>2 DEF Follows, RowIsNew, Types
  <1>7. EventIsNew(k)'
    BY <1>2, <1>3 DEF Follows, EventIsNew, LastEvent
  <1>8. SnapshotIsNew(k)'
    BY <1>2, <1>3, <1>4 DEF Follows, SnapshotIsNew, Pending
  <1>9. CacheIsNew(k)'
    BY <1>2, <1>3, <1>4 DEF Follows, CacheIsNew, Pending
  <1> QED BY <1>5, <1>6, <1>7, <1>8, <1>9 DEF Follows

LEMMA executeQueryFollows ==
  ASSUME Types, NEW k \in Key, NEW r \in Request, executeQuery(r), Follows(k), Clean(k)
  PROVE  Follows(k)'
  <1>1. CASE KeyOf(r) # k
    BY <1>1, Elsewhere, FollowsFrame DEF executeQuery
  <1>2. CASE KeyOf(r) = k /\ Op(r) = "create" /\ table[k] # None
    <2>1. stage' = [stage EXCEPT ![r] = "fail"] /\ stage[r] = "saving"
      BY <1>2 DEF executeQuery, To
    <2>2. UNCHANGED <<cache, events, refresh>> /\ table'[k] = table[k]
      BY <1>2, Requests DEF executeQuery, Saved, Types
    <2>3. Publishing(k)' <=> Publishing(k)
      BY <2>1 DEF Publishing, Types
    <2>4. Queued(k)' <=> Queued(k)
      BY <2>2 DEF Queued
    <2>5. OneAtATime(k)' /\ RowIsNew(k)'
      BY <2>1, <2>2 DEF Follows, OneAtATime, InFlight, RowIsNew, Types
    <2>6. EventIsNew(k)'
      BY <2>2, <2>3 DEF Follows, EventIsNew, LastEvent
    <2>7. SnapshotIsNew(k)' /\ CacheIsNew(k)'
      BY <2>2, <2>3, <2>4 DEF Follows, SnapshotIsNew, CacheIsNew, Pending
    <2> QED BY <2>5, <2>6, <2>7 DEF Follows
  <1>3. CASE KeyOf(r) = k /\ ~(Op(r) = "create" /\ table[k] # None)
    <2>1. stage' = [stage EXCEPT ![r] = "publishing"] /\ stage[r] = "saving"
      BY <1>3 DEF executeQuery, To
    <2>2. Puts(r) => table'[k] = r
      BY <1>3, Requests DEF executeQuery, Saved, Puts, Types
    <2>3. Publishing(k)'
      BY <1>3, <2>1 DEF Publishing, Types
    <2>4. OneAtATime(k)'
      BY <2>1 DEF Follows, OneAtATime, InFlight, Types
    <2>5. RowIsNew(k)'
      <3> SUFFICES ASSUME NEW o \in Request, stage'[o] = "publishing", KeyOf(o) = k, Puts(o)
                   PROVE  table'[k] = o
        BY DEF RowIsNew
      <3>1. o \in InFlight /\ r \in InFlight
        BY <2>1 DEF InFlight, Types
      <3> QED BY <1>3, <2>2, <3>1 DEF Follows, OneAtATime
    <2>6. EventIsNew(k)'
      BY <2>3 DEF EventIsNew
    <2>7. SnapshotIsNew(k)' /\ CacheIsNew(k)'
      BY <2>3 DEF SnapshotIsNew, CacheIsNew, Pending
    <2> QED BY <2>4, <2>5, <2>6, <2>7 DEF Follows
  <1> QED BY <1>1, <1>2, <1>3

LEMMA QueryRefusedFollows ==
  ASSUME Types, NEW k \in Key, NEW r \in Request, QueryRefused(r), Follows(k), Clean(k)
  PROVE  Follows(k)'
  <1>1. stage' = [stage EXCEPT ![r] = "fail"] /\ stage[r] = "saving"
    BY DEF QueryRefused, To
  <1>2. UNCHANGED <<table, cache, events, refresh>>
    BY DEF QueryRefused
  <1>3. Publishing(k)' <=> Publishing(k)
    BY <1>1 DEF Publishing, Types
  <1>4. Queued(k)' <=> Queued(k)
    BY <1>2 DEF Queued
  <1>5. OneAtATime(k)' /\ RowIsNew(k)'
    BY <1>1, <1>2 DEF Follows, OneAtATime, InFlight, RowIsNew, Types
  <1>6. EventIsNew(k)'
    BY <1>2, <1>3 DEF Follows, EventIsNew, LastEvent
  <1>7. SnapshotIsNew(k)' /\ CacheIsNew(k)'
    BY <1>2, <1>3, <1>4 DEF Follows, SnapshotIsNew, CacheIsNew, Pending
  <1> QED BY <1>5, <1>6, <1>7 DEF Follows

LEMMA publishMessageFollows ==
  ASSUME Types, NEW k \in Key, NEW r \in Request, publishMessage(r), Follows(k), Clean(k)
  PROVE  Follows(k)'
  <1>1. UNCHANGED <<table, cache, refresh>>
        /\ events' = [events EXCEPT ![QueueOf(r)] = Append(@, r)]
    BY DEF publishMessage
  <1>2. CASE KeyOf(r) # k
    <2>1. SameRow(k)
      BY <1>2, Elsewhere
    <2>2. EventIsNew(k)' /\ (Pending(k) => Pending(k)')
      BY <1>1, <1>2, <2>1, GivenFrame DEF Follows
    <2>3. SnapshotIsNew(k)' /\ CacheIsNew(k)'
      BY <1>1, <2>1, <2>2, RefreshFrame DEF Follows
    <2> QED BY <2>1, <2>2, <2>3, RowFrame DEF Follows
  <1>3. CASE KeyOf(r) = k
    <2> DEFINE q == events[TableOf(k)]
               p == events'[TableOf(k)]
    <2>1. /\ Len(q) \in Nat /\ Len(p) = Len(q) + 1 /\ p[Len(q) + 1] = r
      BY <1>1, <1>3, Given DEF QueueOf
    <2>2. stage' = [stage EXCEPT ![r] = "ok"] /\ stage[r] = "publishing"
      BY DEF publishMessage, To
    <2>3. Queued(k)' <=> \E n \in 1..Len(p) : KeyOf(p[n]) = k
      BY DEF Queued
    <2>4. \A n : LastEvent(k, n)' <=> /\ n \in 1..Len(p) /\ KeyOf(p[n]) = k
                                      /\ \A m \in (n + 1)..Len(p) : KeyOf(p[m]) # k
      BY DEF LastEvent
    <2>5. EventIsNew(k)' <=>
            \A n \in 1..Len(p) : LastEvent(k, n)' /\ Puts(p[n]) =>
              Publishing(k)' \/ table'[k] = p[n]
      BY DEF EventIsNew
    <2> HIDE DEF q, p
    <2>6. Queued(k)'
      <3>1. Len(q) + 1 \in 1..Len(p)
        BY <2>1
      <3> QED BY <1>3, <2>1, <2>3, <3>1
    <2>7. ASSUME NEW n \in 1..Len(p), LastEvent(k, n)' PROVE p[n] = r
      <3>1. CASE n = Len(q) + 1
        BY <2>1, <3>1
      <3>2. CASE n # Len(q) + 1
        <4>1. Len(q) + 1 \in (n + 1)..Len(p)
          BY <2>1, <3>2
        <4> QED BY <1>3, <2>1, <2>4, <2>7, <4>1
      <3> QED BY <3>1, <3>2
    <2>8. Puts(r) => table'[k] = r
      BY <1>1, <1>3, <2>2 DEF Follows, RowIsNew
    <2>9. EventIsNew(k)'
      BY <2>5, <2>7, <2>8
    <2>10. OneAtATime(k)' /\ RowIsNew(k)'
      BY <1>1, <2>2 DEF Follows, OneAtATime, InFlight, RowIsNew, Types
    <2>11. SnapshotIsNew(k)' /\ CacheIsNew(k)'
      BY <2>6 DEF SnapshotIsNew, CacheIsNew, Pending
    <2> QED BY <2>9, <2>10, <2>11 DEF Follows
  <1> QED BY <1>2, <1>3

LEMMA PublishFailsFollows ==
  ASSUME Types, NEW k \in Key, NEW r \in Request, PublishFails(r), Follows(k), Clean(k), Clean(k)'
  PROVE  Follows(k)'
  <1>1. TableOf(k) # QueueOf(r)
    BY Dirty DEF PublishFails
  <1>2. events'[TableOf(k)] = events[TableOf(k)]
    BY <1>1, Given, Tables DEF PublishFails
  <1>3. KeyOf(r) # k
    BY <1>1 DEF QueueOf
  <1> QED BY <1>2, <1>3, Elsewhere, FollowsFrame

LEMMA putFollows ==
  ASSUME Types, Values, NEW k \in Key, NEW t \in Table, put(t), Follows(k), Clean(k), Clean(k)'
  PROVE  Follows(k)'
  <1> DEFINE r == Head(events[t])
  <1>1. /\ SameRow(k) /\ refresh' = refresh /\ Received(t) /\ Puts(r)
        /\ cache' = [cache EXCEPT ![KeyOf(r)] = r]
    BY DEF put, SameRow
  <1>2. r \in Request /\ KeyOf(r) \in Key
    BY <1>1, Taken, Requests
  <1>3. CASE TableOf(k) # t
    <2>1. events'[TableOf(k)] = events[TableOf(k)]
      BY <1>1, <1>3, Taken, Tables
    <2>2. QueueOf(r) = t
      <3>1. /\ Len(events[t]) \in Nat /\ Len(events[t]) >= 1 /\ r = events[t][1]
        BY <1>1, Taken
      <3>2. 1 \in 1..Len(events[t])
        BY <3>1
      <3> QED BY <3>1, <3>2 DEF Values
    <2>3. KeyOf(r) # k
      BY <1>3, <2>2 DEF QueueOf
    <2>4. cache'[k] = cache[k]
      BY <1>1, <2>3 DEF Types
    <2> QED BY <1>1, <2>1, <2>4, FollowsFrame
  <1>4. CASE TableOf(k) = t /\ KeyOf(r) # k
    <2>1. EventIsNew(k)' /\ (Pending(k) => Pending(k)')
      BY <1>1, <1>4, TakenFrame DEF Follows
    <2>2. cache'[k] = cache[k]
      BY <1>1, <1>2, <1>4 DEF Types
    <2>3. SnapshotIsNew(k)' /\ CacheIsNew(k)'
      BY <1>1, <2>1, <2>2, RefreshFrame DEF Follows
    <2> QED BY <1>1, <2>1, <2>3, RowFrame DEF Follows
  <1>5. CASE TableOf(k) = t /\ KeyOf(r) = k
    <2>1. ~Snapshots(t)
      BY <1>5 DEF put, Clean
    <2>2. SnapshotIsNew(k)'
      BY <1>1, <1>5, <2>1 DEF SnapshotIsNew, Snapshots
    <2>3. EventIsNew(k)' /\ (Pending(k)' \/ table'[k] = r)
      BY <1>1, <1>5, TakenFrame DEF Follows
    <2>4. cache'[k] = r
      BY <1>1, <1>2, <1>5 DEF Types
    <2>5. CacheIsNew(k)'
      BY <2>3, <2>4 DEF CacheIsNew
    <2> QED BY <1>1, <2>2, <2>3, <2>5, RowFrame DEF Follows
  <1> QED BY <1>3, <1>4, <1>5

LEMMA refreshOnEventFollows ==
  ASSUME Types, NEW k \in Key, NEW t \in Table, refreshOnEvent(t), Follows(k), Clean(k), Clean(k)'
  PROVE  Follows(k)'
  <1>1. SameRow(k) /\ cache' = cache /\ Received(t)
    BY DEF refreshOnEvent, SameRow
  <1>2. PICK s \in Slot : refresh' = [refresh EXCEPT ![<<t, s>>] = Sent]
    BY DEF refreshOnEvent, Slot
  <1>3. /\ refresh'[<<t, s>>] = Sent
        /\ \A o \in Table, p \in Slot :
              <<o, p>> # <<t, s>> => refresh'[<<o, p>>] = refresh[<<o, p>>]
    BY <1>2, Starts, RefreshChange
  <1>4. CASE TableOf(k) # t
    <2>1. events'[TableOf(k)] = events[TableOf(k)]
      BY <1>1, <1>4, Taken, Tables
    <2>2. \A p \in Slot : refresh'[<<TableOf(k), p>>] = refresh[<<TableOf(k), p>>]
      BY <1>3, <1>4, Tables
    <2> QED BY <1>1, <2>1, <2>2, FollowsFrame
  <1>5. CASE TableOf(k) = t
    <2>1. ~Snapshots(t)
      BY <1>5 DEF refreshOnEvent, Clean
    <2>2. EventIsNew(k)'
      BY <1>1, <1>5, TakenFrame DEF Follows
    <2>3. \A p \in Slot : refresh'[<<t, p>>].state # "read"
      BY <1>3, <2>1, Starts DEF Snapshots
    <2>4. SnapshotIsNew(k)'
      BY <1>5, <2>3 DEF SnapshotIsNew
    <2>5. CacheIsNew(k)'
      BY <1>3, <1>5, Starts DEF CacheIsNew
    <2> QED BY <1>1, <2>2, <2>4, <2>5, RowFrame DEF Follows
  <1> QED BY <1>4, <1>5

LEMMA EventLostFollows ==
  ASSUME Types, NEW k \in Key, NEW t \in Table, EventLost(t), Follows(k), Clean(k), Clean(k)'
  PROVE  Follows(k)'
  <1>1. TableOf(k) # t
    BY Dirty DEF EventLost
  <1>2. SameRow(k) /\ events'[TableOf(k)] = events[TableOf(k)]
    BY <1>1, Taken, Tables DEF EventLost, SameRow
  <1> QED BY <1>2, FollowsFrame DEF EventLost

LEMMA RefreshFollows ==
  ASSUME Types, NEW k \in Key, NEW t \in Table, NEW s \in Slot,
         \/ s = "timer" /\ OnTimer(t)
         \/ Refresh(t, s) \/ RefreshFails(t, s),
         Follows(k), Clean(k), Clean(k)'
  PROVE  Follows(k)'
  <1>1. SameRow(k) /\ events' = events
    BY DEF OnTimer, Refresh, Select, OnSelected, RefreshFails, SameRow
  <1>2. Pending(k)' <=> Pending(k)
    BY <1>1, EventFrame
  <1>3. OneAtATime(k)' /\ RowIsNew(k)' /\ EventIsNew(k)'
    BY <1>1, RowFrame, EventFrame DEF Follows
  <1>4. CASE TableOf(k) = t /\ OnTimer(t)
    <2>1. /\ cache' = cache /\ refresh'[<<t, "timer">>] = Sent
          /\ \A p \in Slot : <<t, p>> # <<t, "timer">> => refresh'[<<t, p>>] = refresh[<<t, p>>]
      BY <1>4, Starts, RefreshChange DEF OnTimer, Slot
    <2>2. SnapshotIsNew(k)'
      BY <1>1, <1>2, <1>4, <2>1, Starts DEF Follows, SnapshotIsNew, SameRow
    <2>3. CacheIsNew(k)'
      BY <1>4, <2>1, Starts DEF CacheIsNew, Slot
    <2> QED BY <1>3, <2>2, <2>3 DEF Follows
  <1>5. CASE TableOf(k) = t /\ Select(t, s)
    <2> DEFINE x == [state |-> "read",
                     snapshot |-> [l \in Key |-> IF TableOf(l) = t THEN table[l] ELSE None]]
    <2>1. x \in Refreshing /\ x.state = "read" /\ x.snapshot[k] = table[k]
      BY <1>5 DEF Types, Refreshing, Value
    <2>2. refresh' = [refresh EXCEPT ![<<t, s>>] = x] /\ cache' = cache
      BY <1>5 DEF Select
    <2> HIDE DEF x
    <2>3. /\ refresh'[<<t, s>>] = x
          /\ \A p \in Slot : <<t, p>> # <<t, s>> => refresh'[<<t, p>>] = refresh[<<t, p>>]
      BY <2>1, <2>2, RefreshChange
    <2>4. SnapshotIsNew(k)'
      BY <1>1, <1>2, <1>5, <2>1, <2>3 DEF Follows, SnapshotIsNew, SameRow
    <2>5. CacheIsNew(k)'
      BY <1>5, <2>1, <2>3 DEF CacheIsNew
    <2> QED BY <1>3, <2>4, <2>5 DEF Follows
  <1>6. CASE TableOf(k) = t /\ OnSelected(t, s)
    <2>1. /\ refresh[<<t, s>>].state = "read" /\ refresh' = [refresh EXCEPT ![<<t, s>>] = Idle]
          /\ cache'[k] = refresh[<<t, s>>].snapshot[k]
      BY <1>6 DEF OnSelected
    <2>2. /\ refresh'[<<t, s>>] = Idle
          /\ \A p \in Slot : <<t, p>> # <<t, s>> => refresh'[<<t, p>>] = refresh[<<t, p>>]
      BY <2>1, Starts, RefreshChange
    <2>3. SnapshotIsNew(k)'
      BY <1>1, <1>2, <1>6, <2>2, Starts DEF Follows, SnapshotIsNew, SameRow
    <2>4. CacheIsNew(k)'
      BY <1>1, <1>2, <1>6, <2>1 DEF Follows, SnapshotIsNew, CacheIsNew, SameRow
    <2> QED BY <1>3, <2>3, <2>4 DEF Follows
  <1>7. CASE TableOf(k) = t /\ RefreshFails(t, s)
    BY <1>7, Dirty DEF RefreshFails
  <1>8. CASE TableOf(k) # t
    <2>1. PICK p \in Slot, x \in Refreshing : refresh' = [refresh EXCEPT ![<<t, p>>] = x]
      <3>1. CASE OnTimer(t)
        BY <3>1, Starts DEF OnTimer, Slot
      <3>2. CASE Select(t, s)
        <4> DEFINE x == [state |-> "read",
                         snapshot |-> [l \in Key |-> IF TableOf(l) = t THEN table[l] ELSE None]]
        <4>1. x \in Refreshing
          BY DEF Types, Refreshing, Value
        <4>2. refresh' = [refresh EXCEPT ![<<t, s>>] = x]
          BY <3>2 DEF Select
        <4> HIDE DEF x
        <4> QED BY <4>1, <4>2
      <3>3. CASE OnSelected(t, s) \/ RefreshFails(t, s)
        BY <3>3, Starts DEF OnSelected, RefreshFails
      <3> QED BY <3>1, <3>2, <3>3 DEF Refresh
    <2>2. \A q \in Slot : refresh'[<<TableOf(k), q>>] = refresh[<<TableOf(k), q>>]
      BY <1>8, <2>1, RefreshChange, Tables
    <2>3. cache'[k] = cache[k]
      BY <1>8 DEF OnTimer, Refresh, Select, OnSelected, RefreshFails
    <2> QED BY <1>1, <2>2, <2>3, FollowsFrame
  <1> QED BY <1>4, <1>5, <1>6, <1>7, <1>8 DEF Refresh

LEMMA RestartFollows ==
  ASSUME Types, NEW k \in Key, NEW t \in Table, Restart(t), Follows(k), Clean(k)
  PROVE  Follows(k)'
  <1>1. SameRow(k) /\ events' = events /\ refresh' = Starting
    BY DEF Restart, SameRow
  <1>2. OneAtATime(k)' /\ RowIsNew(k)' /\ EventIsNew(k)'
    BY <1>1, RowFrame, EventFrame DEF Follows
  <1>3. SnapshotIsNew(k)'
    BY <1>1, StartingType, Starts, Tables DEF SnapshotIsNew
  <1>4. CacheIsNew(k)'
    BY <1>1, StartingType, Starts, Tables DEF CacheIsNew, Slot
  <1> QED BY <1>2, <1>3, <1>4 DEF Follows

LEMMA FollowsStep ==
  ASSUME Types, Values, [Next]_vars, NEW k \in Key, Follows(k)
  PROVE  Follows(k)'
  <1> SUFFICES ASSUME Clean(k)' PROVE Follows(k)'
    BY DEF Follows
  <1>1. Clean(k)
    BY CleanBefore
  <1>2. ASSUME NEW r \in Request,
               \/ Arrive(r) \/ executeQuery(r) \/ publishMessage(r)
               \/ QueryRefused(r) \/ PublishFails(r)
        PROVE  Follows(k)'
    BY <1>1, <1>2, ArriveFollows, executeQueryFollows, publishMessageFollows, QueryRefusedFollows,
       PublishFailsFollows
  <1>3. ASSUME NEW t \in Table,
               put(t) \/ refreshOnEvent(t) \/ OnTimer(t) \/ EventLost(t) \/ Restart(t)
        PROVE  Follows(k)'
    BY <1>1, <1>3, putFollows, refreshOnEventFollows, EventLostFollows, RefreshFollows,
       RestartFollows DEF Slot
  <1>4. ASSUME NEW t \in Table, NEW s \in Slot, Refresh(t, s) \/ RefreshFails(t, s)
        PROVE  Follows(k)'
    BY <1>1, <1>4, RefreshFollows
  <1>5. CASE UNCHANGED vars
    BY <1>1, <1>5, FollowsFrame DEF vars, SameRow
  <1> QED BY <1>2, <1>3, <1>4, <1>5 DEF Next
-----------------------------------------------------------------------------
(* Times.                                                                  *)

LEMMA Arrival ==
  ASSUME Types, Clock, NEW r \in Request, Arrive(r)
  PROVE  /\ Now \in Nat /\ Now' = Now + 1 /\ at[r] = 0
         /\ at' \in [Request -> Nat] /\ at'[r] = Now + 1
         /\ \A o \in Request \ {r} : at'[o] = at[o] /\ stage'[o] = stage[o]
         /\ stage'[r] = "saving"
  <1> DEFINE s == {o \in Request : at[o] # 0}
             p == {o \in Request : at'[o] # 0}
  <1>1. IsFiniteSet(s) /\ Cardinality(s) \in Nat
    <2>1. IsFiniteSet(s)
      BY FS_Subset, BroadcastAssumption
    <2> QED BY <2>1, FS_CardinalityType
  <1>2. at[r] = 0 /\ at' = [at EXCEPT ![r] = Cardinality(s) + 1]
        /\ stage' = [stage EXCEPT ![r] = "saving"]
    BY DEF Arrive, Clock, Now, To
  <1>3. p = s \cup {r} /\ r \notin s
    <2>1. at'[r] # 0 /\ \A o \in Request \ {r} : at'[o] = at[o]
      BY <1>1, <1>2 DEF Types
    <2> QED BY <1>2, <2>1
  <1>4. Now = Cardinality(s) /\ Now' = Cardinality(p)
    BY DEF Now
  <1>5. at' \in [Request -> Nat]
    BY <1>1, <1>2 DEF Types
  <1>6. stage'[r] = "saving" /\ \A o \in Request \ {r} : stage'[o] = stage[o]
    BY <1>2 DEF Types
  <1>7. at'[r] = Cardinality(s) + 1 /\ \A o \in Request \ {r} : at'[o] = at[o]
    BY <1>2 DEF Types
  <1> HIDE DEF s, p
  <1>8. Cardinality(s \cup {r}) = Cardinality(s) + 1
    BY <1>1, <1>3, FS_AddElement
  <1> QED BY <1>1, <1>2, <1>3, <1>4, <1>5, <1>6, <1>7, <1>8

LEMMA ClockStep == Types /\ Clock /\ [Next]_vars => Clock'
  <1> SUFFICES ASSUME Types, Clock, [Next]_vars PROVE Clock'
    OBVIOUS
  <1>1. ASSUME NEW r \in Request, Arrive(r) PROVE Clock'
    <2>1. \A o \in Request : at[o] \in Nat /\ at[o] <= Now
      BY DEF Types, Clock
    <2>2. /\ Now \in Nat /\ Now' = Now + 1 /\ at'[r] = Now + 1 /\ stage'[r] = "saving"
          /\ \A o \in Request \ {r} : at'[o] = at[o] /\ stage'[o] = stage[o]
      BY <1>1, Arrival
    <2>3. \A o \in Request : at'[o] <= Now + 1
      BY <2>1, <2>2
    <2> QED BY <2>2, <2>3 DEF Clock
  <1>2. ASSUME at' = at, \A r \in Request : stage'[r] = "new" => stage[r] = "new"
        PROVE  Clock'
    BY <1>2 DEF Clock, Now
  <1>3. CASE /\ at' = at
             /\ \/ stage' = stage
                \/ \E r \in Request : stage' = [stage EXCEPT ![r] = "publishing"]
                \/ \E r \in Request : stage' = [stage EXCEPT ![r] = "ok"]
                \/ \E r \in Request : stage' = [stage EXCEPT ![r] = "fail"]
    BY <1>2, <1>3 DEF Types
  <1> QED BY <1>1, <1>3
          DEF Next, vars, executeQuery, QueryRefused, publishMessage, PublishFails, put,
              refreshOnEvent, OnTimer, EventLost, Restart, Refresh, Select, OnSelected,
              RefreshFails, To

LEMMA LaterStep ==
  ASSUME Types, Values, Clock, [Next]_vars, NEW k \in Key, Follows(k), Later(k)
  PROVE  Later(k)'
  <1> SUFFICES ASSUME Clean(k)' PROVE Later(k)'
    BY DEF Later
  <1>1. Clean(k)
    BY CleanBefore
  <1>2. /\ \A r \in InFlight, o \in Request :
             KeyOf(r) = k /\ KeyOf(o) = k /\ stage[o] = "ok" => at[o] <= at[r]
        /\ k \in Client =>
             \A r \in Request : KeyOf(r) = k /\ stage[r] = "ok" =>
               table[k] # None /\ at[r] <= at[table[k]]
    BY <1>1 DEF Later
  <1>3. \A o \in Request : at[o] \in Nat /\ at[o] <= Now
    BY DEF Types, Clock
  <1>4. ASSUME NEW r \in Request, Arrive(r) PROVE Later(k)'
    <2>1. /\ Now \in Nat /\ at'[r] = Now + 1 /\ stage'[r] = "saving" /\ table' = table
          /\ \A o \in Request \ {r} : at'[o] = at[o] /\ stage'[o] = stage[o]
      BY <1>4, Arrival DEF Arrive
    <2>2. ASSUME NEW i \in InFlight', NEW o \in Request, KeyOf(i) = k, KeyOf(o) = k,
                 stage'[o] = "ok"
          PROVE  at'[o] <= at'[i]
      <3>1. o # r /\ at'[o] = at[o] /\ stage[o] = "ok"
        BY <2>1, <2>2
      <3>2. i \in Request
        BY DEF InFlight
      <3>3. CASE i = r
        BY <1>3, <2>1, <3>1, <3>3
      <3>4. CASE i # r
        <4>1. i \in InFlight /\ at'[i] = at[i]
          BY <2>1, <3>2, <3>4 DEF InFlight
        <4> QED BY <1>2, <2>2, <3>1, <4>1
      <3> QED BY <3>3, <3>4
    <2>3. ASSUME NEW o \in Request, KeyOf(o) = k, stage'[o] = "ok", k \in Client
          PROVE  table'[k] # None /\ at'[o] <= at'[table'[k]]
      <3>1. o # r /\ at'[o] = at[o] /\ stage[o] = "ok"
        BY <2>1, <2>3
      <3>2. table[k] # None /\ at[o] <= at[table[k]] /\ table[k] \in Request
        BY <1>2, <2>3, <3>1 DEF Values, Fits
      <3> QED BY <1>3, <2>1, <3>1, <3>2
    <2> QED BY <2>2, <2>3 DEF Later
  <1>5. ASSUME NEW r \in Request,
               executeQuery(r) \/ QueryRefused(r) \/ publishMessage(r) \/ PublishFails(r)
        PROVE  Later(k)'
    <2>1. at' = at
      BY <1>5 DEF executeQuery, QueryRefused, publishMessage, PublishFails
    <2>2. CASE KeyOf(r) # k
      BY <1>1, <1>5, <2>1, <2>2, Elsewhere, LaterFrame
    <2>3. r \in InFlight /\ \A o \in InFlight' : o \in InFlight
      BY <1>5 DEF executeQuery, QueryRefused, publishMessage, PublishFails, To, InFlight, Types
    <2>4. CASE KeyOf(r) = k /\ executeQuery(r)
      <3>1. \A o \in Request : stage'[o] = "ok" => stage[o] = "ok"
        BY <2>4 DEF executeQuery, To, Types
      <3>2. k \in Client => table'[k] = r /\ r # None
        BY <2>4, Requests DEF executeQuery, Saved, Types
      <3> QED BY <1>2, <2>1, <2>3, <2>4, <3>1, <3>2 DEF Later
    <2>5. CASE KeyOf(r) = k /\ (QueryRefused(r) \/ PublishFails(r))
      <3>1. \A o \in Request : stage'[o] = "ok" => stage[o] = "ok"
        BY <2>5 DEF QueryRefused, PublishFails, To, Types
      <3>2. table' = table
        BY <2>5 DEF QueryRefused, PublishFails
      <3> QED BY <1>2, <2>1, <2>3, <2>5, <3>1, <3>2 DEF Later
    <2>6. CASE KeyOf(r) = k /\ publishMessage(r)
      <3>1. stage[r] = "publishing" /\ table' = table /\ stage' = [stage EXCEPT ![r] = "ok"]
        BY <2>6 DEF publishMessage, To
      <3>2. \A o \in InFlight' : KeyOf(o) # k
        <4>1. \A o \in InFlight : KeyOf(o) = k => o = r
          BY <1>1, <2>3, <2>6 DEF Follows, OneAtATime
        <4> QED BY <2>3, <3>1, <4>1 DEF InFlight, Types
      <3>3. k \in Client => table[k] = r /\ r # None
        BY <1>1, <2>6, <3>1, Requests DEF Follows, RowIsNew, Puts
      <3>4. \A o \in Request \ {r} : stage'[o] = stage[o]
        BY <3>1 DEF Types
      <3>5. ASSUME NEW o \in Request, KeyOf(o) = k, stage'[o] = "ok", k \in Client
            PROVE  table'[k] # None /\ at'[o] <= at'[table'[k]]
        <4>1. CASE o = r
          BY <1>3, <2>1, <3>1, <3>3, <3>5, <4>1
        <4>2. CASE o # r
          BY <1>2, <2>1, <2>3, <2>6, <3>1, <3>3, <3>4, <3>5, <4>2
        <4> QED BY <4>1, <4>2
      <3> QED BY <3>2, <3>5 DEF Later
    <2> QED BY <1>5, <2>2, <2>4, <2>5, <2>6
  <1>6. CASE UNCHANGED <<stage, table, at>>
    BY <1>1, <1>6, LaterFrame DEF SameRow
  <1> QED BY <1>4, <1>5, <1>6
          DEF Next, vars, put, refreshOnEvent, OnTimer, EventLost, Restart, Refresh, Select,
              OnSelected, RefreshFails

-----------------------------------------------------------------------------
(* The theorems.                                                           *)

LEMMA InvInit == Init => Inv
  <1> SUFFICES ASSUME Init PROVE Inv
    OBVIOUS
  <1>1. Types
    BY TypesInit
  <1>2. \A t \in Table : events[t] = <<>> /\ Len(events[t]) = 0
    BY DEF Init
  <1>3. Values
    BY <1>2, Starts, StartingType DEF Init, Values, Fits, Nothing
  <1>4. Clock
    <2>1. {r \in Request : at[r] # 0} = {}
      BY DEF Init
    <2>2. Now = 0
      BY <2>1, FS_EmptySet DEF Now
    <2> QED BY <2>2 DEF Init, Clock
  <1>5. ASSUME NEW k \in Key PROVE Follows(k) /\ Later(k)
    <2>1. OneAtATime(k) /\ RowIsNew(k)
      BY DEF Init, OneAtATime, InFlight, RowIsNew
    <2>2. EventIsNew(k)
      BY <1>2, Tables DEF EventIsNew
    <2>3. SnapshotIsNew(k) /\ CacheIsNew(k)
      BY StartingType, Starts, Tables DEF Init, SnapshotIsNew, CacheIsNew
    <2>4. Later(k)
      BY DEF Init, Later, InFlight
    <2> QED BY <2>1, <2>2, <2>3, <2>4 DEF Follows
  <1> QED BY <1>1, <1>3, <1>4, <1>5 DEF Inv

LEMMA InvStep == Inv /\ [Next]_vars => Inv'
  BY TypesStep, ValuesStep, ClockStep, FollowsStep, LaterStep DEF Inv

LEMMA Invariance == Spec => []Inv
  <1>1. Init => Inv
    BY InvInit
  <1>2. Inv /\ [Next]_vars => Inv'
    BY InvStep
  <1> QED BY <1>1, <1>2, PTL DEF Spec

(* The caches, queues and refreshes of the listeners and of the cache      *)
(* service hold what they are meant to, and a cache holds for a key only   *)
(* what a request for that key wrote, never a deletion.                    *)
THEOREM CachesHaveTypes == Spec => []TypeOK
  <1>1. Inv => TypeOK
    BY DEF Inv, Types, Values, Fits, Refreshing, TypeOK
  <1> QED BY <1>1, Invariance, PTL

LEMMA QuietCache ==
  ASSUME Inv, NEW k \in Key, Quiet(k), Clean(k)
  PROVE  cache[k] = table[k]
  <1>1. CacheIsNew(k)
    BY DEF Inv, Follows
  <1>2. ~Publishing(k)
    BY DEF Quiet, Publishing, InFlight
  <1>3. ~Queued(k)
    <2>1. Len(events[TableOf(k)]) = 0
      BY DEF Quiet
    <2> QED BY <2>1 DEF Queued
  <1>4. \A s \in Slot : refresh[<<TableOf(k), s>>].state = "idle"
    BY Starts DEF Quiet
  <1> QED BY <1>1, <1>2, <1>3, <1>4 DEF CacheIsNew, Pending

(* CacheServiceImpl: when the events of a table are handled and no refresh *)
(* is under way, the caches hold the rows that the administration API      *)
(* wrote, whatever the process that holds them went through, unless a      *)
(* message was lost, requests for the key overlapped, or an event crossed  *)
(* a snapshot that was read before it.                                     *)
THEOREM HandledEventsReachTheCache == Spec => []EventsReachCache
  <1>1. Inv => EventsReachCache
    BY QuietCache DEF EventsReachCache, Clean
  <1> QED BY <1>1, Invariance, PTL

(* JwtAuthenticationServiceImpl: from then on no token that was issued     *)
(* before a revocation is accepted, however many revocations of the client *)
(* followed.                                                               *)
THEOREM RevokedTokensStayRefused == Spec => []RevokedTokensRefused
  <1>1. ASSUME Inv, NEW r \in Request, Op(r) = "revoke", stage[r] = "ok", Quiet(KeyOf(r)),
               Clean(KeyOf(r)), NEW issued \in 1..(at[r] - 1)
        PROVE  isRevokedClientToken(KeyOf(r), issued)
    <2>1. KeyOf(r) \in Key /\ KeyOf(r) \in Client
      BY <1>1, Requests
    <2>2. Later(KeyOf(r))
      BY <1>1, <2>1 DEF Inv
    <2>3. table[KeyOf(r)] # None /\ at[r] <= at[table[KeyOf(r)]]
      BY <1>1, <2>1, <2>2 DEF Later
    <2>4. table[KeyOf(r)] \in Request
      BY <1>1, <2>1, <2>3 DEF Inv, Values, Fits
    <2>5. cache[KeyOf(r)] = table[KeyOf(r)]
      BY <1>1, <2>1, QuietCache
    <2>6. at[r] \in Nat /\ at[table[KeyOf(r)]] \in Nat
      BY <1>1, <2>4 DEF Inv, Types
    <2> QED BY <2>3, <2>5, <2>6 DEF isRevokedClientToken
  <1>2. Inv => RevokedTokensRefused
    BY <1>1 DEF RevokedTokensRefused, Clean
  <1> QED BY <1>2, Invariance, PTL
=============================================================================
