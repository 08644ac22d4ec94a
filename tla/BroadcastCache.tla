--------------------------- MODULE BroadcastCache ---------------------------
(***************************************************************************)
(* Revoked tokens and unique attributes: the handlers of                   *)
(* apiserver/AdminRestApi.java write a row and broadcast an event, the     *)
(* listeners of databroker/listeners hand the event to                     *)
(* cache/CacheServiceImpl.java, and the caches of cache/cachelmpl are      *)
(* filled by events and, every hour, from a snapshot of their table.       *)
(*                                                                         *)
(* A value is the request that wrote it.                                   *)
(***************************************************************************)
EXTENDS Naturals, FiniteSets, Sequences

CONSTANTS
  Request,     \* requests of the administrators
  request,     \* what each of them asks for
  Client,      \* clients whose tokens are revoked
  Resource,    \* resources that have a unique attribute
  None,        \* no value
  EventSlot,   \* bounds the refreshes that events have under way
  FaultKinds,  \* what may go wrong
  MaxFaults,   \* bound on the number of things that go wrong
  MaxInFlight, \* bound on the requests that are worked on together
  MaxTables    \* bound on the tables that requests change: they do not interact

Key == Client \cup Resource
Table == {"revoked_tokens", "unique_attributes"}
TableOf(k) == IF k \in Client THEN "revoked_tokens" ELSE "unique_attributes"

ASSUME BroadcastAssumption ==
  /\ Client \cap Resource = {} /\ None \notin Request /\ "timer" \notin EventSlot
  /\ request \in [Request -> [op : {"revoke"}, key : Client] \cup
                             [op : {"create", "update", "delete"}, key : Resource]]
  /\ IsFiniteSet(Request)
  /\ FaultKinds \subseteq {"refused", "publishLost", "eventLost", "refreshLost", "restart"}
  /\ MaxFaults \in Nat /\ MaxInFlight \in Nat /\ MaxTables \in Nat

VARIABLES
  table,    \* the rows
  cache,    \* what the caches hold
  stage,    \* what each request waits for, or how it ended
  at,       \* when each revocation was asked for
  events,   \* the queue of events of each table
  refresh,  \* the refreshes under way
  faults,   \* what went wrong, for which table
  raced     \* auxiliary: keys for which an event crossed a snapshot, or
            \* requests overlapped

vars == <<table, cache, stage, at, events, refresh, faults, raced>>

Slot == {"timer"} \cup EventSlot
Value == Request \cup {None}
Now == Cardinality({r \in Request : at[r] # 0})

KeyOf(r) == request[r].key
Op(r) == request[r].op
QueueOf(r) == TableOf(KeyOf(r))
InFlight == {r \in Request : stage[r] \in {"saving", "publishing"}}

Nothing == [k \in Key |-> None]
Idle == [state |-> "idle", snapshot |-> Nothing]
Sent == [state |-> "sent", snapshot |-> Nothing]

Sound == UNCHANGED faults

Break(kind, t) ==
  /\ kind \in FaultKinds
  /\ Cardinality(faults) < MaxFaults
  /\ <<kind, t>> \notin faults /\ faults' = faults \cup {<<kind, t>>}

-----------------------------------------------------------------------------
(* The handlers of the administration API.                                 *)

To(r, there) == stage' = [stage EXCEPT ![r] = there]

Arrive(r) ==
  /\ stage[r] = "new" /\ Cardinality(InFlight) < MaxInFlight
  /\ Cardinality({QueueOf(o) : o \in {r} \cup {o \in Request : at[o] # 0}}) <= MaxTables
  /\ To(r, "saving")
  /\ at' = [at EXCEPT ![r] = Now + 1]
  /\ raced' = IF \E o \in InFlight : KeyOf(o) = KeyOf(r)
              THEN raced \cup {KeyOf(r)} ELSE raced
  /\ UNCHANGED <<table, cache, events, refresh>> /\ Sound

(* A revocation inserts or replaces its row, an update finds none to       *)
(* change, and a create meets one that is there.                           *)
Saved(r) ==
  CASE Op(r) = "revoke" -> r
    [] Op(r) = "create" -> IF table[KeyOf(r)] = None THEN r ELSE table[KeyOf(r)]
    [] Op(r) = "update" -> IF table[KeyOf(r)] = None THEN None ELSE r
    [] Op(r) = "delete" -> None

executeQuery(r) ==
  /\ stage[r] = "saving" /\ Sound
  /\ table' = [table EXCEPT ![KeyOf(r)] = Saved(r)]
  /\ To(r, IF Op(r) = "create" /\ table[KeyOf(r)] # None THEN "fail" ELSE "publishing")
  /\ UNCHANGED <<cache, at, events, refresh, raced>>

QueryRefused(r) ==
  /\ stage[r] = "saving" /\ Break("refused", QueueOf(r)) /\ To(r, "fail")
  /\ UNCHANGED <<table, cache, at, events, refresh, raced>>

publishMessage(r) ==
  /\ stage[r] = "publishing" /\ Sound
  /\ events' = [events EXCEPT ![QueueOf(r)] = Append(@, r)]
  /\ To(r, "ok")
  /\ UNCHANGED <<table, cache, at, refresh, raced>>

(* The row stays.                                                          *)
PublishFails(r) ==
  /\ stage[r] = "publishing" /\ Break("publishLost", QueueOf(r)) /\ To(r, "fail")
  /\ events' \in {events, [events EXCEPT ![QueueOf(r)] = Append(@, r)]}
  /\ UNCHANGED <<table, cache, at, refresh, raced>>

-----------------------------------------------------------------------------
(* The caches.                                                             *)

Snapshots(t) == \E s \in Slot : refresh[<<t, s>>].state = "read"

Received(t) == events[t] # <<>> /\ events' = [events EXCEPT ![t] = Tail(@)]

BugPutsDelete(r) == Op(r) \in {"revoke", "create", "delete"}

Puts(r) == Op(r) \in {"revoke", "create"}

(* CacheServiceImpl.refresh with a key and a value.                        *)
put(t) ==
  LET r == Head(events[t])
  IN  /\ Received(t) /\ Puts(r)
      /\ cache' = [cache EXCEPT ![KeyOf(r)] = r]
      /\ raced' = IF Snapshots(t) THEN raced \cup {KeyOf(r)} ELSE raced
      /\ UNCHANGED <<table, stage, at, refresh>> /\ Sound

(* CacheServiceImpl.refresh without: nobody waits for the refresh.         *)
refreshOnEvent(t) ==
  LET r == Head(events[t])
  IN  /\ Received(t) /\ ~Puts(r)
      /\ \E s \in EventSlot :
           /\ refresh[<<t, s>>] = Idle
           /\ refresh' = [refresh EXCEPT ![<<t, s>>] = Sent]
      /\ raced' = IF Snapshots(t) THEN raced \cup {k \in Key : TableOf(k) = t} ELSE raced
      /\ UNCHANGED <<table, cache, stage, at>> /\ Sound

(* Events are acknowledged before they are handed on.                      *)
EventLost(t) ==
  /\ Received(t) /\ Break("eventLost", t)
  /\ UNCHANGED <<table, cache, stage, at, refresh, raced>>

BugOnlyWhenEmpty(t) ==
  /\ refresh[<<t, "timer">>] = Idle /\ \A k \in Key : TableOf(k) = t => cache[k] = None
  /\ refresh' = [refresh EXCEPT ![<<t, "timer">>] = Sent]
  /\ UNCHANGED <<table, cache, stage, at, events, raced>> /\ Sound

(* vertx.setPeriodic of the constructors: every hour.                      *)
OnTimer(t) ==
  /\ refresh[<<t, "timer">>] = Idle
  /\ refresh' = [refresh EXCEPT ![<<t, "timer">>] = Sent]
  /\ UNCHANGED <<table, cache, stage, at, events, raced>> /\ Sound

Select(t, s) ==
  /\ refresh[<<t, s>>].state = "sent"
  /\ refresh' = [refresh EXCEPT ![<<t, s>>] =
                   [state |-> "read",
                    snapshot |-> [k \in Key |-> IF TableOf(k) = t THEN table[k] ELSE None]]]
  /\ UNCHANGED <<table, cache, stage, at, events, raced>> /\ Sound

OnSelected(t, s) ==
  /\ refresh[<<t, s>>].state = "read" /\ Sound
  /\ cache' = [k \in Key |-> IF TableOf(k) = t
                             THEN refresh[<<t, s>>].snapshot[k] ELSE cache[k]]
  /\ refresh' = [refresh EXCEPT ![<<t, s>>] = Idle]
  /\ UNCHANGED <<table, stage, at, events, raced>>

(* A refresh that fails leaves the cache as it is.                         *)
RefreshFails(t, s) ==
  /\ refresh[<<t, s>>] # Idle /\ Break("refreshLost", t)
  /\ refresh' = [refresh EXCEPT ![<<t, s>>] = Idle]
  /\ UNCHANGED <<table, cache, stage, at, events, raced>>

(* JwtAuthenticationServiceImpl: a token is refused when it was issued     *)
(* before the revocation that the cache knows of.                          *)
BugRefuses(c, issued) == cache[c] # None /\ issued + 1 < at[cache[c]]

isRevokedClientToken(c, issued) == cache[c] # None /\ issued < at[cache[c]]

Starting == [ts \in Table \X Slot |-> IF ts[2] = "timer" THEN Sent ELSE Idle]

BugRestartCold(t) ==
  /\ Break("restart", t) /\ cache' = Nothing
  /\ refresh' = [ts \in Table \X Slot |-> Idle]
  /\ UNCHANGED <<table, stage, at, events, raced>>

(* The process that holds the caches starts again: they are empty, and     *)
(* their constructors ask for a refresh.                                   *)
Restart(t) ==
  /\ Break("restart", t) /\ cache' = Nothing /\ refresh' = Starting
  /\ UNCHANGED <<table, stage, at, events, raced>>

-----------------------------------------------------------------------------
Init ==
  /\ table = Nothing /\ cache = Nothing /\ refresh = Starting
  /\ stage = [r \in Request |-> "new"] /\ at = [r \in Request |-> 0]
  /\ events = [t \in Table |-> <<>>]
  /\ faults = {} /\ raced = {}

Refresh(t, s) == Select(t, s) \/ OnSelected(t, s)

Next ==
  \/ \E r \in Request : \/ Arrive(r) \/ executeQuery(r) \/ publishMessage(r)
                       \/ QueryRefused(r) \/ PublishFails(r)
  \/ \E t \in Table : \/ put(t) \/ refreshOnEvent(t) \/ OnTimer(t)
                     \/ EventLost(t) \/ Restart(t)
                     \/ \E s \in Slot : Refresh(t, s) \/ RefreshFails(t, s)

Spec == Init /\ [][Next]_vars

(* Events are consumed, statements answered, and the timer fires every     *)
(* hour.  No fairness on the administrators and faults.                    *)
FairSpec ==
  /\ Spec
  /\ \A r \in Request : WF_vars(executeQuery(r) \/ publishMessage(r))
  /\ \A t \in Table : /\ WF_vars(put(t) \/ refreshOnEvent(t)) /\ WF_vars(OnTimer(t))
                      /\ \A s \in Slot : WF_vars(Refresh(t, s))
-----------------------------------------------------------------------------
(* Properties.                                                             *)

TypeOK ==
  /\ table \in [Key -> Value] /\ cache \in [Key -> Value]
  /\ stage \in [Request -> {"new", "saving", "publishing", "ok", "fail"}]
  /\ at \in [Request -> Nat]
  /\ events \in [Table -> Seq(Request)]
  /\ refresh \in [Table \X Slot -> [state : {"idle", "sent", "read"},
                                    snapshot : [Key -> Value]]]
  /\ faults \subseteq FaultKinds \X Table /\ raced \subseteq Key
  /\ \A k \in Key : cache[k] # None => KeyOf(cache[k]) = k /\ Op(cache[k]) # "delete"

Quiet(k) ==
  LET t == TableOf(k)
  IN  /\ \A r \in InFlight : KeyOf(r) # k
      /\ events[t] = <<>>
      /\ \A s \in Slot : refresh[<<t, s>>] = Idle

Broke(k) ==
  \E f \in faults : f[2] = TableOf(k) /\ f[1] \in {"publishLost", "eventLost", "refreshLost"}

(* When events are handled and refreshes have landed the cache is the      *)
(* table, without waiting for the hourly refresh, and a restart loses      *)
(* nothing; unless an event crossed an older snapshot.                     *)
EventsReachCache ==
  \A k \in Key : Quiet(k) => cache[k] = table[k] \/ k \in raced \/ Broke(k)

(* From then on no token that was issued before a revocation is accepted.  *)
RevokedTokensRefused ==
  \A r \in Request :
    LET c == KeyOf(r)
    IN  Op(r) = "revoke" /\ stage[r] = "ok" /\ Quiet(c) =>
          \/ \A issued \in 1..(at[r] - 1) : isRevokedClientToken(c, issued)
          \/ c \in raced \/ Broke(c)

(* Whatever was lost or crossed, in the end the caches are the tables:     *)
(* the hourly refresh repairs them.                                        *)
CacheConverges == <>[](cache = table)
=============================================================================
