---------------------- MODULE TokenIntrospectionProofs ----------------------
(***************************************************************************)
(* Theorems about TokenIntrospection, for every catalogue and the ways it  *)
(* changes, every set of requests, any number of them at a time, and every *)
(* kind of fault.                                                          *)
(***************************************************************************)
EXTENDS TokenIntrospection, Integers, TLAPS

(* What a lookup tells: a version that the catalogue has had by now; the   *)
(* key is listed there when it was found, and is not when it is absent and *)
(* an answer came.                                                         *)
Tells(l, i) ==
  /\ l.version <= catalogue
  /\ l.state = "read" => l.version # 0
  /\ l.state = "found" => Lists(l.version, i)
  /\ l.state = "absent" => l.version = 0 \/ ~Lists(l.version, i)

LookupInv ==
  /\ catalogue \in Version /\ cached \in {0} \cup Version /\ faults \in Nat
  /\ cached <= catalogue
  /\ lookup \in [Slot -> [state : LookupState, version : {0} \cup Version]]
  /\ \A s \in Slot : Tells(lookup[s], s[2])

(* What a lookup that was started by a request tells about the time since  *)
(* then.                                                                   *)
Fresh(r, i) ==
  /\ lookup[<<r, i>>].state = "read" => lookup[<<r, i>>].version >= since[r]
  /\ lookup[<<r, i>>].state = "absent" => ~ListedThroughout(r, i) \/ faults # 0

Looking(r) == stage[r] = "item" => Fresh(r, ItemOf(r))

NotFound(r) == stage[r] = "notFound" => ~ListedThroughout(r, ItemOf(r)) \/ faults # 0

Grouped(r) ==
  stage[r] = "group" => Lists(seen[r].item, ItemOf(r)) /\ seen[r].item <= catalogue

Owned(r) == stage[r] = "count" => request[r].iid = ItemOf(r)

OpenOrTorn(r) ==
  stage[r] \in {"admitted", "ok"} /\ request[r].iid # ItemOf(r) =>
    \/ \E v \in 1..catalogue : OpenIn(v, ItemOf(r))
    \/ seen[r].item # seen[r].group

Decided(r) == NotFound(r) /\ Grouped(r) /\ Owned(r) /\ OpenOrTorn(r)

RequestInv ==
  /\ stage \in [Request -> Under \cup {"new", "ok", "notFound", "noPolicy", "denied"}]
  /\ since \in [Request -> Version]
  /\ seen \in [Request -> [item : {0} \cup Version, group : {0} \cup Version]]
  /\ \A r \in Request : since[r] <= catalogue
  /\ \A r \in Access : Looking(r) /\ Decided(r)

Inv == LookupInv /\ RequestInv

-----------------------------------------------------------------------------
(* Constants and shapes.                                                   *)

LEMMA Versions == Len(Listing) \in Nat /\ Len(Listing) >= 1 /\ 1 \in Version
  <1>1. Listing \in Seq([Item -> [group : Item, acl : Policy] \cup {None}])
    BY CatalogueAssumption
  <1>2. Listing # <<>>
    BY CatalogueAssumption
  <1> QED BY <1>1, <1>2 DEF Version

LEMMA ListingType ==
  ASSUME NEW v \in {0} \cup Version, NEW i \in Item, Lists(v, i)
  PROVE  /\ v \in Version /\ Listing[v][i] \in [group : Item, acl : Policy]
         /\ Listing[v][i].group \in Item /\ Listing[v][i].acl \in Policy
  <1>1. v \in Version
    BY Versions DEF Lists, Version
  <1>2. Listing \in Seq([Item -> [group : Item, acl : Policy] \cup {None}])
    BY CatalogueAssumption
  <1>3. Listing[v] \in [Item -> [group : Item, acl : Policy] \cup {None}]
    BY <1>1, <1>2 DEF Version
  <1>4. Listing[v][i] \in [group : Item, acl : Policy]
    BY <1>3 DEF Lists
  <1> QED BY <1>1, <1>4

LEMMA AccessType ==
  ASSUME NEW r \in Access
  PROVE  r \in Request /\ ItemOf(r) \in Item /\ UserOf(r) \in User /\ r # Timer
  BY MeteringAssumption, CatalogueAssumption DEF Access, ItemOf, UserOf

LEMMA SummaryType ==
  ASSUME NEW r \in Summary
  PROVE  r \in Request /\ r \notin Access /\ ItemsOf(r) \in SUBSET Item
  BY MeteringAssumption DEF Access, Summary, ItemsOf

LEMMA SlotType ==
  ASSUME NEW r \in Request, NEW i \in Item
  PROVE  <<r, i>> \in Slot /\ <<r, i>>[1] = r /\ <<r, i>>[2] = i /\ <<r, i>> # <<Timer, None>>
  BY CatalogueAssumption DEF Slot

LookupRecord == [state : LookupState, version : {0} \cup Version]

LEMMA Records ==
  /\ Unasked \in LookupRecord /\ Unasked.state = "none" /\ Unasked.version = 0
  /\ Asked \in LookupRecord /\ Asked.state = "asked" /\ Asked.version = 0
  /\ Sent \in LookupRecord /\ Sent.state = "sent" /\ Sent.version = 0
  BY DEF Unasked, Asked, Sent, LookupRecord, LookupState

LEMMA EndedType ==
  ASSUME NEW s \in Slot, NEW found \in BOOLEAN, NEW v \in {0} \cup Version
  PROVE  /\ Ended(s, found, v) \in LookupRecord
         /\ Ended(s, found, v).state \in {"none", "found", "absent"}
         /\ Ended(s, found, v).version \in {0, v}
         /\ Ended(s, found, v).state = "found" => found /\ Ended(s, found, v).version = v
         /\ Ended(s, found, v).state = "absent" => ~found /\ Ended(s, found, v).version = v
  BY DEF Ended, Unasked, LookupRecord, LookupState

-----------------------------------------------------------------------------
(* Steps of the cache.                                                     *)

LEMMA LookupStep ==
  ASSUME LookupInv, NEW s \in Slot, NEW l \in LookupRecord,
         lookup' = [lookup EXCEPT ![s] = l],
         catalogue' = catalogue, cached' \in {0} \cup Version, cached' <= catalogue,
         faults' \in Nat, Tells(l, s[2])
  PROVE  LookupInv'
  <1>1. lookup' \in [Slot -> LookupRecord]
    BY DEF LookupInv, LookupRecord
  <1>2. \A t \in Slot : Tells(lookup'[t], t[2])
    BY DEF LookupInv
  <1>3. \A t \in Slot : Tells(lookup[t], t[2])'
    BY <1>2 DEF Tells, Lists
  <1> QED BY <1>1, <1>3 DEF LookupInv, LookupRecord

LEMMA LookupReset ==
  ASSUME LookupInv, lookup' \in [Slot -> LookupRecord],
         \A s \in Slot : lookup'[s] \in {lookup[s], Asked, Unasked},
         UNCHANGED <<catalogue, cached>>, faults' \in Nat
  PROVE  LookupInv'
  <1>1. catalogue \in Nat /\ catalogue >= 0
    BY Versions DEF LookupInv, Version
  <1>2. \A s \in Slot : Tells(lookup'[s], s[2])
    BY <1>1, Records DEF LookupInv, Tells
  <1>3. \A s \in Slot : Tells(lookup[s], s[2])'
    BY <1>2 DEF Tells, Lists
  <1> QED BY <1>3 DEF LookupInv, LookupRecord

(* What a step of the cache may do to a lookup.                            *)
Moves(s) ==
  LET l == lookup'[s]
  IN  \/ l = lookup[s]
      \/ l.state \notin {"read", "absent"}
      \/ l.state = "read" /\ l.version = catalogue
      \/ l.state = "absent" /\ faults' # 0
      \/ /\ l.state = "absent" /\ lookup[s].state = "read"
         /\ l.version = lookup[s].version

Onward ==
  /\ LookupInv' /\ catalogue <= catalogue' /\ (faults # 0 => faults' # 0)
  /\ \A s \in Slot : Moves(s)

LEMMA OneMove ==
  ASSUME LookupInv, LookupInv', NEW s \in Slot, NEW l \in LookupRecord,
         lookup' = [lookup EXCEPT ![s] = l], catalogue' = catalogue,
         faults # 0 => faults' # 0,
         \/ l.state \notin {"read", "absent"}
         \/ l.state = "read" /\ l.version = catalogue
         \/ l.state = "absent" /\ faults' # 0
         \/ l.state = "absent" /\ lookup[s].state = "read" /\ l.version = lookup[s].version
  PROVE  Onward
  <1>1. catalogue <= catalogue'
    BY Versions DEF LookupInv, Version
  <1>2. lookup'[s] = l /\ \A t \in Slot \ {s} : lookup'[t] = lookup[t]
    BY DEF LookupInv
  <1>3. ASSUME NEW t \in Slot PROVE Moves(t)
    BY <1>2 DEF Moves
  <1> QED BY <1>1, <1>3 DEF Onward

LEMMA RefreshStep == ASSUME LookupInv, refreshCache PROVE Onward
  <1>1. <<Timer, None>> \in Slot /\ Tells(Sent, None) /\ <<Timer, None>>[2] = None
    BY Records, Versions DEF Slot, Tells, LookupInv, Version
  <1>2. LookupInv'
    BY <1>1, Records, LookupStep DEF refreshCache, Sound, LookupInv
  <1> QED BY <1>1, <1>2, Records, OneMove DEF refreshCache, Sound

LEMMA GetStep == ASSUME LookupInv, NEW s \in Slot, get(s) PROVE Onward
  <1>0. catalogue \in Nat /\ catalogue >= 0 /\ cached \in {0} \cup Version /\ cached <= catalogue
    BY Versions DEF LookupInv, Version
  <1>1. CASE Lists(cached, s[2])
    <2>1. cached # 0
      BY <1>1 DEF Lists
    <2> DEFINE l == Ended(s, TRUE, cached)
    <2>2. l \in LookupRecord /\ l.state \notin {"read", "absent"} /\ Tells(l, s[2])
      BY <1>0, <1>1, EndedType DEF Tells
    <2>3. lookup' = [lookup EXCEPT ![s] = l]
      BY <1>1 DEF get
    <2> HIDE DEF l
    <2>4. LookupInv'
      BY <1>0, <2>2, <2>3, LookupStep DEF get, Sound, LookupInv
    <2> QED BY <2>2, <2>3, <2>4, OneMove DEF get, Sound
  <1>2. CASE ~Lists(cached, s[2])
    <2>1. lookup' = [lookup EXCEPT ![s] = Sent] /\ Tells(Sent, s[2])
      BY <1>0, <1>2, Records DEF get, Tells
    <2>2. LookupInv'
      BY <1>0, <2>1, Records, LookupStep DEF get, Sound, LookupInv
    <2> QED BY <2>1, <2>2, Records, OneMove DEF get, Sound
  <1> QED BY <1>1, <1>2

LEMMA ServeStep == ASSUME LookupInv, NEW s \in Slot, Serve(s) PROVE Onward
  <1> DEFINE l == [state |-> "read", version |-> catalogue]
  <1>1. l \in LookupRecord /\ l.state = "read" /\ l.version = catalogue
    BY DEF LookupInv, LookupRecord, LookupState
  <1>2. lookup' = [lookup EXCEPT ![s] = l]
    BY DEF Serve
  <1>3. Tells(l, s[2])
    BY Versions DEF Tells, LookupInv, Version
  <1> HIDE DEF l
  <1>4. LookupInv'
    BY <1>1, <1>2, <1>3, LookupStep DEF Serve, Sound, LookupInv
  <1> QED BY <1>1, <1>2, <1>4, OneMove DEF Serve, Sound

LEMMA PopulateStep == ASSUME LookupInv, NEW s \in Slot, populateCache(s) PROVE Onward
  <1> DEFINE v == lookup[s].version
             found == s[2] # None /\ Lists(v, s[2])
             l == Ended(s, found, v)
  <1>1. lookup[s].state = "read" /\ v \in {0} \cup Version /\ v # 0 /\ v <= catalogue
    BY DEF populateCache, LookupInv, Tells
  <1>2. found \in BOOLEAN
    OBVIOUS
  <1>3. s[1] # Timer => s[2] # None
    BY CatalogueAssumption DEF Slot
  <1>4. lookup' = [lookup EXCEPT ![s] = l] /\ cached' = v
    BY DEF populateCache
  <1>5. l.state = "absent" => s[1] # Timer
    BY DEF Ended, Unasked
  <1>6. /\ l \in LookupRecord /\ Tells(l, s[2])
        /\ l.state = "absent" => l.version = v
        /\ l.state # "read"
    <2> HIDE DEF v
    <2>1. l \in LookupRecord /\ l.state \in {"none", "found", "absent"} /\ l.version \in {0, v}
      BY <1>1, <1>2, EndedType
    <2>2. l.state = "found" => found /\ l.version = v
      BY <1>1, <1>2, EndedType
    <2>3. l.state = "absent" => ~found /\ l.version = v
      BY <1>1, <1>2, EndedType
    <2> HIDE DEF l
    <2>4. l.version <= catalogue
      BY <1>1, <2>1, Versions DEF LookupInv, Version
    <2> QED BY <1>3, <1>5, <2>1, <2>2, <2>3, <2>4 DEF Tells
  <1> HIDE DEF l, v
  <1>7. LookupInv'
    BY <1>1, <1>4, <1>6, LookupStep DEF populateCache, Sound, LookupInv
  <1> QED
    <2>1. l.version = lookup[s].version \/ l.state # "absent"
      BY <1>6 DEF v
    <2> QED BY <1>1, <1>4, <1>6, <1>7, <2>1, OneMove DEF populateCache, Sound

LEMMA FailStep ==
  ASSUME LookupInv, NEW s \in Slot, Unreachable(s) \/ ErrorAnswer(s) PROVE Onward
  <1> DEFINE l == Ended(s, FALSE, 0)
  <1>1. l \in LookupRecord /\ l.state # "read" /\ l.state # "found" /\ l.version = 0
    BY EndedType
  <1>2. lookup' = [lookup EXCEPT ![s] = l] /\ faults' = faults + 1
    BY DEF Unreachable, ErrorAnswer, Break
  <1>3. faults' \in Nat /\ faults' # 0
    BY <1>2 DEF LookupInv
  <1>4. Tells(l, s[2]) /\ cached' \in {0} \cup Version /\ cached' <= catalogue
    <2>1. catalogue \in Nat /\ catalogue >= 0 /\ 0 <= catalogue
      BY Versions DEF LookupInv, Version
    <2>2. cached' \in {0, cached}
      BY DEF Unreachable, ErrorAnswer
    <2>3. Tells(l, s[2])
      BY <1>1, <2>1 DEF Tells
    <2> QED BY <2>1, <2>2, <2>3 DEF LookupInv
  <1>5. catalogue' = catalogue
    BY DEF Unreachable, ErrorAnswer
  <1> HIDE DEF l
  <1>6. LookupInv'
    BY <1>1, <1>2, <1>3, <1>4, <1>5, LookupStep
  <1> QED BY <1>1, <1>2, <1>3, <1>5, <1>6, OneMove

LEMMA ChangeStep == ASSUME LookupInv, Change PROVE Onward
  <1>1. catalogue \in Nat /\ catalogue' = catalogue + 1 /\ catalogue' \in Version
    BY DEF Change, LookupInv, Version
  <1>2. UNCHANGED <<cached, lookup, faults>>
    BY DEF Change, Sound
  <1>3. \A v \in {0} \cup Version : v <= catalogue => v <= catalogue'
    BY <1>1 DEF Version
  <1>4. \A s \in Slot : Tells(lookup[s], s[2])'
    BY <1>2, <1>3 DEF LookupInv, Tells, Lists
  <1>5. LookupInv'
    BY <1>1, <1>2, <1>3, <1>4 DEF LookupInv
  <1> QED BY <1>1, <1>2, <1>5 DEF Onward, Moves

LEMMA CatalogueMoves == ASSUME LookupInv, CatalogueStep PROVE Onward
  BY RefreshStep, GetStep, ServeStep, PopulateStep, FailStep, ChangeStep
  DEF CatalogueStep, Lookup

-----------------------------------------------------------------------------
(* A request that does not move keeps what is known of it.                 *)

LEMMA ListedLess ==
  ASSUME NEW r \in Request, NEW i \in Item, since[r] \in Nat, since'[r] = since[r],
         catalogue \in Nat, catalogue' \in Nat, catalogue <= catalogue',
         ~ListedThroughout(r, i)
  PROVE  ~ListedThroughout(r, i)'
  <1>1. PICK v \in since[r]..catalogue : ~Lists(v, i)
    BY DEF ListedThroughout
  <1>2. v \in since'[r]..catalogue'
    BY <1>1
  <1>3. ~Lists(v, i)'
    BY <1>1 DEF Lists
  <1> QED BY <1>2, <1>3 DEF ListedThroughout

LEMMA Ranges ==
  ASSUME Inv, NEW r \in Request
  PROVE  /\ catalogue \in Nat /\ catalogue >= 1 /\ since[r] \in Nat
         /\ since[r] >= 1 /\ since[r] <= catalogue
  BY Versions DEF Inv, LookupInv, RequestInv, Version

LEMMA StaysDecided ==
  ASSUME Inv, NEW r \in Access, catalogue' \in Nat, catalogue <= catalogue',
         faults # 0 => faults' # 0,
         stage'[r] = stage[r], since'[r] = since[r], seen'[r] = seen[r]
  PROVE  Decided(r)'
  <1>1. r \in Request /\ ItemOf(r) \in Item /\ ItemOf(r)' = ItemOf(r)
    BY AccessType DEF ItemOf
  <1>2. /\ catalogue \in Nat /\ since[r] \in Nat
        /\ seen[r] \in [item : {0} \cup Version, group : {0} \cup Version]
    BY <1>1, Ranges DEF Inv, RequestInv
  <1>3. Decided(r)
    BY DEF Inv, RequestInv
  <1>4. NotFound(r)'
    BY <1>1, <1>2, <1>3, ListedLess DEF Decided, NotFound
  <1>5. Grouped(r)'
    <2> SUFFICES ASSUME stage[r] = "group" PROVE Grouped(r)'
      BY DEF Grouped
    <2>1. Lists(seen[r].item, ItemOf(r)) /\ seen[r].item <= catalogue
      BY <1>3 DEF Decided, Grouped
    <2>2. seen[r].item \in Nat
      BY <1>2 DEF Version
    <2>3. Lists(seen[r].item, ItemOf(r))'
      BY <1>1, <2>1 DEF Lists
    <2> QED BY <1>2, <2>1, <2>2, <2>3 DEF Grouped
  <1>6. Owned(r)'
    BY <1>1, <1>3 DEF Decided, Owned
  <1>7. OpenOrTorn(r)'
    <2> SUFFICES ASSUME stage[r] \in {"admitted", "ok"}, request[r].iid # ItemOf(r),
                        seen[r].item = seen[r].group
                 PROVE  \E v \in 1..catalogue' : OpenIn(v, ItemOf(r))'
      BY <1>1 DEF OpenOrTorn
    <2>1. PICK v \in 1..catalogue : OpenIn(v, ItemOf(r))
      BY <1>3 DEF Decided, OpenOrTorn
    <2>2. v \in 1..catalogue'
      BY <1>2, <2>1
    <2>3. OpenIn(v, ItemOf(r))'
      BY <1>1, <2>1 DEF OpenIn, Lists
    <2> QED BY <2>2, <2>3
  <1> QED BY <1>4, <1>5, <1>6, <1>7 DEF Decided

LEMMA StaysFresh ==
  ASSUME Inv, LookupInv', NEW r \in Request, NEW i \in Item, catalogue <= catalogue',
         faults # 0 => faults' # 0, since'[r] = since[r], Moves(<<r, i>>), Fresh(r, i)
  PROVE  Fresh(r, i)'
  <1> DEFINE s == <<r, i>>
             l == lookup'[s]
  <1>1. s \in Slot /\ s[2] = i
    BY SlotType
  <1>2. /\ catalogue \in Nat /\ since[r] \in Nat /\ since[r] <= catalogue
        /\ catalogue' \in Nat
    BY <1>1, Ranges DEF LookupInv, Version
  <1>3. /\ lookup[s].state = "read" => lookup[s].version >= since[r]
        /\ lookup[s].state = "absent" => ~ListedThroughout(r, i) \/ faults # 0
    BY DEF Fresh
  <1>4. lookup[s].version \in Nat /\ lookup[s].version <= catalogue
    BY <1>1, Versions DEF Inv, LookupInv, Tells, Version
  <1>5. lookup[s].state = "read" => lookup[s].version # 0
    BY <1>1 DEF Inv, LookupInv, Tells
  <1>6. l.state = "read" => l.version >= since[r]
    BY <1>2, <1>3, <1>4 DEF Moves
  <1>7. l.state = "absent" => ~ListedThroughout(r, i)' \/ faults' # 0
    <2> SUFFICES ASSUME l.state = "absent", faults' = 0
                 PROVE  ~ListedThroughout(r, i)'
      OBVIOUS
    <2>1. faults = 0
      OBVIOUS
    <2>2. CASE l = lookup[s]
      BY <1>2, <1>3, <2>1, <2>2, ListedLess
    <2>3. CASE lookup[s].state = "read" /\ l.version = lookup[s].version
      <3>1. l.version # 0 /\ l.version \in Nat /\ since[r] <= l.version /\ l.version <= catalogue
        BY <1>2, <1>3, <1>4, <1>5, <2>3
      <3>2. Tells(lookup[s], s[2])'
        BY <1>1 DEF LookupInv
      <3>3. ~Lists(l.version, i)
        BY <1>1, <3>1, <3>2 DEF Tells, Lists
      <3> HIDE DEF l
      <3>4. l.version \in (since'[r])..catalogue'
        <4>1. since'[r] = since[r] /\ l.version <= catalogue'
          BY <1>2, <3>1
        <4> QED BY <1>2, <3>1, <4>1
      <3> QED BY <1>1, <3>3, <3>4 DEF ListedThroughout, Lists
    <2> QED BY <2>2, <2>3 DEF Moves
  <1> QED BY <1>6, <1>7 DEF Fresh

LEMMA StaysLooking ==
  ASSUME Inv, LookupInv', NEW r \in Access, catalogue <= catalogue',
         faults # 0 => faults' # 0,
         stage'[r] = stage[r], since'[r] = since[r], Moves(<<r, ItemOf(r)>>)
  PROVE  Looking(r)'
  <1>1. r \in Request /\ ItemOf(r) \in Item /\ ItemOf(r)' = ItemOf(r)
    BY AccessType DEF ItemOf
  <1> SUFFICES ASSUME stage[r] = "item" PROVE Fresh(r, ItemOf(r))'
    BY <1>1 DEF Looking, Fresh, ListedThroughout
  <1>2. Fresh(r, ItemOf(r))
    BY DEF Inv, RequestInv, Looking
  <1>3. Fresh(r, ItemOf(r))'
    BY <1>1, <1>2, StaysFresh
  <1> QED BY <1>3

-----------------------------------------------------------------------------
(* Steps of the requests.                                                  *)

Stages == Under \cup {"new", "ok", "notFound", "noPolicy", "denied"}
Versions2 == [item : {0} \cup Version, group : {0} \cup Version]

(* One request moves, and looks up nothing of another one's.               *)
LEMMA RequestStep ==
  ASSUME Inv, NEW r \in Request, lookup' \in [Slot -> LookupRecord],
         \A s \in Slot : lookup'[s] \in {lookup[s], Asked, Unasked},
         \A s \in Slot : s[1] # r => lookup'[s] = lookup[s],
         UNCHANGED <<catalogue, cached>>, faults' \in Nat, faults # 0 => faults' # 0,
         NEW p \in Stages, stage' = [stage EXCEPT ![r] = p],
         NEW b \in Version, since' = [since EXCEPT ![r] = b], b <= catalogue,
         NEW w \in Versions2, seen' = [seen EXCEPT ![r] = w],
         r \in Access => Looking(r)' /\ Decided(r)'
  PROVE  Inv'
  <1>1. LookupInv'
    BY LookupReset DEF Inv
  <1>2. catalogue \in Nat /\ catalogue' = catalogue /\ catalogue <= catalogue'
    BY Ranges
  <1>3. /\ stage' \in [Request -> Stages] /\ since' \in [Request -> Version]
        /\ seen' \in [Request -> Versions2]
        /\ \A o \in Request : since'[o] <= catalogue'
    BY <1>2 DEF Inv, RequestInv, Stages, Versions2
  <1>4. ASSUME NEW o \in Access, o # r PROVE Looking(o)' /\ Decided(o)'
    <2>1. o \in Request /\ <<o, ItemOf(o)>> \in Slot /\ <<o, ItemOf(o)>>[1] # r
      BY <1>4, AccessType, SlotType
    <2>2. stage'[o] = stage[o] /\ since'[o] = since[o] /\ seen'[o] = seen[o]
      BY <1>4, <2>1 DEF Inv, RequestInv
    <2>3. Moves(<<o, ItemOf(o)>>)
      BY <2>1 DEF Moves
    <2> QED BY <1>1, <1>2, <2>2, <2>3, StaysLooking, StaysDecided
  <1> QED BY <1>1, <1>3, <1>4 DEF Inv, RequestInv, Stages, Versions2

(* What is known of a request that is not in one of these stages.          *)
LEMMA NothingKnown ==
  ASSUME NEW r \in Access,
         stage'[r] \notin {"item", "notFound", "group", "count", "admitted", "ok"}
  PROVE  Looking(r)' /\ Decided(r)'
  BY DEF Looking, Decided, NotFound, Grouped, Owned, OpenOrTorn

(* The records of a request.                                               *)
LEMMA Shape ==
  ASSUME Inv, NEW r \in Request
  PROVE  /\ stage \in [Request -> Stages] /\ since \in [Request -> Version]
         /\ seen \in [Request -> Versions2] /\ lookup \in [Slot -> LookupRecord]
         /\ stage[r] \in Stages /\ since[r] \in Version /\ seen[r] \in Versions2
         /\ since = [since EXCEPT ![r] = since[r]] /\ seen = [seen EXCEPT ![r] = seen[r]]
         /\ since[r] <= catalogue /\ faults \in Nat
         /\ \A s \in Slot : Tells(lookup[s], s[2])
         /\ r \in Access => Looking(r) /\ Decided(r)
  BY DEF Inv, RequestInv, LookupInv, Stages, Versions2, LookupRecord

LEMMA FaultsUp ==
  ASSUME Inv, NEW k, Break(k)
  PROVE  faults' \in Nat /\ faults' # 0
  BY DEF Break, Inv, LookupInv

LEMMA ArriveStep == ASSUME Inv, NEW r \in Request, Arrive(r) PROVE Inv'
  <1>1. catalogue \in Version /\ catalogue \in Nat /\ catalogue <= catalogue
    BY Ranges DEF Inv, LookupInv
  <1>2. since' = [since EXCEPT ![r] = catalogue] /\ seen' = [seen EXCEPT ![r] = seen[r]]
    BY Shape DEF Arrive
  <1>3. CASE r \in Access
    <2>1. stage' = [stage EXCEPT ![r] = "item"] /\ stage'[r] = "item"
      BY <1>3, Shape DEF Arrive, To
    <2>2. <<r, ItemOf(r)>> \in Slot /\ lookup' = [lookup EXCEPT ![<<r, ItemOf(r)>>] = Asked]
      BY <1>3, AccessType, SlotType DEF Arrive, Ask
    <2>3. lookup'[<<r, ItemOf(r)>>] = Asked
      BY <2>2, Shape
    <2>4. Looking(r)' /\ Decided(r)'
      <3>1. ItemOf(r)' = ItemOf(r)
        BY DEF ItemOf
      <3> QED BY <2>1, <2>3, <3>1, Records
              DEF Looking, Fresh, Decided, NotFound, Grouped, Owned, OpenOrTorn
    <2>5. /\ lookup' \in [Slot -> LookupRecord]
          /\ \A s \in Slot : lookup'[s] \in {lookup[s], Asked, Unasked}
          /\ \A s \in Slot : s[1] # r => lookup'[s] = lookup[s]
      BY <2>2, Shape, Records
    <2>6. "item" \in Stages
      BY DEF Stages, Under
    <2> QED BY <1>1, <1>2, <2>1, <2>4, <2>5, <2>6, Shape, RequestStep DEF Arrive, Sound
  <1>4. CASE r \notin Access
    <2>1. stage' = [stage EXCEPT ![r] = "accesses"] /\ UNCHANGED lookup
      BY <1>4 DEF Arrive, To
    <2>2. "accesses" \in Stages
      BY DEF Stages, Under
    <2> QED BY <1>1, <1>2, <1>4, <2>1, <2>2, Shape, RequestStep DEF Arrive, Sound
  <1> QED BY <1>3, <1>4

(* The group that an item was found in.                                    *)
LEMMA OnItemStep == ASSUME Inv, NEW r \in Access, OnItem(r) PROVE Inv'
  <1> DEFINE i == ItemOf(r)
             l == lookup[<<r, i>>]
             g == Listing[l.version][i].group
  <1>1. /\ r \in Request /\ i \in Item /\ <<r, i>> \in Slot /\ <<r, i>>[2] = i
        /\ stage[r] = "item"
    BY AccessType, SlotType DEF OnItem
  <1>2. l \in LookupRecord /\ Tells(l, i) /\ l.version \in {0} \cup Version
    BY <1>1, Shape DEF LookupRecord
  <1>3. since' = [since EXCEPT ![r] = since[r]] /\ ItemOf(r)' = i
    BY <1>1, Shape DEF OnItem, ItemOf
  <1>4. CASE Answer(r, i) = "found"
    <2>1. Lists(l.version, i) /\ l.version <= catalogue /\ g \in Item /\ l.version \in Version
      BY <1>1, <1>2, <1>4, ListingType DEF Answer, Tells
    <2>2. <<r, g>> \in Slot /\ <<r, g>>[1] = r /\ <<r, i>>[1] = r
      BY <1>1, <2>1, SlotType
    <2>3. /\ stage' = [stage EXCEPT ![r] = "group"]
          /\ seen' = [seen EXCEPT ![r].item = l.version]
          /\ lookup' = [lookup EXCEPT ![<<r, i>>] = Unasked, ![<<r, g>>] = Asked]
      BY <1>4 DEF OnItem, To
    <2> DEFINE w == [seen[r] EXCEPT !.item = l.version]
    <2>4. w \in Versions2 /\ w.item = l.version
      BY <1>1, <1>2, Shape DEF Versions2
    <2>5. seen' = [seen EXCEPT ![r] = w] /\ seen'[r] = w /\ stage'[r] = "group"
      BY <1>1, <2>3, Shape
    <2> HIDE DEF w, g
    <2>6. /\ lookup' \in [Slot -> LookupRecord]
          /\ \A s \in Slot : lookup'[s] \in {lookup[s], Asked, Unasked}
          /\ \A s \in Slot : s[1] # r => lookup'[s] = lookup[s]
      BY <1>1, <2>2, <2>3, Shape, Records
    <2>7. Looking(r)' /\ Decided(r)'
      <3>1. seen'[r].item = l.version /\ catalogue' = catalogue
        BY <2>4, <2>5 DEF OnItem
      <3>2. Grouped(r)'
        BY <1>3, <2>1, <3>1 DEF Grouped, Lists
      <3> QED BY <2>5, <3>2 DEF Looking, Decided, NotFound, Owned, OpenOrTorn
    <2>8. "group" \in Stages
      BY DEF Stages, Under
    <2> QED BY <1>1, <1>3, <2>3, <2>4, <2>5, <2>6, <2>7, <2>8, Shape, RequestStep DEF OnItem, Sound
  <1>5. CASE Answer(r, i) = "absent"
    <2>1. /\ stage' = [stage EXCEPT ![r] = "notFound"]
          /\ seen' = [seen EXCEPT ![r] = seen[r]]
          /\ lookup' = [lookup EXCEPT ![<<r, i>>] = Unasked]
      BY <1>1, <1>5, Shape DEF OnItem, To, Take
    <2>2. /\ lookup' \in [Slot -> LookupRecord]
          /\ \A s \in Slot : lookup'[s] \in {lookup[s], Asked, Unasked}
          /\ \A s \in Slot : s[1] # r => lookup'[s] = lookup[s]
      BY <1>1, <2>1, Shape, Records
    <2>3. Looking(r)' /\ Decided(r)'
      <3>1. ~ListedThroughout(r, i) \/ faults # 0
        BY <1>1, <1>5, Shape DEF Looking, Fresh, Answer
      <3>2. /\ catalogue \in Nat /\ catalogue' = catalogue /\ faults' = faults
            /\ since[r] \in Nat /\ since'[r] = since[r] /\ catalogue <= catalogue'
        BY <1>1, Ranges DEF OnItem, Sound
      <3>3. ~ListedThroughout(r, i)' \/ faults' # 0
        BY <1>1, <1>3, <3>1, <3>2, ListedLess
      <3>4. stage'[r] = "notFound"
        BY <1>1, <2>1, Shape
      <3>5. NotFound(r)'
        BY <1>3, <3>3 DEF NotFound, ListedThroughout
      <3> QED BY <3>4, <3>5 DEF Looking, Decided, Grouped, Owned, OpenOrTorn
    <2>4. "notFound" \in Stages
      BY DEF Stages
    <2> QED BY <1>1, <1>3, <2>1, <2>2, <2>3, <2>4, Shape, RequestStep DEF OnItem, Sound
  <1> QED BY <1>4, <1>5 DEF OnItem

LEMMA AdmitLookups ==
  ASSUME Inv, NEW r \in Access, NEW there, Admit(r, there)
  PROVE  /\ lookup' \in [Slot -> LookupRecord]
         /\ \A s \in Slot : lookup'[s] \in {lookup[s], Asked, Unasked}
         /\ \A s \in Slot : s[1] # r => lookup'[s] = lookup[s]
         /\ stage' = [stage EXCEPT ![r] = there] /\ stage'[r] = there
  BY AccessType, Shape, Records DEF Admit, To

LEMMA OnGroupStep == ASSUME Inv, NEW r \in Access, OnGroup(r) PROVE Inv'
  <1> DEFINE i == ItemOf(r)
             m == seen[r].item
             g == GroupOf(r)
             v == lookup[<<r, g>>].version
             own == Listing[m][i].acl
             theirs == IF Answer(r, g) = "found" THEN Listing[v][g].acl ELSE None
             acl == AccessPolicy(own, theirs)
             there == CASE acl = None -> "noPolicy"
                        [] acl = "OPEN" /\ request[r].endpoint = "open" -> "admitted"
                        [] OTHER -> IF request[r].iid = i THEN "count" ELSE "denied"
  <1>1. r \in Request /\ i \in Item /\ stage[r] = "group" /\ ItemOf(r)' = i
    BY AccessType DEF OnGroup, ItemOf
  <1>2. Lists(m, i) /\ m <= catalogue /\ m \in Version
    <2>1. Lists(m, i) /\ m <= catalogue /\ m \in {0} \cup Version
      BY <1>1, Shape DEF Decided, Grouped, Versions2
    <2> QED BY <1>1, <2>1, ListingType
  <1>3. g \in Item /\ own \in Policy /\ g = Listing[m][i].group
    BY <1>1, <1>2, ListingType DEF GroupOf
  <1>4. /\ <<r, g>> \in Slot /\ v \in {0} \cup Version
        /\ Answer(r, g) = "found" => Lists(v, g)
    <2>1. <<r, g>> \in Slot /\ <<r, g>>[2] = g
      BY <1>1, <1>3, SlotType
    <2> QED BY <2>1, Shape, <1>1 DEF LookupRecord, Tells, Answer
  <1> DEFINE w == [seen[r] EXCEPT !.group = v]
  <1>5. Admit(r, there)
    BY DEF OnGroup
  <1>6. seen' = [seen EXCEPT ![r] = w] /\ w \in Versions2 /\ w.item = m /\ w.group = v
        /\ seen'[r] = w
    BY <1>1, <1>4, Shape DEF OnGroup, Versions2
  <1>7. acl = "OPEN" => \/ own = "OPEN"
                        \/ own = None /\ Lists(v, g) /\ Listing[v][g].acl = "OPEN"
    BY <1>4, CatalogueAssumption DEF AccessPolicy
  <1>8. /\ there \in {"noPolicy", "admitted", "count", "denied"}
        /\ there = "admitted" => acl = "OPEN"
        /\ there = "count" => request[r].iid = i
    <2> HIDE DEF acl, own, theirs, i
    <2>1. CASE acl = None
      BY <2>1, CatalogueAssumption
    <2>2. CASE acl # None /\ acl = "OPEN" /\ request[r].endpoint = "open"
      BY <2>2
    <2>3. CASE acl # None /\ ~(acl = "OPEN" /\ request[r].endpoint = "open")
      BY <2>3
    <2> QED BY <2>1, <2>2, <2>3
  <1>9. acl = "OPEN" /\ m = v => OpenIn(m, i)
    <2> SUFFICES ASSUME acl = "OPEN", m = v PROVE OpenIn(m, i)
      OBVIOUS
    <2>1. CASE own = "OPEN"
      BY <1>2, <2>1, CatalogueAssumption DEF OpenIn
    <2>2. CASE own = None /\ Lists(m, g) /\ Listing[m][g].acl = "OPEN"
      BY <1>2, <1>3, <2>2 DEF OpenIn
    <2> QED BY <1>7, <2>1, <2>2
  <1> HIDE DEF there, acl, own, theirs, v, g, w
  <1>10. stage'[r] = there /\ there \in Stages
    BY <1>5, <1>8, AdmitLookups DEF Stages, Under
  <1>11. m \in 1..catalogue' /\ catalogue' = catalogue
    <2>1. catalogue \in Nat /\ catalogue' = catalogue
      BY <1>1, Ranges DEF OnGroup
    <2> QED BY <1>2, <2>1 DEF Version
  <1>12. OpenOrTorn(r)'
    <2> SUFFICES ASSUME there = "admitted", m = v
                 PROVE  \E u \in 1..catalogue' : OpenIn(u, i)
      BY <1>1, <1>6, <1>8, <1>10 DEF OpenOrTorn, OpenIn, Lists
    <2> QED BY <1>8, <1>9, <1>11
  <1>13. Looking(r)' /\ Decided(r)'
    BY <1>1, <1>8, <1>10, <1>12 DEF Looking, Decided, NotFound, Grouped, Owned
  <1>14. since' = [since EXCEPT ![r] = since[r]] /\ UNCHANGED <<catalogue, cached, faults>>
    BY <1>1, Shape DEF OnGroup, Sound
  <1> QED BY <1>1, <1>5, <1>6, <1>10, <1>13, <1>14, Shape, AdmitLookups, RequestStep

(* From here on a request keeps the reads that it was decided with.        *)
LEMMA LaterStage ==
  ASSUME Inv, NEW r \in Access, NEW there \in {"admitted", "ok", "denied"},
         \/ stage[r] = "count"
         \/ stage[r] = "admitted" /\ there = "ok",
         stage' = [stage EXCEPT ![r] = there], UNCHANGED <<catalogue, since, seen>>
  PROVE  Looking(r)' /\ Decided(r)'
  <1>1. r \in Request /\ ItemOf(r)' = ItemOf(r)
    BY AccessType DEF ItemOf
  <1>2. stage'[r] = there
    BY <1>1, Shape
  <1>3. OpenOrTorn(r)'
    <2>1. CASE stage[r] = "count"
      BY <1>1, <2>1, Shape DEF Decided, Owned, OpenOrTorn
    <2>2. CASE stage[r] = "admitted"
      <3> SUFFICES ASSUME request[r].iid # ItemOf(r), seen[r].item = seen[r].group
                   PROVE  \E v \in 1..catalogue : OpenIn(v, ItemOf(r))'
        BY <1>1 DEF OpenOrTorn
      <3>1. PICK v \in 1..catalogue : OpenIn(v, ItemOf(r))
        BY <1>1, <2>2, Shape DEF Decided, OpenOrTorn
      <3>2. OpenIn(v, ItemOf(r))'
        BY <1>1, <3>1 DEF OpenIn, Lists
      <3> QED BY <3>2
    <2> QED BY <2>1, <2>2
  <1> QED BY <1>2, <1>3 DEF Looking, Decided, NotFound, Grouped, Owned

LEMMA ValidateStep == ASSUME Inv, NEW r \in Access, validateAccess(r) PROVE Inv'
  <1> DEFINE there == IF WithinLimits(UserOf(r)) THEN "admitted" ELSE "denied"
  <1>1. Admit(r, there) /\ stage[r] = "count" /\ there \in {"admitted", "denied"}
    BY DEF validateAccess
  <1>2. r \in Request /\ UNCHANGED <<catalogue, cached, faults, since, seen>>
    BY AccessType DEF validateAccess, Sound
  <1> HIDE DEF there
  <1>3. Looking(r)' /\ Decided(r)'
    BY <1>1, <1>2, AdmitLookups, LaterStage
  <1>4. there \in Stages
    BY <1>1 DEF Stages, Under
  <1>5. since' = [since EXCEPT ![r] = since[r]] /\ seen' = [seen EXCEPT ![r] = seen[r]]
    BY <1>2, Shape
  <1> QED BY <1>1, <1>2, <1>3, <1>4, <1>5, Shape, AdmitLookups, RequestStep

LEMMA CountLostStep == ASSUME Inv, NEW r \in Access, CountLost(r) PROVE Inv'
  <1>1. /\ r \in Request /\ stage[r] = "count" /\ stage' = [stage EXCEPT ![r] = "denied"]
        /\ UNCHANGED <<catalogue, cached, lookup, since, seen>>
    BY AccessType DEF CountLost, To, catalogueVars
  <1>2. faults' \in Nat /\ faults' # 0
    BY FaultsUp DEF CountLost
  <1>3. Looking(r)' /\ Decided(r)'
    BY <1>1, LaterStage
  <1>4. "denied" \in Stages
    BY DEF Stages
  <1>5. since' = [since EXCEPT ![r] = since[r]] /\ seen' = [seen EXCEPT ![r] = seen[r]]
    BY <1>1, Shape
  <1> QED BY <1>1, <1>2, <1>3, <1>4, <1>5, Shape, RequestStep

LEMMA RecordStep == ASSUME Inv, NEW r \in Access, Record(r) PROVE Inv'
  <1>1. /\ r \in Request /\ stage[r] = "admitted" /\ stage' = [stage EXCEPT ![r] = "ok"]
        /\ lookup' = [lookup EXCEPT ![<<r, ItemOf(r)>>] = Unasked]
        /\ UNCHANGED <<catalogue, cached, since, seen>>
    BY AccessType DEF Record, insertMeteringValuesInRmq, NotRecorded, To, Take
  <1>2. faults' \in Nat /\ (faults # 0 => faults' # 0)
    BY <1>1, Shape, FaultsUp DEF Record, insertMeteringValuesInRmq, NotRecorded, Sound
  <1>3. Looking(r)' /\ Decided(r)'
    BY <1>1, LaterStage
  <1>4. <<r, ItemOf(r)>> \in Slot /\ <<r, ItemOf(r)>>[1] = r
    BY <1>1, AccessType, SlotType
  <1>5. /\ lookup' \in [Slot -> LookupRecord]
        /\ \A s \in Slot : lookup'[s] \in {lookup[s], Asked, Unasked}
        /\ \A s \in Slot : s[1] # r => lookup'[s] = lookup[s]
    BY <1>1, <1>4, Shape, Records
  <1>6. "ok" \in Stages
    BY DEF Stages
  <1>7. since' = [since EXCEPT ![r] = since[r]] /\ seen' = [seen EXCEPT ![r] = seen[r]]
    BY <1>1, Shape
  <1> QED BY <1>1, <1>2, <1>3, <1>5, <1>6, <1>7, Shape, RequestStep

LEMMA SummariseStep == ASSUME Inv, NEW r \in Summary, Summarise(r) PROVE Inv'
  <1>1. r \in Request /\ r \notin Access /\ UNCHANGED <<catalogue, cached, faults, since, seen>>
    BY SummaryType DEF Summarise, cacheCall, join, Sound
  <1>2. PICK p \in {"joining", "ok"}, l \in {Asked, Unasked} :
          /\ stage' = [stage EXCEPT ![r] = p]
          /\ lookup' = [s \in Slot |-> IF s \in RowsOf(r) THEN l ELSE lookup[s]]
    BY DEF Summarise, cacheCall, join
  <1>3. \A s \in RowsOf(r) : s[1] = r
    BY DEF RowsOf
  <1>4. /\ lookup' \in [Slot -> LookupRecord]
        /\ \A s \in Slot : lookup'[s] \in {lookup[s], Asked, Unasked}
        /\ \A s \in Slot : s[1] # r => lookup'[s] = lookup[s]
    BY <1>1, <1>2, <1>3, Shape, Records
  <1>5. p \in Stages
    BY DEF Stages, Under
  <1>6. since' = [since EXCEPT ![r] = since[r]] /\ seen' = [seen EXCEPT ![r] = seen[r]]
    BY <1>1, Shape
  <1> QED BY <1>1, <1>2, <1>4, <1>5, <1>6, Shape, RequestStep

LEMMA CatalogueInv ==
  ASSUME Inv, CatalogueStep, UNCHANGED <<stage, since, seen>> PROVE Inv'
  <1>1. Onward
    BY CatalogueMoves DEF Inv
  <1>2. /\ LookupInv' /\ catalogue <= catalogue' /\ (faults # 0 => faults' # 0)
        /\ catalogue \in Nat /\ catalogue' \in Nat
    BY <1>1 DEF Onward, Inv, LookupInv, Version
  <1>3. ASSUME NEW r \in Access PROVE Looking(r)' /\ Decided(r)'
    <2>1. Moves(<<r, ItemOf(r)>>)
      BY <1>1, AccessType, SlotType DEF Onward
    <2> QED BY <1>2, <2>1, StaysLooking, StaysDecided
  <1>4. \A r \in Request : since'[r] <= catalogue'
    <2> TAKE r \in Request
    <2>1. since[r] \in Nat /\ since[r] <= catalogue
      BY Ranges
    <2> QED BY <1>2, <2>1
  <1> QED BY <1>2, <1>3, <1>4 DEF Inv, RequestInv

-----------------------------------------------------------------------------
(* The invariant holds of every behaviour.                                 *)

LEMMA InvInit == Init => Inv
  <1> SUFFICES ASSUME Init PROVE Inv
    OBVIOUS
  <1>1. catalogue = 1 /\ cached = 0 /\ faults = 0 /\ 1 \in Version
    BY Versions DEF Init, CatalogueInit
  <1>2. /\ lookup \in [Slot -> LookupRecord]
        /\ \A s \in Slot : lookup[s] \in {Sent, Unasked}
    BY Records DEF Init, CatalogueInit
  <1>3. \A s \in Slot : Tells(lookup[s], s[2])
    BY <1>1, <1>2, Records DEF Tells
  <1>4. LookupInv
    BY <1>1, <1>2, <1>3 DEF LookupInv, LookupRecord
  <1>5. /\ stage \in [Request -> Stages] /\ since \in [Request -> Version]
        /\ seen \in [Request -> Versions2]
        /\ \A r \in Request : stage[r] = "new" /\ since[r] <= catalogue
    BY <1>1 DEF Init, Stages, Versions2
  <1>6. \A r \in Access : Looking(r) /\ Decided(r)
    BY <1>5, AccessType DEF Looking, Decided, NotFound, Grouped, Owned, OpenOrTorn
  <1> QED BY <1>4, <1>5, <1>6 DEF Inv, RequestInv, Stages, Versions2

LEMMA Unmoved ==
  ASSUME Inv, UNCHANGED <<catalogue, cached, lookup, faults, stage, since, seen>>
  PROVE  Inv'
  BY DEF Inv, LookupInv, RequestInv, Tells, Lists, Looking, Fresh,
         Decided, NotFound, Grouped, Owned, OpenOrTorn, ListedThroughout, OpenIn, ItemOf

LEMMA InvStep == Inv /\ [Next]_vars => Inv'
  <1> SUFFICES ASSUME Inv, [Next]_vars PROVE Inv'
    OBVIOUS
  <1>1. CASE \E r \in Request : Arrive(r)
    BY <1>1, ArriveStep
  <1>2. CASE \E r \in Access : Decide(r) \/ Record(r) \/ CountLost(r)
    BY <1>2, OnItemStep, OnGroupStep, ValidateStep, RecordStep, CountLostStep DEF Decide
  <1>3. CASE \E r \in Summary : Summarise(r)
    BY <1>3, SummariseStep
  <1>4. CASE CatalogueStep /\ UNCHANGED <<meteringVars, stage, since, seen, behind>>
    BY <1>4, CatalogueInv
  <1>6. CASE \E r \in published : store(r) /\ UNCHANGED <<seen, behind>>
    <2>1. UNCHANGED <<catalogue, cached, lookup, faults, stage, since, seen>>
      BY <1>6 DEF store, catalogueVars, Sound
    <2> QED BY <2>1, Unmoved
  <1>5. CASE UNCHANGED vars
    BY <1>5, Unmoved DEF vars, catalogueVars
  <1> QED BY <1>1, <1>2, <1>3, <1>4, <1>5, <1>6 DEF Next

THEOREM InvAlways == Spec => []Inv
  BY InvInit, InvStep, PTL DEF Spec

(* A resource is "not found" only when the catalogue did not list it for a *)
(* moment since the request came (apiserver/handlers/AuthHandler.java with *)
(* cache/cachelmpl/CatalogueCacheImpl.java), unless a lookup failed.       *)
THEOREM NotFoundIsTrue == Spec => []FoundIfListed
  <1>1. Inv => FoundIfListed
    BY DEF Inv, RequestInv, Decided, NotFound, FoundIfListed
  <1> QED BY <1>1, InvAlways, PTL

(* Without a token of the resource nobody gets in who was not let in by    *)
(* some version of the catalogue (isOpenResource, checkOpenEndPoints and   *)
(* isValidId of authenticator/JwtAuthenticationServiceImpl.java), unless   *)
(* the resource and its group were read from two versions of the cache.    *)
THEOREM OpenToAdmitted == Spec => []AdmittedIfOpen
  <1>1. Inv => AdmittedIfOpen
    BY DEF Inv, RequestInv, Decided, OpenOrTorn, AdmittedIfOpen
  <1> QED BY <1>1, InvAlways, PTL

-----------------------------------------------------------------------------
(* The types that the invariant leaves out.                                *)

Accounts ==
  MeteringTypeOK /\ faults \in 0..MaxFaults /\ behind \in [User -> SUBSET Access]

LEMMA FaultRange ==
  ASSUME faults \in 0..MaxFaults
  PROVE  (Sound => faults' \in 0..MaxFaults) /\ \A k : Break(k) => faults' \in 0..MaxFaults
  BY CatalogueAssumption DEF Sound, Break

LEMMA AccountsStep == Accounts /\ [Next]_vars => Accounts'
  <1> SUFFICES ASSUME Accounts, [Next]_vars PROVE Accounts'
    OBVIOUS
  <1>0. /\ faults \in 0..MaxFaults /\ MeteringTypeOK
        /\ behind \in [User -> SUBSET Access] /\ Access' = Access
    BY DEF Accounts, Access
  <1>1. ASSUME NEW r \in Request, Arrive(r) PROVE Accounts'
    BY <1>0, <1>1, FaultRange DEF Arrive, Accounts, MeteringTypeOK, meteringVars
  <1>2. ASSUME NEW r \in Access, Decide(r) \/ CountLost(r) PROVE Accounts'
    <2>1. faults' \in 0..MaxFaults /\ UNCHANGED meteringVars
      BY <1>0, <1>2, FaultRange DEF Decide, OnItem, OnGroup, validateAccess, CountLost
    <2>2. behind' \in [User -> SUBSET Access]
      <3>1. OnTheWay(UserOf(r)) \subseteq Access
        BY <1>0 DEF OnTheWay, MeteringTypeOK
      <3>2. behind' \in {behind, [behind EXCEPT ![UserOf(r)] = OnTheWay(UserOf(r))]}
        BY <1>2 DEF Decide, OnItem, OnGroup, validateAccess, CountLost
      <3> QED BY <1>0, <3>1, <3>2
    <2> QED BY <1>0, <2>1, <2>2 DEF Accounts, MeteringTypeOK, meteringVars, Summary
  <1>3. ASSUME NEW r \in Access, Record(r) PROVE Accounts'
    BY <1>0, <1>3, FaultRange
       DEF Record, insertMeteringValuesInRmq, NotRecorded, Accounts, MeteringTypeOK, meteringVars
  <1>4. ASSUME NEW r \in Summary, cacheCall(r) \/ join(r), UNCHANGED behind PROVE Accounts'
    <2>1. r \in Request /\ RowsOf(r) \subseteq Summary \X Item
      BY SummaryType DEF RowsOf
    <2>2. CASE cacheCall(r)
      BY <1>0, <1>4, <2>2, FaultRange DEF cacheCall, Accounts, MeteringTypeOK
    <2>3. CASE join(r)
      <3>1. resultJsonArray' \subseteq Summary \X Item
        BY <1>0, <2>1, <2>3 DEF join, MeteringTypeOK
      <3> QED BY <1>0, <1>4, <2>1, <2>3, <3>1, FaultRange DEF join, Accounts, MeteringTypeOK
    <2> QED BY <1>4, <2>2, <2>3
  <1>5. ASSUME CatalogueStep, UNCHANGED <<meteringVars, behind>> PROVE Accounts'
    <2>1. faults' \in 0..MaxFaults
      BY <1>0, <1>5, FaultRange
         DEF CatalogueStep, Lookup, get, Serve, populateCache, Unreachable, ErrorAnswer,
             refreshCache, Change
    <2> QED BY <1>0, <1>5, <2>1 DEF Accounts, MeteringTypeOK, meteringVars
  <1>6. CASE UNCHANGED vars
    BY <1>0, <1>6 DEF vars, Accounts, MeteringTypeOK, meteringVars
  <1>7. ASSUME NEW r \in published, store(r), UNCHANGED behind PROVE Accounts'
    BY <1>0, <1>7, FaultRange DEF store, Accounts, MeteringTypeOK
  <1> QED BY <1>1, <1>2, <1>3, <1>4, <1>5, <1>6, <1>7 DEF Next, Summarise

(* Every variable has its type, in every behaviour of the authorization,   *)
(* the metering and the cache.                                             *)
THEOREM TypeCorrect == Spec => []TypeOK
  <1>1. Init => Accounts
    BY CatalogueAssumption DEF Init, CatalogueInit, MeteringInit, Accounts, MeteringTypeOK
  <1>2. Inv /\ Accounts => TypeOK
    BY DEF Inv, LookupInv, RequestInv, Tells, Accounts, TypeOK, CatalogueTypeOK
  <1> QED BY <1>1, <1>2, InvAlways, AccountsStep, PTL DEF Spec
=============================================================================
