--------------------------- MODULE MeteringProofs ---------------------------
(***************************************************************************)
(* Theorems about what TokenIntrospection records and summarises, for the  *)
(* same instances as TokenIntrospectionProofs: a summary has the rows of   *)
(* its own request, and the limit of a user is exceeded by no more than    *)
(* what the count could not see.                                           *)
(***************************************************************************)
EXTENDS TokenIntrospectionProofs, FiniteSetTheorems

(* A summary that waits for its lookups: none of them is older than the    *)
(* request, and the array is its own when no other summary crossed it.     *)
Gathering(r) ==
  stage[r] = "joining" =>
    /\ \A i \in ItemsOf(r) : Fresh(r, i)
    /\ r \notin crossed =>
         resultJsonArray = {} /\ \A o \in Summary \ {r} : stage[o] # "joining"

Complete(r) ==
  stage[r] = "ok" /\ r \notin crossed =>
    /\ answer[r] \subseteq RowsOf(r)
    /\ \A s \in RowsOf(r) : s \in answer[r] \/ ~ListedThroughout(r, s[2]) \/ faults # 0

SummaryInv == \A r \in Summary : Gathering(r) /\ Complete(r)

Mono == catalogue <= catalogue' /\ (faults # 0 => faults' # 0)

-----------------------------------------------------------------------------
(* What a step of an access or an arrival may change.                      *)
OnlyMoves(r) ==
  /\ Mono
  /\ \A o \in Request \ {r} : stage'[o] = stage[o] /\ since'[o] = since[o]
  /\ \A s \in Slot : s[1] # r => lookup'[s] = lookup[s]
  /\ UNCHANGED <<resultJsonArray, answer, crossed>>

LEMMA MonoStep ==
  ASSUME Inv, UNCHANGED catalogue, Sound \/ \E k : Break(k) PROVE Mono
  <1>1. catalogue \in Nat
    BY Versions DEF Inv, LookupInv, Version
  <1>2. faults # 0 => faults' # 0
    BY FaultsUp DEF Sound
  <1> QED BY <1>1, <1>2 DEF Mono

LEMMA ArriveMoves ==
  ASSUME Inv, NEW r \in Request, Arrive(r)
  PROVE  /\ OnlyMoves(r) /\ stage'[r] \in {"item", "accesses"} /\ stage[r] = "new"
         /\ UNCHANGED <<published, audits, behind>>
  <1>1. Mono
    BY MonoStep DEF Arrive
  <1>2. \E p \in {"item", "accesses"} : stage' = [stage EXCEPT ![r] = p]
    BY DEF Arrive, To
  <1>3. since' = [since EXCEPT ![r] = catalogue]
    BY DEF Arrive
  <1>4. \A s \in Slot : s[1] # r => lookup'[s] = lookup[s]
    BY Shape DEF Arrive, Ask
  <1> QED BY <1>1, <1>2, <1>3, <1>4, Shape DEF OnlyMoves, Arrive, meteringVars

LEMMA DecideMoves ==
  ASSUME Inv, NEW r \in Access, Decide(r)
  PROVE  /\ OnlyMoves(r) /\ UNCHANGED <<published, audits>>
         /\ stage[r] \in {"item", "group", "count"}
         /\ stage'[r] \in {"notFound", "group", "noPolicy", "admitted", "count", "denied"}
         /\ \/ UNCHANGED behind /\ (stage'[r] = "admitted" => request[r].endpoint # "closed")
            \/ /\ behind' = [behind EXCEPT ![UserOf(r)] = OnTheWay(UserOf(r))]
               /\ stage'[r] = "admitted" /\ Consumed(UserOf(r)) < Limit
  <1>0. r \in Request
    BY AccessType
  <1>1. CASE OnItem(r)
    <2>1. Mono /\ UNCHANGED <<catalogue, since, published, audits, resultJsonArray, answer, crossed>>
      BY <1>1, MonoStep DEF OnItem, meteringVars
    <2>2. PICK p \in {"group", "notFound"} : stage' = [stage EXCEPT ![r] = p]
      BY <1>1 DEF OnItem, To
    <2>3. \A s \in Slot : s[1] # r => lookup'[s] = lookup[s]
      BY <1>0, <1>1, Shape DEF OnItem, Take
    <2>4. stage[r] = "item" /\ UNCHANGED behind
      BY <1>1 DEF OnItem
    <2> QED BY <1>0, <2>1, <2>2, <2>3, <2>4, Shape DEF OnlyMoves
  <1>2. CASE OnGroup(r)
    <2>1. Mono /\ UNCHANGED <<catalogue, since, published, audits, resultJsonArray, answer, crossed>>
      BY <1>2, MonoStep DEF OnGroup, meteringVars
    <2>2. PICK p : /\ Admit(r, p) /\ p \in {"noPolicy", "admitted", "count", "denied"}
                   /\ p = "admitted" => request[r].endpoint = "open"
      <3> DEFINE own == Listing[seen[r].item][ItemOf(r)].acl
                 theirs == IF Answer(r, GroupOf(r)) = "found"
                             THEN Listing[lookup[<<r, GroupOf(r)>>].version][GroupOf(r)].acl
                             ELSE None
                 acl == AccessPolicy(own, theirs)
                 there == CASE acl = None -> "noPolicy"
                            [] acl = "OPEN" /\ request[r].endpoint = "open" -> "admitted"
                            [] OTHER -> IF request[r].iid = ItemOf(r) THEN "count" ELSE "denied"
      <3>1. Admit(r, there)
        BY <1>2 DEF OnGroup
      <3> HIDE DEF own, theirs, acl
      <3>2. /\ there \in {"noPolicy", "admitted", "count", "denied"}
            /\ there = "admitted" => request[r].endpoint = "open"
        <4>1. CASE acl = None
          BY <4>1, CatalogueAssumption
        <4>2. CASE acl # None /\ acl = "OPEN" /\ request[r].endpoint = "open"
          BY <4>2
        <4>3. CASE acl # None /\ ~(acl = "OPEN" /\ request[r].endpoint = "open")
          BY <4>3
        <4> QED BY <4>1, <4>2, <4>3
      <3> QED BY <3>1, <3>2
    <2>3. stage[r] = "group" /\ UNCHANGED behind
      BY <1>2 DEF OnGroup
    <2> QED BY <1>0, <2>1, <2>2, <2>3, Shape, AdmitLookups DEF OnlyMoves
  <1>3. CASE validateAccess(r)
    <2>1. Mono /\ UNCHANGED <<catalogue, since, published, audits, resultJsonArray, answer, crossed>>
      BY <1>3, MonoStep DEF validateAccess, meteringVars
    <2>2. PICK p \in {"admitted", "denied"} :
            /\ Admit(r, p)
            /\ \/ p = "denied" /\ UNCHANGED behind
               \/ /\ behind' = [behind EXCEPT ![UserOf(r)] = OnTheWay(UserOf(r))]
                  /\ p = "admitted" /\ Consumed(UserOf(r)) < Limit
      BY <1>3 DEF validateAccess, WithinLimits
    <2>3. stage[r] = "count"
      BY <1>3 DEF validateAccess
    <2> QED BY <1>0, <2>1, <2>2, <2>3, Shape, AdmitLookups DEF OnlyMoves
  <1> QED BY <1>1, <1>2, <1>3 DEF Decide

LEMMA CountLostMoves ==
  ASSUME Inv, NEW r \in Access, CountLost(r)
  PROVE  /\ OnlyMoves(r) /\ stage[r] = "count" /\ stage'[r] = "denied"
         /\ UNCHANGED <<published, audits, behind>>
  <1>1. Mono
    BY MonoStep DEF CountLost, catalogueVars
  <1> QED BY <1>1, AccessType, Shape DEF CountLost, OnlyMoves, To, catalogueVars, meteringVars

LEMMA RecordMoves ==
  ASSUME Inv, NEW r \in Access, Record(r)
  PROVE  /\ OnlyMoves(r) /\ stage[r] = "admitted" /\ stage'[r] = "ok"
         /\ published' \in {published, published \cup {r}} /\ UNCHANGED <<audits, behind>>
  <1>0. r \in Request /\ <<r, ItemOf(r)>> \in Slot
    BY AccessType, SlotType
  <1>1. Mono
    BY MonoStep DEF Record, insertMeteringValuesInRmq, NotRecorded
  <1>2. \A s \in Slot : s[1] # r => lookup'[s] = lookup[s]
    BY <1>0, Shape DEF Record, insertMeteringValuesInRmq, NotRecorded, Take
  <1> QED BY <1>0, <1>1, <1>2, Shape
          DEF Record, insertMeteringValuesInRmq, NotRecorded, OnlyMoves, To, meteringVars

-----------------------------------------------------------------------------
(* Summaries.                                                              *)

(* A summary that does not move keeps what is known of it.                 *)
LEMMA StaysSummary ==
  ASSUME Inv, Inv', SummaryInv, Mono, NEW r \in Summary,
         stage'[r] = stage[r], since'[r] = since[r], answer'[r] = answer[r],
         crossed \subseteq crossed', \A i \in ItemsOf(r) : Moves(<<r, i>>),
         stage[r] = "joining" /\ r \notin crossed' =>
           /\ resultJsonArray' = resultJsonArray
           /\ \A o \in Summary \ {r} : stage[o] # "joining" => stage'[o] # "joining"
  PROVE  Gathering(r)' /\ Complete(r)'
  <1>1. r \in Request /\ ItemsOf(r) \in SUBSET Item
    BY SummaryType
  <1>2. Gathering(r) /\ Complete(r)
    BY DEF SummaryInv
  <1>3. ItemsOf(r)' = ItemsOf(r) /\ RowsOf(r)' = RowsOf(r)
    BY DEF ItemsOf, RowsOf
  <1>4. Gathering(r)'
    <2> SUFFICES ASSUME stage[r] = "joining" PROVE Gathering(r)'
      BY DEF Gathering
    <2>1. ASSUME NEW i \in ItemsOf(r) PROVE Fresh(r, i)'
      BY <1>1, <1>2, StaysFresh DEF Gathering, Mono, Inv
    <2>2. ASSUME r \notin crossed'
          PROVE  resultJsonArray' = {} /\ \A o \in Summary \ {r} : stage'[o] # "joining"
      BY <1>2, <2>2 DEF Gathering
    <2>3. \A i \in ItemsOf(r)' : Fresh(r, i)'
      BY <1>3, <2>1
    <2> QED BY <2>2, <2>3 DEF Gathering, Summary
  <1>5. Complete(r)'
    <2> SUFFICES ASSUME stage[r] = "ok", r \notin crossed' PROVE Complete(r)'
      BY DEF Complete
    <2>1. /\ answer[r] \subseteq RowsOf(r)
          /\ \A s \in RowsOf(r) : s \in answer[r] \/ ~ListedThroughout(r, s[2]) \/ faults # 0
      BY <1>2 DEF Complete
    <2>2. ASSUME NEW s \in RowsOf(r), ~ListedThroughout(r, s[2])
          PROVE  ~ListedThroughout(r, s[2])'
      <3>1. s[2] \in Item
        BY <1>1 DEF RowsOf
      <3>2. /\ since[r] \in Nat /\ catalogue \in Nat /\ catalogue' \in Nat
            /\ catalogue <= catalogue'
        BY <1>1, Ranges DEF Mono, Inv, LookupInv, Version
      <3> QED BY <1>1, <2>2, <3>1, <3>2, ListedLess
    <2>3. \A s \in RowsOf(r) :
            s \in answer'[r] \/ ~ListedThroughout(r, s[2])' \/ faults' # 0
      BY <2>1, <2>2 DEF Mono
    <2> QED BY <1>3, <2>1, <2>3 DEF Complete
  <1> QED BY <1>4, <1>5

LEMMA OthersSummary ==
  ASSUME Inv, Inv', SummaryInv, NEW p \in Request, OnlyMoves(p), stage'[p] # "joining",
         NEW r \in Summary, r # p
  PROVE  Gathering(r)' /\ Complete(r)'
  <1>1. r \in Request /\ ItemsOf(r) \in SUBSET Item /\ \A o \in Summary : o \in Request
    BY SummaryType
  <1>2. \A i \in ItemsOf(r) : Moves(<<r, i>>)
    BY <1>1, SlotType DEF OnlyMoves, Moves
  <1>3. \A o \in Summary : stage[o] # "joining" => stage'[o] # "joining"
    BY <1>1 DEF OnlyMoves
  <1> QED BY <1>1, <1>2, <1>3, StaysSummary DEF OnlyMoves

LEMMA CacheCallSummary ==
  ASSUME Inv, Inv', SummaryInv, NEW p \in Summary, cacheCall(p) PROVE SummaryInv'
  <1>0. p \in Request /\ ItemsOf(p) \in SUBSET Item
    BY SummaryType
  <1>1. Mono
    BY MonoStep DEF cacheCall
  <1>2. /\ stage' = [stage EXCEPT ![p] = "joining"] /\ resultJsonArray' = {}
        /\ crossed' = crossed \cup {o \in Summary : stage[o] = "joining"}
                              \cup {o \in {p} : \E q \in Summary : stage[q] = "joining"}
        /\ UNCHANGED <<since, answer, catalogue>>
        /\ lookup' = [s \in Slot |-> IF s \in RowsOf(p) THEN Asked ELSE lookup[s]]
    BY DEF cacheCall
  <1>3. stage'[p] = "joining" /\ \A o \in Request \ {p} : stage'[o] = stage[o]
    BY <1>0, <1>2, Shape
  <1>4. Gathering(p)' /\ Complete(p)'
    <2>1. ASSUME NEW i \in ItemsOf(p) PROVE Fresh(p, i)'
      <3>1. <<p, i>> \in Slot /\ <<p, i>> \in RowsOf(p)
        BY <1>0, SlotType DEF RowsOf
      <3>2. lookup'[<<p, i>>] = Asked
        BY <1>2, <3>1
      <3> QED BY <3>2, Records DEF Fresh
    <2>2. p \notin crossed' => \A o \in Summary \ {p} : stage'[o] # "joining"
      BY <1>2, <1>3, SummaryType
    <2>3. \A i \in ItemsOf(p)' : Fresh(p, i)'
      BY <2>1 DEF ItemsOf
    <2> QED BY <1>2, <1>3, <2>2, <2>3 DEF Gathering, Complete, Summary
  <1>5. ASSUME NEW r \in Summary, r # p PROVE Gathering(r)' /\ Complete(r)'
    <2>1. r \in Request /\ ItemsOf(r) \in SUBSET Item /\ stage'[r] = stage[r]
      BY <1>3, <1>5, SummaryType
    <2>2. \A i \in ItemsOf(r) : Moves(<<r, i>>)
      BY <1>2, <1>5, <2>1, SlotType DEF Moves, RowsOf
    <2>3. stage[r] = "joining" => r \in crossed'
      BY <1>2
    <2>4. crossed \subseteq crossed'
      BY <1>2
    <2> QED BY <1>1, <1>2, <2>1, <2>2, <2>3, <2>4, StaysSummary
  <1> QED BY <1>4, <1>5 DEF SummaryInv, Summary

LEMMA JoinSummary ==
  ASSUME Inv, Inv', SummaryInv, Accounts, NEW p \in Summary, join(p) PROVE SummaryInv'
  <1>0. p \in Request /\ ItemsOf(p) \in SUBSET Item
    BY SummaryType
  <1>1. Mono /\ faults' = faults
    BY MonoStep DEF join, Sound
  <1> DEFINE found == {s \in RowsOf(p) : lookup[s].state = "found"}
  <1>2. /\ stage' = [stage EXCEPT ![p] = "ok"] /\ stage[p] = "joining"
        /\ answer' = [answer EXCEPT ![p] = resultJsonArray \cup found]
        /\ UNCHANGED <<since, crossed, catalogue>>
        /\ lookup' = [s \in Slot |-> IF s \in RowsOf(p) THEN Unasked ELSE lookup[s]]
        /\ \A s \in RowsOf(p) : lookup[s].state \in {"found", "absent"}
    BY DEF join
  <1>3. stage'[p] = "ok" /\ \A o \in Request \ {p} : stage'[o] = stage[o]
    BY <1>0, <1>2, Shape
  <1>4. /\ answer'[p] = resultJsonArray \cup found
        /\ \A o \in Request \ {p} : answer'[o] = answer[o]
    BY <1>0, <1>2 DEF Accounts, MeteringTypeOK
  <1>5. Gathering(p)' /\ Complete(p)'
    <2> SUFFICES ASSUME p \notin crossed PROVE Complete(p)'
      BY <1>2, <1>3 DEF Gathering, Complete
    <2>1. resultJsonArray = {} /\ \A i \in ItemsOf(p) : Fresh(p, i)
      BY <1>2 DEF SummaryInv, Gathering
    <2>2. ASSUME NEW s \in RowsOf(p), s \notin found
          PROVE  ~ListedThroughout(p, s[2])' \/ faults' # 0
      <3>1. s = <<p, s[2]>> /\ s[2] \in ItemsOf(p) /\ lookup[s].state = "absent"
        BY <1>2, <2>2 DEF RowsOf
      <3>2. ~ListedThroughout(p, s[2]) \/ faults # 0
        BY <2>1, <3>1 DEF Fresh
      <3> QED BY <1>1, <1>2, <3>2 DEF ListedThroughout
    <2>3. answer'[p] = found
      BY <1>4, <2>1
    <2> HIDE DEF found
    <2>4. \A s \in RowsOf(p) :
            s \in answer'[p] \/ ~ListedThroughout(p, s[2])' \/ faults' # 0
      BY <2>2, <2>3
    <2>5. answer'[p] \subseteq RowsOf(p) /\ RowsOf(p)' = RowsOf(p)
      BY <2>3 DEF found, RowsOf, ItemsOf
    <2> QED BY <2>4, <2>5 DEF Complete
  <1>6. ASSUME NEW r \in Summary, r # p PROVE Gathering(r)' /\ Complete(r)'
    <2>1. r \in Request /\ ItemsOf(r) \in SUBSET Item /\ stage'[r] = stage[r]
      BY <1>3, <1>6, SummaryType
    <2>2. \A i \in ItemsOf(r) : Moves(<<r, i>>)
      BY <1>2, <1>6, <2>1, SlotType DEF Moves, RowsOf
    <2>3. stage[r] = "joining" => r \in crossed'
      <3>1. Gathering(r) /\ p \in Summary \ {r} /\ stage[p] = "joining" /\ crossed' = crossed
        BY <1>2, <1>6 DEF SummaryInv
      <3> HIDE DEF found
      <3> QED BY <3>1 DEF Gathering
    <2>4. since'[r] = since[r] /\ answer'[r] = answer[r] /\ crossed \subseteq crossed'
      BY <1>2, <1>4, <1>6, <2>1
    <2> HIDE DEF found
    <2> QED BY <1>1, <2>1, <2>2, <2>3, <2>4, StaysSummary
  <1> QED BY <1>5, <1>6 DEF SummaryInv, Summary

LEMMA CatalogueSummary ==
  ASSUME Inv, Inv', SummaryInv, CatalogueStep, UNCHANGED <<meteringVars, stage, since>>
  PROVE  SummaryInv'
  <1>1. Mono /\ \A s \in Slot : Moves(s)
    BY CatalogueMoves DEF Inv, Onward, Mono
  <1>2. ASSUME NEW r \in Summary PROVE Gathering(r)' /\ Complete(r)'
    <2>1. \A i \in ItemsOf(r) : Moves(<<r, i>>)
      BY <1>1, SummaryType, SlotType
    <2> QED BY <1>1, <2>1, StaysSummary DEF meteringVars
  <1> QED BY <1>2 DEF SummaryInv, Summary

LEMMA SummaryStep == Inv /\ Inv' /\ Accounts /\ SummaryInv /\ [Next]_vars => SummaryInv'
  <1> SUFFICES ASSUME Inv, Inv', Accounts, SummaryInv, [Next]_vars PROVE SummaryInv'
    OBVIOUS
  <1>1. ASSUME NEW p \in Request, Arrive(p) PROVE SummaryInv'
    <2>1. ASSUME NEW r \in Summary PROVE Gathering(r)' /\ Complete(r)'
      <3>1. CASE r # p
        BY <1>1, <3>1, ArriveMoves, OthersSummary
      <3>2. CASE r = p
        BY <1>1, <3>2, ArriveMoves DEF Gathering, Complete
      <3> QED BY <3>1, <3>2
    <2> QED BY <2>1 DEF SummaryInv, Summary
  <1>2. ASSUME NEW p \in Access, Decide(p) \/ Record(p) \/ CountLost(p) PROVE SummaryInv'
    <2>1. p \in Request /\ OnlyMoves(p) /\ stage'[p] # "joining"
      BY <1>2, AccessType, DecideMoves, RecordMoves, CountLostMoves
    <2>2. ASSUME NEW r \in Summary PROVE Gathering(r)' /\ Complete(r)'
      BY <2>1, SummaryType, OthersSummary
    <2> QED BY <2>2 DEF SummaryInv, Summary
  <1>3. CASE \E p \in Summary : Summarise(p)
    BY <1>3, CacheCallSummary, JoinSummary DEF Summarise
  <1>4. CASE CatalogueStep /\ UNCHANGED <<meteringVars, stage, since, seen, behind>>
    BY <1>4, CatalogueSummary
  <1>5. CASE UNCHANGED <<catalogueVars, faults, stage, since, resultJsonArray, answer, crossed>>
    BY <1>5 DEF catalogueVars, SummaryInv, Summary, Gathering, Complete,
                Fresh, ListedThroughout, Lists, RowsOf, ItemsOf
  <1>6. CASE \E r \in published : store(r)
    BY <1>5, <1>6 DEF store, Sound
  <1> QED BY <1>1, <1>2, <1>3, <1>4, <1>5, <1>6 DEF Next, vars, meteringVars

(* The rows of a summary are those of its own request, and no resource is  *)
(* missing that was listed since it came (cacheCall of                     *)
(* metering/MeteringServiceImpl.java, which gathers the rows in a field of *)
(* the service), unless another summary started meanwhile.                 *)
THEOREM SummariesAreOwn == Spec => []OwnSummary
  <1>1. Init => Accounts
    BY CatalogueAssumption DEF Init, CatalogueInit, MeteringInit, Accounts, MeteringTypeOK
  <1>2. Init => SummaryInv
    BY SummaryType DEF Init, SummaryInv, Gathering, Complete
  <1>3. SummaryInv => OwnSummary
    BY DEF SummaryInv, Complete, OwnSummary
  <1> QED BY <1>1, <1>2, <1>3, InvAlways, AccountsStep, SummaryStep, PTL DEF Spec

-----------------------------------------------------------------------------
(* The limit.                                                              *)

Started == {r \in Request : stage[r] # "new"}

(* The access is in the table or on its way to it.                         *)
Recorded == audits \cup published

(* Only requests that came are recorded, and never more than MaxInFlight   *)
(* are worked on.                                                          *)
LimitInv ==
  /\ IsFiniteSet(Started) /\ Cardinality(InFlight) <= MaxInFlight
  /\ \A r \in Recorded : r \in Access /\ stage[r] = "ok"
  /\ behind \in [User -> SUBSET Access] /\ \A u \in User : IsFiniteSet(behind[u])
  /\ WithinLimit

LEMMA Finite ==
  ASSUME Inv, IsFiniteSet(Started), \A r \in Recorded : r \in Access /\ stage[r] = "ok", NEW u
  PROVE  /\ IsFiniteSet(InFlight) /\ IsFiniteSet(OnTheWay(u))
         /\ IsFiniteSet(Admitted(u)) /\ IsFiniteSet(Unrecorded(u))
         /\ IsFiniteSet({r \in audits : request[r].user = u})
  <1>1. InFlight \subseteq Started
    BY DEF InFlight, Started, Under
  <1>2. OnTheWay(u) \subseteq Started /\ {r \in audits : request[r].user = u} \subseteq Started
    BY AccessType DEF Started, OnTheWay, Recorded
  <1>3. Admitted(u) \subseteq Started /\ Unrecorded(u) \subseteq Started
    BY AccessType DEF Admitted, Unrecorded, Started
  <1> QED BY <1>1, <1>2, <1>3, FS_Subset

Bounded(u) ==
  Cardinality(Admitted(u))
    <= Limit + (MaxInFlight - 1) + Cardinality(behind[u]) + Cardinality(Unrecorded(u))

(* A step that admits nobody of the user.                                  *)
LEMMA NoneAdmitted ==
  ASSUME Inv, LimitInv, Inv', IsFiniteSet(Started'),
         NEW u \in User, Admitted(u)' \subseteq Admitted(u), behind'[u] = behind[u],
         Unrecorded(u) \subseteq Unrecorded(u)'
  PROVE  Bounded(u)'
  <1>1. /\ IsFiniteSet(Admitted(u)) /\ IsFiniteSet(Unrecorded(u)) /\ IsFiniteSet(Admitted(u)')
        /\ Cardinality(behind[u]) \in Nat
    BY Finite, FS_Subset, FS_CardinalityType DEF LimitInv
  <1>2. IsFiniteSet(Unrecorded(u)')
    <2>1. Unrecorded(u)' \subseteq Started'
      BY AccessType DEF Unrecorded, Started, Access
    <2> QED BY <2>1, FS_Subset
  <1>3. /\ Cardinality(Admitted(u)') <= Cardinality(Admitted(u))
        /\ Cardinality(Unrecorded(u)) <= Cardinality(Unrecorded(u)')
    BY <1>1, <1>2, FS_Subset
  <1>4. Bounded(u)
    BY DEF LimitInv, WithinLimit, Bounded
  <1>5. /\ Cardinality(Admitted(u)') \in Nat /\ Cardinality(Admitted(u)) \in Nat
        /\ Cardinality(Unrecorded(u)') \in Nat /\ Cardinality(Unrecorded(u)) \in Nat
    BY <1>1, <1>2, FS_CardinalityType
  <1>6. Bounded(u)' <=>
          Cardinality(Admitted(u)') <= Limit + (MaxInFlight - 1) + Cardinality(behind[u])
                                         + Cardinality(Unrecorded(u)')
    BY DEF Bounded
  <1> QED BY <1>1, <1>3, <1>4, <1>5, <1>6, LimitAssumption DEF Bounded

LEMMA UnionBound ==
  ASSUME NEW S, NEW T, IsFiniteSet(S), IsFiniteSet(T)
  PROVE  /\ IsFiniteSet(S \cup T) /\ Cardinality(S \cup T) \in Nat
         /\ Cardinality(S) \in Nat /\ Cardinality(T) \in Nat
         /\ Cardinality(S \cup T) <= Cardinality(S) + Cardinality(T)
  <1>1. IsFiniteSet(S \cap T) /\ Cardinality(S \cap T) \in Nat
    BY FS_Subset, FS_CardinalityType
  <1> QED BY <1>1, FS_Union, FS_CardinalityType

(* The last one to pass was counted below the limit: the admitted are in   *)
(* the table, on their way to it, never recorded, or worked on.            *)
LEMMA OneAdmitted ==
  ASSUME NEW A, NEW R, NEW P, NEW F, NEW X,
         IsFiniteSet(R), IsFiniteSet(P), IsFiniteSet(F), IsFiniteSet(X),
         A \subseteq (R \cup F) \cup (P \cup X),
         Cardinality(R) < Limit, Cardinality(F) <= MaxInFlight
  PROVE  Cardinality(A) <= Limit + (MaxInFlight - 1) + Cardinality(P) + Cardinality(X)
  <1> DEFINE Y == R \cup F
             Z == P \cup X
  <1>1. /\ IsFiniteSet(Y) /\ Cardinality(Y) \in Nat
        /\ Cardinality(R) \in Nat /\ Cardinality(F) \in Nat
        /\ Cardinality(Y) <= Cardinality(R) + Cardinality(F)
    BY UnionBound
  <1>2. /\ IsFiniteSet(Z) /\ Cardinality(Z) \in Nat
        /\ Cardinality(P) \in Nat /\ Cardinality(X) \in Nat
        /\ Cardinality(Z) <= Cardinality(P) + Cardinality(X)
    BY UnionBound
  <1>3. A \subseteq Y \cup Z
    OBVIOUS
  <1> HIDE DEF Y, Z
  <1>4. /\ IsFiniteSet(Y \cup Z) /\ Cardinality(Y \cup Z) \in Nat
        /\ Cardinality(Y \cup Z) <= Cardinality(Y) + Cardinality(Z)
    BY <1>1, <1>2, UnionBound
  <1>5. Cardinality(A) \in Nat /\ Cardinality(A) <= Cardinality(Y \cup Z)
    BY <1>3, <1>4, FS_Subset, FS_CardinalityType
  <1> QED BY <1>1, <1>2, <1>4, <1>5, LimitAssumption

(* Who is worked on, when one request moves that was already worked on.    *)
LEMMA Flights ==
  ASSUME Inv, LimitInv, NEW r \in Request, stage[r] \in Under,
         \A o \in Request \ {r} : stage'[o] = stage[o], stage'[r] # "new"
  PROVE  IsFiniteSet(Started') /\ Cardinality(InFlight') <= MaxInFlight /\ IsFiniteSet(InFlight')
  <1>1. Started' = Started
    BY DEF Started, Under
  <1>2. InFlight' \subseteq InFlight
    BY DEF InFlight
  <1>3. IsFiniteSet(InFlight)
    BY <1>1, Finite DEF LimitInv
  <1>4. /\ IsFiniteSet(InFlight') /\ Cardinality(InFlight') <= Cardinality(InFlight)
        /\ Cardinality(InFlight') \in Nat /\ Cardinality(InFlight) \in Nat
    BY <1>2, <1>3, FS_Subset, FS_CardinalityType
  <1> QED BY <1>1, <1>4, LimitAssumption DEF LimitInv

(* A request that is not admitted by the step.                             *)
LEMMA LimitQuiet ==
  ASSUME Inv, LimitInv, Inv', NEW r \in Request,
         \A o \in Request \ {r} : stage'[o] = stage[o],
         IsFiniteSet(Started'), Cardinality(InFlight') <= MaxInFlight,
         UNCHANGED <<published, audits, behind>>, stage[r] # "ok",
         r \in Access => stage'[r] # "ok",
         r \in Access /\ stage'[r] = "admitted" => request[r].endpoint # "closed"
  PROVE  LimitInv'
  <1>1. \A o \in Recorded' : o \in Access' /\ stage'[o] = "ok"
    BY AccessType DEF LimitInv, Access, Recorded
  <1>2. ASSUME NEW u \in User
        PROVE  Admitted(u)' \subseteq Admitted(u) /\ Unrecorded(u) \subseteq Unrecorded(u)'
    BY AccessType DEF Admitted, Unrecorded, Access, UserOf
  <1>3. \A u \in User : Bounded(u)'
    BY <1>2, NoneAdmitted
  <1>4. Access' = Access
    BY DEF Access
  <1> QED BY <1>1, <1>3, <1>4 DEF LimitInv, WithinLimit, Bounded

LEMMA ArriveLimit ==
  ASSUME Inv, LimitInv, Inv', NEW r \in Request, Arrive(r) PROVE LimitInv'
  <1>1. /\ OnlyMoves(r) /\ stage'[r] \in {"item", "accesses"} /\ stage[r] = "new"
        /\ UNCHANGED <<published, audits, behind>>
    BY ArriveMoves
  <1>2. Started' = Started \cup {r} /\ InFlight' = InFlight \cup {r} /\ r \notin InFlight
    BY <1>1 DEF Started, InFlight, OnlyMoves, Under
  <1>3. IsFiniteSet(InFlight) /\ Cardinality(InFlight) \in Nat
    BY Finite, FS_CardinalityType DEF LimitInv
  <1>4. Cardinality(InFlight) < MaxInFlight
    BY DEF Arrive
  <1>5. IsFiniteSet(Started') /\ Cardinality(InFlight') <= MaxInFlight
    <2>1. IsFiniteSet(Started')
      BY <1>2, FS_AddElement DEF LimitInv
    <2>2. Cardinality(InFlight') = Cardinality(InFlight) + 1
      BY <1>2, <1>3, FS_AddElement
    <2> QED BY <1>3, <1>4, <2>1, <2>2, LimitAssumption
  <1> QED BY <1>1, <1>5, LimitQuiet DEF OnlyMoves

LEMMA DecideLimit ==
  ASSUME Inv, LimitInv, Inv', NEW r \in Access, Decide(r) PROVE LimitInv'
  <1>1. /\ r \in Request /\ OnlyMoves(r) /\ UNCHANGED <<published, audits>>
        /\ stage[r] \in Under /\ stage[r] \notin {"ok", "admitted"}
        /\ stage'[r] \in {"notFound", "group", "noPolicy", "admitted", "count", "denied"}
        /\ \A o \in Request \ {r} : stage'[o] = stage[o]
    BY AccessType, DecideMoves DEF Under, OnlyMoves
  <1>2. IsFiniteSet(Started') /\ Cardinality(InFlight') <= MaxInFlight /\ IsFiniteSet(InFlight')
    BY <1>1, Flights
  <1>3. CASE UNCHANGED behind /\ (stage'[r] = "admitted" => request[r].endpoint # "closed")
    BY <1>1, <1>2, <1>3, LimitQuiet
  <1>4. CASE /\ behind' = [behind EXCEPT ![UserOf(r)] = OnTheWay(UserOf(r))]
             /\ stage'[r] = "admitted" /\ Consumed(UserOf(r)) < Limit
    <2>1. (\A o \in Recorded' : o \in Access' /\ stage'[o] = "ok") /\ Access' = Access
      BY <1>1, AccessType DEF LimitInv, Access, Recorded
    <2>2. ASSUME NEW u \in User, u # UserOf(r)
          PROVE  /\ Admitted(u)' \subseteq Admitted(u) /\ Unrecorded(u) \subseteq Unrecorded(u)'
                 /\ behind'[u] = behind[u]
      BY <1>1, <1>4, <2>2, AccessType DEF Admitted, Unrecorded, Access, UserOf, LimitInv
    <2> DEFINE u == UserOf(r)
               R == {o \in audits : request[o].user = u}
    <2>3. Admitted(u)' \subseteq (R \cup InFlight') \cup (OnTheWay(u) \cup Unrecorded(u)')
      BY <1>1, AccessType DEF Admitted, Unrecorded, InFlight, Under, Access, UserOf, OnTheWay
    <2>4. IsFiniteSet(R) /\ Cardinality(R) < Limit /\ IsFiniteSet(OnTheWay(u)) /\ u \in User
      BY <1>4, Finite, AccessType DEF Consumed, LimitInv, UserOf
    <2>5. IsFiniteSet(Unrecorded(u)')
      <3>1. Unrecorded(u)' \subseteq Started'
        BY AccessType DEF Unrecorded, Started, Access
      <3> QED BY <1>2, <3>1, FS_Subset
    <2>6. Cardinality(Admitted(u)')
            <= Limit + (MaxInFlight - 1) + Cardinality(OnTheWay(u)) + Cardinality(Unrecorded(u)')
      <3> HIDE DEF R, u
      <3> QED BY <1>2, <2>3, <2>4, <2>5, OneAdmitted
    <2>7. /\ behind'[u] = OnTheWay(u) /\ behind' \in [User -> SUBSET Access]
          /\ \A w \in User : IsFiniteSet(behind'[w])
      <3>1. OnTheWay(u) \subseteq Access
        BY DEF OnTheWay, LimitInv, Recorded
      <3> QED BY <1>4, <2>4, <3>1 DEF LimitInv
    <2>8. ASSUME NEW w \in User PROVE Bounded(w)'
      <3>1. CASE w = u
        BY <2>6, <2>7, <3>1 DEF Bounded
      <3>2. CASE w # u
        BY <1>2, <2>2, <3>2, NoneAdmitted
      <3> QED BY <3>1, <3>2
    <2> HIDE DEF u
    <2> QED BY <1>2, <2>1, <2>7, <2>8 DEF LimitInv, WithinLimit, Bounded
  <1> QED BY <1>3, <1>4, DecideMoves

(* A step that admits nobody and takes no access out of what is counted.   *)
LEMMA AdmitsNobody ==
  ASSUME Inv, LimitInv, Inv', IsFiniteSet(Started'), Cardinality(InFlight') <= MaxInFlight,
         \A o \in Recorded' : o \in Access /\ stage'[o] = "ok", UNCHANGED behind,
         \A u \in User :
           Admitted(u)' \subseteq Admitted(u) /\ Unrecorded(u) \subseteq Unrecorded(u)'
  PROVE  LimitInv'
  <1>1. Access' = Access
    BY DEF Access
  <1>2. \A u \in User : Bounded(u)'
    BY NoneAdmitted
  <1> QED BY <1>1, <1>2 DEF LimitInv, WithinLimit, Bounded

LEMMA RecordLimit ==
  ASSUME Inv, LimitInv, Inv', NEW r \in Access, Record(r) PROVE LimitInv'
  <1>1. /\ r \in Request /\ stage[r] = "admitted" /\ stage'[r] = "ok"
        /\ published' \in {published, published \cup {r}} /\ UNCHANGED <<audits, behind>>
        /\ \A o \in Request \ {r} : stage'[o] = stage[o]
    BY AccessType, RecordMoves DEF OnlyMoves
  <1>2. IsFiniteSet(Started') /\ Cardinality(InFlight') <= MaxInFlight
    BY <1>1, Flights DEF Under
  <1>3. \A o \in Recorded' : o \in Access /\ stage'[o] = "ok"
    BY <1>1, AccessType DEF LimitInv, Recorded
  <1>4. ASSUME NEW u \in User
        PROVE  Admitted(u)' \subseteq Admitted(u) /\ Unrecorded(u) \subseteq Unrecorded(u)'
    BY <1>1, AccessType DEF Admitted, Unrecorded, Access, UserOf
  <1> QED BY <1>1, <1>2, <1>3, <1>4, AdmitsNobody

LEMMA StoreLimit ==
  ASSUME Inv, LimitInv, Inv', NEW r \in published, store(r), UNCHANGED behind PROVE LimitInv'
  <1>1. Recorded' = Recorded /\ UNCHANGED stage
    BY DEF store, Recorded
  <1>2. /\ Started' = Started /\ InFlight' = InFlight
        /\ \A u : Admitted(u)' = Admitted(u) /\ Unrecorded(u)' = Unrecorded(u)
    BY <1>1 DEF Started, InFlight, Admitted, Unrecorded, Recorded, Access, UserOf
  <1> QED BY <1>1, <1>2, AdmitsNobody DEF LimitInv

LEMMA SummariseLimit ==
  ASSUME Inv, LimitInv, Inv', NEW r \in Summary, Summarise(r) PROVE LimitInv'
  <1>1. r \in Request /\ r \notin Access
    BY SummaryType
  <1>2. /\ UNCHANGED <<published, audits, behind>> /\ stage[r] \in {"accesses", "joining"}
        /\ \E p \in {"joining", "ok"} : stage' = [stage EXCEPT ![r] = p]
    BY DEF Summarise, cacheCall, join
  <1>3. stage'[r] \in {"joining", "ok"} /\ \A o \in Request \ {r} : stage'[o] = stage[o]
    BY <1>1, <1>2, Shape
  <1>4. IsFiniteSet(Started') /\ Cardinality(InFlight') <= MaxInFlight
    BY <1>1, <1>2, <1>3, Flights DEF Under
  <1> QED BY <1>1, <1>2, <1>3, <1>4, LimitQuiet

LEMMA LimitStep == Inv /\ Inv' /\ LimitInv /\ [Next]_vars => LimitInv'
  <1> SUFFICES ASSUME Inv, Inv', LimitInv, [Next]_vars PROVE LimitInv'
    OBVIOUS
  <1>1. CASE \E r \in Request : Arrive(r)
    BY <1>1, ArriveLimit
  <1>2. ASSUME NEW r \in Access, CountLost(r) PROVE LimitInv'
    <2>1. /\ r \in Request /\ UNCHANGED <<published, audits, behind>>
          /\ stage[r] = "count" /\ stage'[r] = "denied"
          /\ \A o \in Request \ {r} : stage'[o] = stage[o]
      BY <1>2, AccessType, CountLostMoves DEF OnlyMoves
    <2>2. IsFiniteSet(Started') /\ Cardinality(InFlight') <= MaxInFlight
      BY <2>1, Flights DEF Under
    <2> QED BY <2>1, <2>2, LimitQuiet
  <1>3. CASE \E r \in Access : Decide(r) \/ Record(r)
    BY <1>3, DecideLimit, RecordLimit
  <1>4. CASE \E r \in Summary : Summarise(r)
    BY <1>4, SummariseLimit
  <1>5. CASE UNCHANGED <<stage, published, audits, behind>>
    BY <1>5 DEF LimitInv, Started, Recorded, InFlight, WithinLimit, Admitted, Unrecorded,
                Access, UserOf
  <1>6. CASE \E r \in published : store(r) /\ UNCHANGED <<seen, behind>>
    BY <1>6, StoreLimit
  <1> QED BY <1>1, <1>2, <1>3, <1>4, <1>5, <1>6 DEF Next, vars, meteringVars

(* A user is admitted to closed endpoints at most as often as the limit    *)
(* says, and by the requests that are worked on together with the last one *)
(* that passed, the accesses that were not in the table yet when it was    *)
(* counted, and those whose message was lost (isAuthorized of              *)
(* authenticator/authorization/ConsumerAuthStrategy.java compares the      *)
(* limit with the rows of the table, for which insertMeteringValuesInRmq   *)
(* only publishes a message).                                              *)
THEOREM LimitExceededUncounted == Spec => []WithinLimit
  <1>1. Init => LimitInv
    <2> SUFFICES ASSUME Init PROVE LimitInv
      OBVIOUS
    <2>1. Started = {} /\ InFlight = {} /\ Recorded = {}
      BY DEF Init, Started, InFlight, Under, MeteringInit, Recorded
    <2>2. \A u : Admitted(u) = {} /\ Unrecorded(u) = {}
      BY AccessType DEF Init, Admitted, Unrecorded
    <2>3. behind \in [User -> SUBSET Access] /\ \A u \in User : behind[u] = {}
      BY DEF Init
    <2> QED BY <2>1, <2>2, <2>3, FS_EmptySet, LimitAssumption DEF LimitInv, WithinLimit
  <1>2. LimitInv => WithinLimit
    BY DEF LimitInv
  <1> QED BY <1>1, <1>2, InvAlways, LimitStep, PTL DEF Spec
=============================================================================
