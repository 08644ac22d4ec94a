------------------------- MODULE TokenIntrospection -------------------------
(***************************************************************************)
(* How a request is let in: apiserver/handlers/AuthHandler.java and        *)
(* authenticator/JwtAuthenticationServiceImpl.java decide with the cache   *)
(* of the catalogue and the number of accesses that are in the table; the  *)
(* handlers of apiserver/ApiServerVerticle.java publish an access after    *)
(* they have answered it, and it is in the table some time later.          *)
(*                                                                         *)
(* The token itself is valid and allows the endpoint, limits are enabled:  *)
(* its signature and audience and the revoked clients are checked before   *)
(* (BroadcastCache).  The number of accesses is read and compared in one   *)
(* step: who passes is admitted from the moment the table was read.        *)
(***************************************************************************)
EXTENDS Metering

CONSTANTS
  Limit,       \* accesses a token allows per day
  MaxInFlight, \* bound on the requests that are worked on together
  MaxRequests  \* bound on the requests that come

ASSUME LimitAssumption ==
  Limit \in Nat \ {0} /\ MaxInFlight \in Nat \ {0} /\ MaxRequests \in Nat

VARIABLES
  seen,        \* the versions that the item and its group were read from
  behind       \* auxiliary: the accesses of each user that were on their way
               \* to the table when its last one passed the count

vars == <<catalogueVars, faults, meteringVars, stage, since, seen, behind>>

ItemOf(r) == request[r].item
UserOf(r) == request[r].user
GroupOf(r) == Listing[seen[r].item][ItemOf(r)].group

Under == {"item", "group", "count", "admitted", "accesses", "joining"}
InFlight == {r \in Request : stage[r] \in Under}

To(r, there) == stage' = [stage EXCEPT ![r] = there]
Ask(r, i) == lookup' = [lookup EXCEPT ![<<r, i>>] = Asked]
Answer(r, i) == lookup[<<r, i>>].state
Take(r, i) == lookup' = [lookup EXCEPT ![<<r, i>>] = Unasked]

-----------------------------------------------------------------------------
Arrive(r) ==
  /\ stage[r] = "new" /\ Cardinality(InFlight) < MaxInFlight /\ Sound
  /\ Cardinality({o \in Request : stage[o] # "new"}) < MaxRequests
  /\ since' = [since EXCEPT ![r] = catalogue]
  /\ IF r \in Access THEN To(r, "item") /\ Ask(r, ItemOf(r))
                     ELSE To(r, "accesses") /\ UNCHANGED lookup
  /\ UNCHANGED <<catalogue, cached, meteringVars, seen, behind>>

(* isOpenResource: the item, then its group.                               *)
OnItem(r) ==
  /\ stage[r] = "item" /\ Sound
  /\ \/ /\ Answer(r, ItemOf(r)) = "found"
        /\ LET v == lookup[<<r, ItemOf(r)>>].version
               g == Listing[v][ItemOf(r)].group
           IN  /\ seen' = [seen EXCEPT ![r].item = v]
               /\ lookup' = [lookup EXCEPT ![<<r, ItemOf(r)>>] = Unasked, ![<<r, g>>] = Asked]
        /\ To(r, "group")
     \/ /\ Answer(r, ItemOf(r)) = "absent"
        /\ To(r, "notFound") /\ Take(r, ItemOf(r)) /\ UNCHANGED seen
  /\ UNCHANGED <<catalogue, cached, meteringVars, since, behind>>

BugGroupFirst(own, group) == IF group # None THEN group ELSE own

AccessPolicy(own, group) == IF own # None THEN own ELSE group

(* An answered request has its item looked up again, to be recorded.  The  *)
(* work it does before is part of the time that the lookup takes.          *)
Admit(r, there) ==
  /\ To(r, there)
  /\ lookup' = [s \in Slot |-> IF s[1] # r THEN lookup[s]
                           ELSE IF s[2] = ItemOf(r) /\ there = "admitted" THEN Asked
                           ELSE Unasked]

(* checkOpenEndPoints, isValidId.                                          *)
OnGroup(r) ==
  LET g == GroupOf(r)
      v == lookup[<<r, g>>].version
      own == Listing[seen[r].item][ItemOf(r)].acl
      acl == AccessPolicy(own, IF Answer(r, g) = "found" THEN Listing[v][g].acl ELSE None)
  IN  /\ stage[r] = "group" /\ Answer(r, g) \in {"found", "absent"} /\ Sound
      /\ seen' = [seen EXCEPT ![r].group = v]
      /\ Admit(r, CASE acl = None -> "noPolicy"
                    [] acl = "OPEN" /\ request[r].endpoint = "open" -> "admitted"
                    [] OTHER -> IF request[r].iid = ItemOf(r) THEN "count" ELSE "denied")
      /\ UNCHANGED <<catalogue, cached, meteringVars, since, behind>>

BugAtMost(u) == Consumed(u) <= Limit

WithinLimits(u) == Consumed(u) < Limit

validateAccess(r) ==
  /\ stage[r] = "count" /\ Sound
  /\ IF WithinLimits(UserOf(r))
     THEN /\ Admit(r, "admitted")
          /\ behind' = [behind EXCEPT ![UserOf(r)] = OnTheWay(UserOf(r))]
     ELSE Admit(r, "denied") /\ UNCHANGED behind
  /\ UNCHANGED <<catalogue, cached, meteringVars, since, seen>>

(* Nobody answers, and the request is refused by a timeout.                *)
CountLost(r) ==
  /\ stage[r] = "count" /\ Break("countLost") /\ To(r, "denied")
  /\ UNCHANGED <<catalogueVars, meteringVars, since, seen, behind>>

(* The message is only published: the row is inserted later (store).       *)
insertMeteringValuesInRmq(r) ==
  /\ stage[r] = "admitted" /\ Answer(r, ItemOf(r)) = "found" /\ Sound
  /\ published' = published \cup {r} /\ To(r, "ok") /\ Take(r, ItemOf(r))
  /\ UNCHANGED <<catalogue, cached, audits, resultJsonArray, answer, crossed, since, seen, behind>>

(* An item that is not in the catalogue is not recorded, and nobody looks  *)
(* whether the message arrived.                                            *)
NotRecorded(r) ==
  /\ stage[r] = "admitted"
  /\ \/ Answer(r, ItemOf(r)) = "absent" /\ Sound
     \/ Answer(r, ItemOf(r)) = "found" /\ Break("auditLost")
  /\ To(r, "ok") /\ Take(r, ItemOf(r))
  /\ UNCHANGED <<catalogue, cached, meteringVars, since, seen, behind>>

-----------------------------------------------------------------------------
Init ==
  /\ CatalogueInit /\ MeteringInit
  /\ stage = [r \in Request |-> "new"]
  /\ since = [r \in Request |-> 1]
  /\ seen = [r \in Request |-> [item |-> 0, group |-> 0]]
  /\ behind = [u \in User |-> {}]

Decide(r) == OnItem(r) \/ OnGroup(r) \/ validateAccess(r)
Record(r) == insertMeteringValuesInRmq(r) \/ NotRecorded(r)
Summarise(r) == (cacheCall(r) \/ join(r)) /\ UNCHANGED <<seen, behind>>

Next ==
  \/ \E r \in Request : Arrive(r)
  \/ \E r \in Access : Decide(r) \/ Record(r) \/ CountLost(r)
  \/ \E r \in Summary : Summarise(r)
  \/ \E r \in published : store(r) /\ UNCHANGED <<seen, behind>>
  \/ CatalogueStep /\ UNCHANGED <<meteringVars, stage, since, seen, behind>>

Spec == Init /\ [][Next]_vars

-----------------------------------------------------------------------------
(* Properties.                                                             *)

TypeOK ==
  /\ CatalogueTypeOK /\ MeteringTypeOK
  /\ stage \in [Request -> Under \cup {"new", "ok", "notFound", "noPolicy", "denied"}]
  /\ since \in [Request -> Version]
  /\ seen \in [Request -> [item : {0} \cup Version, group : {0} \cup Version]]
  /\ behind \in [User -> SUBSET Access]

ListedThroughout(r, i) == \A v \in since[r]..catalogue : Lists(v, i)

(* A resource is "not found" only when it was not listed for a moment      *)
(* since the request came, whatever the cache held and whoever refreshed   *)
(* it in between.                                                          *)
FoundIfListed ==
  \A r \in Access : stage[r] = "notFound" => ~ListedThroughout(r, ItemOf(r)) \/ faults # 0

OpenIn(v, i) ==
  LET acl(j) == IF Lists(v, j) THEN Listing[v][j].acl ELSE None
  IN  Lists(v, i) /\ "OPEN" = IF acl(i) # None THEN acl(i) ELSE acl(Listing[v][i].group)

(* Who has no token of the resource gets in only when some version of the  *)
(* catalogue had it open; unless the cache changed between the reads of    *)
(* the resource and of its group.                                          *)
AdmittedIfOpen ==
  \A r \in Access :
    stage[r] \in {"admitted", "ok"} /\ request[r].iid # ItemOf(r) =>
      \/ \E v \in 1..catalogue : OpenIn(v, ItemOf(r))
      \/ seen[r].item # seen[r].group

Admitted(u) ==
  {r \in Access : /\ UserOf(r) = u /\ request[r].endpoint = "closed"
                  /\ stage[r] \in {"admitted", "ok"}}

(* Neither in the table nor on the way to it: this access is never counted. *)
Unrecorded(u) ==
  {r \in Access \ (audits \cup published) : UserOf(r) = u /\ stage[r] = "ok"}

(* A user exceeds the limit by no more than the requests that are worked   *)
(* on together with the last one that passed, the accesses that were on    *)
(* their way to the table when it was counted, and those never recorded.   *)
WithinLimit ==
  \A u \in User :
    Cardinality(Admitted(u))
      <= Limit + (MaxInFlight - 1) + Cardinality(behind[u]) + Cardinality(Unrecorded(u))

(* A summary has the rows of its own request, and of every resource that   *)
(* was listed all the time; unless another summary started meanwhile.      *)
OwnSummary ==
  \A r \in Summary : stage[r] = "ok" =>
    \/ r \in crossed
    \/ /\ answer[r] \subseteq RowsOf(r)
       /\ \A s \in RowsOf(r) : ListedThroughout(r, s[2]) => s \in answer[r] \/ faults # 0
=============================================================================
