--------------------------- MODULE CatalogueCache ---------------------------
(***************************************************************************)
(* The cache of the catalogue: cache/cachelmpl/CatalogueCacheImpl.java and *)
(* the get of cache/CacheServiceImpl.java.  A key that is not there makes  *)
(* the cache ask the catalogue server for everything it lists; the cache   *)
(* also does so when it starts and every hour.                             *)
(***************************************************************************)
EXTENDS Naturals, FiniteSets, Sequences

CONSTANTS
  Request,     \* requests of the API server
  Item,        \* resources and groups
  Timer,       \* the caller of the hourly refresh
  None,        \* no item, no policy
  Listing,     \* the versions of the catalogue: what each lists of an item
  FaultKinds,  \* what may go wrong
  MaxFaults    \* bound on the number of things that go wrong

Version == 1..Len(Listing)
Policy == {"OPEN", "SECURE", None}

ASSUME CatalogueAssumption ==
  /\ Listing \in Seq([Item -> [group : Item, acl : Policy] \cup {None}])
  /\ Listing # <<>>
  /\ Timer \notin Request /\ None \notin Item \cup {"OPEN", "SECURE"} /\ MaxFaults \in Nat
  /\ FaultKinds \subseteq {"unreachable", "errorAnswer", "countLost", "auditLost"}

VARIABLES
  catalogue,  \* the version the catalogue server holds
  cached,     \* the version the cache holds, 0 when it is empty
  lookup,     \* the lookups under way
  faults      \* number of things that went wrong

catalogueVars == <<catalogue, cached, lookup>>

Slot == (Request \X Item) \cup {<<Timer, None>>}
LookupState == {"none", "asked", "sent", "read", "found", "absent"}

Lists(v, i) == v # 0 /\ Listing[v][i] # None

Sound == UNCHANGED faults
Break(kind) == kind \in FaultKinds /\ faults < MaxFaults /\ faults' = faults + 1

Unasked == [state |-> "none", version |-> 0]
Asked == [state |-> "asked", version |-> 0]
Sent == [state |-> "sent", version |-> 0]
Ended(s, found, v) ==
  IF s[1] = Timer THEN Unasked
  ELSE [state |-> IF found THEN "found" ELSE "absent", version |-> v]

-----------------------------------------------------------------------------
BugHitUnchecked(s) ==
  /\ lookup[s].state = "asked" /\ Sound
  /\ lookup' = [lookup EXCEPT ![s] = IF cached # 0 THEN Ended(s, TRUE, cached) ELSE Sent]
  /\ UNCHANGED <<catalogue, cached>>

get(s) ==
  /\ lookup[s].state = "asked" /\ Sound
  /\ lookup' = [lookup EXCEPT ![s] =
                  IF Lists(cached, s[2]) THEN Ended(s, TRUE, cached) ELSE Sent]
  /\ UNCHANGED <<catalogue, cached>>

refreshCache ==
  /\ lookup[<<Timer, None>>] = Unasked /\ Sound
  /\ lookup' = [lookup EXCEPT ![<<Timer, None>>] = Sent]
  /\ UNCHANGED <<catalogue, cached>>

Serve(s) ==
  /\ lookup[s].state = "sent" /\ Sound
  /\ lookup' = [lookup EXCEPT ![s] = [state |-> "read", version |-> catalogue]]
  /\ UNCHANGED <<catalogue, cached>>

BugAddToCache(s) ==
  LET v == lookup[s].version
  IN  /\ lookup[s].state = "read" /\ Sound
      /\ cached' = IF cached = 0 THEN v ELSE cached
      /\ lookup' = [lookup EXCEPT ![s] =
                      Ended(s, s[2] # None /\ Lists(cached', s[2]), cached')]
      /\ UNCHANGED catalogue

(* Whatever the cache holds by now is dropped, and the key is looked for   *)
(* in what the answer lists.                                               *)
populateCache(s) ==
  LET v == lookup[s].version
  IN  /\ lookup[s].state = "read" /\ Sound
      /\ cached' = v
      /\ lookup' = [lookup EXCEPT ![s] = Ended(s, s[2] # None /\ Lists(v, s[2]), v)]
      /\ UNCHANGED catalogue

Unreachable(s) ==
  /\ lookup[s].state = "sent" /\ Break("unreachable")
  /\ lookup' = [lookup EXCEPT ![s] = Ended(s, FALSE, 0)]
  /\ UNCHANGED <<catalogue, cached>>

(* An answer without results: the cache is emptied before they are read,   *)
(* and the caller is told by the timeout of the event bus.                 *)
ErrorAnswer(s) ==
  /\ lookup[s].state = "sent" /\ Break("errorAnswer")
  /\ cached' = 0
  /\ lookup' = [lookup EXCEPT ![s] = Ended(s, FALSE, 0)]
  /\ UNCHANGED catalogue

(* Somebody changes the catalogue.                                         *)
Change ==
  /\ catalogue + 1 \in Version /\ Sound
  /\ catalogue' = catalogue + 1
  /\ UNCHANGED <<cached, lookup>>

CatalogueInit ==
  /\ catalogue = 1 /\ cached = 0 /\ faults = 0
  /\ lookup = [s \in Slot |-> IF s[1] = Timer THEN Sent ELSE Unasked]

Lookup(s) == get(s) \/ Serve(s) \/ populateCache(s)

CatalogueStep ==
  \/ \E s \in Slot : Lookup(s) \/ Unreachable(s) \/ ErrorAnswer(s)
  \/ refreshCache \/ Change

CatalogueTypeOK ==
  /\ catalogue \in Version /\ cached \in {0} \cup Version
  /\ lookup \in [Slot -> [state : LookupState, version : {0} \cup Version]]
  /\ faults \in 0..MaxFaults
  /\ \A s \in Slot : lookup[s].state = "found" => Lists(lookup[s].version, s[2])
=============================================================================
