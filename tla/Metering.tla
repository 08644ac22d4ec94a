------------------------------ MODULE Metering ------------------------------
(***************************************************************************)
(* metering/MeteringServiceImpl.java: the accesses that are published, to  *)
(* be stored by somebody else, and counted where they are stored; and the  *)
(* summary of a user's accesses, which takes the names of the resources    *)
(* from the cache of the catalogue.                                        *)
(***************************************************************************)
EXTENDS CatalogueCache

CONSTANTS
  request,     \* what each request asks for
  User         \* who asks

Access == {r \in Request : request[r].op = "access"}
Summary == {r \in Request : request[r].op = "summary"}

ASSUME MeteringAssumption ==
  request \in [Request ->
    [op : {"access"}, user : User, item : Item, iid : Item, endpoint : {"open", "closed"}]
      \cup [op : {"summary"}, user : User, items : SUBSET Item]]

VARIABLES
  stage,            \* what each request waits for, or how it ended
  published,        \* accesses whose message is on its way to the table
  audits,           \* accesses that are in the table
  resultJsonArray,  \* the field of the service: the rows of a summary
  answer,           \* the rows each summary was answered with
  since,            \* auxiliary: the version of the catalogue at arrival
  crossed           \* auxiliary: summaries during which another one started

meteringVars == <<published, audits, resultJsonArray, answer, crossed>>

ItemsOf(r) == request[r].items
RowsOf(r) == {r} \X ItemsOf(r)

(* countQuery: the rows of the user.                                       *)
Consumed(u) == Cardinality({r \in audits : request[r].user = u})

OnTheWay(u) == {r \in published : request[r].user = u}

-----------------------------------------------------------------------------
BugNoNewArray(r) ==
  /\ stage[r] = "accesses" /\ Sound
  /\ lookup' = [s \in Slot |-> IF s \in RowsOf(r) THEN Asked ELSE lookup[s]]
  /\ stage' = [stage EXCEPT ![r] = "joining"]
  /\ crossed' = crossed \cup {o \in Summary : stage[o] = "joining"}
                        \cup {o \in {r} : \E p \in Summary : stage[p] = "joining"}
  /\ UNCHANGED <<catalogue, cached, published, audits, resultJsonArray, answer, since>>

(* The accesses of the user are there: a lookup for each of the resources. *)
cacheCall(r) ==
  /\ stage[r] = "accesses" /\ Sound
  /\ resultJsonArray' = {}
  /\ lookup' = [s \in Slot |-> IF s \in RowsOf(r) THEN Asked ELSE lookup[s]]
  /\ stage' = [stage EXCEPT ![r] = "joining"]
  /\ crossed' = crossed \cup {o \in Summary : stage[o] = "joining"}
                        \cup {o \in {r} : \E p \in Summary : stage[p] = "joining"}
  /\ UNCHANGED <<catalogue, cached, published, audits, answer, since>>

(* All of them have ended; those that failed are left out.                 *)
join(r) ==
  /\ stage[r] = "joining" /\ Sound
  /\ \A s \in RowsOf(r) : lookup[s].state \in {"found", "absent"}
  /\ resultJsonArray' = resultJsonArray \cup {s \in RowsOf(r) : lookup[s].state = "found"}
  /\ answer' = [answer EXCEPT ![r] = resultJsonArray']
  /\ lookup' = [s \in Slot |-> IF s \in RowsOf(r) THEN Unasked ELSE lookup[s]]
  /\ stage' = [stage EXCEPT ![r] = "ok"]
  /\ UNCHANGED <<catalogue, cached, published, audits, since, crossed>>

(* The consumer of the messages, which is not part of the server, inserts  *)
(* the rows in any order and in its own time.                              *)
store(r) ==
  /\ r \in published /\ Sound
  /\ published' = published \ {r} /\ audits' = audits \cup {r}
  /\ UNCHANGED <<catalogueVars, stage, since, resultJsonArray, answer, crossed>>

MeteringInit ==
  /\ published = {} /\ audits = {} /\ resultJsonArray = {} /\ crossed = {}
  /\ answer = [r \in Request |-> {}]

MeteringTypeOK ==
  /\ published \subseteq Access /\ audits \subseteq Access /\ crossed \subseteq Summary
  /\ resultJsonArray \subseteq Summary \X Item
  /\ answer \in [Request -> SUBSET (Summary \X Item)]
=============================================================================
