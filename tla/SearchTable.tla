---------------------------- MODULE SearchTable -----------------------------
(***************************************************************************)
(* The table s3_upload_url: one row for each asynchronous search, and the  *)
(* statements on it (database/postgres/Constants.java) that were sent      *)
(* through the Postgres service.                                           *)
(*                                                                         *)
(* A statement is performed in a step of its own, in any order with the    *)
(* others, and then waits with its result until its callback runs.  When   *)
(* the caller gives up on it, or stops, it is an orphan: it may still be   *)
(* performed, and nobody learns of it.                                     *)
(*                                                                         *)
(* Operators whose name starts with Bug are mistakes, one per property:    *)
(* each takes the place of the definition after it in a mutant run.        *)
(***************************************************************************)
EXTENDS Naturals, FiniteSets

CONSTANTS
  Search,      \* search ids
  Query,       \* what a request id is the hash of
  query,       \* the query of each search
  None,        \* no object
  FaultKinds,  \* the ways a step may go wrong
  MaxFaults    \* bound on the number of steps that go wrong

ASSUME SearchAssumption ==
  /\ query \in [Search -> Query]
  /\ None \notin Search \cup Query

ASSUME FaultAssumption ==
  /\ FaultKinds \subseteq
       {"lost", "late", "message", "scroll", "upload", "presign", "crash"}
  /\ MaxFaults \in Nat

VARIABLES
  row,     \* of each search, with status "none" when there is none
  stmts,   \* statements under way
  faults   \* number of steps that went wrong so far

tableVars == <<row, stmts, faults>>

Status == {"none", "SUBMITTED", "IN_PROGRESS", "COMPLETE", "ERROR"}

(* An object in S3 is named for the search whose job uploaded it.          *)
Row == [status : Status, progress : 0..100, object : Search \cup {None}]

(* "queued": handed to the executor of a progress listener, not yet sent;  *)
(* "pausing": a progress update that was answered and keeps its listener   *)
(* asleep.                                                                 *)
Statement == [search : Search,
              kind : {"insert", "lookup", "start", "progress", "complete", "error"},
              progress : 0..100, object : Search \cup {None},
              state : {"queued", "sent", "ok", "empty", "failed", "pausing", "orphan"}]

NewStatement(s, kind) ==
  [search |-> s, kind |-> kind, progress |-> 0, object |-> None, state |-> "sent"]

(* UPDATE_S3_URL_SQL, which also sets the status to COMPLETE.              *)
UrlUpdate(s, object) ==
  [search |-> s, kind |-> "complete", progress |-> 100, object |-> object,
   state |-> "sent"]

(* UPDATE_S3_PROGRESS_SQL.                                                 *)
ProgressUpdate(s, progress, state) ==
  [search |-> s, kind |-> "progress", progress |-> progress, object |-> None,
   state |-> state]

Send(t) == stmts' = stmts \cup {t}
Replace(t, sent) == stmts' = (stmts \ {t}) \cup sent
Answered(t, state) == [t EXCEPT !.state = state]

-----------------------------------------------------------------------------
(* What a statement does to the row of its search.  Only the update that   *)
(* completes a search looks at what the row holds.                         *)

Matches(t) ==
  CASE t.kind = "lookup" -> FALSE
    [] t.kind = "insert" -> row[t.search].status = "none"
    [] t.kind = "complete" -> /\ row[t.search].status # "none"
                              /\ row[t.search].progress < t.progress
    [] OTHER -> row[t.search].status # "none"

Updated(t) ==
  CASE t.kind = "insert" -> [status |-> "SUBMITTED", progress |-> 0, object |-> None]
    [] t.kind = "start" -> [row[t.search] EXCEPT !.status = "IN_PROGRESS"]
    [] t.kind = "error" -> [row[t.search] EXCEPT !.status = "ERROR"]
    [] t.kind = "progress" -> [row[t.search] EXCEPT !.progress = t.progress]
    [] OTHER -> [status |-> "COMPLETE", progress |-> t.progress, object |-> t.object]

Perform(t) ==
  row' = IF Matches(t) THEN [row EXCEPT ![t.search] = Updated(t)] ELSE row

(* SELECT_S3_SEARCH_SQL: the complete searches with the same request id.   *)
Record4RequestId(t) ==
  {s \in Search : row[s].status = "COMPLETE" /\ query[s] = query[t.search]}

(* The first of the rows found is used, and the order is not defined.      *)
Serve(t) ==
  /\ t.state = "sent"
  /\ Perform(t)
  /\ UNCHANGED faults
  /\ IF t.kind # "lookup" THEN Replace(t, {Answered(t, "ok")})
     ELSE \/ /\ Record4RequestId(t) = {}
             /\ Replace(t, {Answered(t, "empty")})
          \/ \E s \in Record4RequestId(t) :
               Replace(t, {[Answered(t, "ok") EXCEPT !.object = row[s].object]})

ServeOrphan(t) ==
  /\ t.state = "orphan"
  /\ Perform(t)
  /\ Replace(t, {})
  /\ UNCHANGED faults

GoesWrong(kind) ==
  /\ kind \in FaultKinds
  /\ faults < MaxFaults
  /\ faults' = faults + 1

(* A statement is lost, or its answer comes after the caller gave up.      *)
Fault(t) ==
  /\ t.state = "sent"
  /\ UNCHANGED row
  /\ \/ GoesWrong("lost") /\ Replace(t, {Answered(t, "failed")})
     \/ /\ GoesWrong("late")
        /\ Replace(t, {Answered(t, "failed"), Answered(t, "orphan")})

TableInit ==
  /\ row = [s \in Search |-> [status |-> "none", progress |-> 0, object |-> None]]
  /\ stmts = {} /\ faults = 0

TableTypeOK ==
  /\ row \in [Search -> Row]
  /\ stmts \subseteq Statement
  /\ faults \in 0..MaxFaults
=============================================================================
