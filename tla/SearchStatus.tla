---------------------------- MODULE SearchStatus ----------------------------
(***************************************************************************)
(* What an asynchronous search promises to the user who submitted it: the  *)
(* status it shows moves forward only, its outcome is final, and the file  *)
(* it offers holds the results of its own query.  A search is answered     *)
(* either by a job of its own, after it was seen in progress, or with the  *)
(* file of a complete search of the same query.                            *)
(***************************************************************************)
CONSTANTS
  Search,  \* ids of searches
  Query,   \* queries
  query,   \* the query of each search
  None     \* no file

VARIABLES
  status,  \* of each search; "none" when there is no such search
  answer   \* the query whose results the file of a search holds

visible == <<status, answer>>

Status == {"none", "SUBMITTED", "IN_PROGRESS", "COMPLETE", "ERROR"}

Init ==
  /\ status = [s \in Search |-> "none"]
  /\ answer = [s \in Search |-> None]

Move(s, from, to) ==
  /\ status[s] = from
  /\ status' = [status EXCEPT ![s] = to]

Submit(s) == Move(s, "none", "SUBMITTED") /\ UNCHANGED answer

Start(s) == Move(s, "SUBMITTED", "IN_PROGRESS") /\ UNCHANGED answer

Complete(s) ==
  /\ Move(s, "IN_PROGRESS", "COMPLETE")
  /\ answer' = [answer EXCEPT ![s] = query[s]]

Reuse(s) ==
  /\ Move(s, "SUBMITTED", "COMPLETE")
  /\ \E x \in Search : status[x] = "COMPLETE" /\ query[x] = query[s]
  /\ answer' = [answer EXCEPT ![s] = query[s]]

Fail(s) == Move(s, "IN_PROGRESS", "ERROR") /\ UNCHANGED answer

Next == \E s \in Search :
  Submit(s) \/ Start(s) \/ Complete(s) \/ Reuse(s) \/ Fail(s)

Spec == Init /\ [][Next]_visible
=============================================================================
