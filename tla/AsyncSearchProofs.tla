-------------------------- MODULE AsyncSearchProofs -------------------------
(***************************************************************************)
(* Theorems about AsyncSearch, for every set of searches and queries, any  *)
(* number of pages and of searches at a time, and every kind of fault.     *)
(***************************************************************************)
EXTENDS AsyncSearch, Integers, TLAPS

(* The statements whose callback moves the search on, and the stage in     *)
(* which the search waits for each of them.                                *)
Awaited == {"insert", "lookup", "start", "complete"}

StageOf == [k \in Awaited |->
  CASE k = "insert" -> "inserting" [] k = "lookup" -> "looking"
    [] k = "start" -> "starting" [] OTHER -> "saving"]

(* The statements that change the status of a search.                      *)
Writes == {"insert", "start", "complete", "error"}

Unperformed(t) == t.kind \in Writes /\ t.state \in {"sent", "orphan"}

Waited(t) == t.kind \in Awaited /\ t.state # "orphan"

(* A search waits for one statement at a time.                             *)
WaitInv ==
  /\ \A t \in stmts : Waited(t) => stage[t.search] = StageOf[t.kind]
  /\ \A t, u \in stmts :
       Waited(t) /\ Waited(u) /\ t.search = u.search => t = u

(* Of the statements that change its status, at most one is still to be    *)
(* performed.                                                              *)
WriteInv ==
  /\ \A t, u \in stmts :
       Unperformed(t) /\ Unperformed(u) /\ t.search = u.search => t = u
  /\ \A t \in stmts : Unperformed(t) /\ t.kind # "error" =>
       stage[t.search] \in {"stopped", StageOf[t.kind]}
  /\ \A t \in stmts : t.kind = "error" => stage[t.search] = "stopped"
  /\ \A t \in stmts : t.state \in {"queued", "pausing"} => t.kind = "progress"

(* What the row of a search holds while it waits, and what the statements  *)
(* tell about it.                                                          *)
Fits(s, there) ==
  /\ there = "none" => row[s].status = "none"
  /\ there \in {"publishing", "queued", "looking"} => row[s].status = "SUBMITTED"
  /\ there \in {"scrolling", "reporting", "uploading"} => row[s].status = "IN_PROGRESS"
  /\ there \in {"starting", "saving"} => row[s].status # "none"

Tells(t) ==
  /\ t.kind = "insert" /\ Unperformed(t) => row[t.search].status = "none"
  /\ t.kind = "insert" /\ t.state = "ok" => row[t.search].status = "SUBMITTED"
  /\ t.kind = "start" /\ Unperformed(t) => row[t.search].status = "SUBMITTED"
  /\ t.kind = "start" /\ t.state = "ok" => row[t.search].status = "IN_PROGRESS"
  /\ t.kind = "error" /\ Unperformed(t) => row[t.search].status = "IN_PROGRESS"

RowInv ==
  /\ \A s \in Search : Fits(s, stage[s])
  /\ \A s \in messages : stage[s] = "queued"
  /\ \A t \in stmts : Tells(t)

Holds(object, s) == object \in uploaded /\ query[object] = query[s]

Reusable(s) == \E x \in Search : row[x].status = "COMPLETE" /\ query[x] = query[s]

(* Where the objects named in statements and rows come from.               *)
Sourced(t) ==
  /\ t.kind = "lookup" /\ t.state = "ok" =>
       Holds(t.object, t.search) /\ Reusable(t.search)
  /\ t.kind = "complete" /\ Unperformed(t) =>
       /\ Holds(t.object, t.search)
       /\ \/ row[t.search].status = "IN_PROGRESS"
          \/ row[t.search].status = "SUBMITTED" /\ Reusable(t.search)

ObjectInv ==
  /\ \A s \in Search : row[s].status = "COMPLETE" => Holds(row[s].object, s)
  /\ \A t \in stmts : Sourced(t)

SearchInv == TypeOK /\ WaitInv /\ WriteInv /\ RowInv /\ ObjectInv

-----------------------------------------------------------------------------
(* Statements and progress keep their types.                               *)

LEMMA NewStatementType ==
  ASSUME NEW s \in Search, NEW kind \in {"insert", "lookup", "start", "error"}
  PROVE  /\ NewStatement(s, kind) \in Statement
         /\ NewStatement(s, kind).search = s
         /\ NewStatement(s, kind).kind = kind
         /\ NewStatement(s, kind).state = "sent"
  BY DEF NewStatement, Statement

LEMMA UrlUpdateType ==
  ASSUME NEW s \in Search, NEW object \in Search \cup {None}
  PROVE  /\ UrlUpdate(s, object) \in Statement
         /\ UrlUpdate(s, object).search = s
         /\ UrlUpdate(s, object).kind = "complete"
         /\ UrlUpdate(s, object).state = "sent"
         /\ UrlUpdate(s, object).object = object
         /\ UrlUpdate(s, object).progress = 100
  BY DEF UrlUpdate, Statement

LEMMA ProgressUpdateType ==
  ASSUME NEW s \in Search, NEW progress \in 0..100, NEW state \in {"queued", "sent"}
  PROVE  /\ ProgressUpdate(s, progress, state) \in Statement
         /\ ProgressUpdate(s, progress, state).search = s
         /\ ProgressUpdate(s, progress, state).kind = "progress"
         /\ ProgressUpdate(s, progress, state).state = state
  BY DEF ProgressUpdate, Statement

LEMMA AnsweredType ==
  ASSUME NEW t \in Statement,
         NEW state \in {"queued", "sent", "ok", "empty", "failed", "pausing", "orphan"}
  PROVE  /\ Answered(t, state) \in Statement
         /\ Answered(t, state).search = t.search
         /\ Answered(t, state).kind = t.kind
         /\ Answered(t, state).state = state
         /\ Answered(t, state).object = t.object
         /\ Answered(t, state).progress = t.progress
  BY DEF Answered, Statement

LEMMA PageProgressRange ==
  ASSUME NEW k \in 1..Pages
  PROVE  PageProgress(k) \in 0..90
  <1>1. Pages \in Nat /\ Pages > 0 /\ k \in Nat /\ k <= Pages
    BY BoundAssumption
  <1>2. 90 * k <= 90 * Pages /\ 90 * k >= 0
    BY <1>1
  <1> DEFINE d == (90 * k) \div Pages
  <1>3. d \in Int /\ d * Pages <= 90 * k /\ 90 * k < (d + 1) * Pages
    BY <1>1, <1>2
  <1>4. d <= 90
    BY <1>1, <1>2, <1>3
  <1>5. d >= 0
    BY <1>1, <1>2, <1>3
  <1> QED BY <1>3, <1>4, <1>5 DEF PageProgress

-----------------------------------------------------------------------------
(* Type correctness.                                                       *)

LEMMA UpdatedType ==
  ASSUME TypeOK, NEW t \in Statement
  PROVE  Updated(t) \in Row
  <1>1. row[t.search] \in Row
    BY DEF TypeOK, TableTypeOK, Statement
  <1>2. t.kind \in {"insert", "lookup", "start", "progress", "complete", "error"}
        /\ t.progress \in 0..100 /\ t.object \in Search \cup {None}
    BY DEF Statement
  <1> QED BY <1>1, <1>2 DEF Updated, Row, Status

LEMMA PerformType ==
  ASSUME TypeOK, NEW t \in Statement, Perform(t)
  PROVE  row' \in [Search -> Row]
  BY UpdatedType DEF Perform, TypeOK, TableTypeOK, Statement

LEMMA GoesWrongType ==
  ASSUME TypeOK, NEW kind, GoesWrong(kind)
  PROVE  faults' \in 0..MaxFaults
  BY FaultAssumption DEF GoesWrong, TypeOK, TableTypeOK

LEMMA ServeShape ==
  ASSUME TypeOK, NEW t \in stmts, Serve(t)
  PROVE  \E n \in Statement :
           /\ stmts' = (stmts \ {t}) \cup {n}
           /\ n.search = t.search /\ n.kind = t.kind
           /\ t.kind # "lookup" => n.state = "ok" /\ n.object = t.object
           /\ t.kind = "lookup" =>
                \/ n.state = "empty"
                \/ /\ n.state = "ok"
                   /\ \E s \in Record4RequestId(t) : n.object = row[s].object
  <1>1. t \in Statement
    BY DEF TypeOK, TableTypeOK
  <1>2. CASE t.kind # "lookup"
    <2>1. stmts' = (stmts \ {t}) \cup {Answered(t, "ok")}
      BY <1>2 DEF Serve, Replace
    <2> QED BY <1>1, <1>2, <2>1, AnsweredType
  <1>3. CASE t.kind = "lookup" /\ stmts' = (stmts \ {t}) \cup {Answered(t, "empty")}
    BY <1>1, <1>3, AnsweredType
  <1>4. ASSUME t.kind = "lookup", NEW s \in Record4RequestId(t),
               stmts' = (stmts \ {t}) \cup {[Answered(t, "ok") EXCEPT !.object = row[s].object]}
        PROVE  \E n \in Statement :
                 /\ stmts' = (stmts \ {t}) \cup {n}
                 /\ n.search = t.search /\ n.kind = t.kind
                 /\ n.state = "ok" /\ n.object = row[s].object
    <2> DEFINE a == Answered(t, "ok")
               n == [a EXCEPT !.object = row[s].object]
    <2>1. a \in Statement /\ a.search = t.search /\ a.kind = t.kind /\ a.state = "ok"
      BY <1>1, AnsweredType
    <2>2. row[s].object \in Search \cup {None}
      BY DEF Record4RequestId, TypeOK, TableTypeOK, Row
    <2> HIDE DEF a
    <2>3. n \in Statement /\ n.search = t.search /\ n.kind = t.kind
          /\ n.state = "ok" /\ n.object = row[s].object
      BY <2>1, <2>2 DEF Statement
    <2>4. stmts' = (stmts \ {t}) \cup {n}
      BY <1>4 DEF a
    <2> QED BY <2>3, <2>4
  <1>5. t.kind = "lookup" =>
          \/ stmts' = (stmts \ {t}) \cup {Answered(t, "empty")}
          \/ \E s \in Record4RequestId(t) :
               stmts' = (stmts \ {t}) \cup {[Answered(t, "ok") EXCEPT !.object = row[s].object]}
    BY DEF Serve, Replace
  <1> QED BY <1>2, <1>3, <1>4, <1>5

LEMMA FaultShape ==
  ASSUME TypeOK, NEW t \in stmts, Fault(t)
  PROVE  \E f \in Statement, o \in Statement :
           /\ f.search = t.search /\ f.kind = t.kind /\ f.state = "failed"
           /\ o.search = t.search /\ o.kind = t.kind /\ o.state = "orphan"
           /\ o.object = t.object
           /\ \/ stmts' = (stmts \ {t}) \cup {f}
              \/ stmts' = (stmts \ {t}) \cup {f, o}
  <1>1. t \in Statement
    BY DEF TypeOK, TableTypeOK
  <1>2. \/ stmts' = (stmts \ {t}) \cup {Answered(t, "failed")}
        \/ stmts' = (stmts \ {t}) \cup {Answered(t, "failed"), Answered(t, "orphan")}
    BY DEF Fault, Replace
  <1> QED BY <1>1, <1>2, AnsweredType

LEMMA ReportShape ==
  ASSUME TypeOK, NEW s \in Search, updateProgress(s)
  PROVE  \E n \in Statement :
           /\ stmts' = stmts \cup {n}
           /\ n.search = s /\ n.kind = "progress" /\ n.state \in {"queued", "sent"}
  <1> DEFINE state == IF s \in threads THEN "queued" ELSE "sent"
  <1>1. state \in {"queued", "sent"} /\ progressQueue[s] \in 0..100
    BY DEF TypeOK
  <1>2. stmts' = stmts \cup {ProgressUpdate(s, progressQueue[s], state)}
    BY DEF updateProgress, Send
  <1> DEFINE n == ProgressUpdate(s, progressQueue[s], state)
  <1> HIDE DEF state
  <1>3. /\ n \in Statement /\ n.search = s
        /\ n.kind = "progress" /\ n.state \in {"queued", "sent"}
    BY <1>1, ProgressUpdateType
  <1> HIDE DEF n
  <1> QED BY <1>2, <1>3 DEF n

LEMMA TypeStep ==
  ASSUME TypeOK, [Next]_vars
  PROVE  TypeOK'
  <1> USE DEF TypeOK, TableTypeOK
  <1>1. ASSUME NEW s \in Search, executeAsyncUrlSearch(s)
        PROVE  TypeOK'
    BY <1>1, NewStatementType DEF executeAsyncUrlSearch, Goto, Send, jobVars, Stage
  <1>2. ASSUME NEW s \in Search, publishMessage(s)
        PROVE  TypeOK'
    BY <1>2, GoesWrongType DEF publishMessage, Goto, jobVars, Stage
  <1>3. ASSUME NEW t \in stmts, Serve(t), UNCHANGED <<stage, messages, jobVars>>
        PROVE  TypeOK'
    <2>1. row' \in [Search -> Row]
      BY <1>3, PerformType DEF Serve
    <2>2. stmts' \subseteq Statement
      BY <1>3, ServeShape
    <2> QED BY <1>3, <2>1, <2>2 DEF Serve, jobVars
  <1>4. ASSUME NEW t \in stmts, ServeOrphan(t), UNCHANGED <<stage, messages, jobVars>>
        PROVE  TypeOK'
    <2>1. row' \in [Search -> Row]
      BY <1>4, PerformType DEF ServeOrphan
    <2> QED BY <1>4, <2>1 DEF ServeOrphan, Replace, jobVars
  <1>5. ASSUME NEW t \in stmts, Fault(t), UNCHANGED <<stage, messages, jobVars>>
        PROVE  TypeOK'
    <2>1. stmts' \subseteq Statement
      BY <1>5, FaultShape
    <2>2. faults' \in 0..MaxFaults
      BY <1>5, GoesWrongType DEF Fault
    <2> QED BY <1>5, <2>1, <2>2 DEF Fault, jobVars
  <1>6. ASSUME NEW t \in stmts, OnInserted(t)
        PROVE  TypeOK'
    BY <1>6 DEF OnInserted, Replace, Goto, jobVars, Stage, Statement
  <1>7. ASSUME NEW t \in stmts, process4ExistingRequestId(t)
        PROVE  TypeOK'
    <2>1. t.search \in Search /\ t.object \in Search \cup {None}
      BY DEF Statement
    <2>2. stmts' \subseteq Statement
      BY <1>7, <2>1, UrlUpdateType DEF process4ExistingRequestId, Replace
    <2>3. faults' \in 0..MaxFaults
      BY <1>7, GoesWrongType DEF process4ExistingRequestId
    <2> QED BY <1>7, <2>1, <2>2, <2>3
            DEF process4ExistingRequestId, Goto, jobVars, Stage, Working
  <1>8. ASSUME NEW t \in stmts, updateQueryExecutionStatus(t)
        PROVE  TypeOK'
    <2>1. t.search \in Search
      BY DEF Statement
    <2>2. stmts' \subseteq Statement
      BY <1>8, <2>1, NewStatementType DEF updateQueryExecutionStatus, Replace
    <2> QED BY <1>8, <2>1, <2>2
            DEF updateQueryExecutionStatus, Goto, jobVars, Stage, Working
  <1>9. ASSUME NEW t \in stmts, process4NewRequestId(t)
        PROVE  TypeOK'
    BY <1>9 DEF process4NewRequestId, Replace, Goto, Add, FirstProgress, Stage, Working,
                Statement
  <1>10. ASSUME NEW t \in stmts, OnProgressUpdated(t)
         PROVE  TypeOK'
    BY <1>10, AnsweredType DEF OnProgressUpdated, Replace
  <1>11. ASSUME NEW t \in stmts, OnSaved(t)
         PROVE  TypeOK'
    BY <1>11 DEF OnSaved, Replace, Goto, jobVars, Stage, Statement
  <1>12. ASSUME NEW t \in stmts, RunTask(t)
         PROVE  TypeOK'
    BY <1>12, AnsweredType DEF RunTask, Replace, jobVars
  <1>13. ASSUME NEW t \in stmts, WakeUp(t)
         PROVE  TypeOK'
    BY <1>13 DEF WakeUp, Replace
  <1>14. ASSUME NEW s \in Search, asyncSearch(s)
         PROVE  TypeOK'
    BY <1>14, NewStatementType DEF asyncSearch, Goto, Send, jobVars, Stage, Working
  <1>15. ASSUME NEW s \in Search, asyncScroll(s)
         PROVE  TypeOK'
    <2>1. pages[s] \in 0..Pages /\ pages[s] < Pages /\ Pages \in Nat
      BY <1>15, BoundAssumption DEF asyncScroll
    <2>2. pages[s] + 1 \in 1..Pages
      BY <2>1
    <2>3. PageProgress(pages[s] + 1) \in 0..100
      BY <2>2, PageProgressRange
    <2>4. progressQueue' \in [Search -> 0..100]
      BY <1>15, <2>3 DEF asyncScroll, Add
    <2>5. pages' \in [Search -> 0..Pages]
      BY <1>15, <2>1, <2>2 DEF asyncScroll
    <2> QED BY <1>15, <2>4, <2>5 DEF asyncScroll, Goto, tableVars, Stage, Working
  <1>16. ASSUME NEW s \in Search, updateProgress(s)
         PROVE  TypeOK'
    <2>1. stmts' \subseteq Statement
      BY <1>16, ReportShape
    <2> QED BY <1>16, <2>1 DEF updateProgress, Goto, Stage, Working
  <1>17. ASSUME NEW s \in Search, ScrollEnds(s)
         PROVE  TypeOK'
    <2>1. stmts' \subseteq Statement /\ faults' \in 0..MaxFaults
      BY <1>17, NewStatementType, GoesWrongType DEF ScrollEnds, Send
    <2> QED BY <1>17, <2>1 DEF ScrollEnds, Goto, jobVars, Stage, Working
  <1>18. ASSUME NEW s \in Search, s3Upload(s)
         PROVE  TypeOK'
    <2>1. stmts' \subseteq Statement
      BY <1>18, NewStatementType, UrlUpdateType DEF s3Upload, Send
    <2>2. faults' \in 0..MaxFaults
      BY <1>18, GoesWrongType DEF s3Upload
    <2>3. progressQueue' \in [Search -> 0..100]
      BY <1>18 DEF s3Upload, finish, Add
    <2> QED BY <1>18, <2>1, <2>2, <2>3 DEF s3Upload, Goto, Stage, Working
  <1>19. CASE Crash
    <2>1. stmts' \subseteq Statement
      BY <1>19, AnsweredType DEF Crash
    <2>2. faults' \in 0..MaxFaults
      BY <1>19, GoesWrongType DEF Crash
    <2>3. stage' \in [Search -> Stage]
      BY <1>19 DEF Crash, Stage
    <2>4. progressQueue' \in [Search -> 0..100]
      BY <1>19 DEF Crash
    <2> QED BY <1>19, <2>1, <2>2, <2>3, <2>4 DEF Crash
  <1>20. CASE UNCHANGED vars
    BY <1>20 DEF vars, tableVars, jobVars
  <1> HIDE DEF TypeOK, TableTypeOK
  <1>21. CASE Submit \/ Publish
    BY <1>1, <1>2, <1>21 DEF Submit, Publish
  <1>22. CASE Table
    BY <1>3, <1>4, <1>5, <1>22 DEF Table
  <1>23. CASE Callback
    BY <1>6, <1>7, <1>8, <1>9, <1>10, <1>11, <1>23 DEF Callback
  <1>24. CASE Listener
    BY <1>12, <1>13, <1>24 DEF Listener
  <1>25. CASE Job
    BY <1>14, <1>15, <1>16, <1>17, <1>18, <1>25 DEF Job
  <1> QED BY <1>19, <1>20, <1>21, <1>22, <1>23, <1>24, <1>25 DEF Next

LEMMA InitialType ==
  ASSUME Init
  PROVE  TypeOK
  <1>1. row \in [Search -> Row]
    BY DEF Init, TableInit, Row, Status
  <1>2. stage \in [Search -> Stage] /\ pages \in [Search -> 0..Pages]
    BY BoundAssumption DEF Init, Stage
  <1>3. progressQueue \in [Search -> 0..100]
    BY DEF Init
  <1>4. faults \in 0..MaxFaults
    BY FaultAssumption DEF Init, TableInit
  <1> QED BY <1>1, <1>2, <1>3, <1>4
          DEF Init, TableInit, TypeOK, TableTypeOK

(* Every reachable state is well typed.                                    *)
THEOREM TypeCorrect == Spec => []TypeOK
  BY InitialType, TypeStep, PTL DEF Spec

-----------------------------------------------------------------------------
(* A search waits for one statement at a time.                             *)

LEMMA StageOfValues ==
  /\ StageOf["insert"] = "inserting" /\ StageOf["lookup"] = "looking"
  /\ StageOf["start"] = "starting" /\ StageOf["complete"] = "saving"
  BY DEF StageOf, Awaited

Free(s, S) == \A t \in S : Waited(t) => t.search # s

(* Nothing that a search waits for is left when the search is in a stage   *)
(* that waits for nothing.                                                 *)
LEMMA NothingWaited ==
  ASSUME TypeOK, WaitInv, NEW s \in Search,
         stage[s] \notin {"inserting", "looking", "starting", "saving"}
  PROVE  Free(s, stmts)
  BY StageOfValues DEF WaitInv, Waited, Awaited, Free

(* The callback of a statement the search waits for leaves nothing that it *)
(* waits for.                                                              *)
LEMMA LastWaited ==
  ASSUME TypeOK, WaitInv, NEW t \in stmts, Waited(t)
  PROVE  /\ stage[t.search] = StageOf[t.kind]
         /\ Free(t.search, stmts \ {t})
  BY DEF WaitInv, Free

(* A statement is sent that the search, which waited for none, now waits   *)
(* for.                                                                    *)
LEMMA WaitFor ==
  ASSUME TypeOK, WaitInv, NEW s \in Search, NEW rest, NEW n \in Statement,
         rest \subseteq stmts, stmts' = rest \cup {n},
         n.search = s, n.kind \in Awaited, Free(s, rest),
         Goto(s, StageOf[n.kind])
  PROVE  WaitInv'
  <1>1. \A t \in rest : Waited(t) =>
          t.search \in Search /\ t.search # s /\ stage[t.search] = StageOf[t.kind]
    BY DEF WaitInv, Free, TypeOK, TableTypeOK, Statement
  <1>2. stage \in [Search -> Stage]
    BY DEF TypeOK
  <1>3. \A t \in stmts' : Waited(t) => stage'[t.search] = StageOf[t.kind]
    BY <1>1, <1>2 DEF Goto
  <1>4. \A t, u \in stmts' :
          Waited(t) /\ Waited(u) /\ t.search = u.search => t = u
    BY <1>1 DEF WaitInv
  <1> QED BY <1>3, <1>4 DEF WaitInv, Waited

(* A search that waits for nothing moves on.                               *)
LEMMA WaitMove ==
  ASSUME TypeOK, WaitInv, NEW s \in Search,
         \A t \in stmts' : Waited(t) => t \in stmts /\ t.search # s,
         \E there : Goto(s, there)
  PROVE  WaitInv'
  <1>1. \A t \in stmts' : Waited(t) =>
          t.search \in Search /\ t.search # s /\ stage[t.search] = StageOf[t.kind]
    BY DEF WaitInv, TypeOK, TableTypeOK, Statement
  <1>2. stage \in [Search -> Stage]
    BY DEF TypeOK
  <1>3. \A t \in stmts' : Waited(t) => stage'[t.search] = StageOf[t.kind]
    BY <1>1, <1>2 DEF Goto
  <1>4. \A t, u \in stmts' :
          Waited(t) /\ Waited(u) /\ t.search = u.search => t = u
    BY DEF WaitInv
  <1> QED BY <1>3, <1>4 DEF WaitInv, Waited

(* Statements change that nobody waits for.                                *)
LEMMA WaitKeep ==
  ASSUME WaitInv, \A t \in stmts' : Waited(t) => t \in stmts, UNCHANGED stage
  PROVE  WaitInv'
  BY DEF WaitInv, Waited

(* A statement is answered, and nobody is called back yet.                 *)
LEMMA WaitAnswer ==
  ASSUME WaitInv, NEW t \in stmts, NEW n, t.state # "orphan",
         n.search = t.search, n.kind = t.kind,
         \A u \in stmts' : Waited(u) => u = n \/ u \in stmts \ {t},
         UNCHANGED stage
  PROVE  WaitInv'
  <1>1. Waited(n) => Waited(t)
    BY DEF Waited
  <1>2. \A u \in stmts' : Waited(u) => stage'[u.search] = StageOf[u.kind]
    BY <1>1 DEF WaitInv
  <1>3. \A u, v \in stmts' :
          Waited(u) /\ Waited(v) /\ u.search = v.search => u = v
    BY <1>1 DEF WaitInv
  <1> QED BY <1>2, <1>3 DEF WaitInv, Waited

LEMMA StatementFields ==
  ASSUME TypeOK, NEW t \in stmts
  PROVE  /\ t \in Statement /\ t.search \in Search
         /\ t.kind \in {"insert", "lookup", "start", "progress", "complete", "error"}
         /\ t.object \in Search \cup {None}
  BY DEF TypeOK, TableTypeOK, Statement

LEMMA WaitStep ==
  ASSUME TypeOK, WaitInv, WriteInv, RowInv, [Next]_vars
  PROVE  WaitInv'
  <1>1. ASSUME NEW s \in Search, executeAsyncUrlSearch(s)
        PROVE  WaitInv'
    <2>1. Free(s, stmts)
      BY <1>1, NothingWaited DEF executeAsyncUrlSearch
    <2>2. stmts' = stmts \cup {NewStatement(s, "insert")}
      BY <1>1 DEF executeAsyncUrlSearch, Send
    <2>3. Goto(s, StageOf["insert"])
      BY <1>1, StageOfValues DEF executeAsyncUrlSearch
    <2> QED BY <2>1, <2>2, <2>3, WaitFor, NewStatementType DEF Awaited
  <1>2. ASSUME NEW s \in Search, publishMessage(s)
        PROVE  WaitInv'
    <2>1. Free(s, stmts) /\ UNCHANGED stmts
      BY <1>2, NothingWaited DEF publishMessage
    <2>2. \E there : Goto(s, there)
      BY <1>2 DEF publishMessage
    <2> QED BY <2>1, <2>2, WaitMove DEF Free
  <1>3. ASSUME NEW t \in stmts, Serve(t), UNCHANGED stage
        PROVE  WaitInv'
    <2>1. PICK n \in Statement :
            /\ stmts' = (stmts \ {t}) \cup {n}
            /\ n.search = t.search /\ n.kind = t.kind
      BY <1>3, ServeShape
    <2>2. t.state # "orphan"
      BY <1>3 DEF Serve
    <2> QED BY <1>3, <2>1, <2>2, WaitAnswer
  <1>4. ASSUME NEW t \in stmts, ServeOrphan(t), UNCHANGED stage
        PROVE  WaitInv'
    BY <1>4, WaitKeep DEF ServeOrphan, Replace
  <1>5. ASSUME NEW t \in stmts, Fault(t), UNCHANGED stage
        PROVE  WaitInv'
    <2>1. PICK f \in Statement, o \in Statement :
            /\ f.search = t.search /\ f.kind = t.kind
            /\ o.state = "orphan"
            /\ stmts' \subseteq (stmts \ {t}) \cup {f, o}
      BY <1>5, FaultShape
    <2>2. t.state # "orphan"
      BY <1>5 DEF Fault
    <2>3. \A u \in stmts' : Waited(u) => u = f \/ u \in stmts \ {t}
      BY <2>1 DEF Waited
    <2> QED BY <1>5, <2>1, <2>2, <2>3, WaitAnswer
  <1>6. ASSUME NEW t \in stmts, t.state \in {"ok", "empty", "failed"},
               OnInserted(t) \/ process4NewRequestId(t) \/ OnSaved(t)
        PROVE  WaitInv'
    <2>1. t.search \in Search
      BY StatementFields
    <2>2. stmts' = stmts \ {t} /\ \E there : Goto(t.search, there)
      BY <1>6 DEF OnInserted, process4NewRequestId, OnSaved, Replace
    <2>3. CASE Waited(t)
      BY <2>1, <2>2, <2>3, LastWaited, WaitMove DEF Free
    <2>4. CASE ~Waited(t)
      <3>1. t.kind = "error"
        BY <1>6, <2>4 DEF Waited, Awaited, OnInserted, process4NewRequestId, OnSaved
      <3>2. stage[t.search] = "stopped"
        BY <3>1 DEF WriteInv
      <3>3. Free(t.search, stmts)
        BY <2>1, <3>2, NothingWaited
      <3> QED BY <2>1, <2>2, <3>3, WaitMove DEF Free
    <2> QED BY <2>3, <2>4
  <1>7. ASSUME NEW t \in stmts, process4ExistingRequestId(t)
        PROVE  WaitInv'
    <2>1. t.search \in Search /\ t.object \in Search \cup {None}
      BY StatementFields
    <2>2. Free(t.search, stmts \ {t})
      BY <1>7, LastWaited DEF process4ExistingRequestId, Waited, Awaited
    <2>3. CASE /\ stmts' = (stmts \ {t}) \cup {UrlUpdate(t.search, t.object)}
               /\ Goto(t.search, "saving")
      BY <2>1, <2>2, <2>3, WaitFor, UrlUpdateType, StageOfValues DEF Awaited
    <2>4. CASE stmts' = stmts \ {t} /\ Goto(t.search, "stopped")
      BY <2>1, <2>2, <2>4, WaitMove DEF Free
    <2> QED BY <1>7, <2>3, <2>4 DEF process4ExistingRequestId, Replace
  <1>8. ASSUME NEW t \in stmts, updateQueryExecutionStatus(t)
        PROVE  WaitInv'
    <2>1. t.search \in Search
      BY StatementFields
    <2>2. Free(t.search, stmts \ {t})
      BY <1>8, LastWaited DEF updateQueryExecutionStatus, Waited, Awaited
    <2>3. CASE /\ stmts' = (stmts \ {t}) \cup {NewStatement(t.search, "start")}
               /\ Goto(t.search, "starting")
      BY <2>1, <2>2, <2>3, WaitFor, NewStatementType, StageOfValues DEF Awaited
    <2>4. CASE stmts' = stmts \ {t} /\ Goto(t.search, "stopped")
      BY <2>1, <2>2, <2>4, WaitMove DEF Free
    <2> QED BY <1>8, <2>3, <2>4 DEF updateQueryExecutionStatus, Replace
  <1>9. ASSUME NEW t \in stmts, OnProgressUpdated(t) \/ RunTask(t) \/ WakeUp(t)
        PROVE  WaitInv'
    <2>1. t \in Statement /\ t.kind = "progress"
      BY <1>9, StatementFields DEF OnProgressUpdated, RunTask, WakeUp, WriteInv
    <2>2. UNCHANGED stage
      BY <1>9 DEF OnProgressUpdated, RunTask, WakeUp, jobVars
    <2>3. \E state \in {"sent", "pausing"} :
            stmts' \subseteq (stmts \ {t}) \cup {Answered(t, state)}
      BY <1>9 DEF OnProgressUpdated, RunTask, WakeUp, Replace
    <2>4. \A u \in stmts' : Waited(u) => u \in stmts
      BY <2>1, <2>3, AnsweredType DEF Waited, Awaited
    <2> QED BY <2>2, <2>4, WaitKeep
  <1>10. ASSUME NEW s \in Search, asyncSearch(s)
         PROVE  WaitInv'
    <2>1. stage[s] = "queued"
      BY <1>10 DEF asyncSearch, RowInv
    <2>2. Free(s, stmts)
      BY <2>1, NothingWaited
    <2>3. stmts' = stmts \cup {NewStatement(s, "lookup")}
      BY <1>10 DEF asyncSearch, Send
    <2>4. Goto(s, StageOf["lookup"])
      BY <1>10, StageOfValues DEF asyncSearch
    <2> QED BY <2>2, <2>3, <2>4, WaitFor, NewStatementType DEF Awaited
  <1>11. ASSUME NEW s \in Search, asyncScroll(s)
         PROVE  WaitInv'
    <2>1. Free(s, stmts)
      BY <1>11, NothingWaited DEF asyncScroll
    <2>2. UNCHANGED stmts /\ (UNCHANGED stage \/ \E there : Goto(s, there))
      BY <1>11 DEF asyncScroll, tableVars
    <2> QED BY <2>1, <2>2, WaitMove, WaitKeep DEF Free
  <1>12. ASSUME NEW s \in Search, updateProgress(s)
         PROVE  WaitInv'
    <2>1. Free(s, stmts)
      BY <1>12, NothingWaited DEF updateProgress
    <2>2. PICK n \in Statement :
            /\ stmts' = stmts \cup {n}
            /\ n.search = s /\ n.kind = "progress" /\ n.state \in {"queued", "sent"}
      BY <1>12, ReportShape
    <2>3. \E there : Goto(s, there)
      BY <1>12 DEF updateProgress
    <2>4. \A t \in stmts' : Waited(t) => t \in stmts
      BY <2>2 DEF Waited, Awaited
    <2> QED BY <2>1, <2>3, <2>4, WaitMove DEF Free
  <1>13. ASSUME NEW s \in Search, ScrollEnds(s)
         PROVE  WaitInv'
    <2>1. Free(s, stmts)
      BY <1>13, NothingWaited DEF ScrollEnds
    <2>2. stmts' \subseteq stmts \cup {NewStatement(s, "error")}
      BY <1>13 DEF ScrollEnds, Send
    <2>3. \E there : Goto(s, there)
      BY <1>13 DEF ScrollEnds
    <2>4. \A t \in stmts' : Waited(t) => t \in stmts
      BY <2>2, NewStatementType DEF Waited, Awaited
    <2> QED BY <2>1, <2>3, <2>4, WaitMove DEF Free
  <1>14. ASSUME NEW s \in Search, s3Upload(s)
         PROVE  WaitInv'
    <2>1. Free(s, stmts)
      BY <1>14, NothingWaited DEF s3Upload
    <2>2. ASSUME stmts' = (stmts \ Unfinished(s)) \cup {UrlUpdate(s, s)},
                 Goto(s, "saving")
          PROVE  WaitInv'
      <3>1. Free(s, stmts \ Unfinished(s)) /\ stmts \ Unfinished(s) \subseteq stmts
        BY <2>1 DEF Free
      <3>2. Goto(s, StageOf["complete"])
        BY <2>2, StageOfValues
      <3> QED BY <2>2, <3>1, <3>2, WaitFor, UrlUpdateType DEF Awaited
    <2>3. ASSUME stmts' \subseteq stmts \cup {NewStatement(s, "error")},
                 Goto(s, "stopped")
          PROVE  WaitInv'
      <3>1. \A t \in stmts' : Waited(t) => t \in stmts
        BY <2>3, NewStatementType DEF Waited, Awaited
      <3> QED BY <2>1, <2>3, <3>1, WaitMove DEF Free
    <2> QED BY <1>14, <2>2, <2>3 DEF s3Upload, Send
  <1>15. CASE Crash
    <2>1. \A t \in stmts' : t.state = "orphan"
      BY <1>15, StatementFields, AnsweredType DEF Crash
    <2> QED BY <2>1 DEF WaitInv, Waited
  <1>16. CASE UNCHANGED vars
    BY <1>16, WaitKeep DEF vars, tableVars
  <1>17. CASE Submit \/ Publish
    BY <1>1, <1>2, <1>17 DEF Submit, Publish
  <1>18. CASE Table
    BY <1>3, <1>4, <1>5, <1>18 DEF Table
  <1>19. CASE Callback
    BY <1>6, <1>7, <1>8, <1>9, <1>19 DEF Callback
  <1>20. CASE Listener
    BY <1>9, <1>20 DEF Listener
  <1>21. CASE Job
    BY <1>10, <1>11, <1>12, <1>13, <1>14, <1>21 DEF Job
  <1> QED BY <1>15, <1>16, <1>17, <1>18, <1>19, <1>20, <1>21 DEF Next

-----------------------------------------------------------------------------
(* At most one statement that changes the status of a search is still to   *)
(* be performed.                                                           *)

Idle(s, S) == \A t \in S : Unperformed(t) => t.search # s

(* The statements in S that matter here are in stmts as well.              *)
Known(S) ==
  \A t \in S : /\ Unperformed(t) => t \in stmts
               /\ t.kind = "error" =>
                    \E u \in stmts : u.kind = "error" /\ u.search = t.search
               /\ t.state \in {"queued", "pausing"} => t.kind = "progress"

LEMMA NothingUnperformed ==
  ASSUME TypeOK, WriteInv, NEW s \in Search,
         stage[s] \notin {"stopped", "inserting", "starting", "saving"}
  PROVE  Idle(s, stmts)
  BY StageOfValues, StatementFields DEF WriteInv, Unperformed, Writes, Idle

(* A statement that changes the status is sent when there is none.         *)
LEMMA WriteFor ==
  ASSUME TypeOK, WriteInv, NEW s \in Search, NEW rest, NEW n \in Statement,
         Known(rest), stmts' = rest \cup {n},
         n.search = s, Unperformed(n), n.state = "sent",
         Idle(s, stmts), stage[s] # "stopped", NEW there, Goto(s, there),
         IF n.kind = "error" THEN there = "stopped"
                             ELSE there \in {"stopped", StageOf[n.kind]}
  PROVE  WriteInv'
  <1>1. stage \in [Search -> Stage]
    BY DEF TypeOK
  <1>2. \A t \in stmts : t.search \in Search
    BY StatementFields
  <1>3. \A t \in rest : Unperformed(t) => t \in stmts /\ t.search # s
    BY DEF Known, Idle
  <1>4. \A t \in rest : t.kind = "error" =>
          t.search \in Search \ {s} /\ stage[t.search] = "stopped"
    BY <1>2 DEF Known, WriteInv
  <1>5. \A t, u \in stmts' :
          Unperformed(t) /\ Unperformed(u) /\ t.search = u.search => t = u
    BY <1>3 DEF WriteInv
  <1>6. \A t \in stmts' : Unperformed(t) /\ t.kind # "error" =>
          stage'[t.search] \in {"stopped", StageOf[t.kind]}
    BY <1>1, <1>2, <1>3 DEF WriteInv, Goto
  <1>7. \A t \in stmts' : t.kind = "error" => stage'[t.search] = "stopped"
    BY <1>1, <1>4 DEF Goto
  <1>8. \A t \in stmts' : t.state \in {"queued", "pausing"} => t.kind = "progress"
    BY DEF Known
  <1> QED BY <1>5, <1>6, <1>7, <1>8 DEF WriteInv, Unperformed

(* A search moves on, to the end or when nothing is left to be performed.  *)
LEMMA WriteMove ==
  ASSUME TypeOK, WriteInv, NEW s \in Search, Known(stmts'),
         NEW there, Goto(s, there),
         there = "stopped" \/ (Idle(s, stmts') /\ stage[s] # "stopped")
  PROVE  WriteInv'
  <1>1. stage \in [Search -> Stage]
    BY DEF TypeOK
  <1>2. \A t \in stmts : t.search \in Search
    BY StatementFields
  <1>3. \A t, u \in stmts' :
          Unperformed(t) /\ Unperformed(u) /\ t.search = u.search => t = u
    BY DEF WriteInv, Known
  <1>4. \A t \in stmts' : Unperformed(t) /\ t.kind # "error" =>
          stage'[t.search] \in {"stopped", StageOf[t.kind]}
    BY <1>1, <1>2 DEF WriteInv, Goto, Known, Idle
  <1>5. \A t \in stmts' : t.kind = "error" => stage'[t.search] = "stopped"
    BY <1>1, <1>2 DEF WriteInv, Goto, Known
  <1>6. \A t \in stmts' : t.state \in {"queued", "pausing"} => t.kind = "progress"
    BY DEF Known
  <1> QED BY <1>3, <1>4, <1>5, <1>6 DEF WriteInv, Unperformed

(* Searches stay where they are; o is a statement that was t.              *)
LEMMA WriteKeep ==
  ASSUME TypeOK, WriteInv, UNCHANGED stage,
         NEW rest \in SUBSET stmts', Known(rest), NEW o, NEW t \in stmts,
         stmts' \subseteq rest \cup {o}, ~Unperformed(o) \/ (t \notin rest /\ Unperformed(t)),
         o.search = t.search, o.kind = t.kind, o.state \notin {"queued", "pausing"}
  PROVE  WriteInv'
  <1>1. \A x, u \in stmts' :
          Unperformed(x) /\ Unperformed(u) /\ x.search = u.search => x = u
    BY DEF WriteInv, Known
  <1>2. \A u \in stmts' : Unperformed(u) /\ u.kind # "error" =>
          stage'[u.search] \in {"stopped", StageOf[u.kind]}
    BY DEF WriteInv, Known
  <1>3. \A u \in stmts' : u.kind = "error" => stage'[u.search] = "stopped"
    BY DEF WriteInv, Known
  <1>4. \A u \in stmts' : u.state \in {"queued", "pausing"} => u.kind = "progress"
    BY DEF Known
  <1> QED BY <1>1, <1>2, <1>3, <1>4 DEF WriteInv, Unperformed

(* The row tells what is left to be performed.                             *)
LEMMA Performed ==
  ASSUME TypeOK, WaitInv, WriteInv, RowInv, NEW t \in stmts,
         t.kind \in {"insert", "start"}, t.state = "ok"
  PROVE  Idle(t.search, stmts)
  <1>1. Waited(t) /\ stage[t.search] = StageOf[t.kind]
    BY DEF WaitInv, Waited, Awaited
  <1>2. ASSUME NEW u \in stmts, Unperformed(u), u.search = t.search
        PROVE  FALSE
    <2>1. u.kind = t.kind
      BY <1>1, <1>2, StageOfValues DEF WriteInv, Unperformed, Writes
    <2> QED BY <1>2, <2>1 DEF RowInv, Tells
  <1> QED BY <1>2 DEF Idle

LEMMA WriteStep ==
  ASSUME TypeOK, WaitInv, WriteInv, RowInv, [Next]_vars
  PROVE  WriteInv'
  <1>a. \A S \in SUBSET stmts : Known(S)
    BY DEF Known, WriteInv
  <1>b. \A n : n.kind \notin Writes /\ (n.state \in {"queued", "pausing"} => n.kind = "progress")
                => Known({n})
    BY DEF Known, Unperformed, Writes
  <1>1. ASSUME NEW s \in Search, executeAsyncUrlSearch(s)
        PROVE  WriteInv'
    <2>1. Idle(s, stmts) /\ stage[s] # "stopped"
      BY <1>1, NothingUnperformed DEF executeAsyncUrlSearch
    <2>2. stmts' = stmts \cup {NewStatement(s, "insert")} /\ Known(stmts)
      BY <1>1, <1>a DEF executeAsyncUrlSearch, Send
    <2>3. Goto(s, StageOf["insert"])
      BY <1>1, StageOfValues DEF executeAsyncUrlSearch
    <2> QED BY <2>1, <2>2, <2>3, WriteFor, NewStatementType DEF Unperformed, Writes
  <1>2. ASSUME NEW s \in Search, publishMessage(s)
        PROVE  WriteInv'
    <2>1. Idle(s, stmts) /\ stage[s] # "stopped" /\ UNCHANGED stmts
      BY <1>2, NothingUnperformed DEF publishMessage
    <2>2. \E there : Goto(s, there)
      BY <1>2 DEF publishMessage
    <2> QED BY <1>a, <2>1, <2>2, WriteMove
  <1>3. ASSUME NEW t \in stmts, Serve(t), UNCHANGED stage
        PROVE  WriteInv'
    <2>1. PICK n \in Statement :
            /\ stmts' = (stmts \ {t}) \cup {n}
            /\ n.search = t.search /\ n.kind = t.kind /\ n.state \in {"ok", "empty"}
      BY <1>3, ServeShape
    <2>2. ~Unperformed(n)
      BY <2>1 DEF Unperformed
    <2>3. stmts \ {t} \in SUBSET stmts' /\ Known(stmts \ {t})
      BY <1>a, <2>1
    <2> QED BY <1>3, <2>1, <2>2, <2>3, WriteKeep
  <1>4. ASSUME NEW t \in stmts, ServeOrphan(t), UNCHANGED stage
        PROVE  WriteInv'
    <2>1. stmts' = stmts \ {t}
      BY <1>4 DEF ServeOrphan, Replace
    <2> QED BY <1>4, <2>1 DEF WriteInv, Unperformed
  <1>5. ASSUME NEW t \in stmts, Fault(t), UNCHANGED stage
        PROVE  WriteInv'
    <2>1. PICK f \in Statement, o \in Statement :
            /\ f.search = t.search /\ f.kind = t.kind /\ f.state = "failed"
            /\ o.search = t.search /\ o.kind = t.kind /\ o.state = "orphan"
            /\ \/ stmts' = (stmts \ {t}) \cup {f}
               \/ stmts' = (stmts \ {t}) \cup {f, o}
      BY <1>5, FaultShape
    <2> DEFINE rest == (stmts \ {t}) \cup {f}
    <2>2. Known(stmts \ {t}) /\ ~Unperformed(f)
      BY <1>a, <2>1 DEF Unperformed
    <2>3. Known(rest)
      BY <2>1, <2>2 DEF Known
    <2>4. t.state = "sent"
      BY <1>5 DEF Fault
    <2>5. ~Unperformed(o) \/ (t \notin rest /\ Unperformed(t))
      BY <2>1, <2>4 DEF Unperformed
    <2>6. rest \in SUBSET stmts' /\ stmts' \subseteq rest \cup {o}
      BY <2>1
    <2> HIDE DEF rest
    <2> QED BY <1>5, <2>1, <2>3, <2>5, <2>6, WriteKeep
  <1>6. ASSUME NEW t \in stmts, t.state \in {"ok", "empty", "failed"},
               OnInserted(t) \/ process4NewRequestId(t) \/ OnSaved(t)
        PROVE  WriteInv'
    <2>1. t.search \in Search
      BY StatementFields
    <2>2. stmts' = stmts \ {t} /\ Known(stmts')
      BY <1>6, <1>a DEF OnInserted, process4NewRequestId, OnSaved, Replace
    <2>3. CASE Goto(t.search, "stopped")
      BY <2>1, <2>2, <2>3, WriteMove
    <2>4. CASE ~Goto(t.search, "stopped")
      <3>1. t.kind \in {"insert", "start"} /\ t.state = "ok" /\ \E there : Goto(t.search, there)
        BY <1>6, <2>4 DEF OnInserted, process4NewRequestId, OnSaved
      <3>2. Idle(t.search, stmts')
        BY <2>2, <3>1, Performed DEF Idle
      <3>3. stage[t.search] # "stopped"
        BY <3>1, StageOfValues DEF WaitInv, Waited, Awaited
      <3> QED BY <2>1, <2>2, <3>1, <3>2, <3>3, WriteMove
    <2> QED BY <2>3, <2>4
  <1>7. ASSUME NEW t \in stmts, process4ExistingRequestId(t)
        PROVE  WriteInv'
    <2>1. t.search \in Search /\ t.object \in Search \cup {None}
      BY StatementFields
    <2>2. stage[t.search] = "looking"
      BY <1>7, StageOfValues DEF process4ExistingRequestId, WaitInv, Waited, Awaited
    <2>3. Idle(t.search, stmts) /\ Known(stmts \ {t})
      BY <1>a, <2>1, <2>2, NothingUnperformed
    <2>4. CASE /\ stmts' = (stmts \ {t}) \cup {UrlUpdate(t.search, t.object)}
               /\ Goto(t.search, "saving")
      BY <2>1, <2>2, <2>3, <2>4, WriteFor, UrlUpdateType, StageOfValues
         DEF Unperformed, Writes
    <2>5. CASE stmts' = stmts \ {t} /\ Goto(t.search, "stopped")
      BY <2>1, <2>3, <2>5, WriteMove
    <2> QED BY <1>7, <2>4, <2>5 DEF process4ExistingRequestId, Replace
  <1>8. ASSUME NEW t \in stmts, updateQueryExecutionStatus(t)
        PROVE  WriteInv'
    <2>1. t.search \in Search
      BY StatementFields
    <2>2. stage[t.search] = "looking"
      BY <1>8, StageOfValues DEF updateQueryExecutionStatus, WaitInv, Waited, Awaited
    <2>3. Idle(t.search, stmts) /\ Known(stmts \ {t})
      BY <1>a, <2>1, <2>2, NothingUnperformed
    <2>4. CASE /\ stmts' = (stmts \ {t}) \cup {NewStatement(t.search, "start")}
               /\ Goto(t.search, "starting")
      BY <2>1, <2>2, <2>3, <2>4, WriteFor, NewStatementType, StageOfValues
         DEF Unperformed, Writes
    <2>5. CASE stmts' = stmts \ {t} /\ Goto(t.search, "stopped")
      BY <2>1, <2>3, <2>5, WriteMove
    <2> QED BY <1>8, <2>4, <2>5 DEF updateQueryExecutionStatus, Replace
  <1>9. ASSUME NEW t \in stmts, OnProgressUpdated(t) \/ RunTask(t) \/ WakeUp(t)
        PROVE  WriteInv'
    <2>1. t \in Statement /\ t.kind = "progress"
      BY <1>9, StatementFields DEF OnProgressUpdated, RunTask, WakeUp, WriteInv
    <2>2. UNCHANGED stage
      BY <1>9 DEF OnProgressUpdated, RunTask, WakeUp, jobVars
    <2>3. PICK state \in {"sent", "pausing"} :
            stmts' \subseteq (stmts \ {t}) \cup {Answered(t, state)}
      BY <1>9 DEF OnProgressUpdated, RunTask, WakeUp, Replace
    <2>4. \A u \in stmts' : u \in stmts \/ u.kind = "progress"
      BY <2>1, <2>3, AnsweredType
    <2> QED BY <2>2, <2>4 DEF WriteInv, Unperformed, Writes
  <1>10. ASSUME NEW s \in Search, asyncSearch(s)
         PROVE  WriteInv'
    <2>1. stage[s] = "queued" /\ Goto(s, "looking")
      BY <1>10 DEF asyncSearch, RowInv
    <2>2. Idle(s, stmts)
      BY <2>1, NothingUnperformed
    <2>3. stmts' = stmts \cup {NewStatement(s, "lookup")}
      BY <1>10 DEF asyncSearch, Send
    <2>4. Known(stmts') /\ Idle(s, stmts')
      BY <1>a, <2>2, <2>3, NewStatementType DEF Known, Idle, Unperformed, Writes
    <2> QED BY <2>1, <2>4, WriteMove
  <1>11. ASSUME NEW s \in Search, asyncScroll(s)
         PROVE  WriteInv'
    <2>1. Idle(s, stmts) /\ stage[s] # "stopped" /\ UNCHANGED stmts
      BY <1>11, NothingUnperformed DEF asyncScroll, tableVars
    <2>2. CASE UNCHANGED stage
      BY <2>1, <2>2 DEF WriteInv, Unperformed
    <2>3. CASE Goto(s, "reporting")
      BY <1>a, <2>1, <2>3, WriteMove
    <2> QED BY <1>11, <2>2, <2>3 DEF asyncScroll
  <1>12. ASSUME NEW s \in Search, updateProgress(s)
         PROVE  WriteInv'
    <2>1. Idle(s, stmts) /\ stage[s] # "stopped" /\ Goto(s, "scrolling")
      BY <1>12, NothingUnperformed DEF updateProgress
    <2>2. PICK n \in Statement :
            /\ stmts' = stmts \cup {n}
            /\ n.search = s /\ n.kind = "progress" /\ n.state \in {"queued", "sent"}
      BY <1>12, ReportShape
    <2>3. Known(stmts') /\ Idle(s, stmts')
      BY <1>a, <2>1, <2>2 DEF Known, Idle, Unperformed, Writes
    <2> QED BY <2>1, <2>3, WriteMove
  <1>13. ASSUME NEW s \in Search, ScrollEnds(s)
         PROVE  WriteInv'
    <2>1. Idle(s, stmts) /\ stage[s] # "stopped"
      BY <1>13, NothingUnperformed DEF ScrollEnds
    <2>2. CASE UNCHANGED stmts /\ Goto(s, "uploading")
      BY <1>a, <2>1, <2>2, WriteMove
    <2>3. CASE stmts' = stmts \cup {NewStatement(s, "error")} /\ Goto(s, "stopped")
      BY <1>a, <2>1, <2>3, WriteFor, NewStatementType DEF Unperformed, Writes
    <2> QED BY <1>13, <2>2, <2>3 DEF ScrollEnds, Send
  <1>14. ASSUME NEW s \in Search, s3Upload(s)
         PROVE  WriteInv'
    <2>1. Idle(s, stmts) /\ stage[s] # "stopped"
      BY <1>14, NothingUnperformed DEF s3Upload
    <2> DEFINE rest == stmts \ Unfinished(s)
    <2>5. Known(rest) /\ Known(stmts)
      BY <1>a
    <2> HIDE DEF rest
    <2>2. CASE /\ stmts' = rest \cup {UrlUpdate(s, s)}
               /\ Goto(s, "saving")
      BY <2>1, <2>5, <2>2, WriteFor, UrlUpdateType, StageOfValues DEF Unperformed, Writes
    <2>3. CASE /\ stmts' = rest \cup {NewStatement(s, "error")}
               /\ Goto(s, "stopped")
      BY <2>1, <2>5, <2>3, WriteFor, NewStatementType DEF Unperformed, Writes
    <2>4. CASE stmts' = stmts \cup {NewStatement(s, "error")} /\ Goto(s, "stopped")
      BY <2>1, <2>5, <2>4, WriteFor, NewStatementType DEF Unperformed, Writes
    <2> QED BY <1>14, <2>2, <2>3, <2>4 DEF s3Upload, Send, rest
  <1>15. CASE Crash
    <2>1. ASSUME NEW u \in stmts'
          PROVE  /\ u.state = "orphan"
                 /\ \E w \in stmts :
                      /\ w.state \in {"sent", "orphan"}
                      /\ u = IF w.state = "orphan" THEN w ELSE Answered(w, "orphan")
                      /\ u.kind = w.kind /\ u.search = w.search
      BY <1>15, <2>1, StatementFields, AnsweredType DEF Crash
    <2>2. \A s \in Search :
            /\ stage[s] = "stopped" => stage'[s] = "stopped"
            /\ stage[s] \in {"inserting", "looking", "starting", "saving"} =>
                 stage'[s] = "stopped"
      BY <1>15 DEF Crash, Working
    <2>3. \A u, v \in stmts' :
            Unperformed(u) /\ Unperformed(v) /\ u.search = v.search => u = v
      BY <2>1 DEF WriteInv, Unperformed
    <2>4. \A u \in stmts' : Unperformed(u) => stage'[u.search] = "stopped"
      BY <2>1, <2>2, StatementFields, StageOfValues DEF WriteInv, Unperformed, Writes
    <2>5. \A u \in stmts' : u.kind = "error" => stage'[u.search] = "stopped"
      BY <2>1, <2>2, StatementFields DEF WriteInv
    <2> QED BY <2>1, <2>3, <2>4, <2>5 DEF WriteInv, Unperformed
  <1>16. CASE UNCHANGED vars
    BY <1>16 DEF vars, tableVars, WriteInv, Unperformed
  <1>17. CASE Submit \/ Publish
    BY <1>1, <1>2, <1>17 DEF Submit, Publish
  <1>18. CASE Table
    BY <1>3, <1>4, <1>5, <1>18 DEF Table
  <1>19. CASE Callback
    BY <1>6, <1>7, <1>8, <1>9, <1>19 DEF Callback
  <1>20. CASE Listener
    BY <1>9, <1>20 DEF Listener
  <1>21. CASE Job
    BY <1>10, <1>11, <1>12, <1>13, <1>14, <1>21 DEF Job
  <1> QED BY <1>15, <1>16, <1>17, <1>18, <1>19, <1>20, <1>21 DEF Next

-----------------------------------------------------------------------------
(* The rows, the stages and the statements agree.                          *)

(* What performing a statement does to the rows.                           *)
LEMMA PerformEffect ==
  ASSUME TypeOK, RowInv, NEW t \in stmts, t.state \in {"sent", "orphan"}, Perform(t)
  PROVE  /\ \A s \in Search : s # t.search => row'[s] = row[s]
         /\ t.kind \notin Writes =>
              /\ row'[t.search].status = row[t.search].status
              /\ row'[t.search].object = row[t.search].object
         /\ t.kind = "insert" => /\ row[t.search].status = "none"
                                 /\ row'[t.search].status = "SUBMITTED"
         /\ t.kind = "start" => /\ row[t.search].status = "SUBMITTED"
                                /\ row'[t.search].status = "IN_PROGRESS"
         /\ t.kind = "error" => /\ row[t.search].status = "IN_PROGRESS"
                                /\ row'[t.search].status = "ERROR"
         /\ t.kind = "complete" => \/ row'[t.search] = row[t.search]
                                   \/ /\ row'[t.search].status = "COMPLETE"
                                      /\ row'[t.search].object = t.object
  <1>1. t.search \in Search /\ row \in [Search -> Row] /\ row[t.search] \in Row
    BY StatementFields DEF TypeOK, TableTypeOK
  <1>2. t.kind \in {"insert", "lookup", "start", "progress", "complete", "error"}
    BY StatementFields
  <1>3. Tells(t) /\ (Unperformed(t) <=> t.kind \in Writes)
    BY DEF RowInv, Unperformed
  <1>4. \A s \in Search : s # t.search => row'[s] = row[s]
    BY <1>1 DEF Perform
  <1>5. row'[t.search] = IF Matches(t) THEN Updated(t) ELSE row[t.search]
    BY <1>1 DEF Perform
  <1>6. CASE t.kind = "lookup"
    BY <1>4, <1>5, <1>6 DEF Matches, Writes
  <1>7. CASE t.kind = "progress"
    <2>1. Updated(t).status = row[t.search].status
          /\ Updated(t).object = row[t.search].object
      BY <1>1, <1>7 DEF Updated, Row
    <2> QED BY <1>4, <1>5, <1>7, <2>1 DEF Writes
  <1>8. CASE t.kind = "insert"
    BY <1>3, <1>4, <1>5, <1>8 DEF Tells, Matches, Updated, Writes
  <1>9. CASE t.kind = "start"
    <2>1. Updated(t).status = "IN_PROGRESS"
      BY <1>1, <1>9 DEF Updated, Row
    <2>2. Matches(t) /\ row[t.search].status = "SUBMITTED"
      BY <1>3, <1>9 DEF Tells, Matches, Writes
    <2> QED BY <1>4, <1>5, <1>9, <2>1, <2>2 DEF Writes
  <1>10. CASE t.kind = "error"
    <2>1. Updated(t).status = "ERROR"
      BY <1>1, <1>10 DEF Updated, Row
    <2>2. Matches(t) /\ row[t.search].status = "IN_PROGRESS"
      BY <1>3, <1>10 DEF Tells, Matches, Writes
    <2> QED BY <1>4, <1>5, <1>10, <2>1, <2>2 DEF Writes
  <1>11. CASE t.kind = "complete"
    BY <1>4, <1>5, <1>11 DEF Updated, Writes
  <1> QED BY <1>2, <1>6, <1>7, <1>8, <1>9, <1>10, <1>11

(* The searches stay where they are while a statement is performed.        *)
LEMMA RowPerform ==
  ASSUME TypeOK, WaitInv, WriteInv, RowInv, UNCHANGED <<stage, messages>>,
         NEW t \in stmts, t.state \in {"sent", "orphan"}, Perform(t),
         \A n \in stmts' :
           n \in stmts \ {t} \/ /\ n.search = t.search /\ n.kind = t.kind
                                /\ n.state \in {"ok", "empty"}
  PROVE  RowInv'
  <1>1. t.search \in Search
    BY StatementFields
  <1>2. t.kind \in Writes => Unperformed(t)
    BY DEF Unperformed
  <1>3. \A s \in Search : Fits(s, stage[s])'
    <2>1. ASSUME t.kind \in Writes
          PROVE  stage[t.search] \in {"stopped"} \cup
                   (IF t.kind = "error" THEN {} ELSE {StageOf[t.kind]})
      BY <1>2, <2>1 DEF WriteInv
    <2> QED BY <1>1, <2>1, PerformEffect, StageOfValues DEF RowInv, Fits, Writes
  <1>4. ASSUME NEW u \in stmts \ {t}
        PROVE  Tells(u)'
    <2>1. u.search \in Search /\ Tells(u)
      BY StatementFields DEF RowInv
    <2>2. CASE u.search # t.search \/ t.kind \notin Writes
      BY <2>1, <2>2, PerformEffect DEF Tells, Unperformed
    <2>3. CASE u.search = t.search /\ t.kind \in Writes
      <3>1. ~Unperformed(u)
        BY <1>2, <2>3 DEF WriteInv
      <3>2. ~(u.kind \in {"insert", "start"} /\ u.state = "ok")
        BY <1>2, <2>3, Performed DEF Idle
      <3> QED BY <3>1, <3>2 DEF Tells, Unperformed, Writes
    <2> QED BY <2>2, <2>3
  <1>5. ASSUME NEW n \in stmts', n.search = t.search, n.kind = t.kind,
               n.state \in {"ok", "empty"}
        PROVE  Tells(n)'
    BY <1>5, PerformEffect DEF Tells, Unperformed
  <1> QED BY <1>3, <1>4, <1>5 DEF RowInv

(* A search moves on, and no row changes.                                  *)
LEMMA RowMove ==
  ASSUME TypeOK, RowInv, UNCHANGED row, NEW s \in Search, NEW there,
         Goto(s, there), Fits(s, there),
         \A x \in messages' : IF x = s THEN there = "queued" ELSE x \in messages,
         \A n \in stmts' : n \in stmts \/ Tells(n)
  PROVE  RowInv'
  <1>1. stage' \in [Search -> {stage[x] : x \in Search} \cup {there}]
        /\ \A x \in Search : stage'[x] = IF x = s THEN there ELSE stage[x]
    BY DEF TypeOK, Goto
  <1>2. \A x \in Search : Fits(x, stage[x])'
    BY <1>1 DEF RowInv, Fits
  <1>3. \A x \in messages' : stage'[x] = "queued"
    BY <1>1 DEF RowInv, TypeOK
  <1>4. \A n \in stmts' : Tells(n)'
    BY DEF RowInv, Tells, Unperformed
  <1> QED BY <1>2, <1>3, <1>4 DEF RowInv

(* Nothing but statements changes.                                         *)
LEMMA RowKeep ==
  ASSUME TypeOK, RowInv, UNCHANGED <<row, stage, messages>>,
         \A n \in stmts' : n \in stmts \/ Tells(n)
  PROVE  RowInv'
  <1>1. \A n \in stmts' : Tells(n)'
    BY DEF RowInv, Tells, Unperformed
  <1> QED BY <1>1 DEF RowInv, Fits

LEMMA RowStep ==
  ASSUME TypeOK, WaitInv, WriteInv, RowInv, [Next]_vars
  PROVE  RowInv'
  <1>a. \A n : n.kind \notin {"insert", "start", "error"} => Tells(n)
    BY DEF Tells
  <1>b. \A s \in messages : stage[s] = "queued"
    BY DEF RowInv
  <1>1. ASSUME NEW s \in Search, executeAsyncUrlSearch(s)
        PROVE  RowInv'
    <2>1. row[s].status = "none" /\ Goto(s, "inserting") /\ UNCHANGED <<row, messages>>
      BY <1>1 DEF executeAsyncUrlSearch, RowInv, Fits
    <2>2. stmts' = stmts \cup {NewStatement(s, "insert")}
      BY <1>1 DEF executeAsyncUrlSearch, Send
    <2>3. Tells(NewStatement(s, "insert"))
      BY <2>1, NewStatementType DEF Tells
    <2>4. s \notin messages
      BY <1>1, <1>b DEF executeAsyncUrlSearch
    <2> QED BY <2>1, <2>2, <2>3, <2>4, RowMove DEF Fits
  <1>2. ASSUME NEW s \in Search, publishMessage(s)
        PROVE  RowInv'
    <2>1. row[s].status = "SUBMITTED" /\ s \notin messages /\ UNCHANGED <<row, stmts>>
      BY <1>2, <1>b DEF publishMessage, RowInv, Fits
    <2>2. \/ Goto(s, "queued") /\ messages' = messages \cup {s}
          \/ Goto(s, "stopped") /\ UNCHANGED messages
      BY <1>2 DEF publishMessage
    <2> QED BY <2>1, <2>2, RowMove DEF Fits
  <1>3. ASSUME NEW t \in stmts, Serve(t), UNCHANGED <<stage, messages>>
        PROVE  RowInv'
    <2>1. PICK n \in Statement :
            /\ stmts' = (stmts \ {t}) \cup {n}
            /\ n.search = t.search /\ n.kind = t.kind /\ n.state \in {"ok", "empty"}
      BY <1>3, ServeShape
    <2>2. t.state = "sent" /\ Perform(t)
      BY <1>3 DEF Serve
    <2> QED BY <1>3, <2>1, <2>2, RowPerform
  <1>4. ASSUME NEW t \in stmts, ServeOrphan(t), UNCHANGED <<stage, messages>>
        PROVE  RowInv'
    BY <1>4, RowPerform DEF ServeOrphan, Replace
  <1>5. ASSUME NEW t \in stmts, Fault(t), UNCHANGED <<stage, messages>>
        PROVE  RowInv'
    <2>1. PICK f \in Statement, o \in Statement :
            /\ f.search = t.search /\ f.kind = t.kind /\ f.state = "failed"
            /\ o.search = t.search /\ o.kind = t.kind /\ o.state = "orphan"
            /\ stmts' \subseteq (stmts \ {t}) \cup {f, o}
      BY <1>5, FaultShape
    <2>2. t.state = "sent" /\ UNCHANGED row
      BY <1>5 DEF Fault
    <2>3. Tells(f) /\ Tells(o)
      BY <2>1, <2>2 DEF RowInv, Tells, Unperformed
    <2> QED BY <1>5, <2>1, <2>2, <2>3, RowKeep
  <1>6. ASSUME NEW t \in stmts, t.state \in {"ok", "empty", "failed"},
               OnInserted(t) \/ process4NewRequestId(t) \/ OnSaved(t)
        PROVE  RowInv'
    <2>1. t.search \in Search
      BY StatementFields
    <2>2. stmts' = stmts \ {t} /\ UNCHANGED <<row, messages>>
      BY <1>6 DEF OnInserted, process4NewRequestId, OnSaved, Replace
    <2>3. stage[t.search] # "queued"
      BY <1>6, StageOfValues
         DEF OnInserted, process4NewRequestId, OnSaved, WaitInv, WriteInv, Waited, Awaited
    <2>4. \E there : Goto(t.search, there) /\ Fits(t.search, there)
      BY <1>6 DEF OnInserted, process4NewRequestId, OnSaved, Fits, RowInv, Tells
    <2> QED BY <1>b, <2>1, <2>2, <2>3, <2>4, RowMove
  <1>7. ASSUME NEW t \in stmts,
               process4ExistingRequestId(t) \/ updateQueryExecutionStatus(t)
        PROVE  RowInv'
    <2>1. t.search \in Search /\ t.object \in Search \cup {None}
      BY StatementFields
    <2>2. stage[t.search] = "looking"
      BY <1>7, StageOfValues
         DEF process4ExistingRequestId, updateQueryExecutionStatus, WaitInv, Waited, Awaited
    <2>3. row[t.search].status = "SUBMITTED" /\ t.search \notin messages
      BY <1>b, <2>1, <2>2 DEF RowInv, Fits
    <2>4. /\ UNCHANGED <<row, messages>>
          /\ \E there \in {"saving", "starting", "stopped"} : Goto(t.search, there)
          /\ stmts' \subseteq stmts \cup {UrlUpdate(t.search, t.object),
                                          NewStatement(t.search, "start")}
      BY <1>7 DEF process4ExistingRequestId, updateQueryExecutionStatus, Replace
    <2>5. Tells(UrlUpdate(t.search, t.object)) /\ Tells(NewStatement(t.search, "start"))
      BY <2>1, <2>3, UrlUpdateType, NewStatementType DEF Tells
    <2>6. \A there \in {"saving", "starting", "stopped"} : Fits(t.search, there)
      BY <2>3 DEF Fits
    <2> QED BY <2>1, <2>3, <2>4, <2>5, <2>6, RowMove
  <1>8. ASSUME NEW t \in stmts, OnProgressUpdated(t) \/ RunTask(t) \/ WakeUp(t)
        PROVE  RowInv'
    <2>1. t \in Statement /\ t.kind = "progress"
      BY <1>8, StatementFields DEF OnProgressUpdated, RunTask, WakeUp, WriteInv
    <2>2. UNCHANGED <<row, stage, messages>>
      BY <1>8 DEF OnProgressUpdated, RunTask, WakeUp, jobVars
    <2>3. PICK state \in {"sent", "pausing"} :
            stmts' \subseteq (stmts \ {t}) \cup {Answered(t, state)}
      BY <1>8 DEF OnProgressUpdated, RunTask, WakeUp, Replace
    <2>4. Tells(Answered(t, state))
      BY <1>a, <2>1, AnsweredType
    <2> QED BY <2>2, <2>3, <2>4, RowKeep
  <1>9. ASSUME NEW s \in Search, asyncSearch(s)
        PROVE  RowInv'
    <2>1. row[s].status = "SUBMITTED" /\ Goto(s, "looking")
          /\ messages' = messages \ {s} /\ UNCHANGED row
      BY <1>9, <1>b DEF asyncSearch, RowInv, Fits
    <2>2. stmts' = stmts \cup {NewStatement(s, "lookup")}
      BY <1>9 DEF asyncSearch, Send
    <2>3. Tells(NewStatement(s, "lookup"))
      BY <1>a, NewStatementType
    <2> QED BY <2>1, <2>2, <2>3, RowMove DEF Fits
  <1>10. ASSUME NEW s \in Search, asyncScroll(s)
         PROVE  RowInv'
    <2>1. row[s].status = "IN_PROGRESS" /\ s \notin messages
          /\ UNCHANGED <<row, messages, stmts>>
      BY <1>10, <1>b DEF asyncScroll, tableVars, RowInv, Fits
    <2>2. UNCHANGED stage \/ Goto(s, "reporting")
      BY <1>10 DEF asyncScroll
    <2> QED BY <2>1, <2>2, RowMove, RowKeep DEF Fits
  <1>11. ASSUME NEW s \in Search, updateProgress(s)
         PROVE  RowInv'
    <2>1. row[s].status = "IN_PROGRESS" /\ s \notin messages
          /\ Goto(s, "scrolling") /\ UNCHANGED <<row, messages>>
      BY <1>11, <1>b DEF updateProgress, RowInv, Fits
    <2>2. PICK n \in Statement : stmts' = stmts \cup {n} /\ n.kind = "progress"
      BY <1>11, ReportShape
    <2> QED BY <1>a, <2>1, <2>2, RowMove DEF Fits
  <1>12. ASSUME NEW s \in Search, ScrollEnds(s) \/ s3Upload(s)
         PROVE  RowInv'
    <2>1. row[s].status = "IN_PROGRESS" /\ s \notin messages /\ UNCHANGED <<row, messages>>
      BY <1>12, <1>b DEF ScrollEnds, s3Upload, RowInv, Fits
    <2>2. /\ \E there \in {"uploading", "saving", "stopped"} : Goto(s, there)
          /\ stmts' \subseteq stmts \cup {UrlUpdate(s, s), NewStatement(s, "error")}
      BY <1>12 DEF ScrollEnds, s3Upload, Send
    <2>3. Tells(UrlUpdate(s, s)) /\ Tells(NewStatement(s, "error"))
      BY <2>1, UrlUpdateType, NewStatementType DEF Tells
    <2>4. \A there \in {"uploading", "saving", "stopped"} : Fits(s, there)
      BY <2>1 DEF Fits
    <2> QED BY <2>1, <2>2, <2>3, <2>4, RowMove
  <1>13. CASE Crash
    <2>1. ASSUME NEW u \in stmts'
          PROVE  Tells(u)'
      <3>1. PICK w \in stmts :
              /\ w.state \in {"sent", "orphan"}
              /\ u.kind = w.kind /\ u.search = w.search /\ u.state = "orphan"
        BY <1>13, <2>1, StatementFields, AnsweredType DEF Crash
      <3> QED BY <1>13, <3>1 DEF Crash, RowInv, Tells, Unperformed
    <2>2. \A s \in Search : stage'[s] = stage[s] \/ stage'[s] = "stopped"
      BY <1>13 DEF Crash
    <2>3. \A s \in Search : stage[s] = "queued" => stage'[s] = "queued"
      BY <1>13 DEF Crash, Working
    <2>4. UNCHANGED <<row, messages>>
      BY <1>13 DEF Crash
    <2> QED BY <2>1, <2>2, <2>3, <2>4 DEF RowInv, Fits, TypeOK
  <1>14. CASE UNCHANGED vars
    BY <1>14, RowKeep DEF vars, tableVars
  <1>15. CASE Submit \/ Publish
    BY <1>1, <1>2, <1>15 DEF Submit, Publish
  <1>16. CASE Table
    BY <1>3, <1>4, <1>5, <1>16 DEF Table
  <1>17. CASE Callback
    BY <1>6, <1>7, <1>8, <1>17 DEF Callback
  <1>18. CASE Listener
    BY <1>8, <1>18 DEF Listener
  <1>19. CASE Job
    BY <1>9, <1>10, <1>11, <1>12, <1>19 DEF Job
  <1> QED BY <1>13, <1>14, <1>15, <1>16, <1>17, <1>18, <1>19 DEF Next

-----------------------------------------------------------------------------
(* Objects come from jobs with the same query.                             *)

(* An outcome is final: what a complete search shows never changes.        *)
LEMMA CompleteStays ==
  ASSUME TypeOK, RowInv, ObjectInv,
         NEW t \in stmts, t.state \in {"sent", "orphan"}, Perform(t),
         NEW s \in Search, row[s].status = "COMPLETE"
  PROVE  row'[s].status = "COMPLETE" /\ row'[s].object = row[s].object
  <1>1. t.kind = "complete" => row[t.search].status # "COMPLETE"
    BY DEF ObjectInv, Sourced, Unperformed, Writes
  <1>2. t.kind \in {"insert", "lookup", "start", "progress", "complete", "error"}
    BY StatementFields
  <1> QED BY <1>1, <1>2, PerformEffect DEF Writes

(* A statement is performed; n stands for the statement that waits now.    *)
LEMMA ObjectPerform ==
  ASSUME TypeOK, WriteInv, RowInv, ObjectInv, UNCHANGED uploaded,
         NEW t \in stmts, t.state \in {"sent", "orphan"}, Perform(t),
         \A n \in stmts' :
           n \in stmts \ {t}
             \/ /\ n.search = t.search /\ n.kind = t.kind /\ n.state \in {"ok", "empty"}
                /\ n.kind = "lookup" /\ n.state = "ok" =>
                     \E x \in Record4RequestId(t) : n.object = row[x].object
  PROVE  ObjectInv'
  <1>1. t.search \in Search
    BY StatementFields
  <1>2. t.kind \in Writes => Unperformed(t)
    BY DEF Unperformed
  <1>3. ASSUME NEW s \in Search, row'[s].status = "COMPLETE"
        PROVE  Holds(row'[s].object, s)
    <2>1. CASE row[s].status = "COMPLETE"
      BY <2>1, CompleteStays DEF ObjectInv
    <2>2. CASE row[s].status # "COMPLETE"
      <3>1. t.search = s /\ t.kind = "complete" /\ row'[s].object = t.object
        BY <1>1, <1>3, <2>2, PerformEffect, StatementFields DEF Writes
      <3>2. Holds(t.object, s)
        BY <1>2, <3>1 DEF ObjectInv, Sourced, Writes
      <3> QED BY <3>1, <3>2
    <2> QED BY <2>1, <2>2
  <1>4. ASSUME NEW s \in Search, Reusable(s)
        PROVE  Reusable(s)'
    BY <1>4, CompleteStays DEF Reusable
  <1>5. ASSUME NEW u \in stmts \ {t}
        PROVE  Sourced(u)'
    <2>1. u.search \in Search /\ Sourced(u)
      BY StatementFields DEF ObjectInv
    <2>2. CASE u.kind = "complete" /\ Unperformed(u)
      <3>1. ~(u.search = t.search /\ t.kind \in Writes)
        BY <1>2, <2>2 DEF WriteInv
      <3>2. row'[u.search].status = row[u.search].status
        BY <2>1, <3>1, PerformEffect
      <3> QED BY <1>4, <2>1, <2>2, <3>2 DEF Sourced, Holds, Unperformed
    <2>3. CASE ~(u.kind = "complete" /\ Unperformed(u))
      BY <1>4, <2>1, <2>3 DEF Sourced, Holds, Unperformed
    <2> QED BY <2>2, <2>3
  <1>6. ASSUME NEW n \in stmts', n.search = t.search, n.kind = t.kind,
               n.state \in {"ok", "empty"},
               n.kind = "lookup" /\ n.state = "ok" =>
                 \E x \in Record4RequestId(t) : n.object = row[x].object
        PROVE  Sourced(n)'
    <2>1. ASSUME n.kind = "lookup", n.state = "ok"
          PROVE  Holds(n.object, t.search) /\ Reusable(t.search)
      <3>1. PICK x \in Search : /\ row[x].status = "COMPLETE" /\ query[x] = query[t.search]
                                /\ n.object = row[x].object
        BY <1>6, <2>1 DEF Record4RequestId
      <3>2. Holds(n.object, x)
        BY <3>1 DEF ObjectInv
      <3> QED BY <3>1, <3>2 DEF Holds, Reusable
    <2> QED BY <1>1, <1>4, <1>6, <2>1 DEF Sourced, Holds, Unperformed
  <1> QED BY <1>3, <1>5, <1>6 DEF ObjectInv, Holds

(* No row changes, and every new statement has a source.                   *)
LEMMA ObjectKeep ==
  ASSUME ObjectInv, UNCHANGED row, uploaded \subseteq uploaded',
         \A n \in stmts' : n \in stmts \/ Sourced(n) \/ Sourced(n)'
  PROVE  ObjectInv'
  <1>1. \A object, s : Holds(object, s) => Holds(object, s)'
    BY DEF Holds
  <1>2. \A s : Reusable(s) => Reusable(s)'
    BY DEF Reusable
  <1>3. \A n : Sourced(n) => Sourced(n)'
    BY <1>1, <1>2 DEF Sourced, Unperformed
  <1> QED BY <1>1, <1>3 DEF ObjectInv

LEMMA ObjectStep ==
  ASSUME TypeOK, WaitInv, WriteInv, RowInv, ObjectInv, [Next]_vars
  PROVE  ObjectInv'
  <1>a. \A n : n.kind \notin {"lookup", "complete"} => Sourced(n)
    BY DEF Sourced
  <1>1. ASSUME NEW s \in Search,
               executeAsyncUrlSearch(s) \/ publishMessage(s) \/ asyncSearch(s)
        PROVE  ObjectInv'
    <2>1. stmts' \subseteq stmts \cup {NewStatement(s, "insert"), NewStatement(s, "lookup")}
          /\ UNCHANGED <<row, uploaded>>
      BY <1>1 DEF executeAsyncUrlSearch, publishMessage, asyncSearch, Send, jobVars
    <2>2. Sourced(NewStatement(s, "insert")) /\ Sourced(NewStatement(s, "lookup"))
      BY NewStatementType DEF Sourced
    <2> QED BY <2>1, <2>2, ObjectKeep
  <1>2. ASSUME NEW t \in stmts, Serve(t), UNCHANGED uploaded
        PROVE  ObjectInv'
    <2>1. PICK n \in Statement :
            /\ stmts' = (stmts \ {t}) \cup {n}
            /\ n.search = t.search /\ n.kind = t.kind
            /\ n.state \in {"ok", "empty"}
            /\ n.kind = "lookup" /\ n.state = "ok" =>
                 \E x \in Record4RequestId(t) : n.object = row[x].object
      BY <1>2, ServeShape
    <2>2. t.state = "sent" /\ Perform(t)
      BY <1>2 DEF Serve
    <2> QED BY <1>2, <2>1, <2>2, ObjectPerform
  <1>3. ASSUME NEW t \in stmts, ServeOrphan(t), UNCHANGED uploaded
        PROVE  ObjectInv'
    BY <1>3, ObjectPerform DEF ServeOrphan, Replace
  <1>4. ASSUME NEW t \in stmts, Fault(t), UNCHANGED uploaded
        PROVE  ObjectInv'
    <2>1. PICK f \in Statement, o \in Statement :
            /\ f.search = t.search /\ f.kind = t.kind /\ f.state = "failed"
            /\ o.search = t.search /\ o.kind = t.kind /\ o.state = "orphan"
            /\ o.object = t.object
            /\ stmts' \subseteq (stmts \ {t}) \cup {f, o}
      BY <1>4, FaultShape
    <2>2. t.state = "sent" /\ UNCHANGED row
      BY <1>4 DEF Fault
    <2>3. Sourced(f) /\ Sourced(o)
      BY <2>1, <2>2 DEF ObjectInv, Sourced, Unperformed
    <2> QED BY <1>4, <2>1, <2>2, <2>3, ObjectKeep
  <1>5. ASSUME NEW t \in stmts,
               \/ OnInserted(t) \/ process4NewRequestId(t) \/ OnSaved(t) \/ WakeUp(t)
               \/ updateQueryExecutionStatus(t)
        PROVE  ObjectInv'
    <2>1. stmts' \subseteq stmts \cup {NewStatement(t.search, "start")}
      BY <1>5 DEF OnInserted, process4NewRequestId, OnSaved, WakeUp,
                  updateQueryExecutionStatus, Replace
    <2>2. UNCHANGED <<row, uploaded>>
      BY <1>5 DEF OnInserted, process4NewRequestId, OnSaved, WakeUp,
                  updateQueryExecutionStatus, jobVars
    <2>3. Sourced(NewStatement(t.search, "start"))
      BY <1>a, StatementFields, NewStatementType
    <2> QED BY <2>1, <2>2, <2>3, ObjectKeep
  <1>6. ASSUME NEW t \in stmts, process4ExistingRequestId(t)
        PROVE  ObjectInv'
    <2>1. t.search \in Search /\ t.object \in Search \cup {None}
      BY StatementFields
    <2>2. stage[t.search] = "looking" /\ Holds(t.object, t.search) /\ Reusable(t.search)
      BY <1>6, StageOfValues
         DEF process4ExistingRequestId, WaitInv, Waited, Awaited, ObjectInv, Sourced
    <2>3. row[t.search].status = "SUBMITTED"
      BY <2>1, <2>2 DEF RowInv, Fits
    <2>4. Sourced(UrlUpdate(t.search, t.object))
      BY <2>1, <2>2, <2>3, UrlUpdateType DEF Sourced
    <2>5. /\ stmts' \subseteq stmts \cup {UrlUpdate(t.search, t.object)}
          /\ UNCHANGED <<row, uploaded>>
      BY <1>6 DEF process4ExistingRequestId, Replace, jobVars
    <2> QED BY <2>4, <2>5, ObjectKeep
  <1>7. ASSUME NEW t \in stmts, OnProgressUpdated(t) \/ RunTask(t)
        PROVE  ObjectInv'
    <2>1. t \in Statement /\ t.kind = "progress"
      BY <1>7, StatementFields DEF OnProgressUpdated, RunTask, WriteInv
    <2>2. UNCHANGED <<row, uploaded>>
      BY <1>7 DEF OnProgressUpdated, RunTask, jobVars
    <2>3. PICK state \in {"sent", "pausing"} :
            stmts' \subseteq (stmts \ {t}) \cup {Answered(t, state)}
      BY <1>7 DEF OnProgressUpdated, RunTask, Replace
    <2>4. Sourced(Answered(t, state))
      BY <1>a, <2>1, AnsweredType
    <2> QED BY <2>2, <2>3, <2>4, ObjectKeep
  <1>8. ASSUME NEW s \in Search, asyncScroll(s)
        PROVE  ObjectInv'
    BY <1>8, ObjectKeep DEF asyncScroll, tableVars
  <1>9. ASSUME NEW s \in Search, updateProgress(s)
        PROVE  ObjectInv'
    <2>1. PICK n \in Statement : stmts' = stmts \cup {n} /\ n.kind = "progress"
      BY <1>9, ReportShape
    <2>2. UNCHANGED <<row, uploaded>>
      BY <1>9 DEF updateProgress
    <2> QED BY <1>a, <2>1, <2>2, ObjectKeep
  <1>10. ASSUME NEW s \in Search, ScrollEnds(s)
         PROVE  ObjectInv'
    <2>1. Sourced(NewStatement(s, "error"))
      BY <1>a, NewStatementType
    <2>2. /\ stmts' \subseteq stmts \cup {NewStatement(s, "error")}
          /\ UNCHANGED <<row, uploaded>>
      BY <1>10 DEF ScrollEnds, Send, jobVars
    <2> QED BY <2>1, <2>2, ObjectKeep
  <1>11. ASSUME NEW s \in Search, s3Upload(s)
         PROVE  ObjectInv'
    <2>1. row[s].status = "IN_PROGRESS" /\ UNCHANGED row /\ uploaded \subseteq uploaded'
      BY <1>11 DEF s3Upload, RowInv, Fits
    <2>2. Sourced(NewStatement(s, "error"))
      BY <1>a, NewStatementType
    <2>3. \/ stmts' \subseteq stmts \cup {NewStatement(s, "error")}
          \/ stmts' \subseteq stmts \cup {UrlUpdate(s, s)} /\ s \in uploaded'
      BY <1>11 DEF s3Upload, Send
    <2>4. s \in uploaded' => Sourced(UrlUpdate(s, s))'
      BY <2>1, UrlUpdateType DEF Sourced, Holds
    <2> QED BY <2>1, <2>2, <2>3, <2>4, ObjectKeep
  <1>12. CASE Crash
    <2>1. ASSUME NEW u \in stmts'
          PROVE  Sourced(u)
      <3>1. PICK w \in stmts :
              /\ w.state \in {"sent", "orphan"} /\ u.state = "orphan"
              /\ u.kind = w.kind /\ u.search = w.search /\ u.object = w.object
        BY <1>12, <2>1, StatementFields, AnsweredType DEF Crash
      <3> QED BY <3>1 DEF ObjectInv, Sourced, Unperformed
    <2> QED BY <1>12, <2>1, ObjectKeep DEF Crash
  <1>13. CASE UNCHANGED vars
    BY <1>13, ObjectKeep DEF vars, tableVars, jobVars
  <1>14. CASE Submit \/ Publish
    BY <1>1, <1>14 DEF Submit, Publish
  <1>15. CASE Table
    BY <1>2, <1>3, <1>4, <1>15 DEF Table, jobVars
  <1>16. CASE Callback
    BY <1>5, <1>6, <1>7, <1>16 DEF Callback
  <1>17. CASE Listener
    BY <1>5, <1>7, <1>17 DEF Listener
  <1>18. CASE Job
    BY <1>1, <1>8, <1>9, <1>10, <1>11, <1>18 DEF Job
  <1> QED BY <1>12, <1>13, <1>14, <1>15, <1>16, <1>17, <1>18 DEF Next

-----------------------------------------------------------------------------
(* The theorems.                                                           *)

LEMMA SearchInitially ==
  ASSUME Init
  PROVE  SearchInv
  <1>1. TypeOK
    BY InitialType
  <1>2. stmts = {} /\ messages = {} /\ \A s \in Search : row[s].status = "none"
        /\ stage[s] = "none"
    BY DEF Init, TableInit
  <1> QED BY <1>1, <1>2 DEF SearchInv, WaitInv, WriteInv, RowInv, ObjectInv, Fits

LEMMA SearchInvariant == Spec => []SearchInv
  <1>1. SearchInv /\ [Next]_vars => SearchInv'
    BY TypeStep, WaitStep, WriteStep, RowStep, ObjectStep DEF SearchInv
  <1> QED BY <1>1, SearchInitially, PTL DEF Spec

(* A complete search shows a file that is in S3 and that a job with the    *)
(* same query made.                                                        *)
THEOREM ResultsShown == Spec => []CompleteHasResults
  <1>1. SearchInv => CompleteHasResults
    BY DEF SearchInv, ObjectInv, CompleteHasResults, Holds, fileDownloadUrl
  <1> QED BY <1>1, SearchInvariant, PTL

(* The row of a search is there before its message.                        *)
THEOREM MessagesHaveRows == Spec => []RowBeforeMessage
  <1>1. SearchInv => RowBeforeMessage
    BY DEF SearchInv, RowInv, Fits, RowBeforeMessage, TypeOK, Working
  <1> QED BY <1>1, SearchInvariant, PTL

-----------------------------------------------------------------------------
(* What users see implements SearchStatus.                                 *)

shownStatus == [s \in Search |-> row[s].status]
shownAnswer == [s \in Search |-> IF fileDownloadUrl(s) = None THEN None
                                 ELSE query[fileDownloadUrl(s)]]

ownAnswer == [s \in Search |-> IF row[s].status = "COMPLETE" THEN query[s] ELSE None]

OwnShown == shownAnswer = ownAnswer

LEMMA AnswerShown == SearchInv => OwnShown
  <1> SUFFICES ASSUME SearchInv
               PROVE  OwnShown
    OBVIOUS
  <1>1. ASSUME NEW s \in Search, row[s].status = "COMPLETE"
        PROVE  fileDownloadUrl(s) # None /\ query[fileDownloadUrl(s)] = query[s]
    <2>1. Holds(row[s].object, s) /\ uploaded \subseteq Search
      BY <1>1 DEF SearchInv, ObjectInv, TypeOK
    <2> QED BY <1>1, <2>1, SearchAssumption DEF fileDownloadUrl, Holds
  <1>2. \A s \in Search : row[s].status # "COMPLETE" => fileDownloadUrl(s) = None
    BY DEF fileDownloadUrl
  <1> QED BY <1>1, <1>2 DEF OwnShown, shownAnswer, ownAnswer

(* Performing a statement is a step of SearchStatus, or none.              *)
LEMMA PerformShown ==
  ASSUME SearchInv, OwnShown, OwnShown', NEW t \in stmts, t.state \in {"sent", "orphan"},
         Perform(t)
  PROVE  Visible!Next \/ UNCHANGED <<shownStatus, shownAnswer>>
  <1> DEFINE s == t.search
  <1>1. TypeOK /\ RowInv /\ ObjectInv /\ s \in Search
    BY StatementFields DEF SearchInv
  <1>2. shownAnswer = ownAnswer /\ shownAnswer' = ownAnswer'
    BY DEF OwnShown
  <1>3. \A x \in Search : x # s => row'[x] = row[x]
    BY <1>1, PerformEffect
  <1>4. t.kind \in {"insert", "lookup", "start", "progress", "complete", "error"}
    BY StatementFields, <1>1
  <1>5. ASSUME row'[s].status = row[s].status
        PROVE  UNCHANGED <<shownStatus, shownAnswer>>
    BY <1>2, <1>3, <1>5 DEF shownStatus, ownAnswer
  <1>6. ASSUME NEW from, NEW to, row[s].status = from, row'[s].status = to
        PROVE  /\ Visible!Move(s, from, to)
               /\ from # "COMPLETE" /\ to # "COMPLETE" => UNCHANGED shownAnswer
               /\ to = "COMPLETE" => shownAnswer' = [shownAnswer EXCEPT ![s] = query[s]]
    <2>1. shownStatus' = [shownStatus EXCEPT ![s] = to]
      BY <1>1, <1>3, <1>6 DEF shownStatus
    <2>2. shownStatus[s] = from
      BY <1>1, <1>6 DEF shownStatus
    <2>3. Visible!Move(s, from, to)
      BY <2>1, <2>2 DEF Visible!Move, shownStatus
    <2>4. from # "COMPLETE" /\ to # "COMPLETE" => UNCHANGED shownAnswer
      BY <1>2, <1>3, <1>6 DEF ownAnswer
    <2>5. to = "COMPLETE" => shownAnswer' = [shownAnswer EXCEPT ![s] = query[s]]
      BY <1>2, <1>3, <1>6 DEF ownAnswer
    <2> QED BY <2>3, <2>4, <2>5
  <1>7. CASE t.kind \in {"lookup", "progress"}
    BY <1>1, <1>5, <1>7, PerformEffect DEF Writes
  <1>8. CASE t.kind = "insert"
    <2>1. Visible!Submit(s)
      BY <1>1, <1>6, <1>8, PerformEffect DEF Visible!Submit, shownAnswer
    <2> QED BY <1>1, <2>1 DEF Visible!Next
  <1>9. CASE t.kind = "start"
    <2>1. Visible!Start(s)
      BY <1>1, <1>6, <1>9, PerformEffect DEF Visible!Start, shownAnswer
    <2> QED BY <1>1, <2>1 DEF Visible!Next
  <1>10. CASE t.kind = "error"
    <2>1. Visible!Fail(s)
      BY <1>1, <1>6, <1>10, PerformEffect DEF Visible!Fail, shownAnswer
    <2> QED BY <1>1, <2>1 DEF Visible!Next
  <1>11. CASE t.kind = "complete" /\ row'[s] # row[s]
    <2>1. row'[s].status = "COMPLETE"
      BY <1>1, <1>11, PerformEffect
    <2>2. CASE row[s].status = "IN_PROGRESS"
      <3>1. Visible!Complete(s)
        BY <1>6, <2>1, <2>2 DEF Visible!Complete, shownAnswer
      <3> QED BY <1>1, <3>1 DEF Visible!Next
    <2>3. CASE row[s].status = "SUBMITTED" /\ Reusable(s)
      <3>1. \E x \in Search : shownStatus[x] = "COMPLETE" /\ query[x] = query[s]
        BY <2>3 DEF Reusable, shownStatus
      <3>2. Visible!Reuse(s)
        BY <1>6, <2>1, <2>3, <3>1 DEF Visible!Reuse, shownStatus, shownAnswer
      <3> QED BY <1>1, <3>2 DEF Visible!Next
    <2>4. Unperformed(t) /\ Sourced(t)
      BY <1>1, <1>11 DEF ObjectInv, Unperformed, Writes
    <2> QED BY <1>11, <2>2, <2>3, <2>4 DEF Sourced
  <1>12. CASE t.kind = "complete" /\ row'[s] = row[s]
    BY <1>5, <1>12
  <1> QED BY <1>4, <1>7, <1>8, <1>9, <1>10, <1>11, <1>12

LEMMA RowsChange ==
  ASSUME [Next]_vars
  PROVE  UNCHANGED row \/ \E t \in stmts : t.state \in {"sent", "orphan"} /\ Perform(t)
  <1>1. CASE Submit \/ Publish
    BY <1>1 DEF Submit, Publish, executeAsyncUrlSearch, publishMessage
  <1>2. CASE Table
    BY <1>2 DEF Table, Serve, ServeOrphan, Fault
  <1>3. CASE Callback
    BY <1>3 DEF Callback, OnInserted, process4ExistingRequestId, updateQueryExecutionStatus,
                process4NewRequestId, OnProgressUpdated, OnSaved
  <1>4. CASE Listener
    BY <1>4 DEF Listener, RunTask, WakeUp
  <1>5. CASE Job
    BY <1>5 DEF Job, asyncSearch, asyncScroll, updateProgress, ScrollEnds, s3Upload, tableVars
  <1>6. CASE Crash \/ UNCHANGED vars
    BY <1>6 DEF Crash, vars, tableVars
  <1> QED BY <1>1, <1>2, <1>3, <1>4, <1>5, <1>6 DEF Next

(* The status and the file of a search that users see move only as         *)
(* SearchStatus allows: forward, to one final outcome, with the results of *)
(* its own query.                                                          *)
THEOREM StatusImplements == Spec => StatusRefines
  <1>1. ASSUME Init
        PROVE  Visible!Init
    <2>1. \A s \in Search : row[s].status = "none"
      BY <1>1 DEF Init, TableInit
    <2> QED BY <2>1 DEF Visible!Init, fileDownloadUrl
  <1>2. ASSUME SearchInv, OwnShown, OwnShown', [Next]_vars
        PROVE  [Visible!Next]_(Visible!visible)
    <2>1. CASE UNCHANGED row
      BY <2>1 DEF Visible!visible, fileDownloadUrl
    <2>2. ASSUME NEW t \in stmts, t.state \in {"sent", "orphan"}, Perform(t)
          PROVE  [Visible!Next]_(Visible!visible)
      BY <1>2, <2>2, PerformShown DEF Visible!visible, shownStatus, shownAnswer
    <2> QED BY <1>2, <2>1, <2>2, RowsChange
  <1> QED BY <1>1, <1>2, SearchInvariant, AnswerShown, PTL
         DEF Spec, StatusRefines, Visible!Spec
=============================================================================
