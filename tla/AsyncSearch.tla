----------------------------- MODULE AsyncSearch ----------------------------
(***************************************************************************)
(* Asynchronous searches, from the API that submits one (AsyncRestApi)     *)
(* over the message queue (AsyncQueryListener) to the job that scrolls     *)
(* through Elasticsearch, uploads the file to S3 and updates the row of    *)
(* the search (AsyncServiceImpl), with the listener that reports the       *)
(* progress of the scroll (AsyncFileScrollProgressListener).               *)
(***************************************************************************)
EXTENDS SearchTable

CONSTANTS
  Pages,       \* pages of hits a scroll reads
  MaxRunning   \* bound on the searches that are worked on at the same time

ASSUME BoundAssumption == Pages \in Nat /\ MaxRunning \in Nat \ {0}

VARIABLES
  stage,        \* how far the handlers of each search have come
  messages,     \* searches whose message is in the queue async-query
  pages,        \* pages each scroll has read
  progressQueue,\* of each listener: the highest progress not reported, or 0
  threads,      \* listeners whose executor has started its thread
  isExecuting,  \* static: a progress update of this process is under way
  uploaded      \* the objects in S3

jobVars == <<pages, progressQueue, threads, isExecuting, uploaded>>
vars == <<tableVars, stage, messages, jobVars>>

Working == {"looking", "starting", "scrolling", "reporting", "uploading", "saving"}
Stage == {"none", "inserting", "publishing", "queued", "stopped"} \cup Working

Goto(s, there) == stage' = [stage EXCEPT ![s] = there]

-----------------------------------------------------------------------------
(* The API: insert a row, then publish the message, then answer.           *)

BugPublishAtOnce(s) ==
  /\ stage[s] = "none"
  /\ Goto(s, "publishing") /\ Send(NewStatement(s, "insert"))
  /\ UNCHANGED <<row, faults, messages, jobVars>>

executeAsyncUrlSearch(s) ==
  /\ stage[s] = "none"
  /\ Goto(s, "inserting") /\ Send(NewStatement(s, "insert"))
  /\ UNCHANGED <<row, faults, messages, jobVars>>

OnInserted(t) ==
  /\ t.kind = "insert"
  /\ Replace(t, {})
  /\ Goto(t.search, IF t.state = "ok" THEN "publishing" ELSE "stopped")
  /\ UNCHANGED <<row, faults, messages, jobVars>>

(* A message that does not reach the queue: the request is not answered.   *)
publishMessage(s) ==
  /\ stage[s] = "publishing"
  /\ \/ Goto(s, "queued") /\ messages' = messages \cup {s} /\ UNCHANGED faults
     \/ GoesWrong("message") /\ Goto(s, "stopped") /\ UNCHANGED messages
  /\ UNCHANGED <<row, stmts, jobVars>>

-----------------------------------------------------------------------------
(* The listener hands each message on and acknowledges it at once.  The    *)
(* service first looks for a complete search of the same request.          *)

asyncSearch(s) ==
  /\ s \in messages
  /\ Cardinality({x \in Search : stage[x] \in Working}) < MaxRunning
  /\ messages' = messages \ {s}
  /\ Goto(s, "looking") /\ Send(NewStatement(s, "lookup"))
  /\ UNCHANGED <<row, faults, jobVars>>

(* Found: the row is completed with the object of the other search.        *)
process4ExistingRequestId(t) ==
  /\ t.kind = "lookup" /\ t.state = "ok"
  /\ \/ /\ Replace(t, {UrlUpdate(t.search, t.object)})
        /\ Goto(t.search, "saving")
        /\ UNCHANGED faults
     \/ GoesWrong("presign") /\ Replace(t, {}) /\ Goto(t.search, "stopped")
  /\ UNCHANGED <<row, messages, jobVars>>

BugNotFoundIgnored(t) ==
  /\ t.kind = "lookup" /\ t.state \in {"empty", "failed"}
  /\ Replace(t, {}) /\ Goto(t.search, "stopped")
  /\ UNCHANGED <<row, faults, messages, jobVars>>

(* Not found: the search is marked as in progress.  A lookup that failed   *)
(* is never answered.                                                      *)
updateQueryExecutionStatus(t) ==
  /\ t.kind = "lookup" /\ t.state \in {"empty", "failed"}
  /\ IF t.state = "empty"
     THEN Replace(t, {NewStatement(t.search, "start")}) /\ Goto(t.search, "starting")
     ELSE Replace(t, {}) /\ Goto(t.search, "stopped")
  /\ UNCHANGED <<row, faults, messages, jobVars>>

-----------------------------------------------------------------------------
(* The progress of page k, in percent: the upload is the last tenth.  A    *)
(* new listener holds the progress FirstProgress.                          *)
FirstProgress == 10
BugPageProgress(k) == 90 * k
PageProgress(k) == (90 * k) \div Pages

(* The queue is only asked for its highest element, and then emptied.      *)
Add(s, n) ==
  progressQueue' = [progressQueue EXCEPT ![s] = IF n > @ THEN n ELSE @]

process4NewRequestId(t) ==
  /\ t.kind = "start"
  /\ Replace(t, {})
  /\ IF t.state = "ok"
     THEN /\ Goto(t.search, "scrolling")
          /\ Add(t.search, FirstProgress)
     ELSE Goto(t.search, "stopped") /\ UNCHANGED progressQueue
  /\ UNCHANGED <<row, faults, messages, pages, threads, isExecuting, uploaded>>

(* One turn of the scroll: the page is written to the file and its         *)
(* progress is put into the queue of the listener, which looks at          *)
(* isExecuting and, in a later step, sets it.                              *)
asyncScroll(s) ==
  /\ stage[s] = "scrolling" /\ pages[s] < Pages
  /\ pages' = [pages EXCEPT ![s] = @ + 1]
  /\ Add(s, PageProgress(pages[s] + 1))
  /\ IF isExecuting THEN UNCHANGED stage ELSE Goto(s, "reporting")
  /\ UNCHANGED <<tableVars, messages, threads, isExecuting, uploaded>>

(* The highest progress is taken and the rest is dropped.  The first task  *)
(* starts the thread of the executor; later ones wait for it.              *)
updateProgress(s) ==
  /\ stage[s] = "reporting" /\ Goto(s, "scrolling")
  /\ isExecuting' = TRUE
  /\ Send(ProgressUpdate(s, progressQueue[s],
                         IF s \in threads THEN "queued" ELSE "sent"))
  /\ threads' = threads \cup {s}
  /\ progressQueue' = [progressQueue EXCEPT ![s] = 0]
  /\ UNCHANGED <<row, faults, messages, pages, uploaded>>

RunTask(t) ==
  /\ t.state = "queued"
  /\ Replace(t, {Answered(t, "sent")})
  /\ UNCHANGED <<row, faults, stage, messages, jobVars>>

(* The callback sleeps for five seconds; a failure clears the flag before. *)
OnProgressUpdated(t) ==
  /\ t.kind = "progress" /\ t.state \in {"ok", "failed"}
  /\ Replace(t, {Answered(t, "pausing")})
  /\ isExecuting' = IF t.state = "failed" THEN FALSE ELSE isExecuting
  /\ UNCHANGED <<row, faults, stage, messages, pages, progressQueue, threads, uploaded>>

WakeUp(t) ==
  /\ t.state = "pausing"
  /\ Replace(t, {})
  /\ isExecuting' = FALSE
  /\ UNCHANGED <<row, faults, stage, messages, pages, progressQueue, threads, uploaded>>

ScrollEnds(s) ==
  /\ stage[s] = "scrolling"
  /\ \/ /\ pages[s] = Pages /\ Goto(s, "uploading")
        /\ UNCHANGED <<stmts, faults>>
     \/ /\ GoesWrong("scroll") /\ Goto(s, "stopped")
        /\ Send(NewStatement(s, "error"))
  /\ UNCHANGED <<row, messages, jobVars>>

-----------------------------------------------------------------------------
(* The upload, and the callback it runs before it returns.  When no URL    *)
(* can be made for the object the callback throws, after it has stopped    *)
(* the listener, and is called again with the failure.                     *)

(* finish: what the executor has not begun is dropped.                     *)
Unfinished(s) == {t \in stmts : t.search = s /\ t.state = "queued"}

finish(s) == Add(s, 100)

BugUrlAlways(s) ==
  /\ stage[s] = "uploading"
  /\ finish(s)
  /\ stmts' = (stmts \ Unfinished(s)) \cup {UrlUpdate(s, s)}
  /\ Goto(s, "saving")
  /\ \/ uploaded' = uploaded \cup {s} /\ UNCHANGED faults
     \/ GoesWrong("upload") /\ UNCHANGED uploaded
  /\ UNCHANGED <<row, messages, pages, threads, isExecuting>>

BugNoReturn(s) ==
  /\ stage[s] = "uploading"
  /\ finish(s) /\ uploaded' = uploaded \cup {s}
  /\ stmts' = (stmts \ Unfinished(s))
              \cup {UrlUpdate(s, s), NewStatement(s, "error")}
  /\ Goto(s, "saving")
  /\ UNCHANGED <<row, messages, pages, threads, isExecuting, faults>>

s3Upload(s) ==
  /\ stage[s] = "uploading"
  /\ \/ /\ finish(s) /\ uploaded' = uploaded \cup {s}
        /\ stmts' = (stmts \ Unfinished(s)) \cup {UrlUpdate(s, s)}
        /\ Goto(s, "saving")
        /\ UNCHANGED faults
     \/ /\ GoesWrong("presign")
        /\ finish(s) /\ uploaded' = uploaded \cup {s}
        /\ stmts' = (stmts \ Unfinished(s)) \cup {NewStatement(s, "error")}
        /\ Goto(s, "stopped")
     \/ /\ GoesWrong("upload")
        /\ Send(NewStatement(s, "error")) /\ Goto(s, "stopped")
        /\ UNCHANGED <<progressQueue, uploaded>>
  /\ UNCHANGED <<row, messages, pages, threads, isExecuting>>

OnSaved(t) ==
  /\ t.kind \in {"complete", "error"} /\ t.state \in {"ok", "failed"}
  /\ Replace(t, {}) /\ Goto(t.search, "stopped")
  /\ UNCHANGED <<row, faults, messages, jobVars>>

-----------------------------------------------------------------------------
(* The process stops and starts again: what was under way is forgotten,    *)
(* the queue, the table and S3 are not, and statements that were sent may  *)
(* still be performed.                                                     *)
Crash ==
  /\ GoesWrong("crash")
  /\ stage' = [s \in Search |-> IF stage[s] \in Working \cup {"inserting", "publishing"}
                                THEN "stopped" ELSE stage[s]]
  /\ \E kept \in SUBSET {t \in stmts : t.state = "sent"} :
       stmts' = {t \in stmts : t.state = "orphan"}
                \cup {Answered(t, "orphan") : t \in kept}
  /\ isExecuting' = FALSE
  /\ progressQueue' = [s \in Search |-> 0] /\ threads' = {}
  /\ UNCHANGED <<row, messages, pages, uploaded>>

-----------------------------------------------------------------------------
(* asyncStatus: the file is shown once the search is complete.             *)
fileDownloadUrl(s) == IF row[s].status = "COMPLETE" THEN row[s].object ELSE None

-----------------------------------------------------------------------------
Init ==
  /\ TableInit
  /\ stage = [s \in Search |-> "none"]
  /\ messages = {}
  /\ pages = [s \in Search |-> 0]
  /\ progressQueue = [s \in Search |-> 0] /\ threads = {}
  /\ isExecuting = FALSE
  /\ uploaded = {}

Table == \E t \in stmts : /\ Serve(t) \/ ServeOrphan(t) \/ Fault(t)
                          /\ UNCHANGED <<stage, messages, jobVars>>

Callback == \E t \in stmts :
  /\ t.state \in {"ok", "empty", "failed"}
  /\ \/ OnInserted(t)
     \/ process4ExistingRequestId(t)
     \/ updateQueryExecutionStatus(t)
     \/ process4NewRequestId(t)
     \/ OnProgressUpdated(t)
     \/ OnSaved(t)

Listener == \E t \in stmts : RunTask(t) \/ WakeUp(t)

Job == \E s \in Search : \/ asyncSearch(s)
                         \/ asyncScroll(s)
                         \/ updateProgress(s)
                         \/ ScrollEnds(s)
                         \/ s3Upload(s)

Submit == \E s \in Search : executeAsyncUrlSearch(s)
Publish == \E s \in Search : publishMessage(s)

Next == Submit \/ Publish \/ Table \/ Callback \/ Listener \/ Job \/ Crash

Spec == Init /\ [][Next]_vars

(* Postgres answers, callbacks run, messages are delivered and jobs go on. *)
(* Nobody has to submit a search, and nothing has to go wrong.             *)
FairSpec == Spec /\ WF_vars(Publish \/ Table \/ Callback \/ Listener \/ Job)

-----------------------------------------------------------------------------
(* Properties.                                                             *)

TypeOK ==
  /\ TableTypeOK
  /\ stage \in [Search -> Stage]
  /\ messages \subseteq Search
  /\ pages \in [Search -> 0..Pages]
  /\ progressQueue \in [Search -> 0..100] /\ threads \subseteq Search
  /\ isExecuting \in BOOLEAN
  /\ uploaded \subseteq Search

(* A search that is shown as complete offers a file that is in S3 and was  *)
(* made by a job with the same query, its own or, by process4Existing-     *)
(* RequestId, that of another search.                                      *)
CompleteHasResults ==
  \A s \in Search : row[s].status = "COMPLETE" =>
    /\ fileDownloadUrl(s) \in uploaded
    /\ query[fileDownloadUrl(s)] = query[s]

(* A message is published only after the row of its search was inserted:   *)
(* the updates of the job, none of which checks that it matched a row,     *)
(* always meet one.                                                        *)
RowBeforeMessage ==
  \A s \in Search :
    s \in messages \/ stage[s] \in Working => row[s].status # "none"

(* The status that users see moves as SearchStatus allows, although most   *)
(* updates are not awaited and may be performed late, after a failure or   *)
(* after the process has stopped.                                          *)
Visible == INSTANCE SearchStatus WITH
  status <- [s \in Search |-> row[s].status],
  answer <- [s \in Search |-> IF fileDownloadUrl(s) = None THEN None
                              ELSE query[fileDownloadUrl(s)]]

StatusRefines == Visible!Spec

(* The progress of a complete search is 100 percent.                       *)
CompleteIsHundred ==
  \A s \in Search : row[s].status = "COMPLETE" => row[s].progress = 100

(* Every search that has a row is answered, when nothing goes wrong.       *)
Finished ==
  \A s \in Search :
    row[s].status = "SUBMITTED" ~> row[s].status \in {"COMPLETE", "ERROR"}
=============================================================================
