---------------------------- MODULE BrokerService ---------------------------
(***************************************************************************)
(* What databroker/DataBrokerService promises the callers of its streaming *)
(* subscriptions, as far as the queue is concerned: a job is one call of   *)
(* register, append or delete over the event bus.  StreamingSubscription   *)
(* implements it, SubscriptionStore relies on it.                          *)
(***************************************************************************)
EXTENDS Naturals

CONSTANTS
  Job,       \* calls to the service
  job,       \* what each of them asks for: a record with op and queue
  Breaks     \* whether calls to RabbitMQ may be lost

VARIABLES
  queues,    \* queues that exist
  work       \* how far each job is

jobVars == <<queues, work>>

(* "done": the queue was made, found or deleted; "failing": the job will   *)
(* answer that it failed; "hung": it will never answer.                    *)
Progress == {"none", "asked", "done", "failing", "ok", "fail", "hung"}

Busy == {j \in Job : work[j] \in {"asked", "done", "failing"}}

Goto(j, from, to) ==
  /\ work[j] = from
  /\ work' = [work EXCEPT ![j] = to]

Ask(j) == Goto(j, "none", "asked") /\ UNCHANGED queues

(* What a job does to its queue: a register makes one that is not there,   *)
(* an append and a delete need one.                                        *)
Effect(j) ==
  \/ /\ job[j].op = "register" /\ job[j].queue \notin queues
     /\ queues' = queues \cup {job[j].queue}
  \/ /\ job[j].queue \in queues
     /\ \/ job[j].op = "append" /\ UNCHANGED queues
        \/ job[j].op = "delete" /\ queues' = queues \ {job[j].queue}

Perform(j) == Goto(j, "asked", "done") /\ Effect(j)

(* A register that fails later takes the queue down, whoever made it; an   *)
(* append leaves it.                                                       *)
Undo(j) ==
  /\ Goto(j, "done", "failing")
  /\ \/ job[j].op = "register" /\ queues' = queues \ {job[j].queue}
     \/ job[j].op = "append" /\ UNCHANGED queues

(* A delete is refused only when its queue is not there.                   *)
Refuse(j) ==
  /\ Goto(j, "asked", "failing")
  /\ job[j].op = "delete" => job[j].queue \notin queues
  /\ UNCHANGED queues

Reply(j) ==
  /\ Goto(j, "done", "ok") \/ Goto(j, "failing", "fail")
  /\ UNCHANGED queues

(* A call to RabbitMQ is lost: the job fails although its effect happened; *)
(* an append takes the queue down; the job keeps a queue it should have    *)
(* taken down; or it never answers.                                        *)
Lose(j) ==
  /\ Breaks
  /\ \/ Goto(j, "asked", "failing") /\ Effect(j)
     \/ /\ job[j].op = "append" /\ Goto(j, "done", "failing")
        /\ queues' = queues \ {job[j].queue}
     \/ Goto(j, "asked", "failing") /\ UNCHANGED queues
     \/ Goto(j, "done", "failing") /\ UNCHANGED queues
     \/ j \in Busy /\ Goto(j, work[j], "hung") /\ UNCHANGED queues

JobStep(j) == Perform(j) \/ Undo(j) \/ Refuse(j) \/ Reply(j)

JobInit == queues = {} /\ work = [j \in Job |-> "none"]

JobNext == \E j \in Job : Ask(j) \/ JobStep(j) \/ Lose(j)

JobSpec == JobInit /\ [][JobNext]_jobVars

JobTypeOK ==
  /\ queues \subseteq {job[j].queue : j \in Job}
  /\ work \in [Job -> Progress]
=============================================================================
