# Verification of the resource server

TLA+ models of the data exchange resource server (Java, Vert.x verticles), with TLC
model checking of small instances and TLAPS proofs for all of them. Source paths below
are relative to `src/src/main/java/iudx/resource/server/`.

## 1. The system

The server is a set of verticles that call each other over the Vert.x event bus and keep
their state in five places: RabbitMQ, Postgres, Elasticsearch, Redis and S3. It keeps
almost no state of its own: a few fields of service objects, three in-memory caches and
the callbacks that are waiting for an answer. Nearly every operation is a chain of
callbacks, each started by the answer of an outside system, and nothing keeps the chains
of two requests apart.

| Component | Source | State | Operations | Talks to |
|---|---|---|---|---|
| Streaming subscriptions in the broker | `databroker/SubscriptionService.java` | two binding counters, one promise per request | register, append, delete (update and list are not reached or only read) | RabbitMQ management API |
| Broker users | `databroker/RabbitClient.java`, `DataBrokerServiceImpl.java` | user and vhost permission in RabbitMQ, row in `subscription_users` | createUserIfNotExist, resetPassword | RabbitMQ, Postgres |
| Adaptors | `apiserver/management/`, `databroker/RabbitClient.java` | rows of `adaptors_details`; exchange, bindings and write permission in RabbitMQ | register, delete (with compensation) | data broker service, Postgres, catalogue cache |
| Exchanges, queues, vhosts | `databroker/RabbitClient.java` | none of their own | create, list, delete of one object | RabbitMQ |
| Subscriptions in the API server | `apiserver/subscription/` | rows of `subscriptions` | create, update, append, get, delete | data broker service, Postgres |
| Asynchronous searches | `apiserver/AsyncRestApi.java`, `database/async/`, `databroker/listeners/AsyncQueryListener.java` | rows of `s3_upload_url`, objects in S3, the message queue, one flag per process | submit, status, run a search | Postgres, RabbitMQ, Elasticsearch, S3 |
| Caches | `cache/` | three bounded maps: revoked clients, unique attributes, catalogue items | get, put, refresh, hourly refresh, refresh on a miss | Postgres, catalogue server |
| Broadcast listeners, administration API | `databroker/listeners/`, `apiserver/AdminRestApi.java` | tables `revoked_tokens`, `unique_attributes` | revoke a token, set a unique attribute | caches, Postgres, RabbitMQ |
| Authentication | `authenticator/`, `apiserver/handlers/AuthHandler.java` | none | introspect a token, decide access | caches, metering |
| Validators, query mapping | `apiserver/validation/`, `apiserver/query/` | none | check parameters, build a query | none |
| Database and latest data | `database/archives/`, `database/elastic/`, `database/latest/` | none | search, count, latest | Elasticsearch, Redis |
| Metering | `metering/` | the result array of a summary, a field of the service | publish an audit record, count, summarise, read reports | RabbitMQ, Postgres, catalogue cache |
| Encryption, Postgres service, catalogue service, deployment | `encryption/`, `database/postgres/`, `apiserver/service/`, `deploy/` | a filter cache in the catalogue service | one call each | library, Postgres, catalogue |

### What is hard

* **Shared fields.** `totalBindCount` and `totalBindSuccess` belong to the one
  subscription service; `ExecutionCounter.isExecuting` is static.
* **Read, then write.** A permission string is read, changed and written back; a user is
  looked up and then created; a search looks for a finished search of the same request
  before it starts one.
* **Partial failure.** A registration makes a user, a queue, several bindings and a
  permission, and undoes only the queue. A password changes in two stores.
* **Promises.** An answer may be given twice (an exception) or never.
* **Order.** Statements that are not awaited reach the database in any order; calls that
  take something back are not awaited either.
* **Copies.** A cache is filled by events and from snapshots that were read earlier; a
  decision reads it more than once.
* **Timeouts.** The event bus gives up on a service that goes on with its work, and the
  message of the timeout is not what the caller expects to parse.
* **Check, then act.** An access is let in by what is counted in a table, and only then
  published, to be inserted into this table later by somebody else.
* **Users in between.** A user may be known to RabbitMQ without a permission for the vhost,
  and a chain that relies on one stops in the middle.

### What makes each component correct

* Subscriptions: a success means a queue that exists, is bound for every entity and is
  readable by its user; nobody reads a queue they did not ask for; a rollback removes
  only what its own request made; every request is answered.
* Users: a password handed out works; the stored password is the broker's; every user
  has a vhost permission.
* Asynchronous searches: a complete search points at an uploaded object with the results
  of its own query, and an outcome never changes.
* Subscription rows: no queue without a row and no row without a queue, once the calls
  have ended; a success is what is stored.
* Adaptors: the same for rows and exchanges; the owner of an exchange may write to it and
  nobody else. The code keeps this for users with a permission for the vhost only.
* Caches: when the events are handled the cache is the table, and whatever was lost, it
  is in the end; a revoked token is refused.
* Access: a resource that is listed is found, an open one is open in some version of the
  catalogue, and the limit is exceeded only by accesses that are not counted yet: of
  requests that run together, on their way to the table, or never recorded.

## 2. Plan

1. `RabbitClient`, `BrokerUsers`, `StreamingSubscription`: **done**.
2. `SearchTable`, `AsyncSearch`, with the abstract `SearchStatus` it implements:
   **done**.
3. `BrokerService`, what the data broker service promises, implemented by 1; and
   `SubscriptionStore`, the API server's subscriptions over it: **done**.
4. `BroadcastCache` (revoked clients, unique attributes) and `CatalogueCache`, with
   `Metering` and `TokenIntrospection` composed over it: **done**.
5. `Adaptor`: registration and deletion with compensation: **done**.
6. Theorems about 1 and 2, and about the modules of `TokenIntrospection`: **done**.
7. Theorems about 4 and 5 (`BroadcastCacheProofs`, `AdaptorProofs`): **done**.
8. Theorems about `SubscriptionStore` (`SubscriptionStoreProofs`): **done**.
9. Theorems about the passwords of 1: **done**.
10. Theorems about the answers of 1 and its refinement of `BrokerService`
    (`SubscriptionAnswersProofs`): **done**.
11. The theorem about the permissions of 1 (`SubscriptionAnswersProofs`): **done**. Every
    safety property that a passing run checks about 1 is now a theorem.

The modules build on each other as follows.

```
RabbitClient <- BrokerUsers <- StreamingSubscription --implements--> BrokerService
                                                     SubscriptionStore --extends--^
SearchTable  <- AsyncSearch --implements--> SearchStatus
CatalogueCache <- Metering <- TokenIntrospection
Adaptor        BroadcastCache
```

Conventions. A request is a model value and the function `request` says what it asks
for. `stage` says which answer a request waits for. A fault is an action that needs a
kind in `FaultKinds` and counts against `MaxFaults`; a step that is none leaves `faults`
alone. `BugX` is a mutated form of the definition that follows it: it belongs to no
specification.

## 3. Streaming subscriptions

### Modules

`RabbitClient` is the world the service talks to. A call is a record: the request it
belongs to, its kind, its routing key, the permission it writes, and its status. It is
*sent* by a handler, *performed* by `Serve` (or goes wrong in `Fault`) and waits with
its status until its callback runs. `Execute` says what RabbitMQ and the table
`subscription_users` do, `Verdict` what they answer.

`BrokerUsers` holds the promises of the service and the callbacks of
`createUserIfNotExist` and `resetPassword`.

`StreamingSubscription` has one action for each entry point and one for each callback,
named for what was answered (`OnQueueCreated`, `OnBound`, ...). The counters are two
variables shared by all requests, as in the code.

`MCStreamingSubscription` holds the sets of requests of the runs,
`StreamingSubscriptionProofs` the theorems about what is in the broker, and
`SubscriptionAnswersProofs` those about what an answer says.

### Abstractions

* A callback runs to its end without another one between (one event loop runs the
  callbacks of a verticle). Between two callbacks everything may happen.
* The two virtual hosts of the configuration are one.
* A permission string `q1|q2` is the set of the queues it names. The initial permission
  "None" grants nothing and is the empty set.
* A password is the request that generated it.
* The entities of a request are a set; the code reads them as a list, and a repeated
  entity is bound twice with the same effect.
* `creator` and `granted` in `RabbitClient` are auxiliary: nothing reads them but
  properties and proofs.

### Runs

Requests are finite sets, so a behaviour ends when all are answered and `CHECK_DEADLOCK`
is off in every configuration.

| Run | Question |
|---|---|
| `serial` | Do requests that do not overlap, in every order and with one lost call, keep a success honest and a rollback to its own queue? |
| `serial_live` | Is every one of them answered when no call fails, and do permissions and queues agree afterwards? |
| `overlap` | With two requests at a time and a lost one, does anybody read a queue they did not ask for, or get an answer before the grant, and does a failed register leave its own queue behind? |

`serial` also checks that a password that is handed out works, that the stored one is
the broker's, and `Implements`: the service is a `BrokerService`, which
`SubscriptionStore` relies on (section 5). The refinement maps a job to `asked` until
its queue was made, found or deleted, and to `done` until it is answered.

`shared_counters` shows what the code does not keep: a second registration resets the
counters of the first, which is then answered with success while bindings are missing.
Other races are in the model and cost what the hazards say: two registrations of one
user lose a grant, and two creations of one user leave it with one of two passwords.
A binding that is answered with not found is counted like the others, so that a register
for two resource groups, of which one has no exchange, may be answered with success while
its queue is being deleted (`SubscriptionService.java:120`; TLC finds this with one
register of `{a, m}`). The requests of the runs have entities that all have an exchange,
or none that has. This is so for every request for resources, whose bindings all go to the exchange of one group
(`SubscriptionService.java:106`), and for every request with one entity.

Users that a reset creates without a permission in the vhost are in the model;
`UsersPermitted` is checked where every user registers.

Bounds: `MaxInFlight` requests have calls under way (1 or 2; two are enough for every
race between requests, as the shared state is per pair: two counters, one permission,
one queue); `MaxFaults` calls go wrong (0 or 1). Two users, two queues, entities with
and without an exchange and a blank one; at most five requests, chosen so that an alias
is registered twice, extended and deleted.

Fairness: `FairSpec` assumes only that RabbitMQ and Postgres answer and that the event
loop runs callbacks. Clients are never obliged to send anything. Every chain of
callbacks is finite, so fairness of the disjunction is enough.

### Proofs

`StreamingSubscriptionProofs` proves, for all sets of users, queues, entities and
requests:

* `TypeCorrect`: `TypeOK` is an invariant.
* `Isolation`: `PermissionIsolation` for any overlap and any faults. It is not
  inductive: the permission a call carries may be written back much later. `GrantInv`
  adds that the view of a call of user *u* contains only queues that arrived requests of
  *u* asked for.
* `SuccessIsGranted`: `GrantBeforeSuccess`, also from `GrantInv`: a permission write
  that answered "ok" has put its request into `granted`.
* `RollbackSafe`: `RollbackOwn` when requests do not overlap (`MaxInFlight = 1`) and no
  status is unexpected. `RollbackInv` follows the request in flight: from the moment its
  createQueue was answered with "ok", the queue is its own as long as it exists. Without
  these two assumptions it is false, and the assumptions are part of the theorem.
* `SavedKeysCurrent` and `KeysHandedOutWork`: `SavedKeyCurrent` and `KeyHandedOutWorks`
  when requests do not overlap (`MaxInFlight = 1`), the second one whatever goes wrong.
  Both follow from `KeyInv`. A call of the chains of createUserIfNotExist and
  resetPassword is the only one under way (`Alone`); what it knows of the password, that
  the broker has none or has the one this request made, still stands (`Knows`); and the
  row has the broker's password unless the one call under way is a reset between its two
  writes (`RowsFollow`, `Renewing`). Overlapping requests break both: two creations of a
  user both find it missing.

`SubscriptionAnswersProofs` proves what an answer says:

* `FailuresLeaveNoQueue`: `FailedRegisterLeavesNoQueue`, for any overlap and any number of
  calls that do not reach RabbitMQ. The calls of a register up to createQueue are alone
  (`HeadInv`), so that a queue has one maker (`MadeOnce`), and a failure comes from a
  createQueue that made nothing or from a deleteQueue after which the queue is gone or
  somebody else's (`Undone`). When answers may be lost too it is false.
* `UsersArePermitted`: `UsersPermitted`, for any overlap, when no call goes wrong and
  nobody resets a password. A user without a permission has a register that is about to
  give it (`PermitInv`): two creations of one user do not take that call from each
  other, since the second is told that the user exists and sends nothing.
* `SuccessesAreSubscribed`: `SuccessMeansSubscribed`, whatever calls are lost.
* `ImplementsContract`: `Implements`, the refinement of `BrokerService`, whatever calls
  are lost.
* `PermissionsAgree`: `PermissionsMatchQueues`, for requests handled one at a time, none of
  them a reset, when no call goes wrong.

The third and the fourth follow from `AnswerInv`, which speaks of the one request under way
(`AloneInService` says which of its calls have company). Its counters and the bindings
that may still succeed together never exceed the number of its entities, and fall
`Short` of it once a call was lost or when an entity is blank. As long as they do not, the
queue is there and every entity is bound or has its binding under way (`Intact`): so
the permission is written only for a queue that has all its bindings (`GrantFacts`), and
a queue that was rolled back is not answered with success (`UndoFacts`). For the
refinement one lemma per callback shows how far its request is before and after
(`ProgressShows`); no other request moves (`OthersSteady`), and the broker moves the
contract only when it makes or deletes a queue (`BrokerKept`).

Both assume that requests do not overlap (`MaxInFlight = 1`; `shared_counters` is what
happens otherwise), that no status is unexpected, and that no request mixes entities
with and without an exchange (`Unmixed`). `ImplementsContract` assumes
`MaxFaults > 0` because the contract lets a request hang only if calls may be lost,
while a request without entities is never answered even if none is. Writing the refinement
out showed that the `CASE` of `ProgressOf` had overlapping arms, between which TLC takes
the first and TLA+ any; it is now written with nested conditions.

`PermissionsAgree` follows from `AnswerInv`, `PermitInv` and `MatchInv`. A request that
has changed nothing yet, or whose calls have all ended, finds its queue and its
permission in agreement (`Before`, `Matched`). In between, the queue of a register is
there but not readable, and either it is being rolled back, when an entity is blank, or
its counter is going to be reached exactly (`RegisterMatch`; the bindings have different
keys, so that none is counted twice); and the permission that is written back is the one
the broker has, with this request's queue added or removed (`GrantMatch`), because nobody
else writes one meanwhile. It needs two facts about the requests. `OneUser`: a queue is
asked for by one user only, whose id the name begins with (`SubscriptionService.java:54`).
And a register names an entity, of which the API server reads the first before it calls
the broker (`ApiServerVerticle.java:1037`): without one the queue would be made and
nothing more would happen. The other assumptions are needed too: TLC finds a queue that
nobody may read after one lost binding, after two requests that count on the same
counters, and after the reset of a user the broker does not have, which makes the user
but not its permission.

Only model-checked: `Answered` (liveness).

## 4. Asynchronous searches

A user submits a search; the API inserts a row with the status SUBMITTED and publishes a
message. A listener takes the message, acknowledged on delivery, and hands it to the
asynchronous service. The service looks for a complete search of the same request and
hands out its file, or marks the search as IN_PROGRESS, scrolls through Elasticsearch
into a file, uploads it to S3 and completes the row. During the scroll a progress
listener with a thread of its own updates the progress in the row.

### Modules

`SearchStatus` is what a user is promised: the status of a search moves none ->
SUBMITTED -> IN_PROGRESS -> COMPLETE or ERROR, or from SUBMITTED to COMPLETE when
another search of the same query is complete; COMPLETE and ERROR are final; and the file
holds the results of the query that was asked.

`SearchTable` is the table `s3_upload_url` and the statements on it. A statement is a
record with the search, the kind and a state. It is *sent*, performed by `Serve` in any
order with the others, and keeps its result until its callback runs. `Fault` loses it,
or makes its answer late: the caller is told that it failed, and an *orphan* may be
performed at any later time. `Matches` and `Updated` are the WHERE and SET clauses; only
`UPDATE_S3_URL_SQL` looks at what the row holds.

`AsyncSearch` has the handlers. `stage` says which callback each search waits for. The
upload and its callback are one action, as `s3Upload` is synchronous; its three
disjuncts are a URL, no URL (the callback throws and is called again with the failure)
and no upload. The progress listener is `asyncScroll` (puts the progress of a page into
its queue and reads the static flag), `updateProgress` (sets the flag and hands a task
to its executor), `RunTask`, `OnProgressUpdated` and `WakeUp`; `finish` drops the task
that its executor has not begun. `Crash` forgets everything but the table, the message
queue and S3, and keeps any set of the statements that were sent.

`MCAsyncSearch` holds the queries of the runs, `AsyncSearchProofs` the theorems.

### Abstractions

* A query stands for the request id, its hash. An object is named for the search that
  uploaded it; its content is the results of that search's query.
* Progress is in percent and an integer. The listener's queue is only asked for its
  highest element and then emptied, so the model keeps the highest.
* The audit record, the deletion of the local file, the encryption of answers, the
  catalogue lookup before the insert, and the expiry of URLs are left out: they change
  nothing a property is about.
* A process that stops starts again with no work of its own; messages it has not taken
  are delivered.

### Runs

| Run | Question |
|---|---|
| `async` | Two searches of one query and up to two faults of any kind: is what users see always a behaviour of `SearchStatus`, is every file there and of the right query, and has every message a row? |
| `async_live` | Three searches, two of one query, no faults: does every search end? |

The run `late_progress` shows what the code does not keep: the progress of a complete
search falls back below 100. That two searches may pass the static flag together is in
the model too, and costs no more than a statement.

Bounds: two searches of one query are the smallest instance with a reuse, a race of two
jobs and a late statement of each; two faults allow a late statement and a stop of the
process; two pages give a report that is overtaken by another. `MaxRunning` bounds the
searches that are worked on together. No search has to be submitted, so `CHECK_DEADLOCK`
is off.

Fairness: `FairSpec` assumes that statements are answered, callbacks run, messages are
delivered and jobs go on, one disjunction of finite chains. Submitting, faults and stops
of the process are not fair.

### Proofs

`AsyncSearchProofs` proves, for all sets of searches and queries, any number of pages,
jobs and faults of every kind:

* `TypeCorrect`: `TypeOK`, with `PageProgressRange`: the progress of a page is at most
  90.
* `ResultsShown`: `CompleteHasResults`.
* `MessagesHaveRows`: `RowBeforeMessage`.
* `StatusImplements`: `AsyncSearch` implements `SearchStatus`.

They follow from one inductive invariant, `SearchInv`. `WaitInv`: a search waits for one
statement at a time, and its stage tells which. `WriteInv`: at most one statement that
changes the status of a search is still to be performed, orphans included; this is why
statements that nobody awaits do no harm. `RowInv`: what the row holds in each stage and
before each such statement, so that an insert meets no row, a start a submitted one and
an error one in progress. `ObjectInv`: every object named in a row or a statement was
uploaded for the same query, and a statement that completes a search from SUBMITTED has
a complete search of the same query beside it. A step of `SearchStatus` is taken exactly
when a statement that changes a status is performed; `RowsChange` shows that nothing
else touches a row.

Only model-checked: `Finished` (liveness).

## 5. Subscriptions in the API server

The handlers keep a row of `subscriptions` for each queue and entity. A create and an
append ask the data broker service first and insert a row then; when the row is refused
they delete the subscription again. A delete looks for a row first, then deletes the
queue and then the rows.

### Modules

`BrokerService` is the data broker service as its callers see it, as far as the queue of
a subscription goes: a *job* (one call over the event bus) is asked for, performed,
perhaps undone, and answered, or never answered. `SubscriptionStore` extends it with the
rows and the handlers: one action for each entry point and for each callback, named for
what was answered. A request has two jobs, its own and its compensation. A job goes on
when the event bus has given up on it.

### Abstractions

* An entity stands for the first of a request, the only one that is stored. The expiry
  of a row is the request that wrote it.
* The lookups in the catalogue cache succeed, or miss as a fault (`miss`).
* A statement is answered, is refused, or is performed and its answer lost. The timeout
  of the event bus between the handler and the Postgres service is not modelled here: a
  statement that is performed only after its caller was told that it failed. `AsyncSearch`
  has such statements (orphans).
* A callback that throws, and a failure without a branch, end the chain: the request is
  `stuck`. Which they are is taken from the code: a message that is no JSON, a null
  parameter of a statement, the missing result of a failed lookup.

### Run

| Run | Question |
|---|---|
| `store` | The life of one alias: two creates, two appends, an update and a delete, two at a time, and one thing that goes wrong anywhere. Do queue and rows go together, is a success what is stored, and is every request answered? |

Bounds: two requests at a time, and a job whose caller gave up overlaps the next ones;
one fault. `met` collects the queues of which requests overlapped, and the safety
properties excuse them from then on: a delete and a create that overlap leave a queue
without a row, which is listed as a hazard. The other excuses are the causes that each
property names, and none excuses refused statements: a refused row never leaves a queue.
Compensations that fail need two faults; the theorems below cover any number.

Fairness: the broker service answers or hangs for good, the database answers, and
callbacks run.

### Proofs

`SubscriptionStoreProofs` proves, for all sets of requests, queues and entities, any
number of requests at a time and any faults: `StoreHasTypes` (`TypeOK`),
`QueuesHaveRows` (`QueueHasRow`), `RowsHaveQueues` (`RowHasQueue`) and
`SuccessesAreStored` (`SuccessMeansStored`). They rest on `StoreAssumption` and
`StoreJobs`, which say what a request asks for and which jobs it has.

The first part sorts the steps: each is a turn of one request (it ends, sends a statement
or asks for a job: `Turn`), a statement that runs (`Ran`), or a job that goes on
(`Worked`, with `WorkedWell` when no call was lost); `Steps` shows that there are no
others. The rest never looks at the handlers again.

The properties speak of queues for which nothing is under way, and are not inductive.
`Inv` says what is known in between. A job under way belongs to a request that waits for
it or was given up (`Shape`). A queue whose requests did not meet has one of them under
way (`OneAtATime`), so that what its statement found still stands when its callback runs
(`Stored`, `Updates`), and so does what its job did, unless a job that was given up goes
on (`Chain`). `RowsKept` says who is about to delete the rows of a queue that is gone
(`Leaves`), and that no create makes a queue that has rows and then undoes it;
`QueueKept` who is about to insert the row of a queue that has none, or to undo the
queue (`Makes`), and that a job that was given up never makes a queue that is being
deleted, since only a create makes one. TLC checked `Inv` on the run's instance, and
with requests one at a time and two faults.

Only model-checked: `Answered` (liveness).

## 6. Adaptors

A register inserts the row, then the data broker service makes the user, the exchange,
the write permission and six bindings, one after the other; when one of them fails it
deletes the exchange without waiting for it, and the API server deletes the row. A
delete goes the other way and answers before it revokes the permission.

### Module

`Adaptor` has the chain of the data broker service (`requestAsync` performs a call and
runs its callback: `Continue`, `Fail` or `Hang`) and that of the API server
(`OnStatement`, `OnBroker`, `BrokerTimesOut`). They are separate: the first goes on after
the answer.

The chain of a register starts with the user. `createUserIfNotExist` looks the user up,
and makes one that RabbitMQ does not know, gives it the permission for the vhost and
inserts its row: four calls, between which other requests run. `users` are those that
RabbitMQ knows, `permitted` those with a permission. A user that is known is taken as it
is, so that the chain may come to `getUserPermissions` with a user that has none. The
first element of the empty list is then asked for, which throws (`Unpermitted`,
`RabbitClient.java:1332`): the exchange has been made and stays, no compensation runs, no
permission is written, and the row alone is taken back when the event bus gives up. An
unexpected status of the look-up leaves the chain without an answer, too (`Hang`).

How a user comes to have no permission: the call that gives it was lost, another register
is between the two calls, or the password of an unknown user was reset, which makes the
user (`resetPassword`, at any time and for anybody).

### Abstractions

* A call and its callback are one step: a callback touches only its own chain, so that
  nothing can be seen between them. The permission that was read is kept in `view` until
  it is written back.
* The row and the exchange are named for the request that made them.
* The other way to make a user, the register of a subscription (section 3), is not
  interleaved here: what it leaves behind, a user with or without a permission, is in the
  initial states. Passwords and the row that `insertUser` inserts are in section 3.
* A failed binding may or may not carry a cause; without one `queueBinding` throws
  (`BindThrows`).

### Runs

| Run | Question |
|---|---|
| `adaptor` | Registers and deletes of two users, two at a time, one thing that goes wrong, users with and without a permission: do row, exchange and permission go together, is a success what is stored, is everyone answered? |

`adaptor_bind` shows what the code does not keep: when a binding is lost on its way and
the exception has no cause, the callback that should start the compensation throws, and
the exchange of the failed register stays. It happens to a user with a permission.

Bounds: three registers and a delete: two users want one adaptor, and one of them a
second one, too, so that two registers of an unknown user can make it together. The
other user has a permission from the start (`Settled`); the first is unknown, known or
permitted. Two of the six bindings (a first, which goes on, and a last, which ends); two
requests at a time, one fault of each kind at every call. Fairness as in section 5; the
event bus gives up on a chain that has ended without an answer.

What the properties excuse is what the code does not keep. TLC finds the property violated
without each of these, but for the lost compensation, which takes two faults.

* `ExchangeHasRow`: a user without a permission when nothing is under way, or whose
  registers overlapped, so that one of them read the permissions while the other had made
  the user only (`Stranded`); a delete that overlapped; a lost binding or compensation
  (`Spoils`).
* `OwnerMayWrite`: a user who has no permission for the vhost at all. No register gives
  one to a user that is known. And users whose requests overlapped.
* `WriterOwnsExchange`: the user whose adaptor somebody else deleted, and users whose
  requests overlapped.

### Proofs

`AdaptorProofs` proves, for all sets of requests, ids and users, any number of bindings,
of requests at a time and of faults of every kind: `AdaptorsHaveTypes` (`TypeOK`),
`RowsHaveExchanges` (`RowHasExchange`), `ExchangesHaveRows` (`ExchangeHasRow`),
`WritersOwnExchanges` (`WriterOwnsExchange`), `OwnersMayWrite` (`OwnerMayWrite`) and the
action property `SuccessesMeanAdaptors` (`SuccessMeansAdaptor`). They rest on
`AdaptorAssumption` alone: what must not have happened is in the properties themselves.

The properties speak of ids for which nothing is under way; `Inv` says what holds while
something is.

* `Shape`: the chain in the data broker service (`call`, `answer`) and the chain in the
  API server (`stage`) go together, whatever goes wrong; `SparedShape` and `WholeShape`
  say what more is so while nothing went wrong for the request, or only lost calls that
  the compensation makes good (`Spoils`). Such a request hangs only on the empty
  permissions of its user, and it is then `Stranded` and stays so (`StrandedStays`: who
  gives the permission afterwards is another register of this user, and the two met).
* `Users`: who has a permission is known, who may write has one (`Writers`), the user of a
  chain that has come past the creation is known (`Known`), and a register that is about
  to give the permission met every register of its user that has made an exchange
  (`Makes`). A reset only adds to `users`, and every part of `Inv` stands (`Reset`).
* `RowKept`: a row whose exchange is missing belongs to a register that is about to make
  it, that hangs or is about to give up, or to a request that is about to delete the row.
  This holds for any overlap, because only one register at a time gets past the row of
  its id.
* `ExchangeKept`: while deletes meet nothing, the register whose row it is owns the
  exchange, and an exchange without its row is on its way out or its user is `Stranded`.
* `View`, `Chain`: a request that met no other writes back the permission as it is, and
  finds row, exchange, permission and bindings as its calls left them. `Overlap`
  (a request that met none has no rivals) makes this so.
* `OwnerWrites`, `WriterOwns`: the permission of a user follows the exchanges of that
  user, or the call that changes it is on its way, or the owner has no permission at all.

The exception of `ExchangeHasRow` was found while proving: with two faults a call of a
register may be lost, and then the call that takes the exchange down as well.

Only model-checked: `Answered` (liveness).

## 7. Revoked tokens and unique attributes

The administration API writes a row and publishes an event. The listener of each queue,
which acknowledges an event on delivery, puts it into the cache, or has the cache
refreshed for an update or a delete. A refresh reads the whole table and then replaces
the cache by what it read.

### Module

`BroadcastCache` has the two tables, the two caches and the refreshes: that of the timer
and those that events start, each *sent*, *read* (the snapshot is taken) and then landed.
`at` is the time a revocation was asked for; a token is an issue time, over which
`RevokedTokensRefused` quantifies. `raced` collects the keys for which an event crossed
a snapshot or requests overlapped; the properties excuse them, and `CacheConverges` says
that even those are repaired by the hourly refresh.

### Run

| Run | Question |
|---|---|
| `broadcast` | Does the cache hold the table when the events are handled, across a restart too, are revoked tokens refused, and does the cache follow the table in the end whatever was lost? |

Bounds: the tables do not interact, so that a behaviour changes one of them
(`MaxTables = 1`); two revocations of one client, or create, update and delete of one
attribute, two at a time; one refresh of the timer and one of an event (`EventSlot`)
under way; one fault. A statement of the administration API that is performed and whose
answer is lost is no fault of its own: no event is published, as when publishing fails. Fairness: statements and refreshes are answered, events consumed,
and the timer fires.

### Proofs

`BroadcastCacheProofs` proves, for all sets of clients, attributes and requests, any
number of them at a time, any number of refreshes under way, any faults and restarts:
`CachesHaveTypes` (`TypeOK`: a cache holds for a key what a request for that key wrote,
and never a deletion), `HandledEventsReachTheCache` (`EventsReachCache`) and
`RevokedTokensStayRefused` (`RevokedTokensRefused`).

`EventsReachCache` says nothing while an event or a refresh is under way, so it is far
from inductive. `Follows` says for a key for which nothing was lost and nothing raced
what each copy of its row is then. The row is what the request that is about to publish
wrote (`RowIsNew`). The last event of the key in the queue holds the row, unless a newer
one is still to be published (`EventIsNew`). A snapshot that was read is the row, unless
the change is on its way (`SnapshotIsNew`). And the cache is the row, unless the change or
a refresh is on its way (`CacheIsNew`). A listener that takes the last event of a key
therefore leaves the row in the cache or a refresh behind it. `OneAtATime` is what
`raced` excuses. For revocations `Later` adds that the times in the rows grow with the
order in which they were answered, so that the cached time refuses every earlier token;
`Clock` says that they come from one clock.

Only model-checked: `CacheConverges` (liveness).

## 8. Access and metering

A request is let in by its token and by the policy of its resource in the cache of the
catalogue: the resource is read, then its group. A request that needs its token is
counted against the limit. Once it is answered the resource is looked up again and the
access published; a consumer that is no part of the server inserts its row into the
table that is counted. A summary looks up each of a user's resources.

### Modules

`CatalogueCache` is the cache, over a catalogue server that steps through versions. Its
content is always one version, for a refresh replaces all of it; `lookup` holds the gets
under way. `Metering` adds the accesses, which are `published`, stored in any order and at
any later time (`store`) and counted where they are stored (`audits`), and the summaries,
which collect their rows in one field of the service. `TokenIntrospection` adds the decision, and
`TokenIntrospectionProofs` and `MeteringProofs` the theorems.

### Abstractions

* The token is valid and allows the endpoint, and limits are enabled. The tables of
  endpoints per role are data; the check of revoked tokens is in section 7.
* The count is read and compared in one step: only that request's callback runs between
  them. A count that fails is never answered, and the handler refuses by its timeout.
* The consumer of the messages is external: it stores each message once, and nothing says
  when. A message that is lost is a fault (`auditLost`).
* The accesses that a summary lists are given; only their lookups matter.

### Run

| Run | Question |
|---|---|
| `introspection` | While the catalogue changes and other requests refresh the cache: is a listed resource found, is nobody admitted to a closed one, by how much can the limit be exceeded, and are the rows of a summary its own? |

Bounds: two versions of the catalogue, which differ in what is listed and in the
policies of a resource and its group; three of four accesses and two summaries, two at
a time; a limit of one; one fault. The excuses are the hazards themselves: versions torn
between resource and group, and summaries that cross. Without them TLC finds
`AdmittedIfOpen` and `OwnSummary` violated at once.

`WithinLimit` says by how much a user exceeds the limit at most: by the other requests
that are worked on together with the last one that passed the count, by the accesses that
were on their way to the table then (`behind`), and by those never recorded. The second
has no bound in the code: requests that come one after the other all pass while the
consumer is late. The bound is tight: TLC finds it violated with one access less.

### Proofs

`TokenIntrospectionProofs` proves `TypeOK`, `FoundIfListed` and `AdmittedIfOpen` of
`Spec`, for every list of versions, every set of requests and any bounds. They rest on
`CatalogueAssumption` and `MeteringAssumption`; that `None` is no policy is needed, for
otherwise a resource without one would count as open.

None of the three is inductive: what a request is told depends on a lookup that other
requests and the timer interfere with. `Inv` therefore says, for each lookup under way,
what its version tells (`Tells`): the catalogue had the version, and the key is listed
there when it was found and is not when it is absent. For each request that waits for its
item it says that a version read since belongs to the time since the request came
(`Fresh`): a cache hit may be older, a miss may not, which is why only "not found" can be
trusted that far. For a request between the two reads it keeps that the item was listed
in the version it was read from (`Grouped`). `CatalogueMoves` shows what a step of the
cache can do to any lookup, `StaysFresh` and `StaysDecided` that it does not disturb the
requests, and one lemma per action does the rest.

`MeteringProofs` proves the two others from `Inv` and an invariant each. `OwnSummary`
needs that a summary under way which no other crossed has the array to itself
(`Gathering`), and keeps what is known of its lookups by the same `StaysFresh` as above.
`LimitExceededUncounted` proves `WithinLimit` from `LimitInv`: an access that ended is in
the table, on its way or never recorded, only requests that came are counted, and no
more than `MaxInFlight` are worked on. The request that passed the count last was counted
below the limit, so that the admitted are among those stored then, those on their way
then, those under way and those never recorded; every other step, that of the consumer
among them, admits nobody.

No property of this section is only model-checked.

## 9. Not modelled

* Liveness is not proved, nor anything with ENABLED: the prover does neither.
* Listing and reading operations of every component, and the administration of
  exchanges, queues and vhosts: one call each, no state.
* Callback subscriptions and the update of the data broker service: no handler calls
  them.
* Validators, query parameters, query mapping and the texts of metering queries: pure
  functions of one request. A model would repeat their conditions, and the tests of the
  repository cover them by examples.
* Elasticsearch queries, latest data and encryption: one call to an outside system.
* The catalogue service: two lookups for each search, without state. Reading it shows
  that a failed lookup is never handed on (`apiserver/service/CatalogueService.java:145`)
  and that a promise is completed twice when a group and its item both list filters
  (135 and 141); a model would be these two conditions.
* Eviction and expiry of the caches (5000 entries, a day), the precision of the issue
  time of a token, its signature, audience and endpoints.
* The HTTP layer, the configuration and deployment.
