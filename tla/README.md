# A TLA+ model of rc_tobias

rc_tobias accepts "call this vendor URL" requests, stores them, and delivers
them over HTTP at least once, with retries. This directory holds TLA+ modules
for its delivery pipeline, its API, its start-up, its repository and the
generated database client under it, the TLC configurations that check them on
small instances, and TLAPS proofs of the main results for every instance.

## 1. The system

```
client --POST--> API --tx--> PostgreSQL: notifications, delivery_attempts, outbox_events
                                  ^  |
                 record (tx, CAS) |  | ClaimDue (FOR UPDATE SKIP LOCKED)
                                  |  v
vendor <--HTTP-- worker <--XREADGROUP/XAUTOCLAIM-- Redis stream <--XADD-- relay
```

| component | state | operations | interacts by |
|---|---|---|---|
| API (`internal/api`, `notification/service.go`) | none | create, get, list attempts, manual retry | transactions on the store |
| generated client (`ent/`) | a builder's mutation or query context | setters, Save, predicates, reads, deletes | SQL statements |
| store (`notification/ent_repository.go`, `ent/schema`) | three tables | CreateNotification, RetryFailedNotification, LoadForDelivery, MarkDelivering, RecordSuccess, RecordFailure | conditional updates (compare and set) |
| relay (`internal/outbox`, `cmd/relay`) | its claimed page | ClaimDue, Publish, MarkPublished, MarkFailed | row claims with a lock owner and a five-minute expiry |
| stream (`internal/stream`, Redis) | entries, pending list, idle times | XADD, XREADGROUP, XAUTOCLAIM, XACK | shared by relays and workers |
| worker (`cmd/worker`, `stream.Consumer`, `delivery.Processor`) | page, entry in hand, loaded Task, HTTP result | poll, load, mark, deliver, record, ack | stream and store |
| retry policy (`delivery/retry.go`) | none | Decide, delay | called by the worker |
| dispatcher (`delivery/http.go`), guard (`internal/netguard`) | kept connections | Deliver, address checks | vendor, DNS |
| validation (`notification/validation.go`) | none | ValidateCreateRequest | API and service |
| platform (`internal/platform`) | environment, advisory lock | LoadConfig, OpenDatabase, Migrate | start-up |

What is hard here: every arrow may be repeated, delayed or lost. A relay may be
slower than its lock, a worker slower than `minIdle`; XADD may succeed and
report an error; a commit may succeed and its answer be lost; processes die
between any two calls; Redis may forget its last second. The code's answer is a
handful of compare-and-set guards, and the properties ask whether those guards
suffice. `PROJECT.json` lists the hazards line by line.

Correctness, by component: the store never overwrites an outcome and its audit
trail is exact; relays neither lose nor needlessly repeat an event; workers
never deliver one notification concurrently, stay within `max_attempts`, never
resend an accepted notification, and acknowledge only finished work; everything
accepted is eventually settled; the backoff is the documented one; a repository
call is a transaction and returns; a builder saves and returns what was asked of
it; a client is told what happened; only public addresses are connected to;
processes start on a complete schema and read every entry.

## 2. Modules

| module | models | notes |
|---|---|---|
| `FaultBudget` | the failures around the processes | every failure step names its kind and spends one unit of `MaxFaults` |
| `NotificationStore` | tables and transactions | one operator per transaction; its guard is the WHERE clause |
| `DeliveryStream` | the Redis commands (external) as `internal/stream` uses them | entry states new, pending, acked, lost; `idle` is "30 s old" |
| `OutboxRelay` | `Relay.PublishDue` on `PostgresStore` | one action per call, so a claim may expire and change hands in between |
| `RetryPolicy` | `retry.go` | durations wrap at `DurationBits` |
| `RetrySchedule` | the policy over one notification's attempts | compared with a reference definition |
| `DeliveryWorker` | `cmd/worker`, `Consumer`, `Processor` | one action per call of `Process` |
| `NotifySystem` | all of it, with the API's two writes | properties, fairness |
| `NotificationLifecycle` | what the service promises about a notification | abstract: no tables, stream or processes |
| `NotifyImplements` | the refinement mapping from `NotifySystem` to it | a row in `delivering` is before or after its HTTP call |
| `EntSchema` | tables, columns, setters, defaults, checks of the generated code, per entity | data, read off `ent/` |
| `EntMutation` | what setters, adders, clears and resets do to a mutation, and the INSERT or UPDATE it becomes | used by the next three |
| `EntBuilder` | one create or update builder, any calls on any field | compared with the sequence of calls |
| `EntQuery` | query and delete builders: predicates, clones, reads that change the builder | three-valued SQL logic |
| `EntClient` | one use of the client: either of the two | |
| `RepositoryTx` | `EntRepository` statement by statement, built with `EntMutation` | row locks, READ COMMITTED, failing statements, lost commit answers |
| `AtomicStore` | the repository's promise: each call is one transaction of `NotificationStore` | abstract specification of `RepositoryTx` |
| `RequestValidation` | `ValidateCreateRequest` and the network guard's checks | pure operators |
| `RequestIntake` | the four API handlers, from call to answer | |
| `VendorConnection` | dialer, DNS, kept connections, net/http's resending | |
| `RequestToVendor` | the two together: what is stored is what is dialled | |
| `SchemaMigration` | LoadConfig, OpenDatabase, Migrate of one process among several | |
| `ConsumerGroup` | EnsureGroup and the read loop of the worker's goroutines | |
| `ServiceStart` | api, relay and worker starting together, up to the first reads | |
| `NotifySystem_proofs` | - | TLAPS, the composed service: types, deliveries, outbox |
| `NotifyWork_proofs` | - | TLAPS, the composed service: stream, workers, life cycle |
| `RepositoryTx_proofs` | - | TLAPS, the repository's statements |
| `RequestToVendor_proofs` | - | TLAPS, requests and connections |
| `ServiceStart_proofs` | - | TLAPS, start-up |
| `NatRecursion` | - | TLAPS, induction and recursion on natural numbers as lemmas to cite |
| `RetrySchedule_proofs` | - | TLAPS, the retry policy |
| `EntClient_proofs` | - | TLAPS, the generated client's builders |
| `MCNotifySystem`, `MCRetrySchedule`, `MCRequestToVendor` | - | instances for TLC |

`NotifySystem` extends `OutboxRelay` and `DeliveryWorker`, which both extend
`DeliveryStream`, which extends `NotificationStore` and `FaultBudget`. A
component's action speaks about the store, the stream and its own variables;
`NotifySystem` adds that the other component's variables stay as they are.
`RequestToVendor` and `ServiceStart` compose their two components the same way.

The store is modelled at two grains. `NotificationStore`, which `NotifySystem`
uses, has one action per transaction. `RepositoryTx` has one per SQL statement, and
is proved to implement `AtomicStore`, which has `NotificationStore`'s
transactions as its only steps: that is what makes the coarse grain sound.

### Correspondence with the code

* `notifications[n]`, `attempts[n]`, `outbox[e]` are the rows. Payload columns
  and stamps that no guard reads are left out. Instants are reduced to what the
  SQL asks of them: `due` is `scheduled_at <= NOW()`, `lock_expired` is
  `locked_at < NOW() - 5 minutes`, and `next_attempt_at` is the id of the event
  that is scheduled for that same instant. `EventClock` and `MessageClock` let
  the instants pass.
* A transaction is one action. PostgreSQL re-evaluates a conditional update's
  WHERE clause after waiting for a row lock, so the guard is evaluated at commit.
* `claimed[r]`/`relayEvent[r]` are the loop variables of `PublishDue`; `relayPc`
  is the call it is at. Rows left over when `PublishDue` returns early stay in
  `publishing`.
* `batch[w]`, `task[w]`, `result[w]`, `cursor[w]` are the locals of the
  consumer loop and of `Process`. `task` is read once and not refreshed, as in the
  code.
* A call with two unreliable outcomes has them all: XADD may succeed, fail, or
  succeed and report an error; a transaction may commit, conflict, fail, or
  commit and report an error; a read command may move entries into the pending
  list and lose its answer.
* Graceful shutdown cancels the context: to the code this is an error of the
  call under way followed by the end of the process, so it is covered by the error
  branches and `WorkerCrash`/`RelayCrash`.
* A process crash kills several goroutines; the model lets workers crash one at
  a time, in any number the budget allows.
* In `RepositoryTx` a session is a goroutine inside one call. Writes are staged
  until the commit; an UPDATE whose WHERE clause matches locks its row; the lock
  goes with commit or rollback. An error leads to the deferred rollback, a commit
  may be carried out and still report an error. The statements are what
  `EntMutation` makes of the builder chain in the code (`m ## Set(f, v) ## Clear(g)`
  is the chain of setters on the mutation `m`), so a chain that assigns a column
  twice would be refused there as PostgreSQL refuses it. `attemptRows` is kept by
  notification, which is how the table is read.
* In the ent modules a behaviour is about one field or column at a time: fields
  do not influence each other in the generated code except through the checks
  of a create builder, whose caller may set any of the other needed fields first
  (`Provide`). `history` is the log of the calls; `LastSet`, `Cleared`, `Added`
  and `LastWord` read off it what they ask for, without looking at the mutation.
* A predicate of `EntQuery` is the function from rows to truth values that its
  SQL stands for; `And`, `Or` and `Not` work row by row.
* `RequestValidation` keeps of a request what its checks tell apart: spellings of
  the method, form, scheme and host of the URL, the range of an address and
  whether it is IPv4 written as IPv6 or with a dot at its end, the size of the body
  and whether it is JSON, the kind of header names and values.
* `VendorConnection` looks at a host three times, as the code does: as it was
  accepted (`validation.go:43`), as net/http gives it to the dialer after its IDNA
  conversion (`ToASCII`, `netguard.go:44`), and as an address or a name for DNS
  (`Parses`, `netguard.go:48`). `Unsendable` is net/http's refusal of headers that
  `validation.go` accepts.
* A failing commit of `Schema.Create` (`Apply`) and a failing XGROUP CREATE
  (`EnsureGroup`) may or may not have taken effect.
* `SchemaMigration` keeps the advisory lock (`holder`) apart from the tables:
  Migrate's lock and `Schema.Create` use different connections.
* History variables, read by no action: `calls` (HTTP requests made),
  `accepted` (2xx received), `lost` (Redis forgot an unacknowledged entry),
  `lockLost` and `groupLost` (the lock's session broke, Redis lost the group).

## 3. Properties and runs

| property | meaning |
|---|---|
| `TypeOK` | all variables keep their types |
| `SingleDelivery` | at most one worker between MarkDelivering and the record of a notification, and then its row is `delivering` |
| `AttemptBudget` | never more than `max_attempts` attempts; an unfinished notification has one left |
| `AuditTrail` | the trail ends with the row's current attempts, numbered 1, 2, ... and agreeing with its status |
| `CallsAudited` | at most one HTTP call is missing from the trail, and only in status `delivering` |
| `NoLostWork` | unless Redis lost an entry, an unfinished notification's latest event is still in the outbox or unacknowledged in the stream |
| `AcceptedNeverResent` | after a 2xx was received the notification is never sent again |
| `OutcomesFinal` | only a manual retry replaces an outcome, and brings a new event; the trail only grows |
| `DuplicatesNeedFailures` | with prompt relays, an event is in the stream at most once plus once per failure |
| `EventuallySettled` | everything accepted ends `succeeded` or `failed` |
| `DelayIsCappedExponential`, `FailureDecided`, `BackoffGrows` | the retry policy against its reference |
| `PublishedReachedStream` | a row is `published` only when its event is in the stream, also when relays share a locker |
| `ImplementsLifecycle` | the service is an implementation of `NotificationLifecycle` |
| `ImplementsAtomicStore` | interleaved statements amount to whole transactions |
| `OneEventPerDelivery` | every delivery a notification is due has one outbox event |
| `AnswersTruthful`, `AnswersSayWhatHappened` | what the repository, and the API, answers is what was committed |
| `ColumnsCoherent`, `StatementsAccepted` | status, counters and instants of a row agree; no statement is malformed |
| `CallsReturn` | no repository call waits for a row lock for ever |
| `SavedAsAsked`, `MalformedOnlyIfContradictory`, `ChecksCoverTable` | what a create or update builder makes of any sequence of calls |
| `UnreadBuilderReturnsAsked`, `OnlyCountsExactly` | what a query builder returns after clones and other reads |
| `StoredInNormalForm` | what is stored passed every check of ValidateCreateRequest, in a form that the second validation leaves alone |
| `ConnectionsPublic` | only checked public addresses are dialled |
| `LayersAgree` | the guard refuses an accepted host without asking DNS only if net/http converted it into another one |
| `PlanIsCurrent`, `RunsOnFullSchema`, `StartsOrExits` | concurrent migrations: serialised, complete, and over some time |
| `NothingSkipped`, `EntriesRead` | the group steps over no entry, and every entry is handed out |
| `FinishedCallRecorded`, `BackoffRespected` | what comments and README say; true only in calm conditions |

Runs that pass:

* **notify_faults**: one notification (two attempts, one manual retry), one
  relay, two workers, one failure of a process, a database call or a Redis call
  anywhere, workers of any speed; also the refinement `ImplementsLifecycle`.
  Three events, three messages and pages of two let duplicates meet retries and a
  manual retry meet entries of the previous cycle. The vendor answers 200 or not at
  all: the other status codes lead to the same two decisions and are checked by
  `retry_schedule`, relays slower than their locks by `notify_relays`. About
  640 000 states.
* **notify_relays**: two notifications, two relays that are slower than their
  locks and share a host name, one failure, loss of a stream entry and foreign
  entries included: claims expire, change hands, are lost (`ErrLostClaim`) or
  finished by the wrong relay. Three messages let an event be published twice.
* **notify_settles**: liveness and duplicate bound with two relays, one worker,
  two failures among relay crashes, relay database errors and Redis errors.
  `MaxMessages` is `MaxEvents + MaxFaults`, so the bound never blocks a relay.
* **notify_calm**: two notifications, two workers, no failure, nobody slow.
  Everything settles, every call is recorded, no retry is early.
* **retry_schedule**: six policies (zero and negative fields included), statuses
  at every boundary, up to 20 attempts, with durations of 12 bits so that an
  unguarded doubling would overflow.
* **repository_tx**: two goroutines make five repository calls on one
  notification, interleaved statement by statement, one statement fails (a
  commit with or without effect). Five calls take a notification through creation,
  a failed attempt and two manual retries that race for it.
* **ent_client**: every create, update and update-one builder of the three
  entities with up to three calls on any field, on full, sparse and absent rows;
  every query builder with one clone and up to three calls, for every predicate
  of every column on a table of three rows, of which it selects none, one, two or
  all. Three calls are set,
  clear and set again; or clone, read and read again.
* **request_to_vendor**: two API calls (16 request forms, bodies at the limit and
  one byte above it, a host that IDNA turns into a loopback address, an address with a
  dot at its end and headers that cannot be sent among them; malformed and unknown
  ids), two failures at the API (database, lost answer, end of the process), two
  workers starting two deliveries, one change between three DNS answers. Two calls are
  a creation and its retry, or two creations; with two deliveries a connection that
  the first one keeps is used by the second after DNS has changed, or both resolve
  around the change. About four million states.
* **service_start**: api, relay and worker start together, three failures of any
  kind (crash, database, broken session, Redis error, loss of the group, death of
  the worker), two entries, two goroutines. Three failures let a lock be lost,
  another process interfere and the worker be restarted.

Runs that show a disagreement between the code and what is said of it:

* **worker_crash** violates `EventuallySettled`: a worker dies after
  MarkDelivering; every reclaim of its entry meets status `delivering`, which
  MarkDelivering refuses. The entry is never acknowledged, and the manual retry
  accepts only `failed`. README.md:97 says XAUTOCLAIM recovers it.
* **stale_task** violates `FinishedCallRecorded` without any failure: a worker
  loads the row, another one records a failed attempt, the first one's
  MarkDelivering succeeds (it compares the status only), its HTTP call is made, and
  its record is refused because the attempt number is old.
* **early_retry** violates `BackoffRespected`: after a failed XACK the entry is
  reclaimed while the row is `retrying`, and MarkDelivering ignores
  `next_attempt_at`.

### Disagreements seen without a run of their own

* `postgres_store.go:67` says the locker check "prevents a stale relay from
  overwriting a row that was reclaimed". Two relays on one host have the same
  locker, and one does finish the row that the other has claimed since.
  `notify_relays` shows that nothing worse comes of it.
* `README.md:99` names the loss of an unread stream entry as the only window
  that PostgreSQL does not cover. If Redis loses the consumer group, running
  workers get NOGROUP on every read until somebody restarts them
  (`cmd/worker/main.go:64` makes the group once). `EntriesRead` has this exception
  in its statement (`groupLost`).
* `database.go:30` says the advisory lock serializes migrations. It is held on one
  connection, and the schema is changed on others: when the first one breaks, two
  processes may be about to create the same tables. `PlanIsCurrent` has this
  exception (`lockLost`); `RunsOnFullSchema`, without it, says that the loser only
  fails to start.

### What acceptance does not rule out

The model has three kinds of request that `ValidateCreateRequest` accepts and that
fare differently on the way out. None leads to a connection that was not checked.

* Header values with control characters other than CR and LF, and header names with
  non-ASCII letters (`validation.go:68`, `validation.go:81`), are accepted and stored;
  net/http refuses to send them, so every attempt fails (`Unsendable`).
  `StoredInNormalForm` therefore speaks of the normal form only.
* A name that net/http's IDNA conversion turns into a blocked host, such as an address
  in fullwidth digits, is accepted as a name and refused by the dialer
  (`netguard.go:44`) at every attempt: the exception in `LayersAgree`.
* A public address with a dot at its end is accepted as an address (`netguard.go:23`
  trims the dot) but does not parse at `netguard.go:48`, and is looked up in DNS; what
  DNS answers is checked like any other answer.

### Fairness

`FairSpec` of `NotifySystem` assumes weak fairness of every relay's and worker's own steps (both
are endless poll loops whose calls all have timeouts) and of the clock. Nothing is
assumed of clients, of failures, or of vendors' answers. The liveness runs set
`PromptRelays` and `PromptWorkers`: a claim expires, or an entry becomes idle,
only when nobody is working on it. `worker_crash` makes the same assumptions, so
its counterexample is not a matter of slowness.

`RepositoryTx!FairSpec` assumes that a session inside a call goes on, and that
PostgreSQL grants a free row lock to a waiting session. `ServiceStart!FairSpec`
assumes that a started process and its goroutines run on and that a free advisory
lock is granted. Nothing is assumed of callers, relays' appends, failures or
restarts.

### Bounds

`MaxEvents`, `MaxMessages`, `MaxManualRetries` and `MaxFaults` bound what would
otherwise grow. At the bound of events or messages the inserting step is disabled;
this can only hide behaviours from safety runs, and the liveness runs are given
enough of both. `MaxCalls`, `MaxErrors`, `MaxSetterCalls`, `MaxQueryCalls`,
`MaxEntries`, `MaxChanges` and `MaxDeliveries` only end what the environment does.
The proofs hold for all values.

## 4. Proofs

`NotifySystem_proofs` proves `Spec => []TypeOK`. The inductive invariant
`TypeInv` adds that ids lead somewhere: events that exist carry a notification
(`EventsHaveRows`), messages that parse carry one, a relay's claimed events exist,
and a worker past the load holds a message and a notification.

Its second part first reduces every step to its effect on rows, trail and
workers (`StepEffect`), then proves

* `SingleDelivery` and `AcceptedNeverResent` with the invariant `DeliveryInv`: a
  worker that is recording an accepted notification is recording that 2xx, so the
  record can only make it `succeeded` or leave it `delivering`;
* `CallsAudited` with `CallStages`: as many calls as rows before the request, one
  more after it;
* `AuditTrail`, inductive by itself.

Its third part reduces every step to its effect on the outbox: it inserts
one event, or none. Its invariant `EventInv` says that events are inserted in
order, belong to existing notifications, and that every notification has a latest
one. With it every step is shown to satisfy `OutcomesFinal`.

`NotifyWork_proofs` reduces every step to its effect on the stream (`StreamEffect`)
and on what a worker has in hand (`HandsEffect`), and proves

* `AttemptBudget` with `BudgetInv`: a Task's attempt number may be stale, its limit
  cannot be, and the number is compared when the result is recorded. That the
  notification of a loaded entry exists comes from `MessageInv` (entries carry an
  event and that event's notification);
* `NoLostWork` with `WorkInv`. An event is *settled* when its notification is
  finished or has a later event, which stays true once it is. Every published
  event, and every event a relay is about to mark published, is settled or has an
  unacknowledged entry; every entry a worker is about to acknowledge is of a
  settled event. So an acknowledgement never takes away work that is still needed.

The last part of `NotifyWork_proofs` proves that the service implements
`NotificationLifecycle` (`ImplementsLifecycle`): the initial state maps to the
initial state, and every step moves one notification along its life or moves
none. The invariant is that of the proofs above with `ResultInv`, which ties
the result a worker is about to record to what the vendor answered: without it a
recorded failure could not be told from a recorded success in the abstract state.

Two more results of `NotifyWork_proofs` are about the relays:

* `PublishedReachedStream` with `ReachInv`: a relay that is about to mark a row
  published has just appended an entry for that very row, and entries keep their
  event. This holds whoever owns the claim by then, which is why relays that share
  a locker do no harm;
* `DuplicatesNeedFailures` with `OnceInv`: with prompt relays the rows in hand of
  different relays differ and are still claimed (`ClaimsHeld`), and the entries of
  an event are at most the failures so far, plus one once it is past its XADD
  (`SentCounted`). A second XADD needs a claim that was given up, hence a failure.

`RepositoryTx_proofs` has two halves. The first computes what the builder chains
write. `Mutation(m, e, o, V, C)` says of a mutation what values and clear marks it
holds; one lemma per builder method, then one per chain (`RetryDescribed`,
`SuccessDescribed`, `MarkDescribed`, `FailureDescribed`, `NotificationInserted`,
`EventInserted`, `AttemptInserted`), show that ent's checks and the tables'
constraints accept the statement, and which row it makes (`RowBy`). The second half is
about sessions. `TxInv` says that

* the rows of the table fit their constraints and are coherent (`RowsStored`);
* a session inside a call has staged exactly what its statements so far made
  (`StagedBy`), of the row *as it still is*: a locked row still matches the WHERE
  clause, the row of a creation is still missing, a retry that has seen its row will
  find it again (`InCall`);
* a row is locked only by a session that has staged its update (`LocksHeld`), and an
  id is being created by one session only (`OneCreator`);
* a session that has returned was told the truth (`Told`).

From it every step is shown to change no table, or to make the whole transaction
of one call under its guard (`Transaction`, `TxNext`). Proved with that:

* `AnswersTruthful`, `ColumnsCoherent`, `StatementsAccepted`, which `TxInv` contains;
* `OneEventPerDelivery`, by how a transaction changes the two cardinalities. A
  notification without a row must have no unsuccessful attempts (`NoOrphans`);
* the refinement `ImplementsAtomicStore`: each `Transaction` is, under the
  mapping, the step of `AtomicStore` with the same guard. The mapped event id must be
  within `1..MaxCalls`, which `Room` provides: events and sessions that may still
  commit are together no more than the calls made.

`RequestToVendor_proofs` proves `AnswersSayWhatHappened` and `StoredInNormalForm`
with `IntakeInv` (a handler past its binding holds a normalised request, whose second
validation changes nothing; a handler that knows what happened to its row says so),
and `ConnectionsPublic` and `LayersAgree` with `ConnInv` (an address in a
delivery past its resolution, and in a kept connection, was checked; a host that is
delivered to was stored, and so passed `RejectBlockedHost` when it was accepted). For
every function `IDNA` from hosts to hosts: if it leaves a host alone, the dialer applies the
same rule to the same host, and `ParsedIsPublic` says that what then parses as an
address is public. What a dotted address is looked up as, or a converted host, is
checked again by the guard.

`ServiceStart_proofs` proves `PlanIsCurrent` and `RunsOnFullSchema` with `StartInv`
(only the holder of the lock migrates, unless its session broke; a plan and the
existing tables are together all tables), and `NothingSkipped` with `GroupInv`.

`NatRecursion` derives what the proofs below need of the natural numbers from the
least-number principle, in the form of sets: a set that holds 0 and the successor
of each of its members holds every natural number (`Induction`); a bounded,
nonempty set has a greatest member (`GreatestNatural`); a function defined by
recursion exists and satisfies its equation (`Recursion`). A property is proved for
all numbers by applying `Induction` to the set of the numbers that have it.

`RetrySchedule_proofs` proves the three properties of the retry policy. `Doubled` is
the loop variable of `delay` after i doublings, with Go's wrap-around. By induction on
i, as long as no doubling has reached the cap it is exactly base * 2^i and below half
of the range, so the next doubling does not wrap; from there on the reference is the
cap as well (`DelayIsCappedExponential`), which is monotone (`BackoffGrows`, with the
invariant that the delay waited was that of the attempt before). The boundary is tight:
twice the base must be below half of the range. With base and cap both at a quarter of
the range the first doubling of `retry.go:49` gives a negative number, and the cap is
not applied; `ScheduleAssumption` excludes this, and Go's 64 bits keep the service's
2 s and 5 min far from it.

`EntClient_proofs` proves all five properties of the generated client.

* Queries: `QueryInv` says of every kept builder that its context is its own and holds
  what its calls asked for, until a read ran on it. `UnreadBuilderReturnsAsked` and
  `OnlyCountsExactly` follow for any number of builders and calls; the latter needs
  that the limit of two, which Only sets, tells one row from several.
* Create and update builders: `Building` says that until Save the mutation
  *reflects* the log of the calls (`Reflects`): a field has a value exactly when the log
  has a last setter for it, and then that setter's argument; a clear mark exactly when
  the log has a clear in force; an amount exactly when something was added since, and then
  the sum. Lemmas on the log say where each position moves when one more call is made
  (`ResetCall`, `ClearCall`, `WholeCall`, `SetCall`, `AddCall`, `IdleCall`), lemmas on
  the mutation what each method does to its entries (`Methods`, `CalledElsewhere`);
  `ReflectsCalled` joins the two. The parts of the generated code are shown to agree
  with each other for each entity (`AgreeKinds`, `AgreeCreate`, `AgreeUpdate`): what has
  a Clear method is what may be NULL, what is required is what may not, validators allow
  what the enums do, update statements write every column but `created_at`. At Save,
  `SavedAsAsked` is then a comparison of entries, `MalformedOnlyIfContradictory` says
  that two entries of one field are left exactly when its calls contradict each other
  (`TwiceIs`), and `ChecksCoverTable` that everything written passed a check
  (`CreateFits`, `UpdateFits`): no NULL where the table has NOT NULL, and no status
  outside the enum, which the table itself (a varchar column) would take.

Assumptions used: those named `...Assumption` next to the constants.

* Bounds are natural numbers, `max_attempts` and attempt numbers lie in validation's
  range up to 20, every relay has a locker id, there are finitely many sessions.
* NULL, nil and "no holder" are none of the values they stand beside
  (`NullAssumption`, `NilAssumption`, `HolderAssumption`, `SettersAssumption`).
* A retry policy's base is at most its cap, and twice either fits a duration
  (`ScheduleAssumption`).
* The requests that are tried have the shape of a decoded request, and DNS answers
  are sequences of addresses (`IntakeAssumption`, `ConnectionAssumption`); IDNA makes
  hosts of names (`IDNAAssumption`); the names
  that requests use are known to DNS, with some answer or none (`NamesAssumption`).

TLC evaluates them in every run.

Only model-checked: liveness (`EventuallySettled`, `CallsReturn`, `StartsOrExits`,
`EntriesRead`), which the prover does not do; and `FinishedCallRecorded` and
`BackoffRespected`, which are not true of the service in general: `notify_calm` checks
them without failures and with prompt workers, and a violating run shows each fail
otherwise. Every other property that a passing run checks is also proved.

## 5. Plan

Done: the pipeline with its safety, liveness and abstract life cycle, the retry
policy, the repository's statements and their refinement, the generated client,
requests and connections, start-up, and the proofs above. What could follow:

1. `FinishedCallRecorded` and `BackoffRespected` for calm conditions as theorems, with
   the promptness of workers as a hypothesis;
2. bulk creation and the `Old` values of the generated client, once the service uses
   them.

## 6. Not modelled

* Of the generated client: bulk creation, Count, grouping and aggregation, hooks,
  interceptors and the `Old` values of mutations. No code of the service uses them.
  A text predicate stands for the set of values it matches.
* `healthz` and `readyz`, which keep no state; JSON, status texts, logging,
  container set-up.
* An HTTP proxy taken from the environment of the worker, which would be dialled in
  place of the vendor.
* How often net/http sends one request on the wire: `VendorConnection` has the
  resending, but `calls` in `NotifySystem` counts calls of `Deliver`.
* A refused `pg_advisory_unlock` on a session that lives on: PostgreSQL refuses it
  only for a lock the session does not have.
* Clocks that differ between hosts: they order a notification's attempts in
  `ListAttempts` and nothing else.
* The growth of the stream, which has no MAXLEN: nothing in the code depends on it.
