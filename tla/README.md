# Verification of the Logix workflow core

Logix tracks a sea container from booking to return as a sequence of lifecycle
nodes, creates work for people at each node and moves messages between its
modules through a transactional outbox and an inbox. It is a modular monolith
(NestJS and Prisma over PostgreSQL, `src/apps/api`), driven by a web front end
and by a Temporal worker (`src/workers/business-worker`). The correctness of
the system lies in its interleavings: HTTP commands, scheduled drains and
retries run concurrently against rows guarded by versions, leases, unique
indexes and idempotency keys, in several transactions per command.

This directory holds the TLA+ models of that core, their TLC configurations
and the TLAPS proofs. `PROJECT.json` maps every definition to source lines.

## 1. Inventory

`LC` is `apps/api/src/modules/lifecycle-control`, `WE` is `.../work-execution`.

| Component | State it keeps | Operations | What is hard | What makes it correct |
|---|---|---|---|---|
| Outbox (`LC`) | `outbox_message`: state, attempts, lease, back-off | append, claim batch, deliver, mark published / failed, dead letter + notify, replay | overlapping drains of one identity, lapsed leases, crashes between steps, lost acks | published only if delivered; closed rows stay closed; every row is settled |
| Outbox scheduling (`LC`, worker) | none (Temporal schedule) | drain due tenants in rounds | a failing tenant, the tenant limit | every tenant with due rows is served |
| Inbox (`LC`) | `inbox_message` | receive, claim, consume + complete in one transaction, fail, replay | one lease owner for all workers, lapsed leases, duplicate receipt, replays under fresh ids | processed only together with its effect, every refusal has a reason |
| Post-departure start (`LC`) | departure event, flows of its containers, lifecycle version of the shipment | deliver the request, initialize, show progress | containers change between reading and writing, requests overtake one another | a shipment starts once and as a whole, no container starts twice |
| Lifecycle flow (`LC`) | flow (version, current node), nodes, node-event applications, container status | apply an event: save, apply to each node, advance status, create the next task | several transactions per event, stale reads between them, crashes between them | one node active, history never reopened, status monotone, tasks follow the flow |
| Applicability and blocks (`LC`) | node status, blocks | set applicability, block, resolve | check on a stale read, unguarded write | an active or completed node is not declared inapplicable |
| Date facts (`LC`) | `lifecycle_date_fact`, application state, lease | record, apply, replay pending | direct application racing a leased replay, unfenced outcome | an applied fact stays applied; pending facts get another chance |
| Work execution (`WE`) | node task, work order, outcome, fact application, command receipt | create task, claim, complete, reconcile a lifecycle fact | read-decide-write with version checks, retries, receipts written by a second transaction | one assignee, one outcome, a receipt says what happened |
| Shipment handoffs | shipment (relationship and lifecycle version), container links, handoff records, start requests | accept new, accept for an existing shipment, correct, complete pending facts | several sources raise one version, corrections race with the start | what is linked is what is requested; a started shipment is not rewritten |
| Shipment registry, other | containers, cargo allocations | create, allocate | versioned replace commands | allocation within quantity |
| Shipment / customs / compliance / inland lifecycle orchestration | none of their own | initialize a container, turn decisions into facts | several modules called in sequence | |
| Ocean operations, port visibility | legs, routes, provider evidence | replace route, ingest evidence | route replaced while events arrive | |
| Inland fulfillment | plans, instructions, unloading reports | replace, append | expected versions | |
| Charges | rules and computed deadlines | compute | pure date arithmetic | |
| Compliance, customs | profiles, cases | versioned commands | | |
| Product selection, market intelligence, sourcing | initiatives, signals, nominations | claim, decide, return, nominate | claim races, return to the signal | |
| Work session, task collaboration, ops assistant | sessions, comments, action candidates | open, activate, close, post, confirm | one active session; confirm twice | |
| Notification, document records | notifications, evidence | post, register, decide | idempotent registration | |
| Integration import, sample landing | import batches | parse, map, validate, commit | partial commit | |
| Master data, identity, AI governance, workbench network, workflow gateway | reference data, users, recommendations | look up, replace | | |
| Front end, contracts, AI service and worker, scripts | none | | outside the workflow core | |

Interactions: a command on the lifecycle flow writes an outbox row in its own
transaction; a drain delivers the row to work execution or to the
initialization of the post-departure flow; a work order completed by a person
is reported back through a lifecycle event; the inbox feeds the same lifecycle
commands from other systems; lifecycle commands create node tasks directly,
outside their own transaction, swallowing errors.

## 2. Plan

Done:

1. `Outbox` with the abstract `OutboxLedger` it implements, and
   `Outbox_proofs`.
2. `WorkExecution` (over `WorkStateRules`) with the abstract `WorkLedger` it
   implements, and `WorkExecution_proofs`; `FactDelivery`, which lets its
   deliveries come from outbox rows with a limited number of attempts, and
   `FactDelivery_proofs`.
3. `LifecycleFlow`: creation of the flow, events, status, task announcement,
   applicability and blocks, with `LifecycleFlow_proofs`.
4. `DateFacts`: recording and leased replay on top of a reduced flow, with
   `DateFacts_proofs`.
5. `PostDeparture`, which composes `ShipmentHandoff` (the registry) with
   `Inbox` and the initialization of the lifecycle, and implements the abstract
   `LifecycleStart`, with `PostDeparture_proofs`,
   `PostDepartureRefusals_proofs` and `PostDepartureSignal_proofs`.

To come, in this order:

6. `SystemDrain` (which tenant a scheduled drain serves).
7. Compensation and client operations, ocean routes, product initiatives with
   market signals, sourcing, work sessions; the deadlines of charges as
   operators against a reference definition.

Each new module gets one passing run that carries its properties, and a
violation run only for a disagreement with a document.

Every safety property and every refinement that a passing run checks is also a
theorem (section 8). The liveness properties `EventuallySettled`,
`DeadLetterIsAlerted` and `FactEventuallyCounted` are model-checked only: the
prover does not handle fairness and `ENABLED`. Theorems to come are those of the
modules to come.

## 3. Outbox

**Correspondence.** `state, attempts, owner, lease, backoff, cause, overdue`
are the columns of `outbox_message`; `phase, batch, current, seen, error` the
locals of one `PublishOutboxBatchService.execute`; `replays` the table
`outbox_replay_request`, `asked` a replay command between its lookup and its
insert. `delivered` and `alerted` record what the consumer and the notification
module have committed. Each action is one database statement or transaction
with the code up to the next one, so that everything the event loop or another
process can interleave is interleaved. One tenant and the owner modules that
may be published are taken as given: both are equality filters of every query.

**Time.** Clocks enter through three comparisons: a lease is live or lapsed, a
back-off waits or is due, a row is overdue or not. The actions `LeaseLapses`,
`BackoffElapses` and `TotalTimeout` let each pass at any moment.

**External.** `deliver` may commit at the consumer and return, fail before or
after committing with a retryable error, or fail with any other error.

**Bounds.** `MaxAborts` aborted drains, `MaxLapses` leases that lapse while the
drain that took them still works; an abandoned lease always lapses. Two rows and
two drains make every race of the claim, the fence and the batch order happen;
`MaxAttempts = 2` separates the first from the last attempt; the replay run has
three rows because a copy and a second copy are needed. `OutboxTwoOwners` has
three drains, two of the service identity and one of a person: with two, each
would be alone under its operator.

**Fairness.** `FairSpec` assumes that the schedule keeps starting drains and a
running drain makes its next step (weak fairness of `DrainStep`), and that time
passes. Work arriving, failing, timing out or being replayed is never forced.
The schedule is a Temporal schedule that the API ensures at start-up; that the
drain serves this tenant is the assumption `SystemDrain` is planned to examine.

| Run | Shows |
|---|---|
| `OutboxSharedOwner` | `TypeOK`; `PublishedWasDelivered`; `DeadLetterJustified`; `AttemptsAreBounded` (every claim beyond the policy's limit costs a crash or a lapsed lease); `NoSharedRowWithoutLapse`; `SettledIsFinal`; the refinement `ImplementsLedger`, for two drains of one operator |
| `OutboxTwoOwners` | `FenceStopsOthers`: a drain with an operator of its own records an outcome only under the last claim; `EventuallySettled`; `DeadLetterIsAlerted` |
| `OutboxReplay` | `ReplaysSound` for two racing replay commands |

What the design accepts, visible in the models and no violation of any
promise: a message whose acknowledgement is lost is delivered again, or
declared dead although it was delivered; a drain that dies between a dead
letter and its alert leaves the alert to nobody; drains that die before they
record an outcome spend attempts beyond the policy's limit, by no more than
`AttemptsAreBounded` says.

**Proofs** (`Outbox_proofs`). `TypeInvariant` by one step per action.
`PublishedOnlyAfterDelivery` and `DeadLettersAreJustified` need `VerdictInv`:
what a drain remembers (an ack, an error, an attempt count) is still true of
the row when it acts on it; in particular the remembered attempt count never
exceeds the row's, which is why a stale count cannot give up early.
`LeasesExclude` rests on `LeaseInv`: without a lapse under a working drain, a
row in a batch is publishing with a live lease and the count of that batch.
`FenceIsSound` assumes nothing of who runs the drains. It shows `FenceInv`: a
publishing row carries the owner of its last claim, so an owner that only one
drain has identifies the claim, and nobody settles a row that is not in its
batch. More than that the fence does not give: scheduled drains share the
service identity (`p6-outbox-system-drain.md:33`), so a drain whose lease lapsed
and was taken over by the next scheduled one passes the owner fence and settles
a row it no longer holds, where `p6-outbox-retry-dead-letter.md:25` says that it
does not write it. `OnlyLastClaimSettles` states this promise; TLC refutes it in
the configuration of `OutboxSharedOwner`. What remains true for such drains is
`SettledIsFinal` and the rest of that run.

`SettledStaysFinal` needs no more of the fence than the state: every action
that records an outcome asks for a row that is `publishing`, whoever its owner.
`ReplaysStaySound` uses it: a row that a replay command has looked up is still
a dead letter when the copy is inserted (`ReplayInv`). `AttemptsStayBounded`
counts: `HoldInv` says that the claims which drains still have in hand are
different attempts of a row, and that the latest one carries its owner;
`BudgetInv`, that every attempt but the one under way is paid for, by a failure
that the policy allows and no drain works on any more (`Spent`), by an aborted
drain or by an outrun lease. `KeepsTheLedger` takes the view `Entries` of the
rows and shows for each action that it is a step of `OutboxLedger` or leaves
the view unchanged; `VerdictInv` supplies the guard of publishing, `HoldInv`
that of the alert. `EventuallySettled` and `DeadLetterIsAlerted` are
model-checked only.

## 4. Work execution

**Correspondence.** `task` and `wo` are the rows of `node_task` and its
required `work_order` (state, assignee, version); `outcomes`, `applications`
and `receipts` the rows of `node_task_outcome`, `work_order_fact_application`
and `client_operation`. A `User` is one execution of
`ClaimWorkOrderService` or `CompleteWorkOrderService`, a `Worker` one delivery
to `ReconcileAppliedLifecycleFactService`; `pc`, `seenTask`, `seenWo`, `tries`
are their locals. Reading the task and reading the work order are two actions,
because they are two statements; deciding and writing are one, because
everything the write depends on is compared again inside its transaction. The
receipt of a refused request is a second transaction (`RecordRejection`).
`WorkStateRules` holds the transition table and the aggregation of work orders
into a task state.

**Left out.** States that no code of this commit writes (`blocked`, `failed`,
`reopened`, `cancelled`) appear only in the tables of `WorkStateRules`. Row
locks and serialization failures are below the granularity of a transaction:
they only add failures, and `DatabaseFails` stands for those.

**Bounds.** `MaxRetries` is the code's retry limit; `MaxTouches` repeated
announcements of a node, `MaxFailures` database errors and lost
acknowledgements. One work order is enough: nothing relates two of them but
the key of a receipt, and keys are shared by the requests of one order too.

**No liveness here.** A delivery that fails is repeated only as long as its
outbox row has attempts left, so progress is stated of `FactDelivery`, below.

| Run | Shows |
|---|---|
| `WorkRaces` | `TypeOK`; `ReceiptsAreTrue` (a receipt says what happened, one per key); `WorkIsFinal` (claims are not lost, completed work does not change); the refinement `ImplementsWorkLedger` |

The catch blocks of both commands also record technical failures as
`rejected`; the model keeps the reason apart, and no property forbids it.

`RejectionIsReconsidered` is stated in the module and does not hold: a fact that
reaches a draft work order is rejected, the decision is stored under its business key
(`reconcile-applied-lifecycle-fact.service.ts:67`), and every later delivery is
answered from it, also when the work order has become ready.
`p6-container-workbench-phase1.md:34` counts on a replay after the ready
command, while its line 44 asks that a repetition returns the recorded result;
the code does the second at the expense of the first. One worker and one fact
without people and failures (`NoCommand`) show it to TLC.

**Proofs** (`WorkExecution_proofs`), for any number of nodes, people, keys,
facts, requests and deliveries. One invariant, `Inv`, carries them: `RowsInv`
says what task and work order look like together, `ReadsInv` what a row that
was read is still worth. It is the current row as long as the versions agree,
and some of it lasts when they do not: a row that was assigned keeps its
assignee, completed stays completed (`TaskRead`, `WoRead`). A claim compares no
version, so `TasksFollow` needs more: the state of the task that a claim read
agrees with the work order only because the work order is still `ready` when
the claim commits. A delivery reads the task first, so the work order it sees
is at least as far as its task (`Behind`), and this is what keeps a fact
decided on two reads from writing a task that its work order does not have.
`WorkStaysFinal` follows row by row (`TaskGrows`, `WoGrows`),
`ReceiptsStayTrue` from that growth and from the unique key that every
transaction inserts. `OutcomesAreExplained` shows that completing a work order,
its outcome and its cause come into being in one step. `KeepsTheLedger` maps
work orders to items, assignees to holders and outcomes to causes. The proofs
need an assumption about the model's encoding of causes (`Work \notin Fact` in
`WorkAssumption`): no fact is the value that stands for a completion by a
person.

### Facts on their way from the outbox

`FactDelivery` composes the deliveries of `WorkExecution` with the outbox rows
they are made for: `Claim` takes a row and starts the delivery, `Record` writes
what became of it. `row`, `attempts` and `lapsed` are the columns of
`outbox_message`, `carried` the row a drain has in hand with the attempt count
its claim returned. `Verdict` is the classification of the answer in
`work-execution-outbox-delivery.ts` followed by `decideOutboxFailure`: a missing
task, a lost race and an outage are retried until the attempts are used up or
the total timeout has passed, which it may do at any time; a rejection and an
error nobody classifies are not. A dead letter keeps its reason in the model.
Batches, owners and back-offs are left to `Outbox`; drains share an identity
here, as the scheduled ones do, so the fence is the state of the row.

| Run | Shows |
|---|---|
| `FactDelivery` | `TaskFollowsWorkOrder`, `OutcomeExplained` and `ImplementsWorkLedger`, for a fact that races with a person and a repeated announcement; `OutcomesTellTheTruth`: a published row is a fact its work order has, a refused one is not, an exhausted one had all attempts; `FactEventuallyCounted`: a fact first delivered when its work order is receptive is counted, unless an unclassified error or the total timeout ends it |

**Fairness.** A drain takes its next step, the schedule keeps claiming what is
due, and an abandoned lease lapses (all weak). Nobody has to act on a work
order and nothing has to fail.

**Bounds.** `MaxRetries = 3` is the code's `MAX_VERSION_RETRIES`. A delivery is
answered with a lost race after three conflicts, and each conflict needs a
change of the rows between a read and a write; a person who claims and completes
and one repeated announcement (`MaxTouches = 1`) are the changes there are.
`MaxAttempts = 3` is enough for that and for one failure (`MaxFailures = 1`: an
outage, a drain that dies, an outcome that is not recorded, a lease that lapses
under a working drain). It is not enough for two: with `MaxFailures = 2` TLC
finds the row exhausted after two failed attempts and a third one that loses
three races, although its work order would have taken the fact. The property is
therefore about one failure, and the limit is a limit of the code.

**Proofs** (`FactDelivery_proofs`). `DeliveriesAreWork`: rows and leases
restrict deliveries and add none, so all theorems about `WorkExecution` hold of
`FactDelivery`. `OutcomesAreTrue`, for any number of nodes, facts and drains,
rests on `DeliveryInv`: what a drain was told is on record and stays on record
(`Told`), a fact has one decision, and the attempt a drain carries is one of
those counted. `FactEventuallyCounted` is model-checked only.

## 5. Lifecycle flow

**Correspondence.** `flow`, `node` and `blocks` are `flow_instance`,
`node_instance` and open `node_block` rows; `saved` and `application` are
`canonical_event` and `node_event_application`; `status` is the rank of
`container_record.currentStatus`; `announced` records the nodes whose task was
created as current. A `Caller` is one execution of
`ApplyLifecycleEventService`: `Begin` reads the container and saves the event,
`Load` ensures the flow, then per target `Look`, `Record` or `Apply`, and
`Reload`; `AdvanceStatus`, `EnsureForTask` and `Announce` end it. An `Operator`
is one execution of `SetNodeApplicabilityService` between its check and its
write. Blocks are decided inside their transaction and are one action.

**Abstractions.** `Begin` merges three statements, as its comment argues, and
`InitializeContainerFlow` the creation of the flow with that of the tasks, which
follow it one by one and of which nothing here is read. `ApplyConflict` is any
refusal of `applyEventToNode`, also when another execution of the event commits
between its two looks at the tables; what the caller makes of it is the subject
of `DateFacts`. `Crash` is a process that dies, a failed statement, or an ocean
route that was replaced under the event. Rows read with their children in
several statements can only make the version older than the nodes, and an older
version fails the comparison. The specialized guards ask other modules and
either apply or postpone: both are possible.

**History.** `overtaken` holds the nodes whose applicability changed after the
flow had reached them, which the unguarded write of an applicability decision
allows; `Regular` flows have none and were not handed over at departure. The
line-shaped properties are stated for regular flows; `NoNodeBeforeDeparture`,
below, is about the other kind.

**No liveness here.** An event that must wait is applied only if a date fact
replays it; that is the subject of `DateFacts`.

**Bounds.** Three nodes, the middle one optional, and three events, of which
one is for two nodes and two have times in the wrong order; two executions at
a time and three in all, with one crash, decision and block each.

| Run | Shows |
|---|---|
| `LifecycleRaces` | `TypeOK`; `OneOpenNode`; `TimesInOrder`; `CompletedByOneEvent`; `StatusIsExplained`; `AnnouncedWasReached`; `BlockedWhileOpen`; `HistorySealed` |
| `LifecycleStatus` | violation: two executions write the status in the wrong order |

`NoNodeBeforeDeparture` is stated in the module and does not hold. The
migration of the post-departure core lists as a check
(`20260923120000_add_post_departure_shipment_core/migration.sql:595`) that flows
handed over at departure contain only departure and later nodes. `ensureFlow`
adds the missing nodes of the whole sequence to any flow
(`prisma-lifecycle.repository.ts:123`), pending, and every later node then waits
for them. Two steps show it to TLC, with `Departure = 2` in the configuration of
`LifecycleStatus`: the handoff, and an initialization of the same container, as
a repeated import makes it. The first event applied to the flow does the same.

`TargetsJudgedIndependently` does not hold either: the loop
over the targets of an event throws at the first rejected one
(`apply-lifecycle-event.service.ts:334`), so that after a transshipment
`arrived` is rejected at ocean transit and never judged at destination arrival,
where `LIFECYCLE_NODE_CATALOG_V1.md:42` lets each node apply its own guards. One
caller with the events `transit_arrived` and `arrived` shows it to TLC.

**Proofs** (`LifecycleFlow_proofs`), for any number of nodes, events,
executions, decisions, blocks and crashes. `Core` is the common invariant:
`Reads` says that what an execution has read is what the flow still is if the
versions are equal, which every completion compares; `Made`, what exists once
the flow does. On top of it, each theorem has an invariant of its own.
`CompletedOnce`: `OneCause`, an applied event and its completed node come
together and stay. `StatusExplained`: `Evidence`, what an execution counts as
done was applied for its own event, so the unconditional write is at least true
of some event. `FlowIsALine` and `TimesStayInOrder`: `Line`, around the current
node of a regular flow. `HistoryStaysSealed` goes action by action.
`OnlyReachedIsAnnounced`: `Heard`, the node about to be announced was the next
one after a completed node in a flow read earlier, and a regular flow does not
take back what it reached. It needs that the last node always applies
(`Optional \subseteq Node \ {Last}` in `FlowAssumption`; the optional nodes of
`node-applicability.ts` are `transshipment` and `rail_transfer`): otherwise a
flow could end before it, and a later decision give its end a successor that
was never reached. `BlocksMatch`: `Turns`, a node is open only when the
applicable node before it is completed, hence a completion never wakes a node
that is open already; and `BlocksAreOpen` for flows that a decision overtook.

The proof of `BlocksMatch` failed at first, for a reason: without its
condition, `BlockedWhileOpen` does not hold. Node 2 is declared not applicable;
a request to make it applicable again passes its check; node 1 is completed,
which opens node 3, and node 3 is blocked; the request is written, since the
write compares nothing; an event for node 2 is applied and wakes node 3
although its block is open. This takes two decisions, one more than
`LifecycleRaces` has; TLC finds it when it is given two. That a
node with an open block is blocked is therefore stated for flows that no
decision overtook (`overtaken = {}`), like `OneOpenNode`: the write of a decision
raises the version without comparing it (`prisma-lifecycle.repository.ts:686`).
That a blocked node has an open block holds for every flow.

## 6. Date facts

**Correspondence.** `fact` holds the rows of `lifecycle_date_fact`: application
state, `is_current`, projection version, lease. `saved`, `doneBy`, `judged` and
`touches` reduce the flow to what an execution for one node reads and writes:
saved events, the fact behind each completed node, recorded rejections, and
version changes for other reasons. A `Caller` is a command: recording a fact
(`own` is set), or one that ends in a replay (a repeated delivery, records
written by another module, an applicability decision). A replay claims, and
then applies and finishes fact by fact; the call that recorded a fact writes
its outcome without a fence, then replays inside the same `try`, whose catch is
`Undo`. An owner is a `randomUUID` of one replay, a caller in the model: a
lease left by an earlier replay of the same caller is overwritten by the claim
before its owner is compared.

**Abstractions.** Facts that are not verified actual dates never reach the
flow. Events for one node only (`LifecycleFlow` has the others). The transaction
that completes a node is two steps, because its statements see what others have
committed in the meantime: `Admitted` ends with the lookup of the event's
application, `Apply` begins with the look at the node. `ready` stands for the
records that specialized guards read. A correction names its fact, or finds the
one with the same node and place (`PlaceOf`).

**Bounds.** Two nodes, a correction of the first fact, without which the second
would be too early; two commands at a time; one repetition, one missing record,
one other version change, and one of: crash, database error, lapsed lease.
Abandoned leases always lapse.

| Run | Shows |
|---|---|
| `FactRaces` | `TypeOK`; `AppliedIsDone`, `RejectionIsJustified`, `CompletedInOrder`: what is shown of a fact agrees with the flow; `OnlyOwnCallUndoes`; `WaitsForAReason` |
| `FactCrossing` | violation of `DoneIsNotRejected`: a fact that completed its node is shown as rejected |
| `FactReplay` | violation of `DueFactsAreReplayed`: a replay that completes a node does not look for what that made due |

`FactCrossing` has one fact and two executions of its event, the second from a
repeated delivery that replays. Both look for an application and find none; one
completes the node; the other finds it completed and answers
`LIFECYCLE_HISTORY_SEALED` (`prisma-lifecycle.repository.ts:500` and `:516`, READ
COMMITTED). This is taken for a refusal for good, and the call of the fact writes
`rejected` over whatever the replay wrote, where the contract has the same event
answered with the result it already has
(`CONTAINER_LIFECYCLE_STATE_MACHINE_CONTRACT_V1.md:348`). `crossed` records the
facts that completed their node while another execution of their event was
between the two reads, and `RejectionIsJustified` excuses these and no others.

`WaitsForAReason` says how far the promise "facts are replayed once their node
is reached" does hold without failures: a due fact still waits only if the last
claim found it leased, if its own call took it out of the lease of a replay, or
if the node before was completed by a replay.

**Proofs** (`DateFacts_proofs`), for any number of nodes, facts, commands and
troubles. `TypeInvariant` needs `Busy`: a command that applies a fact has one.
`NodesCompleteInOrder` rests on `ApplyCases` and `OnlyApplyCompletes`: a node is
completed only by an execution that read the flow as it still is, so what it
decided on holds when it writes; `Poised` says what an execution past its lookup
still knows, in particular that its node is not completed by its own fact unless
the fact is `crossed`. `AppliedFactsAreDone` and `RejectionsAreJustified` follow
from one invariant, `Outcomes`: what a command is about to write down is true
(`Truthful`), every recorded rejection is `Barred`, and every one shown is
`Refused`: barred, or of a fact that crossed itself. `Lasting` is the heart: a
completed node keeps its fact, and a barred fact stays barred, because an
execution of its event that was admitted earlier finds the flow changed. This is
why the missing fence is harmless to these properties.
`AppliedIsTakenBackByItsCall` follows from how a row can change its state at all
(`StateChanges`).

`DueFactsWaitForAReason` is about a state in which nothing runs, so its
invariant `WaitInv` says what is promised while something does: a due fact is
`Pledged` to a lease whose holder has not begun to give it up, or `Covered`: by
one of the lasting reasons, by a command that is about to claim (`Comes`), or
by one that works on the fact with a view of the flow that is still fresh
(`Attends`). Each action either keeps the reason a fact has or gives it a new
one: completing a node makes only facts of the next node due
(`CompletionMakesDue`), a command that decides on a fresh view does not postpone
a due fact (`AnswerReasons`), and a failure is the only way out.

Proving it showed that the reasons were not complete. With three commands and
three facts: a replay claims the facts of two nodes; the calls that recorded
these facts, which had found them too early, write `pending` by id and thereby
clear the leases (`prisma-lifecycle-date-fact.repository.ts:209`); the replay
completes the first node, finds its lease lost and ends; the fact for the second
node is due, without a lease, and nobody looks for it. `stripped` records the
facts that lost a lease in this way, and TLC confirms both the behaviour and the
repaired property with three commands.

## 7. Post-departure start

A source hands a departed shipment over to the registry; an outbox row carries
the request to start its lifecycle to the inbox; a worker of the inbox starts
it: one departure event and one flow per container. `PostDeparture` composes
the three parts, `ShipmentHandoff`, an outbox taken at its word
(`OutboxLedger`, which `Outbox` implements) and `Inbox`.

**Correspondence.** `shipment` and `link` are the rows of `shipment` and
`shipment_container_link`, `handoff` the accepted rows of
`shipment_handoff_record`, `outbox` the start messages of `outbox_message`,
`inbox` the rows of `inbox_message`, `flow` the `flow_instance` of a container
and `applied` the requests whose departure event exists. `correcting` holds
what a correction has read of its shipment before it writes, `task` the message
a worker of `ProcessInboxBatchService` has claimed and how far it has come:
past the reads of its transaction, or failed for a cause. Accepting a handoff,
completing pending facts, delivering, claiming and recording a failure are one
transaction each. A correction and an initialization are two steps, reads and
writes, because what they read is not locked.

**Abstractions.** The reads of `initialize` are one step: each check only
refuses, and the one that is compared again at the end, the relationship
version, is raised by whatever changes the containers; a check that fails later
than modelled is a refusal the model has as well. A claim takes one row,
because the rows of a batch are worked off one after the other, each under its
own lease. A submission that the preflight or the transaction refuses, and one
that repeats a stored handoff, change none of this state. Database errors may
be classified as retryable or not, since the classification goes by words in
their text. A retry may be due, and its attempts exhausted, at any time.

**Bounds.** Two shipments, two containers and two workers: one container less
and no correction could drop one; one shipment less and none could take a
container from another. At most three handoffs, two mishaps (a planned flow, a
replay, a lapsed lease, a drain or worker that dies, an error) and three of
both together: a shipment that is accepted, joined or corrected while a worker
is late, or whose message is refused, replayed and decided again. The sets are
symmetric and the run checks safety only.

**No liveness.** Nothing in the repository schedules the inbox: batches are
processed when a caller with the permission asks for it over HTTP. What can be
said without is `PendingIsUnderWay`: what is shown as pending has a message
that is still open.

| Run | Shows |
|---|---|
| `PostDeparture` | `TypeOK`; `RequestNamesActive` (what is linked is what the current request names); `ProcessedMeansStarted`; `RefusedForAReason`; `PendingIsUnderWay`; the refinement `ImplementsLifecycleStart` |
| `CorrectionRace` | violation of `FrozenScopeStaysLinked`: a correction that read before the start commits after it |

`CorrectionRace` is the one race that the relationship version does not
exclude: a correction reads the lifecycle version, 1, and commits under a
comparison of the relationship version only, which a start leaves alone. The
lifecycle version would have to be part of the guard
(`prisma-shipment-handoff-acceptance.repository.ts:187`). The opposite race, a
start that read before a correction, fails on the relationship version, and
this is what the refinement checks.

What the design accepts, visible in the model: a handoff without a departure
proof never starts, neither by a later source nor by completing the time; two
accepted handoffs of version 1 compete for the context of a start, and the one
the query does not return first becomes a dead letter; a source that joins
after the start raises the relationship version, its request is refused for
ever and the shipment is not `ready` again; a container that a correction
dropped cannot come back; the row of a replay hides an older one from the
projection, which is why `PendingIsUnderWay` leaves replays out.

**Proofs** (`PostDeparture_proofs`, `PostDepartureRefusals_proofs`,
`PostDepartureSignal_proofs`), for any shipments, containers, workers and
bounds. `Inv` collects `RegistryInv`, `QueueInv`, `LifecycleInv` and
`CountInv`. Its heart is `VersionsIdentify`: a relationship version of a
shipment belongs to one request. With `RequestNamesActive` it says that a
request at the current version names the containers the shipment has now, which
is what makes the comparison at the end of `initialize` sufficient and yields
`RequestsNameTheirContainers` and, with `FlowsAreAccountedFor` (a started
container belongs to a shipment that counts as started), the refinement
`StartsWhole`. `Sound` gives `ProcessedOnlyByStarting`: `completeInbox` commits
together with the departure event, whoever holds the lease.
`RefusalsHaveGrounds` needs more than the state it speaks of: a worker refuses
at one time and records the refusal at another. `Grounds` is therefore chosen
so that it never goes away (`RegisterGrounds`, `LifecycleGrounds`): in
particular a competing handoff disappears only in a correction, which raises
the relationship version. What a worker carries as `business_rejected` is
grounded when it is decided, and still is when it is written down.
`PendingMeansUnderWay` is about the projection, which looks at the latest
outbox row of a shipment only. `SignalInv` adds what connects that row with the
inbox: every request has a row and the rows of a shipment are in the order of
its relationship versions (`RowsFollowVersions`), so the latest row is that of
the current request; a published row was received and the message carries the
row's request (`RowsAreReceived`); and what a request started remains its own
(`StartsLast`), so that a processed message is not shown as pending.

## 8. What is proved and what is checked

| Module | Theorems state | TLC only |
|---|---|---|
| `Outbox` | all invariants, `SettledIsFinal`, `FenceStopsOthers`, `ImplementsLedger` | `EventuallySettled`, `DeadLetterIsAlerted` |
| `WorkExecution` | all invariants, `WorkIsFinal`, `ImplementsWorkLedger` | |
| `FactDelivery` | `OutcomesTellTheTruth` | `FactEventuallyCounted` |
| `LifecycleFlow` | all invariants, `HistorySealed` | |
| `DateFacts` | all invariants, `OnlyOwnCallUndoes` | |
| `PostDeparture` | all invariants, `ImplementsLifecycleStart` | |

A theorem holds for every value of the constants that the named assumption of
its module admits. The runs show the same
properties for the small instances of their configurations, and they are the
only evidence for liveness and for the behaviours that the violation runs
exhibit. Cardinalities and the least element of a set rest on the theorems of
the library (`FiniteSetTheorems`, `WellFoundedInduction`).

## 9. Not modelled

Presentation, authorization and input validation (they refuse a request before
any state changes), formatting, logging, read-only queries, migrations, seeds
and generators. Components with status `not_modelled` in `PROJECT.json` give
their reason; those of the plan are marked as planned.
