# golem-core-python in TLA+

Specifications of golem-core-python, the model-checking runs that exercise them
and the theorems proved about them. Run a model with
`tlc -config <X>.cfg <X>` and check proofs with `tlapm <module>.tla`;
`PROJECT.json` lists runs, theorems, hazards, mutants and the source lines of
every definition.

golem-core-python is a requestor-side library: it talks to a local `yagna`
daemon over HTTP, negotiates with providers and runs work on them. Everything
runs in one asyncio event loop, so a piece of code is atomic between two
`await`s that really suspend, and every suspension is a place where any other
task may run. That is the granularity of all the modules: an action is what one
task does between two suspension points. A request to yagna is one step where
it is executed and another where its answer comes, wherever the difference matters.

## 1. Inventory

Paths are relative to `src/golem/`. "State" is what survives a suspension.

| Component | State | Operations | Interacts with | Hard part | What makes it correct |
|---|---|---|---|---|---|
| Event bus (`event_bus/`) | dict type -> list of callbacks, event queue, loop task | `start stop on on_once off emit`, the loop | every resource emits; managers and collectors listen | both containers are iterated across awaits; failing and self-removing callbacks; stop racing emit | each event reaches each registered listener once, in order; stop drains |
| Activity and pooling batch (`resources/activity`, `resources/pooling_batch`, `utils/low/event_collector.py`) | batch list, running counter, events, a future per command, collector task | `execute_script execute_commands destroy wait`, the poll loop | yagna, event bus, work functions | polls interleave with waits, timeouts, cancelled futures; API errors end the collector | each batch finishes once; done means all commands ran; futures and events agree; counter exact |
| Commands of a batch (`resources/activity/commands.py`) | published sources, files copied | `before`, `execute`, `after` | storage | one of several hooks raises | files are there while the batch needs them, and given back |
| Activity pool (`managers/activity/`) | pool queue, background loop | `get_activity`, release, prepare, stop | agreement manager, work managers, hooks | gathers with failures; stop waits for activities in use | no activity is leaked or given to two works; stop destroys all |
| Concurrent works (`managers/work/`) | queue, results, plugins | `do_work`, `do_work_list`, retry, redundancy | activity pool | a cancelled or failing work between acquire and release | one result per work; every acquired activity is given back |
| Sequential works and single-use activities (`managers/work/sequential.py`, `managers/activity/single_use.py`) | results, an activity at a time | `do_work_list`, `get_activity` | agreement manager, hooks | faults between creating and handing over; retries around retries | a fault leaves at most one activity behind |
| Agreement manager (`managers/agreement/`, `resources/agreement/`) | agreements, their activities | `get_agreement`, `close_all`, `terminate` | proposal manager, event bus | termination through a callback; retries that give up | what is handed out is terminated |
| Payment manager (`managers/payment/`) | allocation, open agreements, an event | handlers, `stop` | event bus, invoices, debit notes | handlers suspend between check and removal; stop's timeout against late invoices | stop waits for the invoices of all agreements, then releases |
| Payment arithmetic (`resources/debit_note`, `resources/invoice`, `resources/utils/payment.py`) | none | `validate_and_accept` | payment manager | documents are judged by when they were heard of | an honest provider is paid |
| Demand managers (`managers/demand/`) | demands, queue of proposals, feed tasks | `get_initial_proposal`, refresh, `stop` | demand resource | several demands race into one buffer; expiry against refresh; stop inside a request | no demand leaks silently; each proposal goes to one caller |
| Proposal buffer (`managers/proposal/plugins/buffer.py`, `utils/asyncio/`) | items, workers, semaphore, condition, stored exception | `get_proposal`, `start`, `stop`, expiry | demand manager | expiry against get; charges of the semaphore; worker failures | no proposal lost or handed out twice; bounds kept |
| Scoring buffer and scorers (`managers/proposal/plugins/scoring/`) | two buffers, the scoring loop | `get_proposal`, the loop, restart | proposal buffer | proposals are in no buffer while they are scored | the best is handed out; bounds kept |
| Negotiation (`managers/proposal`, `plugins/negotiating`) | per call | `get_draft_proposal`, negotiate, reject | demand and proposals | answers before `respond()` returns | terms both agreed on; bargaining converges |
| Resource tree and collectors (`resources/`) | one object per id, parents, children, events of an object | lookups, `respond`, collectors, `child_aiter` | yagna, event bus | answers and lookups in any order; collectors interrupted | no event lost or doubled |
| Golem node (`node/`) | resources, autoclose list, bus, API clients | `start`, `aclose`, factories, `get_all` | everything | late answers, failing closes, restart | what was created is closed |
| Networks (`resources/network`, `managers/network`) | addresses in use, lock | `create_node`, `add_requestor_ip`, `get_node_id` | event bus, node | handlers of several agreements | no address twice |
| Storage (`utils/storage/gftp`) | published files with counts, temporary files, a server, a lock | `upload_*`, `release_source`, `new_destination`, `__aexit__` | gftp server process | failing requests between count and removal | a URL lives as long as a source of it |
| Pipeline (`pipeline/`) | chain of async generators with queues and workers | `Chain Map Buffer Zip Sort Limit` | resources | stop and result in one turn of the loop | no element lost, no permit lost |
| Task api (`examples/task_api_draft`) | task stream, idle activities, votes | `execute_tasks`, redundance | pipeline, payments | repeats, failures and shared providers | a task has one result, backed by votes |
| Payloads, demand builder (`payload/`) | properties and constraints | `add`, serialize, parse | demands | groups, falsy values, times | the text means what the payload says |
| Waiter (`utils/asyncio/waiter.py`) | waiting futures | `wait_for`, `notify` | unused | cancellation of a notified task | no wakeup lost |
| Default payment handler, yagna access, CLI, logging | | | | | not modelled (section 8) |

The yagna REST API and the clients generated for it are outside of the
repository; they appear as nondeterministic results of the awaits that call
them.

## 2. Plan

The order in which modules were written is that of their importance for a
program built on the library: the event bus everything reports through; batches
and the abstract `BatchLife` they implement; the activity pool with the work
manager composed on it; agreements and payments; the proposal buffer; storage;
negotiation with the tree of proposals; the demand managers; the node composed
with its networks; the pipeline; then the smaller components: payment arithmetic,
scoring, the task api example, commands, demand building, collectors, waiter,
sequential works. All of these exist. What is left:

* an abstract bounded buffer that `ProposalBuffer` and `ScoringBuffer` implement;
* `refresh_nodes` and explicit addresses in `Network`.

## 3. Modules

Each component's module holds state, actions, specification and properties; its
`MC` module the small instances. A `Proofs` module holds the theorems of one
component or of several (`ProposalProofs` also has `Waiter`, `GftpProofs`
`Commands`, `ActivityPoolProofs` `TaskApi`, `EventBusProofs` `ResourceTree`,
`PoolingBatchProofs` `ScoringBuffer`, `WorkProofs` and `MarketProofs` what
their names say); modules that are proved about together have no name in common, hence `NegotiationSpec`, `PipeSpec` and `DemandSpec` beside `Spec`.
Operators under the heading "Mutants" are plausible bugs of one definition; they are in
no next-state relation and show that a property depends on it.

### EventBus (`event_bus/in_memory/event_bus.py`)

State: the dict `_callbacks` as its keys in insertion order (`keys`) and the
list of every key (`infos`); `_event_queue` and its count of unfinished tasks;
where the loop task is (`loop`) with the two iterators it holds, the one over
the dict (`dictSize`, `keyPos`) and the one over a list (`listPos`), and
`callback_infos_to_remove`; the task in `stop()` (`stopper`).

Python iterators are modelled by what they do: an iterator over a list is an
index that a removal does not move, an iterator over a dict raises when the
dict has grown since it began. The loop task gives the thread up only in
`queue.get()` and in `await callback(event)`; `Free` keeps everybody else from
running in between. Actions: `Start`, `On` (both `on` and `on_once`), `Off`,
`Emit`; the loop's `Take`, `NextKey`, `DictChanged`, `NextCallback`,
`CallbackReturns`, `CallbackReturnsRemoving`, `CallbackRaises`, `ListDone`,
`RemoveOnce`, `RemoveMissing`, `RemoveDone`, `TaskDone`, `Die`; and `StopCall`,
`StopCancel`, `CancelIdle`, `CancelCallback`.

### BatchLife and PoolingBatch (`resources/pooling_batch/`, `resources/activity/`, `utils/low/event_collector.py`)

`BatchLife` is the promise: a batch begins, reports more results, ends; done is
final; the activity is idle exactly when no batch runs. `PoolingBatch` is the
code: `execute_script` and `execute_commands` (`Execute`, `ExecuteRaises`,
`Made`), one collector for each batch (`Poll`, `PollRaises`, `GsbError`,
`SleepOver`), the futures of a script and those who cancel them
(`CancelFuture`), `wait()` with its timeout, `execute_after`, and the
environment: the provider that runs commands (`Run`), activities that are lost,
the bus and the node that end. A poll returns any number of the results so far,
so that answers are repeated and partial. `SetFinished` is everything
`set_finished` does: the event, the counter of running batches, the bus event
that raises when the bus is stopped. `LifeStatus` and `Life` are the refinement
mapping; `LifeSpec` states the implementation.

### ActivityPool (`managers/activity/pool.py`, `managers/activity/mixins.py`, `managers/work/mixins.py`)

State: the loop of `_background_loop`, `_pool_current_size`, `_pool`, the tasks
of its gathers (`preparing`, `act`, `releasing`, `stops`), the task in `stop()`
and the tasks that use activities. A gather ends with all its tasks or with the
first that raises; its other tasks go on. Users take an activity, finish or are
cancelled with it, and a work may call `terminate()`, which destroys the
context early and puts the activity back.

### WorkManager (`managers/work/concurrent.py`, `plugins.py`)

Composed with `ActivityPool` (`Pool == INSTANCE ActivityPool`): the users of the
pool are the copies that a worker runs of one work. `DoWorkList`, `TakeWork`,
`GetActivity`, `AttemptEnds`, `TryAgain` (the retry plugin), `Collect` (the
redundancy plugin takes the first copy that ends and cancels the others),
`WorkerDies` (`CancelledError` out of a work), `ReturnResults` (`_queue.join()`), and
every step of the pool's manager.

### AgreementPayment (`managers/agreement/default.py`, `managers/payment/default.py`, `resources/agreement/`)

The two managers and the agreements they follow, connected by a queue of bus
events: an event stays at the head while its handler is suspended. State: each
agreement for yagna and for the library, its activity, its invoice and debit
note, the tasks in `get_agreement()`, `_agreements` of both managers,
`_no_agreements_event`, and each `close_all()` that runs, of which there may be
several for one agreement (a handler's, the agreement manager's, the payment
manager's). yagna and the providers are external: they approve, reject,
terminate, and send an invoice or not. The managers stop in the order of the
`async with` statements of the examples: activity manager, agreement manager,
payment manager.

### ProposalBuffer (`managers/proposal/plugins/buffer.py`, `utils/asyncio/buffer.py`, `utils/asyncio/semaphore.py`)

One module for the four nested buffers, because one condition and one lock
serve all of them. State: the items, the lock and the getters waiting to be
notified in their order, the stored exception, the getters and workers with
what they carry, the semaphore's `_value` and `_pending`, `_is_started` and
`_worker_tasks`, the calls of `stop()` that are under way and those that failed workers
schedule. Calls of `stop()` may overlap: each cancels the workers that are in the list when it
begins (`Stop`), and empties the list when it ends (`StopEnd`), so that workers of a
`start()` in between go on without anybody knowing them. `fate` is where each proposal
is: on the market, fetched, buffered (without or with its timer), expired,
rejected, taken, lost. A getter takes the first proposal and keeps the lock
while its timer is cancelled (`Locked`, `Return`); a worker keeps it while the
expiration of its proposal is computed (`Put`, `TimerSet`); `Request` is
`_request_proposals()` with the semaphore's `increase()`, `Acquire` its
`acquire()` and `release()`. Those who wait for the lock get it in any order,
which includes asyncio's. A notification that a cancelled getter had is lost,
as in Python before 3.13. The buffer is the one with an expiration function. `Overlap` is the time in which a proposal is both
stored and pending; `doubled` remembers that something was requested then.

### Gftp (`utils/storage/gftp/provider.py`)

State: `_published_sources` (per URL a count and its temporary files), `_lock`,
`_process` as the task that started the server, the URLs each server exposes,
the temporary files on disk, and the call each task is in. `UploadFile`,
`UploadStream` (and `StreamRaises`), `Release`, `NewDestination`, `Enter`,
`Exit`, `ExitEnd`, and `Step`: start of the server, the lock, the requests
`publish`, `close` and `receive`, each of which may raise with or without having
been executed. `spilled` remembers what a failed call touched, so that the property
can tell what the code could not give back.

### Negotiation (`managers/proposal`, `resources/proposal`, `resources/demand`)

The `k`-th proposal of the exchange with provider `p` is `<<p, k>>`. Three parts
in one state: yagna (proposals made, events not collected yet, rejections),
the tree of the node (objects, parents, children, the end of a proposal) with the
collector that fills it, and the callers of `get_draft_proposal()`, each at a
place in the chain of plugins. A plugin is a recursive call in the code; here
`level` counts how deep a call is. The two negotiators are terms that move toward
the offer by `Factor` percent and the choice of a payment platform.
`Match`, `Answer`, `Collect`, `Close` are yagna and the collector; `Step` is a
caller: the filters, the response, its return or failure, the next child, the
rejection, with `AssertionError` and `ProposalRejected` where the tree raises them.

### DemandManagers (`managers/demand/`, `utils/asyncio/queue.py`)

The background loops of `RefreshingDemandManager` and `SingleUseDemandManager`
with the demands they leave at yagna (`Subscribe`, `SubscribeSingle`, `GotData`,
`Expire`, `Clean`, `LoopRaises`, `Start`, `StopManager`), the proposals of a demand
(`Match`, `Consume`, `ChildrenEnd`), `ErrorReportingQueue` with its stored
exception, and the aggregator with the feed tasks of the managers, its callers
(`GetInitialProposal`, `Woken`) and its `stop()`. `taskMap` is `_task_map`: it knows one feed
task of a manager, while more may run, since `StopEnds` clears it of tasks begun meanwhile and a task
that ends deletes the entry whose ever it is (`FeedEnds`). A `get()` of the queue is where its inner task is:
it takes an item (`FeedTakes`, `FeedReturns`), or the exception was seen first and
the inner task is being cancelled (`FeedFails`), during which it may take an item that is dropped
(`FeedDrops`, then `FeedRaises`); if the feed task is cancelled just then the inner one may be left
waiting for good (`orphan`).

### NodeLife, Network and NodeNetwork (`node/node.py`, `resources/base.py`, `resources/network`, `managers/network`)

`NodeLife` is a node and what is created through it: a request is asked,
executed at yagna and answered (`Ask`, `Execute`, `Answer`, `AnswerRaises`),
found by id or by `get_all` (`Lookup`, `GetAll`), closed by the program
(`UserCloses`) or by `aclose`, which goes through the kinds of resources in a fixed
order and waits for one gather after another (`Close`, `NextGroup`, `GroupRaises`,
`CloseApis`, `StopBus`). `Network` has the handlers of `NewAgreement`, the
lock of `create_node`, the requestor's addresses and the tasks that poll for
the address of a provider. `NodeNetwork` composes them: the network is alive
from the time yagna created it until the node or the program removes it.

### Pipeline (`pipeline/`)

One chain, the one its documentation shows: source, `Sort` with its task and
`min_elements`, `Zip` with tasks, `Map`, `Buffer`, `Limit`. A worker is an
awaitable of `Map` with the task of `Buffer` that awaits it; `permits` is the
semaphore. `Stop` and `GetResult` are the two tasks `_wait_until_empty` races.

### The components of MCHelpers

They share no state; one run holds them all, and its initial state chooses the
one that moves.

* **Payments** (`resources/debit_note`, `resources/invoice`, `resources/utils/payment.py`): time, a
  provider that writes debit notes and an invoice, honest or not, documents that
  are delayed and may overtake each other, and what `validate_and_accept` says. `Charge` is
  what the provider asks for a time, `CostOf` what the library computes of a usage vector.
* **Scorers** and **ScoringBuffer** (`plugins/scoring/`): the score of a list of
  proposals, in fractions, with the normalisation, flip and weights of `MapScore`
  and the interpolation of `PropertyValueLerpScore`, and the stable sort by it as places: that
  of a proposal is the number of those `Ahead` of it; the buffer of unscored and
  the buffer of scored proposals with the loop that carries them over, the
  expiry, failing fetches and a restart.
* **TaskApi** (`examples/task_api_draft`): the task stream with repetition, the pool of idle
  activities, workers, and `RedundanceManager` with its votes.
* **Commands** (`resources/activity/commands.py`, `activity.py`): `before` of all
  commands, the batch, `after` of all, any of which may raise.
* **DemandBuilding** (`payload/`): the demand that a sequence of payloads builds,
  its constraint text as a tree, the parser's reading of it and the offers that
  meet it, compared with what the payloads mean. A tree is a map of numbered
  elements (`Elements`), a group having the numbers of its items; a text keeps the
  numbers. What a tree means is a recursive function over the numbers (`Meaning`).
* **ResourceTree** (`resources/base.py`, `resources/demand`, `resources/proposal`,
  `resources/debit_note`): the collector of a demand with our response and its
  late answer, lookups by id; the collector of payment events with `min_ts`.
* **Waiter** (`utils/asyncio/waiter.py`): producers and tasks that sleep until
  there is as much as they ask for, each of which may be cancelled.
* **SequentialWork** (`managers/work/sequential.py`, `managers/activity/single_use.py`):
  a list of works, the agreement and activity of each, the callbacks, the retry
  plugins of the manager and of a work as nested counters.

## 4. Runs

Every run passes; each property has one mutant, a change of one definition of
the code's model under which the same run finds it violated. Where a property
is a conjunction, its parts are in parentheses.

| Run | What it shows |
|---|---|
| `event_bus` | A handler is called with events in the order they were emitted, once for each, and is passed over only if a removal during the event moved it below the iterator (`HandlersServed` = `CalledInOrder`, `OnlyShiftedSkipped`); every event is queued, in work, processed or was lost with the loop task (`EventsAccounted`); `stop()` returns unless the loop died (`StopReturns`) |
| `pooling_batch` | a future agrees with the event of its command, and a batch whose collecting did not fail is done only with all its results (`BatchTruthful` = `FuturesMatchEvents`, `DoneIsComplete`); batches and counter implement `BatchLife` (`LifeSpec`); a batch is done one day while the bus and the node are up (`EventuallyDone`) |
| `activity_pool` | what the size counts, and two works never share an activity unless `terminate()` put it back (`LentExactly` = `SizeAccounts`, `ExclusiveUse`); `stop()` destroys all (`StopReleasesAll`) and returns unless a work was cancelled with its activity (`StopCompletes`) |
| `work_manager` | no work is lost or done twice (`WorkConserved`); `do_work_list()` returns (`DoWorkReturns`) |
| `agreement_payment` | `_no_agreements_event` tells the truth, no invoice is taken for a stranger's, and `stop()` waits for the invoice of every agreement it was told of (`InvoicesFollowed`); both `stop()` leave no agreement running that they knew of (`StopEndsAgreements`); a closed activity ends its agreement (`ActivityEndsAgreement`) |
| `proposal_buffer` | the pending count is that of the workers inside the semaphore and a proposal is in the buffer once, until it is taken or expires (`BufferExact` = `PendingExact`, `BufferHonest`); charges are never negative, and kept, requested and fetched proposals are at most `max_size`, until the first request at a time when a proposal is both stored and pending (`TargetKept`; section 7 says what happens from there on); a getter gets a proposal when nothing fails (`CalmServed`) |
| `gftp` | the count of a URL is that of the sources that are out, also after failures (`CountExact`); what somebody has is exposed and exists, and what nobody has is given back unless a call about it failed (`ServedExactly`) |
| `negotiation` | every answer becomes a child of what it answers, every rejection ends it, whichever comes first, the answer or the return of `respond()` (`AnswersKept`); what is returned was agreed by both and passed the filters, and our terms approach theirs (`TermsBargained` = `AgreedTerms`, `Converges`); no provider waits for an answer that never comes unless a call failed (`NobodyLeftWaiting`) |
| `demand_managers` | a loop that ended left no demand subscribed but one whose call failed or was interrupted (`LeaksKnown`); a proposal is in one place, from the market to one caller, also while two feed tasks of one manager run, and is lost only with a feed task that was cancelled or that raised the exception of the queue (`ProposalsOnce`) |
| `node` | after `ShutdownFinished` nothing exists that the node's program had created before (`ClosedWhenFinished`); addresses in use or being added are distinct and the manager's answer is that of the provider's node (`AddressesDistinct`) |
| `pipeline` | every permit of `Buffer` is free, with a worker or with a result (`PermitsAccounted`); the program's loop ends unless the task of `Sort` died or waits for more than there is, and then has all results but one that was taken off the queue as the stop task ended (`LoopEnds` with `AllReceived`) |
| `helpers` | `HonestPaid`: no debit note or invoice of a provider that bills what was used is refused for its delay, also one with whom no payments before the end were agreed; `HeldBounded`, `CheapestFirst`: what the scoring buffer holds, and that it hands out a cheapest one; `TasksConserved`, `ResultsBacked`: a task has one result, voted for by enough providers; `FilesHeld`: files are published while a batch needs them; `MeaningKept`: the demand means what the payloads say; `TreeKept`, `NoteEventsKept`: no event of a proposal or debit note is missing or doubled; `WakeupsKept`: no wakeup is lost; `LeftPerFault`: a fault leaves at most one activity behind; `TriedEnough`: retries multiply and results are in order |

The modules with a run of their own, but `Negotiation`, state a type invariant. It is
not a property of the runs: five are theorems (`TypeCorrect` of four modules and
`WorkTypesCorrect`), the other inductive invariants contain the types they need
(`Shape`, `AgreementTypes`, `DemandTypes`), and TLC checked the rest on the instances of the runs.
Deadlock is not checked, because all these components rest when nobody calls
them and their bounds are used up; the liveness properties say what must not
rest.

### Bounds

* `event_bus`: two event classes, one a subclass of the other, so that one event
  iterates over two keys; two handlers in one list and a once-handler, so that
  removal shifts a list under its iterator; two events, so that one is
  queued while the other is handled.
* `pooling_batch`: a script of two commands (a first error skips the second),
  alone with all faults, or with a plain batch beside it, so that the counter
  passes 2, without API errors, lost activities and cancelled futures, which
  each touch one batch only; two GSB errors in a row before the collector gives up.
* `activity_pool`: a target of two with three activities, so that one may be
  made in place of another, and three users for two activities, so that one waits.
* `work_manager`: one worker with two copies, one retry, two calls of
  `do_work_list` with one work in both, two activities; one worker, because workers share only
  the queue and the pool, and the copies already compete for the pool.
* `agreement_payment`: one agreement with both kinds of documents and every fault,
  or two that one task obtains one after the other, so that one ends while the other is
  closed or obtained, when no call raises.
* `proposal_buffer`: three proposals with `max_size` 2 and two workers, so that
  one proposal stays out and two workers meet at the lock; two getters for
  them; all faults, with the calls of `stop()` of failed workers; or none and one `stop()`; or one getter, two starts and two calls
  of `stop()` that may overlap. Only the calm mode speaks of `CalmServed`, because
  a getter that waits over a restart has its request forgotten.
* `gftp`: two tasks, a file and two temporary files with one content, hence one
  URL, so that every count up to 3 and every order of release against upload
  occurs; the tasks and the temporary files are symmetric.
* `negotiation`: two callers (symmetric) and three providers: one that may offer
  anything, one too expensive, which shows after the negotiation, one on the
  blacklist; exchanges of up to two offers after the first one, a factor of 33 percent
  with a smallest adjustment of 2, so that terms need more than one round.
* `demand_managers`: a refreshing and a single-use manager, two demands each, two
  starts, one stop of the aggregator, which is enough for two feed tasks of one manager, two callers and two proposals (symmetric).
  Overlapping stops of the aggregator are in the model and in the proof only.
* `node`: an activity, its agreement and an allocation in one program, a network
  in the other; two starts, so that a failed `aclose` is followed by another; two
  addresses for the requestor, a provider and its second agreement, so that the
  network is full.
* `pipeline`: four elements, three with a score, `min_elements` 2, a buffer of
  two, a limit of three, two failures, so that a worker fails while the other
  has the lock.
* `helpers`: described in `MCHelpers.tla`; per component two to four actors or
  items, one or two faults, up to two restarts.

Bounds on counters are constants with "bound" in their comment. Modes in the MC
modules (`both`, `calm`, `mode`) are chosen in the initial state and only leave
out actions; none of them leaves out the only way on from a state.

### Fairness

Fairness is weak and is assumed of what the event loop and the outside world owe:
ready tasks run, awaited API calls end, callbacks and works return, the timeout
of the payment manager passes. It is never assumed of calls (`start`, `stop`,
`emit`, `get_proposal`), of failures or of cancellations. Three kinds of steps have strong
fairness: in `PoolingBatch` the API answers in full again and again, though
intermittent errors, timeouts and GSB errors may come in between, and a collector that sleeps is not
polling; in `ProposalBuffer` and `Pipeline` a task that waits for a lock gets it though others take it in
between, since an asyncio lock is handed out in the order of its waiters.
The other modules state safety only: in storage, negotiation, demand managers
and node, what happens next depends on yagna and the provider, which owe nothing.

## 5. Proofs

Eight modules hold proofs that tlapm checks. All theorems are about every value of the
constants that satisfies the named assumption of the component's module
(`BusAssumption`, `BatchAssumption`, `PoolAssumption`, `WorkAssumption`,
`AgreementAssumption`, `DemandAssumption`, `BufferAssumption`,
`NegotiationAssumption`, `GftpAssumption`, `NodeAssumption`, `NetAssumption`,
`NetworkAssumption`, `PipelineAssumption`, `SequentialAssumption`,
`CommandsAssumption`, `TaskApiAssumption`, `WaiterAssumption`,
`ScoringAssumption`, `TreeAssumption`, `PaymentsAssumption`, `GraceAssumption`,
`BuilderAssumption`). TLC
evaluates them in the runs; those that are plain operators in their modules are
collected in `PartsAssumption` of `helpers`. Every safety invariant that a run checks is a theorem. Of the
outside world `TreeAssumption` says that proposals answer those of the other side and that
the payment events yagna lists have rising dates: with two events of one date
`min_ts` could pass one that was never listed. `GraceAssumption` says that no document is
delayed longer than the grace periods, `PaymentsAssumption` that a usage vector names each
counter once, `ScoringAssumption` that offers and scorers have the types the code gives them,
`BuilderAssumption` that a group of constraints has the items it was made with, which were there
before it, and that `ConstraintGroup._validate` let it pass.

**EventBusProofs.** `Base` is inductive by itself: types; the shape of the queue
(ids rise, ending with the last emitted one); that every key of the dict is
there once, and every handler in one list once; the accounting of events.
`TypeCorrect`, `CallsInOrder`, `NoEventLost` and `StopWaits` (an action
property) follow. `Pass` adds what is known about the event under way: where the list
iterator stands relative to what it has considered, is still to visit, and what
removals shifted. `SkippedOnlyByRemoval` and `OnceOnly` need it: they speak of
the end of an event, and only the position of the iterator along the way tells
why a handler was not reached. `HandlersAreServed` joins them for the run's property.

**EventBusProofs, the collectors.** `TreeInPlace` and `NoteEventsInOrder`
(`ResourceTree`). `FamilyRight` ties the state of our `respond()` to the tree: a proposal
has its parent as soon as it is in the tree but for one that was looked up early or whose
`respond()` has not returned, and it is among the children of its parent as often as it has a
parent. `InboxRight` (an event is told once, of what was sent) makes `HeardRight` hold: what was
taken was added, what was not was not. For debit notes, the collector has an
unbroken piece of the log in hand (`InHandRight`), all of it newer than what was added
(`GatheredRight`), so that a stop can lose only the event it is at.

**PoolingBatchProofs.** `Base` (`TypeOK`, `Stages`: a collector runs only for a
batch that was made and is not done; `CounterExact`) and `Answered`, with
`ProviderStops` and `Open`: while the collector runs no final event was added.
Without `Open`, `DoneIsComplete` is not inductive, since a late poll could add
results to a finished batch. Proved: `OrderedEvents`, `FuturesCorrect`,
`CompleteWhenDone`, `BatchIsTruthful`, `CounterCorrect`, `FinalWhenDone`, and `Implements`, the
refinement of `BatchLife`, for any number of batches.

**PoolingBatchProofs, the scoring buffer.** `ScoringIsBounded`: what is asked for fits into
the first buffer (`ScoringInv`), the hand of the loop is empty unless it
scores, so that a request that is not late finds everything in the two buffers, and scoring
returns as many proposals as it was given (`RankedLength`, whatever the order).
`CheapestIsFirst` needs the arithmetic: the fractions are ordered by `Less` (`LessTransitive`);
sums, differences and quotients keep or turn this order (`LessPlus`, `LessMinus`, `LessDividedBy`), and so
do normalisation with a flip (`Normalizes`) and the weighted mean of one score, whatever the sign of
its weight (`LessWeighted`). The places of a ranking are those of a strict order of finitely many
proposals, hence each is taken exactly once (`PlacesTaken`, an injection of `1..n` into itself). That
what is scored is in order is then inductive, since `Tail` and the removal of one keep an order
and everything is ranked anew when something comes.

**ActivityPoolProofs.** `Kept` has four parts: `Core` (types, the accounting and
which tasks exist in which part of the loop), `Places` (without a `terminate()` an activity is
in one place), `Quiet` (what is left to do when nothing failed) and `Found`
(where ready activities are). `LendingIsExact` needs `Places`, because the
pool's list has to be free of repetitions for two `get()` to differ;
`StopIsClean` needs all four. The proofs count sets that gain or lose one element.

**ActivityPoolProofs, the tasks.** `TasksNeverLost` and `EnoughProviders`
(`TaskApi`), for all streams, workers, providers and failures, from `TaskInv`: types
(`TaskTypes`, `WorkerRight`), `StreamRight` (data loaded are data counted, so that an end with
as many results as data is an end with all), and `Conserved`: the copies of each
task in the input are those that are to come, queued, in a worker's hand or done. With a
redundance manager a task is in the queue until it is decided, and the results
are backed because of `VotesRight`: a provider votes once on a task, since it is given the task once
until its attempt fails, and an attempt that failed has not voted. The lemmas on
sequences (an element taken out at any place, appended, moved) are stated of `Copies`.

**ActivityPoolProofs, the demands.** `DemandMeansPayloads` (`DemandBuilding`), for all payloads,
nestings of groups and offers. The builder's invariant (`BuildInv`) says what was collected without saying what it means: the
items of the groups that have the builder's operator, the other groups whole, and
the last value of each key. The rest is about one tree. That a recursive function over numbered elements has the values
its definition says is shown once (`Recursion`: the smallest number up to which there is no such function does not exist),
for `Meaning` and for `Zeros`, the constraints that leave no text. `AskedIsMeant`: where there are
none, the text of an element asks for what the element means, since a smallest one for which it did not would have
items for which it does; a list asks for all its values. `TakenMeans`: a group
with the builder's operator means what its items mean together. `AllAlike`: reading a text and writing it
again changes nothing, because what leaves no text is left out the first time, and a text has no more items
than its group, so that the parser accepts it.

**ProposalProofs, the buffer.** `Core` is types, the exact pending count, `TargetKept`, and what it rests on: a worker that waits
for the lock has a proposal (`Carrying`), and without a suspension nothing is stored and pending at once
(`NoOverlap`). A request fills up to `max_size` because what is counted is then what is there (`FillFacts`),
whatever calls of `stop()` and `start()` have left of workers; an acquired charge only moves from the
charges to the fetched, which is why charges must not be negative. `Honest` adds who holds the lock and that a worker waiting for it is
the only one with its proposal. Proved: `TypeCorrect`, `PendingIsExact`,
`TargetNeverExceeded`, `BufferIsHonest`, `BufferIsExact`, and `BoundedWithoutSuspension`: the
buffer stays within `max_size` if `get_expiration_func` does not suspend, which
does not hold otherwise (section 7).

**ProposalProofs, the negotiation.** `EveryAnswerKept`,
`BargainsEndInAgreedTerms`, `EveryProviderHears`, from one invariant,
`NegotiationInv`. Its heart is that a provider's first offer is taken once:
`Apart` (two callers are never at the same provider) and `Over` (one that was
left is never taken up again) follow from `InitialsOnce` and `InboxFresh` (events of one
proposal come once). Hence the answers to one exchange come in order,
the tree's assertions hold whichever of `respond()` and its answer is first
(`TreeRight`, `HeardKept`), and `Bargain` can say of each place of a caller what both sides
have named. Convergence rests on a lemma about `NewValues`: a value that is
adjusted comes nearer to the offer or is the offer.

**ProposalProofs, the waiter.** `NoWakeupLost`: the deque has each task once that has not run since it
went to sleep, and the property itself counts items against the wakeups under way. It
assumes that all ask for one item. Without this the property is false:
with items for one task, a notification that goes to a task that asks for two is
used up, and the task that could go on sleeps (section 7).

**GftpProofs.** `CountIsExact`: the count is lowered under the lock and the entry
removed after a request that may raise, so `Within` says of each task in its call what
it relies on: a task that closes a URL has the lock, and the count is 0
(`LastReleased`). Releases and uploads of other tasks cannot touch an entry in
between, and the sets of outstanding and releasing sources gain or lose exactly
one element in a step. `FilesAreHeld` (`Commands`): up to the end of the batch what is shared is what `before()`
has gone through, afterwards what `after()` has not, unless one raised. `ServedAndGivenBack` builds on the count: `ServedInv` says what a URL, a temporary file and
a call owe to each other and to the server, with `CountExact` telling when a
URL may go, and `OneServer` that `async with` lets only one server be used.

**NodeNetworkProofs.** `AddressesAreDistinct`: the address of a node is chosen, sent to
yagna and entered in `_nodes` in separate steps, under the lock. `LockHeld` says
that whoever is adding a node has it, so that at most one address is chosen and not entered;
`add_requestor_ip` does not take the lock, but enters its address at once. That a
smallest free address exists is `LowestIn`, an argument over the strict subset
order of finite sets. `NothingLeftBehind`: `GroupsClosed` says that the kinds `aclose` has gone past
are closed, `Registered` that what was created and answered is in the list it
takes, `DoneIsClosed` that nobody creates a closed resource anew. Both are theorems of
the composed specification.

**WorkProofs.** `FaultsBoundLeaks`: each fault leaves at most one
agreement or activity behind, for every list of works and all nestings of
retries. `HandHeld` says when the caller has an activity, `AfterDestroy` that the
activity released after a work was destroyed before: without the second, the
release at the end of an attempt would leave one without a fault.
`TriesMultiply`: the counters of nested retries count like the digits of a number, the
innermost being the lowest. `Before` is the set of lower countings, and
`AttemptsRight` says that there were as many attempts: `NextIsOneMore` adds one counting to the
set, and when no retry is willing, all countings but one are in it
(`FullIsHighest`). That there are as many countings as the product of the tries plus one
each is counting by hand: the property speaks of the set instead of the product.
`NoWorkLost` (`WorkManager`): a work that `do_work_list` cancels with its workers
would be lost, so that `Unfinished` is needed, the count of `_queue.join()`: when it is 0 nobody has a
work. `WorkTypesCorrect` comes with it (`Trying` bounds the tries). `PermitsKept`
(`Pipeline`): only a sum is inductive, that of free permits, awaited awaitables, results and the
program's hand (`AllPermits`), which a step moves from one place to
another and only the end of the generator lowers.

**MarketProofs.** `InvoicesAreFollowed` and `AgreementsEnd`
(`AgreementPayment`): a handler works on the event at the head of the bus's queue
(`HandlerAtHead`), an invoice is behind the `NewAgreement` of its agreement
(`InvoiceLast`), so that an agreement whose invoice was not looked at is known or about to
be (`ToldFirst`), and the flag is honest (`FlagRight`). What
`get_agreement()` returned is in the list, ended, or in the hands of one of
three closers (`HandedClosed`, `SavedClosed`). `NoOtherDemandLeaks` and `ProposalsInOnePlace` (`DemandManagers`): a
subscribed demand is in the list of its loop or in its hand (`DemandsKept`), and `PlacesApart` says for each pair of
places a proposal goes through that it is not in both, any two feed tasks of a manager included. `LossesKnown` says that
a feed task which may drop a proposal raises an exception that is set, or was cancelled.

**MarketProofs, the payments.** `PayHonestPaid` (`Payments`). The bills of an activity are followed from
the provider to the library as one list, those that were heard of and those on their way (`Texts`).
`Billing` says of each that it charges what was used until it was written, that it is not the first
too early, nor the next, by counting agreed intervals, and the payable ones by counting payment
timeouts. `Timely` says that the library knows of an activity, and of each bill, at most `Delay` after it began
or was written. What the library measures from the creation of its own object therefore differs from
what the provider measured by at most `Delay`, which is the grace it allows. The price
is linear in the time (`MaxCostLinear`), so that the increment since the last note is that of the time between.

## 6. Only model-checked

* All liveness (`StopReturns`, `EventuallyDone`, `StopCompletes`, `DoWorkReturns`,
  `ActivityEndsAgreement`, `CalmServed`, `LoopEnds`): the prover has neither
  fairness nor `ENABLED`.
* `CheapestFirst` speaks of one scorer. What several scorers make of a list is a sum over any number of
  them, of which nothing is proved but the number of proposals.
* What is computed from data by recursion in general (sums of scores, tree of events): the
  library's induction theorems cannot be applied. Where the data are numbered, as in `DemandBuilding` and
  the sums of `Payments`, a smallest counterexample does.
* The type invariants of `AgreementPayment`, `DemandManagers`, `Gftp`, `NodeLife`, `Network` and `Pipeline` are
  parts of the inductive invariants above rather than theorems of their own.

## 7. What the code does otherwise than it says

Behaviours of the code that appeared while modelling it. The models contain
those that lie in a modelled part, and the properties are stated around them.

**Event bus**
* The loop iterates over the live dict across an `await`
  (`in_memory/event_bus.py:122`). The first `on()` or `on_once()` for a new event
  type while a callback is awaited raises `RuntimeError` in the loop task; the
  task ends, its event gets no `task_done()`, later emits raise. The library does it
  itself: `DefaultAgreementManager.get_agreement` registers for
  `ActivityClosed` (`managers/agreement/default.py:47`) while the handler of
  `SingleNetworkManager` for `NewAgreement` (`managers/network/single.py:26`)
  awaits the creation of a node.
* `off()` during an event makes the loop pass over the next handler
  of the list for that event; `OnlyShiftedSkipped` says exactly when.

**Batches and commands**
* After collecting failed, `success` may be true of an incomplete batch,
  and the futures of a script are never resolved; a future the user cancelled
  raises in the collector, and the batch is done while the provider still runs it.
* A `before()` or `execute` that raises leaves the published sources of the batch;
  destinations of downloads stay published; an `after()` that raises is unheard.

**Activities and works**
* A work cancelled by `redundancy_cancel_others_on_first_done` does not give its
  activity back (`managers/work/mixins.py:63` is not in a `finally`), and `stop()`
  of the pool waits for it for ever. `examples/managers/proposal_plugins.py`
  combines the two.
* When one prepare task of the pool raises, its siblings go on and put an activity
  into the pool after `stop()` has emptied it. A work that calls `terminate()`
  puts its activity back twice.
* `tries` failures are followed by one more attempt. Retries of the manager and of a
  work multiply, and the outermost overwrites `extras["retry"]`.
* Single use: `create_activity` or a failing start leaves agreement and activity open
  (`single_use.py:41`); `_get_agreement`, outside of the `try`, ends the whole list, and the results
  of earlier works are lost when one call raises; a work that terminates its activity makes
  `destroy` be called twice; without `on_activity_stop` `terminate()` destroys nothing.

**Agreements and payments**
* `get_agreement` ignores the result of `wait_for_approval` and
  returns rejected agreements (`managers/agreement/default.py:42`); one that is
  appended while `stop()` closes the others is forgotten; `stop()` may return
  while the handler of `ActivityClosed` still terminates the agreement.
* `off()` does not wait for a running handler, so that an invoice may
  be accepted with the allocation that `stop()` has released
  (`managers/payment/default.py:106`; in the model `handler = "accept"` with
  `pm = "stopped"`).
* An agreement that is never approved, or whose activity is never destroyed,
  makes the payment manager's `stop()` wait its whole timeout.
* `usage_vector_price` leaves unknown counters out while the values keep theirs, so that
  prices and values are paired wrongly (`resources/utils/payment.py:39-44`); the invoice of an
  agreement with several activities is compared with the cost of one of them
  (`invoice.py:52-61`); without coefficients it raises `AttributeError`
  (`invoice.py:89-94`); a note refused for its increment passes when it is repeated.

**Proposal buffer and scoring**
* While `put()` awaits `get_expiration_func`, its proposal is both stored and
  pending. A request of `_on_expired` at that time is negative, the semaphore's
  value becomes negative, `acquire()` takes any value but zero for a charge
  (`managers/proposal/plugins/buffer.py:111`, `semaphore.py:36-40`), so that workers go on fetching for as long as it
  is negative and the buffer grows beyond `max_size`. `TargetKept` ends with the first such request, since a
  sum with negative charges in it would say nothing of what is really fetched.
* A `stop()` that ends after another one and a `start()` forgets the new workers
  (`utils/asyncio/buffer.py:362-367`): they go on, no later `stop()` cancels them, and the next `start()` adds to them.
* With `min_size` 0 a getter may wait with nothing requested; `set_exception` wakes one
  waiter only (`utils/asyncio/buffer.py:213`): with two getters waiting, the second goes on
  waiting. After a worker died, or over a restart, a getter may wait with nothing under way.
* The scoring buffer's requests count unscored proposals only, so that a request while others are scored,
  for an expired one or at a restart exceeds `max_size` without bound
  (`scoring_buffer.py:118`); an exception of a scorer ends the loop silently, exceptions of both buffers
  are never reset.
* `MapScore` drops zeros (`map.py:27-36`), and when all other values are equal neither normalises nor
  flips; weights that sum to 0 raise `ZeroDivisionError`; the linear price per cpu
  divides `None` when there is no price (`linear_coeffs.py:35`), the average price per cpu leaves the cpu's
  part undivided.

**Demands, negotiation and the tree**
* A demand leaks when `get_data` fails or `stop()` comes after `create_demand`
  (`refreshing.py:86`). A restarted `RefreshingDemandManager` keeps its old
  `_demands` and first waits for an old demand to expire (`refreshing.py:58`).
  The loop of the single-use manager ends silently when its create call, outside of the `try`, raises.
* `ErrorReportingQueue` raises a stale exception after a restart, and an item is lost
  when the caller is cancelled while its get task is done (`queue.py:40`), or when the inner task takes it while
  `get()`, about to raise, awaits its cancellation (`queue.py:44-50`). An `ensure_cancelled_many` that is cancelled
  itself may leave the inner task waiting, which takes a later item.
* `AggregatingDemandManager.stop` clears `_task_map` of feed tasks begun while it waited
  (`aggregating.py:37`): they go on, the next call begins a second one of the same manager, and the one that
  ends last fails with a `KeyError` (`aggregating.py:75`) that is only logged. A second caller of the
  aggregator waits while no feed task runs (`aggregating.py:51`), and callers that
  wait when the aggregator stops wait for ever.
* A restart of `DefaultProposalManager` makes the first plugin call the last, and the next call ends in `RecursionError` (`default.py:32`). A provider
  that never settles can keep a negotiation going for ever.
* `examples/core_example.py:99,168` expects `StopAsyncIteration` on a rejection, `child_aiter`
  raises `ProposalRejected` (`proposal.py:104`). `child_aiter` passes over a child
  added within the last 0.1 s before the stop (`base.py:195`).
* A `ProposalEvent` of an id that was looked up before ends the collector of the demand silently; a
  response that times out leaves a proposal whose `demand` raises `AssertionError`.
  Interruption of the payment collector loses the event in hand, since `min_ts` is set first.
* `api_call_wrapper` looks at `retry_exceptions` only inside the `except` of API
  exceptions, so that nothing is ever retried (`base.py:82`).

**Node and networks**
* `Resource.get_all` raises `AssertionError` for an id that is known already
  (`base.py:107`), contrary to the documentation of `allocations()` (`node.py:344-350`).
* In `aclose` one call that raises skips later kinds and the API clients, resources created meanwhile stay
  open, and a second `aclose` is impossible before another `start`.
* `SingleNetworkManager.start` listens for agreements only after `add_requestor_ip` (`single.py:22-27`);
  when `create_node` fails, `get_node_id` polls for ever (`single.py:30`).

**Pipeline and task api**
* `Buffer` over a raising source without `Map` hangs; leaving the chain early
  leaks the tasks of `Buffer`; `Sort` hangs when score or source raise, or when `min_elements` is never
  reached and there is no `max_wait`; `Zip` drops a value of the main stream when the other ends.
* `_close_useless_activity` does not exist: a failing task ends its worker silently; the second
  copy of repeated data needs another provider's result; the pool may exceed its
  size by the workers but one (`activity_pool.py:104`); an empty task list hangs.

**Payloads**
* A constraint with a falsy value, such as 0, has no text (`constraints.py:46`);
  datetimes of another zone are taken for UTC; a `!` group of more than one
  item raises when it is serialised, not when it is made.

**Waiter**
* With different predicates a notification may reach a task that does not need it and is lost,
  two tasks whose predicates are false notify each other for ever. `WakeupsKept` is checked with one predicate for all.

## 8. Not modelled

* `DefaultPaymentHandler`: superseded by the payment manager; its `start()` names
  `NewAgreement`, which is imported for type checking only, and raises
  `NameError`.
* Access to yagna: configuration of the generated REST clients. The clients and
  HTTP sessions are external, represented by the outcomes of the calls.
* The command line and logging: input and output.
* Parts of modelled components, also listed in `PROJECT.json`: lookups of
  batches by id; prices of memory and storage, the rounding of decimals; `get_all`,
  `put_all` and `get_requested` of the buffers but in the scoring buffer;
  the gather over pooling batches that still run in `aclose` (`node.py:163-165`); explicit addresses and `refresh_nodes` of networks; the random scorer and the
  options to raise on a missing property; character sets, enumerations and
  defaults of payloads; `Map` over awaitables of another `Map`; the reading of received files.
