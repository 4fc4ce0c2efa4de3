# Formal verification of jean-fourche

The repository is a set of Odoo 17 addons for one company: a job queue, a
connector to e-commerce platforms (with its Shopify driver), carriers, advance
payments and smaller changes of Odoo's own applications. This directory holds
TLA+ models of its core logic, the TLC runs that check them and the TLAPS proofs
of their main theorems.

    tlasany M.tla                                  parse a module
    tlc -config JobQueue_all.cfg MCJobQueue.tla    check an instance
    tlapm QueueAndMatchProofs.tla                  check the proofs

`PROJECT.json` lists the components, the runs, for every definition of the models
the lines of the source it translates, the mutants that show that every property
can fail, the findings, the hazards and the theorems.

## 1. Inventory of the system

| part | state it keeps | operations | interacts with | what makes it correct |
|---|---|---|---|---|
| `queue_job`, execution of a job (`controllers/main.py`, `job.py`) | tables `queue_job` and `queue_job_lock`; the Job object in the memory of a handler | take a request, set started, lock, perform, set done, postpone, fail | the runner (HTTP), the tables (transactions), the function of the job | one execution at a time; a completion never overwrites a verdict; every job ends |
| `queue_job`, job runner (`jobrunner/runner.py`) | where the main loop is; one connection per database; the channels | requeue dead jobs, process notifications, run jobs, wait | the table (UPDATE in autocommit, LISTEN/NOTIFY), handlers (HTTP) | its memory agrees with the table; a dead job can be found |
| `queue_job`, channels (`jobrunner/channels.py`) | a tree of channels: queue, running, failed, pause | notify, get jobs to run, wake-up time, remove | called by the runner | capacity kept; eta respected; nothing slept through |
| `queue_job`, model and wizards (`models/queue_job.py`, `wizards/`) | the table `queue_job` | set to done, cancel, requeue, autovacuum | the trigger of `post_init_hook.py` notifies the runner | the buttons of users and the handlers do not undo each other |
| `queue_job`, delayables and graphs (`delay.py`, `job.py`) | graphs in memory until `delay()`, then the column `dependencies` | chain, group, on_done, delay; release and cancel the children | creates jobs; called at the end of a job | jobs are done in the order that was asked for; a child starts after all its parents; none is forgotten |
| `queue_job`, configuration (`queue_job_function.py`, `queue_job_channel.py`, `fields.py`) | configuration records | retry pattern, channel of a function, JSON of arguments | read by `job.py` | the delay of a retry |
| `integration`, order workflow (`integration_workflow_pipeline.py`, `sale_order.py`) | steps of the workflow of an order, state of its input file | trigger, run a step and call the next, update, force, reopen | `queue_job`; webhooks; users | each step once, in order, until the end |
| `integration`, input files and webhooks (`sale_integration_file.py`, `sale_integration.py`) | `sale.integration.input.file`, the cursor `last_receive_orders_datetime` | poll a page, fetch an order, create it, update it, cancel it | the store (pages, webhooks); `queue_job` | no order missed, none made twice |
| `integration`, customers (`integration_res_partner_factory.py`, `_proxy.py`) | `res.partner`, external partners and their mappings | find or create the customer, its company and its addresses; map by hand; requeue the jobs that wait for a mapping | called while an order is created | one contact for one customer, the addresses that the order asks for |
| `integration`, deliveries (`stock_picking.py`, `sale_order.py`, `external_order_fulfillment.py`) | `tracking_exported`, the records of fulfillments | export a delivery, apply a fulfillment | the store (calls, webhooks); users of both sides | both sides have shipped the same |
| `integration`, products and mappings (`product_template.py`, `external/`, `mappings/`) | external records and mappings, `timestamp_export` | export, import, create, delete | the store (calls, webhooks) | one product for one template; both sides the same in the end |
| `integration`, import of products (`sale_integration.py`, `integration_import_product_wizard.py`) | external records of products and variants, and their mappings | import in blocks, match by references or attributes, retry the failures, map by hand, resolve conflicts | jobs; the store; users | a mapped product has its own variants; no failure is lost |
| `integration`, stock (`stock_quant.py`, `stock_move.py`, `product_product.py`) | Odoo's quants and moves | triggers of exports, exports in blocks, import | the store; orders | the store has the quantity of Odoo |
| `integration_shopify` | locations, order transactions, the resources of the API | GraphQL calls, webhooks | `integration`; Shopify | what the parts above rely on |
| `sale_advance_payment`, `purchase_vendorbill_advance` | payments and down payments of an order | register, refund, compute what remains | Odoo's accounting | the residual amount is right |
| `jf_quality`, `nuprod_*` | quality alerts, reserved quantities | overrides, recomputation | Odoo's stock | quantities stay consistent |
| `chronopost_*`, `geodis_*`, `aldais_*`, `jf_base` | fields of Odoo's records | calls to carriers, overrides | web services | no state of their own |

The hard behaviours are those of `queue_job` and of what is built on it:

- several processes write the same row, in transactions that see an old snapshot
  (Odoo's cursors are REPEATABLE READ) or, for the runner, in autocommit;
- a request to execute a job is sent by a thread that does not wait for the
  answer, and may be lost; a notification may be late or lost; a handler, the
  server and the runner may be killed at any time;
- a job that is started looks the same in the table whether its handler is alive
  or not: `queue_job_lock` is there to tell;
- the runner decides from its memory, which lags behind the table;
- "done" and its consequences (the release of the children, the next step of the
  order) are committed in different transactions;
- two systems, Odoo and the store, are changed on both sides, and tell each other
  by jobs that may be merged (identity keys), fail, or be done again after they have
  changed the store, and by webhooks that may be lost, repeated or out of order;
- a job looks for what it might create in a snapshot, and other jobs do the same.

Everything that `integration` does runs as jobs of `queue_job`. The hazards of
PROJECT.json list these places one by one, with the properties that watch them.

## 2. The modules

| module | models | composed of |
|---|---|---|
| `JobQueue` | the life of jobs in one channel: table, lock, runner, handlers, users | - |
| `QueueAndMatchProofs` | theorems about it, and that it implements `JobLife`; then about `ProductMatch`, two parts that share nothing | `JobQueue`, `ProductMatch` |
| `JobLife` | the promise: what the life of a job looks like to its users | nothing; `JobQueue` implements it |
| `JobChannels` | the tree of channels, with the loop of the runner and the clock | the table as JobQueue's writes change it |
| `ChannelsAndPartnersProofs` | theorems about it, and then about `Partners`, two parts that share nothing | `JobChannels`, `Partners` |
| `DelayGraph` | chains, groups and on_done, and the graph of jobs that delay() makes of them | performs jobs as `JobGraph` releases them |
| `JobGraph` | the dependencies between the jobs of a stored graph | the execution of JobQueue as one step |
| `JobGraphProofs` | theorems about both | `DelayGraph`, `JobGraph` |
| `OrderImport` | from the pages and webhooks of the store to input files and orders | jobs as transactions with snapshots, identity keys |
| `OrderImportProofs` | theorems about it | `OrderImport` |
| `Partners` | the contacts that an order gets while it is created | the creation of an order of `OrderImport`, seen from inside |
| `OrderPipeline` | the workflow of one order | jobs as transactions with snapshots, identity keys |
| `OrderPipelineProofs` | theorems about it | `OrderPipeline` |
| `OrderDelivery` | the deliveries of an order and the fulfillments of the store | a step of `OrderPipeline` as one action |
| `OrderDeliveryProofs` | theorems about it | `OrderDelivery` |
| `ProductSync` | a product that is edited on both sides | jobs as transactions with snapshots, identity keys |
| `ProductSyncProofs` | theorems about it | `ProductSync` |
| `ProductMatch` | the import of products in blocks, and their matching with the variants of Odoo | an import of `ProductSync`, seen from inside |
| `StockSync` | the quantities that the store is told | orders as `OrderImport` brings them, the products of `ProductSync` |
| `StockSyncProofs` | theorems about it | `StockSync` |
| `MC...` | the small instances of each for TLC | |

The modules are layers. Each takes from the one below what its properties need
and leaves the rest out by name, in its first comment: JobQueue has one root
channel, and JobChannels the tree; JobQueue has independent jobs, and JobGraph
their dependencies. The modules of `integration` take a job as JobLife promises it:
a transaction that begins with a snapshot and commits, is tried again, or fails.
In them `doing` (or `kind` and `snap`) is what each transaction in progress has
read, and `changed` the rows that others have committed since; a transaction that
would write one of them is refused, as PostgreSQL refuses a concurrent update under
REPEATABLE READ, and `queue_job` then tries its job again. A row that two
transactions create meets a unique constraint instead: the job that is second
fails. A job that is asked for with an identity key is not created if the
transaction sees one waiting: that it may have begun since is why several
properties have an exception.

### 2.1 JobQueue

`row` is the table `queue_job` (state, retry, and date_enqueued, of which it
matters whether it is unset, recent or older than the ten seconds of
`requeue_dead_jobs`); `lockRow` and `lock` are the rows of `queue_job_lock` and
who holds them FOR UPDATE; `http` counts the requests in flight. A handler is
`phase`, `cur` (its job), `tries` (the counter in its Job object) and `stale`
(has somebody committed a change of the row since its snapshot?). The runner is
`mem` (the job's place in the root channel), `notifs` and `pc`.

- users: `Create`, `SetDone`, `SetCancelled`, `Requeue`;
- runner: `RunnerStart`, `RequeueDeadJobs`, `ProcessNotification`,
  `NotificationsDrained`, `RunJob`, `WaitNotification`, `RunnerFail`;
- handler: `RunRequest` (the request and the commit of started), `TakeSnapshot`
  and `Lock` (the two halves of `Job.lock()`), `Complete`, `RaiseRetryable`,
  `RaiseIgnoreRetry`, `RaiseError`, `SerializationError`, `RetryPostpone` and
  `SetFailed` (both in a new cursor), `Rollback`, and `Abort`, when the process
  is killed or an exception leaves the handler;
- `Aging` (time passes) and `LoseRequest`.

The store of a handler in its own transaction succeeds only if nobody has
committed a change of the row since its snapshot. The stores in a new cursor have
a fresh snapshot and always overwrite.

`JobLife` says what this machinery promises of each job: one handler at a time
performs it; a handler completes it only while it is open (pending, enqueued or
started) and performs it; once it has ended it is opened again only by a user, or
by who did not know. Its variables map to JobQueue as follows: `state` is the
state of the row with the three open ones made one; `unseen` is `notifs`;
`serving` is the set of the handlers that have taken the job and have not stored
its outcome; `performer` is the holder of the lock, while it performs. The
runner's dispatch of a job that has ended and the late store of a handler are in
the promise because the code does both: `Dispatch` allows the first only of a job
in `unseen`, `StoreFailure` the second only to a handler in `serving`.

### 2.2 JobChannels

`queue`, `running`, `failed` and `pause` are the attributes of every channel, and
`eta` that of the ChannelJob; `state`, `dbEta`, `notifs` the table as the runner
is told of it; `flowed` which channels have had their turn in the generator
`get_jobs_to_run`; `wakeup` the time `wait_notification` sleeps until. A
notification is one action with the five cases of `ChannelManager.notify`; `Take`,
`RunJob` and `EndTurn` are the turns of the generators, children first; the loop
may be interrupted by writes of others between any two of them. A job whose parents are
not done any more goes back to `wait_dependencies` when it is requeued or postponed:
`NotifyWait` does nothing, as `ChannelManager.notify` does, and the job keeps the places
it had until another notification of it.

### 2.3 JobGraph

`state` of each job, and one transaction about each of them at a time: `op` (what
it does), `targets` (the children it has found in its snapshot) and `changed` (the
rows that others have committed since). `Perform` commits done; the handler then
`owes` the release of the children, which `BeginEnqueue` looks for and
`CommitEnqueue` or `AbandonEnqueue` ends. The buttons `SetDone`, `Cancel`,
`RunNow` (of `integration`) and `BeginRequeue` are transactions of the users;
`Postpone` is that of a handler. `users` says whether users and kills interfere: it
never changes, and the properties of handlers alone are about the behaviours in which
it is false. `wasDone` and `wasCancelled` are history variables.

### 2.4 OrderPipeline

`task` is the state of every step, `file` that of the input file of the order,
`queued` and `failed` the jobs. `kind`, `snap` and `changed` are the transactions
in progress. What a transaction makes of its snapshot is a function of it
(`Outcomes`), with a case for `trigger_pipeline`, `_run_and_call_next`, `run` and
the update of the workflow by a webhook; `Commit` writes the rows that differ from
the snapshot if none of them has been changed since, and creates the next job
unless a waiting job of the snapshot has its identity key. The buttons are atomic.
The snapshot of a job is taken after it has left the queue, as the runner has set it
started before: a job does not see itself waiting. `executed`, `opened` and `manual`
are history variables, and so is `hidden`, which remembers that a job was not created
because the report of a failure waits with its key (section 5).

### 2.5 DelayGraph

`made` is the chains and groups, in the order they are made, and `later` the pairs
of `on_done`; a node is a delayable or one of the compounds. `Connected` is the
graph that `_connect_graphs` and `_merge_graph` build: `Ends` are the `_head` and
`_tail` of every node (with the tail of the first node as the head of a chain, as
the code has it), `Visited` what is reached from the node on which `delay()` is
called (`Reached`, a recursive function that adds what is next until nothing is
new). `Delay` stores the graph, leaves it (every job with an identity key has found
another one) or executes it directly; `PerformStored` executes a stored job, and
`Yield` is a step of `topological_sort`. `Asked` says what chains and `on_done` ask for,
without any reference to heads and tails: it is what the graph is compared with.
`Within` is a node with all that it is made of, on every level, and `Crossed` the chains
that the code connects at the wrong ends: those that begin or end with a chain, or with
a group in which there is one, and are themselves inside or after something
(`delay.py:330`, section 5). `New` makes groups of none too (`split()` makes one of an empty
recordset) and chains of one, but not the empty chain, which raises. A group of none has
no ends, and `on_done` adds nothing to it: `Hollow` is the chains in which an order is
lost that way, `chain(a, group(), b)` for one. `Delay` needs a job (`delay()` raises
otherwise) and that all chains, groups and calls of `on_done` are reached from the node it is
called on; a unit that only the `on_done` of a group of none names is left out of
the graph, as the code does. `JobGraphProofs` extends both this module and JobGraph, hence
the names `DelayInit`, `DelayNext`, `DelaySpec`, `DelayTypeOK`.

### 2.6 OrderImport

`store` is the status of every order in the store and when it was updated, `cursor`
the field `last_receive_orders_datetime`, `file` and `order` the input file and the
order of Odoo. `BeginReceive` asks for a page (`Pages`: the oldest orders updated
since the cursor, as many as a page has), and `CommitReceive` creates the files,
their jobs and the new cursor in one transaction. `ReceiveHook` is the controllers:
each reads the order again and asks for the job that its event calls for.
`CommitFetch`, `CommitCreate`, `CommitPipeline` and `CommitCancel` are the ends of
those jobs; `ImportOrder`, `ImportRecentOrders`, `Process` and `SetState` the
buttons. `made` counts the orders made from each file.

### 2.7 Partners

`contact` is the table `res.partner`, in the order of creation, which the searches
depend on; `mapping` the mapping of each external customer. `Outcome` is
`get_partner_and_addresses`: the customer (`Partner`: the mapped contact if it is
compatible, the company, or a search), then the address of the invoice and that of
the delivery (`AddressOf`), each of which may create records that the next one
finds. The operators are a chain of functions from contacts to contacts and an id,
in the order of the calls. `Commit` merges the records with those that others have
created since. `NotifyMissing` and `FailMissing` are the two transactions of a job
that finds no mapping when customers are mapped by hand; `FailureOf` is what
`QueueJob.write` keeps of the message, by which `Requeued` later looks for the job.

### 2.8 OrderDelivery

`picking` are the deliveries with their backorders, `fulfillment` the fulfillments
of the store, `record` the state of the record that Odoo has of each. `Applied` and
`Validate` are `_integration_apply_external_fulfillments`; `PickingHooks` decides
which job a validated delivery asks for. An export is a transaction that calls the
store for one delivery after the other (`CallStore`) and then commits (`Commit`), so
that what an aborted one has made stays in the store. `ready` is what is reserved,
chosen when a delivery is validated.

### 2.9 ProductSync

`template` and `product` are the contents on the two sides; `twin` is a second template
with the same references, of which only that it is there counts. `record` is what each
external record has: the template ("mapped"; "found" when an export has found the
product and the record has no references yet), none ("alone": the settings create no
templates), or the second one ("other"). `recent` are the products that were exported
less than `receive_webhook_gap` ago. An export has three steps, an import two. `Look`
asks the mapping of the template, as `to_external_record` does, and validates the
product of the record; a record that is alone is not found there, so the store is
searched by references. `Send` follows, and one of three commits.

At the commit, `Written` are the rows of the snapshot that a transaction writes, which
conflict; rows that are inserted do not, but for the two unique constraints of an external
record (`Taken`). No constraint is on the references of a template: an import that has
seen none creates a second one beside a user's (`Second`), after which exports and imports
of unmapped records fail, as two templates have the references. `UpdateHook` and
`DeleteHook` are the webhooks, with what they do to a record that has no template.

### 2.10 ProductMatch

`store` is what the store says of each variant, `item` the variants of Odoo with their
references, `ref` the external records and `mapped` the mappings of both kinds. A
template is imported in two parts, as in `_import_external_product`: `Tried` makes
the records or takes back the whole template (a unique reference, a variant that the
store does not list any more, another number of variants), and `Matched` looks for the
product (`Target`) and maps the variants (`UpdateMappings`), whose errors leave what
they have mapped. `ImportAll` does the templates of a job in any order (`ImportInOrder`, a recursive function), `Commit` asks
for the failed ones again, alone (`Retry`), and a job all of which fails is failed
(`Raises`). `RunMap`, `Resolve`, `MapTemplate` and `MapVariant` are the acts of a user on
mappings: match at once, the wizard of conflicts, and the two lists of mappings with
what each does to the other. `owed` counts by what the tables hold, not by the list of
failures that the code keeps.

### 2.11 StockSync

`onHand` are the quants, `move` the stock moves; `Exported` is the quantity that
`_prepare_inventory_data` computes, with the recursion of bills of materials
(`Producible`, a recursive function), of the field that the settings choose (`Own`).
`ParentsOf` is what `get_bom_parent_templates_recursively` collects, the least set that
holds the products made of this one and those made of its members; `Export` the jobs that a change asks for,
`Cron` the scheduled export in blocks. `Begin` reads the quantities, `Send` sets them
in the store: what changes in between is the next job's. `SendPart` is a job that fails
after the store has taken a part: the adapter of Shopify activates items one by one
before it sets the quantities of a batch, which is taken or refused as a whole. `PlaceOrder`, `ImportOrder`,
`CancelOrder` and `CancelInStore` are an order on the two sides.

### 2.12 History variables and excuses

`ProductSync`, `StockSync` and `OrderDelivery` state that two sides end up the same. Both sides drop changes
in ways that the code accepts (a webhook that is lost, an echo that is ignored, a job
that fails and waits for a user). `excused` records the first such way, with a name;
the property must hold as long as there is none. The list of names is thus the list
of all the ways to lose a change, and TLC shows that there is no other in the
instance (for ProductSync the proof shows it of every instance):

- ProductSync: the job of an edit taken for one that has begun ("stale key"), a lost
  webhook, a webhook within the gap after an export while the sides differ or an
  import in progress has read an older content, and an import or creation that finds
  nothing to do ("early"), the deletion of a product whose record is not made yet
  ("unseen"), a failed job, two jobs at once ("crossed"), and an import that makes a second
  template or gives the template a second record ("second");
- StockSync: a stale key, two exports of a product at once ("crossed"), an order that
  is not reserved ("oversold"), the cancellation of a move that was not reserved
  ("unreserved", section 5), a restock by the store, a failed job, a quantity of the
  store applied to Odoo;
- OrderDelivery: both sides ship the same thing ("crossed"), a delivery that is
  validated by the workflow and never exported ("auto"), a fulfillment of more than
  is reserved ("short"), a webhook faster than the transaction that caused it
  ("echo"), two jobs for one delivery ("both"), a job done again ("retried"), failed,
  a webhook merged into a job that has read the order before ("dropped"), or lost.

`StockSettles`, `EchoDies` and `Received` have no excuse.

## 3. What the runs check

| run | question | instance | states |
|---|---|---|---|
| `job_all` | `ExecutionExclusive`: two handlers never perform the same job; `Recoverable`: a dispatched job can be found dead; `RunnerInSync`: the runner's memory agrees with the table but for its notifications; `CompletionSound`: a handler completes only a started job whose lock it holds; `ImplementsJobLife`; `EveryJobEnds` | 1 job, 2 handlers, 2 requests in flight, one retry | 385,000 |
| `channels_all` | TypeOK; `MemoryInSync`; `CapacityKept`, in memory and in the table; `EtaRespected`: no job is run before its eta; `NoOversleep`: nothing that could reach the root is slept through | 2 jobs, a chain of 3 channels, a throttle in the middle, 3 instants | 1,581,000 |
| `delay_graph` | `InOrder`: a job is executed after all that chains and on_done put before it, but for the two named ways of the code; `NoneHeld`: and waits for no other; `EachOnce`: the direct execution does each job once, and all | 3 delayables, 2 chains or groups of up to 3, a group of none too, 2 calls of on_done | 158,000 |
| `graph_all` | `PropagationSound`: a waiting job is released only when all its parents have been done, cancelled by others only when all have been cancelled; `ReleaseOnlyWaiting`; by handlers alone, `NoneForgotten`: a job whose parents are done is released or will be, and `GraphEnds` | 2 parents, 1 child; with every button and kills, or handlers alone | 636,000 |
| `import_orders` | TypeOK; `NoneMissed`: the cursor passes no order that has no file; `OneOrder`: a file makes one order; `Received`: an order the settings let in gets a file | 3 orders, one transaction, no webhooks; 1 order, two transactions, webhooks | 236,000 |
| `partners` | `OneContact`: orders of a customer get the same contact; `NoDuplicates`: what a search would find is not created; `AddressAlike`: an order gets the addresses it asks for, in all that it says of them | 3 orders, 2 customers, 7 kinds of orders, 5 settings, 2 acts | 1,229,000 |
| `rerun_on_mapping` | finding | the same | |
| `pipeline_all` | `ExecutedOnce`: a step takes effect once until it is reopened; `InOrder`: after the earlier steps; `FileDoneSound`: the file is done when the steps are; `NoneAbandoned`: an order in process has a job, or shows a failure | 3 steps, 2 transactions at a time, 2 acts of webhooks and users | 1,741,000 |
| `deliveries` | `AppliedOnce`: a fulfillment validates one delivery, and never comes back as another; `ShippedAlike`: both sides end with the same quantities | 2 units in one or two lines, 2 exports at a time, 3 acts | 381,000 |
| `products` | `OneProduct`: one product for one template, also when an export is killed after it made one; `NothingLost`: both sides end the same; `EchoDies`: edits do not go back and forth for ever | 3 codes, 2 contents, 2 transactions, 3 acts, and 2 more of one transaction | 553,000 |
| `match` | `Reported`: a product that was asked for is imported as far as it can be, or a job shows it; `WholeProduct`: the variants of a mapped product are its own, all of them unless a job shows a failure or the store has none of them any more; `ProductKept`: no import takes a product from the one it is mapped to; `ImportsEnd`: the retries end | a template of 2 variants and one of 1, 2 products, 2 transactions, 3 acts | 75,000 |
| `stock` | `StoreFollows`: the store ends with the quantities of Odoo; `StockSettles`: the scheduled export makes good whatever was dropped | a part, a product made of it, a kit of that; each of the three fields of quantities; 1 move, 2 transactions, 2 acts | 880,000 |

The `TypeOK` of `OrderDelivery`, `ProductSync`, `StockSync`, `ProductMatch` (there
`MatchTypeOK`) and `Partners` (`PartnersTypeOK`) says what their variables are; it is not
among the properties of their runs. Those of `ProductSync` and `Partners` are proved, and
of that of `ProductMatch` what its theorems need.

Every property of a passing run has a mutant in PROJECT.json: a definition of the
module that makes one plausible mistake (a lock that is not waited for, a state
that is not tested again, an off-by-one, a forgotten pause) with which TLC finds
the property violated on the same instance.

### 3.1 Bounds, and why they are enough

- JobQueue: jobs meet only in the capacity of the channel, which the proof treats
  for every number of them and `channels_all` on two jobs, so one job shows
  all the races for a row. Two handlers and two requests are the smallest instance
  in which a job is requeued while it is executed, or is executed twice.
  `MaxRequests` bounds the requests for one job; a further one is lost, which the
  code may do as well. `RetryCap` makes `retry` saturate above every `MaxRetries`.
- JobChannels: the three levels are the least with a channel in the middle; both
  jobs enter at the bottom, so that the last level and the root are the bottleneck in turn, and the throttle is
  between the two; two throttles are left to the theorem. The clock
  stops at `MaxTime`: two instants after a pause or an eta are enough to be early, on
  time and late.
- DelayGraph: two compounds are the least of which one is in the other; two calls of
  `on_done` can cross a compound's border twice. Three members are the least with one in
  the middle, which is where an empty group separates its neighbours. A chain that begins with a group that
  holds a chain takes three compounds, more than TLC gets through; the theorems are of
  every number and depth of them.
- JobGraph: two parents and a child is where two ends meet. One transaction about
  each job at a time keeps `targets` finite; transactions about different jobs
  interleave freely.
- OrderImport: three orders and a page of two make a full page, a rest, and two
  orders of the same second; `Burst` (orders updated within two seconds of another
  one) is less than the page, without which a poll never gets past a full page of
  the same second (section 5). With the webhooks one order is enough: nothing but
  the page relates orders. Five seconds leave time for a poll before, between and
  after the orders.
- Partners: two orders that are created at once and one that is created before or
  after them. The seven kinds cover the customer who buys for herself, for a company and
  for another one with a different address; another customer who is the same to a
  search, and the same without an e-mail, with goods sent to a company; the guest; and the
  customer without an address, for the invoice of whom the order names a company only
  (created with others of its kind, and with one that can fill it in under each way to keep contacts).
  Of the settings, individual contacts are kept or skipped with either way to search,
  and customers are mapped by hand; then orders are of three of the six kinds only
  (`MCInit`), since users can choose any contact. The theorems are of all orders and settings.
- OrderPipeline: three steps are a first, a next and a last one, with a step that a
  wrong order could pass over; two transactions are the least that conflict; two acts
  let an update, a run by hand, a reopening and a requeue meet in pairs. The proofs
  are of any number of each. `MaxQueued` bounds the waiting jobs of the
  same kind.
- OrderDelivery: two units can be shipped together, apart, and on the two sides; with
  two lines a fulfillment can ask for a line that a delivery does not have.
- ProductSync: three codes allow two products for one template and one that replaces
  another. Three acts are an edit on each side and a failure between them. Two more are
  allowed with one transaction, as long as nothing was dropped, the first with two
  products and the second with one: a record that is left alone, of which an export then
  finds another product, needs four, and a
  webhook within the gap that finds an import in progress needs five.
- ProductMatch: a template with two variants can be matched in part, and one with a
  single variant is matched by other rules; two products and three references are
  enough to find none, the right one, a wrong one or two. The second variant may be
  added, and its item have no reference. A block of two is split when one fails.
- StockSync: the chain of a part, a manufactured product and a kit is the shortest in
  which a move reaches a product through both kinds of bills; the
  scheduled export, which leaves out the kit (a consumable), is one block of two. One move is reserved, done or cancelled while an adjustment
  or an export runs.

`CHECK_DEADLOCK FALSE` is said where the system may stop: the graph has ended, the
acts of the model are used up, all orders are created. The jobs of `JobQueue`, the
loop of `JobChannels` and the scheduled action of `OrderImport` always have a step.
But for `MCInit` of Partners, MC modules restrict an instance only by conditions that lose nothing: codes, orders
and workers are taken in their order, and `MCOrderImport` and `MCJobGraph` choose one
of two scenes in the beginning. Symmetry is used for handlers, transactions,
delayables and orders in runs that check invariants and action properties only.

### 3.2 Fairness

`JobQueue!FairSpec` assumes weak fairness of the runner's loop (a thread that
never stops looping, `run()`), of each handler (the server goes on with a request,
and a job's function returns), of the grant of a lock that is free (PostgreSQL),
of the service of the requests of each job, and of time for a job that nobody
serves. Nothing is assumed of users, kills, lost requests or of the outcome of a
job. `EveryJobEnds` therefore says: if from some moment on these disturbances
stop, a job with a limit of retries ends, from whatever state they have left. A
job whose function always asks for a retry with `ignore_retry` never ends, nor
does one without a limit: both are in the disturbances, or outside the property.

`JobGraph!HandlerFairness` assumes weak fairness of the steps of the handlers
after done, of the requeue of a failed job by its user, and strong fairness of
the success of a job: it may fail or be postponed any number of times, and not for
ever. Strong fairness is needed because each failure disables the success. It
holds in both scenes and the properties use it in the one without users.

`OrderImport!Fairness(w)` assumes that the scheduled action creates its job again
and again, and that one worker goes on with its jobs and with the polls among them
(strong fairness: other jobs may be taken first, not for ever). The failures and
the acts of users are bounded, and need no assumption.

`ProductSync!Fairness` and `OrderDelivery!Fairness` assume that webhooks that are not
lost arrive and that workers go on with what they have begun; that a gap ends.
`ProductMatch!MatchFairness` assumes that each worker goes on with its jobs. `StockSync!Fairness` assumes the same of its jobs, that orders are imported, and that
the scheduled export runs: strong fairness of each of its blocks, since real-time
exports may take the worker first. That jobs are executed is what `EveryJobEnds`
says of the queue.

## 4. What is proved

The proofs are of the same definitions that TLC checks, for every value of the
constants. Nothing is assumed but what the third column names; the assumptions are
those of the modules, which TLC evaluates on every run, but for `Layered`.

| theorem | statement | needs |
|---|---|---|
| `QueueAndMatchProofs!TypeCorrect` | `[]TypeOK` | `RetriesAssumption`, `NoneAssumption`, `BoundsAssumption` |
| `LockingCorrect` | `[]LockingInv` | TypeOK |
| `Exclusion`, `Completion` | `[]ExecutionExclusive`, `CompletionSound` | LockingInv |
| `AlwaysRecoverable` | `[]Recoverable` | TypeOK |
| `RunnerSynchronised` | `[]RunnerInSync` | TypeOK |
| `CapacityKept` | `[]CapacityRespected` | RunnerInSync, `JobAssumption` (finite) |
| `Refinement` | `ImplementsJobLife` | LockingInv, RunnerInSync, `KnownJobs` |
| `ChannelsAndPartnersProofs!TypeCorrect` | `[]TypeOK` | `TreeAssumption`, `ConfigAssumption`, `JobAssumption` |
| `MemorySynchronised` | `[]MemoryInSync` | MemoryInv |
| `CapacityHolds` | `[]CapacityKept` | MemoryInv |
| `EtaHolds` | `EtaRespected` | EtaInv |
| `SleepsRightly` | `[]NoOversleep` | SleepInv, MemoryInv |
| `JobGraphProofs!TypeCorrect` | `[]TypeOK` | - |
| `SnapshotsCorrect` | `[]SnapshotInv` | TypeOK, `GraphAssumption` |
| `PropagationCorrect`, `ReleaseCorrect` | `PropagationSound`, `ReleaseOnlyWaiting` | SnapshotInv |
| `GroupsForgetNone` | `[]NoneForgotten` | AloneInv, `Layered` |
| `DelayInvariant` | `[]DelayInv`, with `DelayTypeOK` | `DelayableAssumption` (finite), `BoundsAssumption` |
| `OrderRespected`, `WaitsForAskedOnly` | `[]InOrder`, `[]NoneHeld` | DelayInv |
| `DirectPerformsEach` | `[]EachOnce` | DelayInv |
| `OrderPipelineProofs!TypeCorrect`, `SnapshotCorrect` | `[]TypeOK`, `[]SnapshotInv` | `BoundsAssumption` |
| `NoDoubleExecution` | `[]ExecutedOnce` | SnapshotInv |
| `StepsInOrder`, `FileFollowsSteps` | `InOrder`, `FileDoneSound` | OrderInv |
| `NoOrderAbandoned` | `[]NoneAbandoned` | LiveInv, WaitInv |
| `OrderImportProofs!TypeCorrect` | `[]TypeOK` | `SetsAssumption`, `BoundsAssumption` |
| `OneOrderOnly` | `[]OneOrder` | SnapshotInv |
| `CursorPassesNone` | `[]NoneMissed` | CursorInv, KnownInv |
| `ContactsInvariant`, `PartnersTypeCorrect` | `[]PInv`, `[]PartnersTypeOK` | `SettingAssumption`, `DataAssumption`, `ActsAssumption` |
| `SearchedBeforeCreated` | `[]NoDuplicates` | PInv |
| `SameCustomerSameContact` | `[]OneContact` | PInv |
| `AddressesAsAsked` | `AddressAlike` | PInv |
| `QueueAndMatchProofs!MatchInvariant` | `[]MatchInv` | `KindsAssumption`, `StartAssumption` |
| `ImportsReported`, `WholeProducts` | `[]Reported`, `[]WholeProduct` | MatchInv |
| `ProductsKept` | `ProductKept` | MatchInv |
| `OrderDeliveryProofs!EchoesApplyNothing` | `[]AppliedOnce` | ShapeInv, ShippedInv, EchoInv |
| `ProductSyncProofs!TypeCorrect` | `[]TypeInv` | `ActsAssumption`, `CodesAssumption` |
| `CreatesOnce` | `[]OneProduct` | OneInv |
| `LosesNothing` | `[]NothingLost` | SyncInv |
| `StockSyncProofs!StoreHasStock` | `[]StoreFollows` | ShapeInv, StoreInv, `BomAssumption`, `SettingAssumption` |

**Locking.** `ExecutionExclusive` is not inductive: nothing in it says why a second
handler cannot begin. `LockingInv` adds that who performs holds the lock of its
job, that a lock is held only by the handler of that job and in the phases after
`Lock`, and that a snapshot nobody has overwritten shows a started job. The last
part is what makes `CompletionSound` true: a handler whose snapshot is true finds
its job started when it commits, and a handler whose snapshot is false does not
commit.

**Capacity.** The bound on the rows follows from the runner's count only if the
runner counts every active row, even before it is notified: `CapacityInv` says
that the active jobs are among the running ones. Retries and requeues leave
the set of active rows, the runner alone enters it.

**Refinement.** The initial state maps to that of `JobLife`, and every action of
JobQueue to one of its actions or to a stutter, one lemma for each. Three
invariants are needed. `LockingInv`: the performer of a job is its handler, and
who commits done finds the job open. `RunnerInSync`: what the runner dispatches is
pending, or is among the notifications it has not read, so that it reopens
an ended job only out of ignorance. `KnownJobs`: what it dispatches exists.

**Channels.** `MemoryInSync` and `CapacityKept` speak of each channel alone, while a
turn moves a job from one to the next. `MemoryInv` describes the places of a job
along its whole path (`PlaceInv`): in the queue of one channel, running in those
upstream of it and nowhere below; running in all; or failed in its own. A job whose row
waits for its parents has nothing, or what it had before it went back to that. `MemoryInv`
also says that an active
row keeps its places in all channels even while a notification of it waits
(`RowInv`), without which the count of the active rows could not follow from the
count of the places. A place is given in two ways: by a turn, which looks at the
capacity, and by `set_running`, which does not. The proof shows why the second
never exceeds it: the job of an active row has its places already. For
`NoOversleep`, `SleepInv` says that the channels that have had their turn have
nothing to give until a notification, an eta or the end of a pause, and so have those
upstream of them; the root has its turn last, and `wakeup` is no later than the
first of these times. That there is a lowest channel among those still to run is
shown by well-foundedness, from the assumption that the channels are a tree.

**Graphs.** The properties relate a commit to what its snapshot showed, which may
be long ago. `SnapshotInv` says that each target of a transaction was waiting
with parents that had all reached the goal, and that this still holds or the
target is among its conflicts; a commit without conflict is then sound. It holds
for every dependency relation, cycles included.

`GroupsForgetNone` is about who is left out. `AloneInv` says that, as long as no user
interferes, what is done stays done, that a release that has found a child has found
all its brothers that wait, and that a waiting job whose parents are done has one that
owes a release or is in the middle of it. The step that matters is the release that
is abandoned because somebody has written one of its targets: that other release must
have taken care of all of them. This holds only if jobs with a parent in common have
the same parents (`Layered`), as in the graphs that `chain()` and `group()` make, and
TLC shows that it fails otherwise: with c after a and b, and d after a alone, the
release by a finds both, b releases c first, the release by a is abandoned and d waits
for ever. The loop of `_enqueue_dependent_jobs` does not help: it tries again in the
transaction that the conflict has aborted.

**Programs of delayables.** `NoneHeld` and `EachOnce` hold of every program: any
number of chains and groups, of no or one member too, as deep as one likes, with any calls of
`on_done`, all reached by `delay()`; `InOrder` of every one that is not `Crossed` or `Hollow`.
`DelayInv` keeps, besides the types, that the members of a compound are made before it,
that the graph has no edge that was not asked for, and orders what was asked (`SoundGraph`), that
what is performed is closed under the edges, and, of the direct execution, that the queue has
each job that is free and not performed, once. The rest is about operators. That
the recursion of `Ends` and of `Reached` is well-founded is shown from the order in
which compounds are made (`EndsExist`, by `FirstMade`) and from the finite number of
nodes; `ReachedIsLeast` is then all that is needed of `Reached`. The ends of a node are units of
it (`EndsInside`), so that every edge is between two jobs of which the second was asked to wait
(`NoneHeld`). The opposite is false of the edges one by one: a chain of three
connects its neighbours only. `AskedRespected` says it of what is performed: a set of jobs
that is closed under the edges is closed under `Asked`. It goes through a compound from its
end to its beginning (`Passed`, `ChainPassed`, `AllPassed`), and needs that the ends of a
node without a chain inside are all its units (`FlatEnds`); where this fails the
program is `Crossed`. A member without units breaks the path from the end of a chain to its
beginning; where that can separate two units the program is `Hollow`, and each of its three
cases is needed: TLC finds the order violated without any of them. For `EachOnce`, a sort that stops has performed everything because some
job of those left would be free otherwise: the graph has no cycle, which `Delay`
requires of what was asked for, and the edges are a part of it. The proof found the
model wrong: the excuse `Crossed` looked at chains that begin or end with a chain, while a chain
that begins or ends with a group that holds a chain is connected at the wrong ends
too. TLC showed it for `chain(group(chain(b, c), d), a)` put after e; the run had passed only because
that takes three compounds.

**Order workflow.** `SnapshotInv` says that a step either is as a transaction has
seen it or is a conflict of that transaction, and that committed effects are
those of a step that is done. A second execution would have to write a step that
it has seen undone and that is done, which is a conflict. For `InOrder`, `OrderInv`
says of every job of a step, waiting, failed or in progress, that the steps before it
are over or were reopened: this is what a job of a step never verifies, so that it
must be true when it is asked for, and remain so. For `NoneAbandoned`, `LiveInv`
says which transactions count: those that will create the job of the next step,
because their snapshot has none waiting (`Calls`); a report of a failure does not, nor
does an update. `WaitInv` says of a job that has seen the next one waiting, and so
creates none, that its own step was over: it has nothing to add, and the job it has
seen still waits, has failed or does the same.

**Orders.** Two facts are proved of a store with any number of orders, pages of any
size and any number of transactions. For `OneOrder`, `SnapshotInv` says of every job
in progress that an order made since its snapshot is among its conflicts, and of
every file that it has made one order if it has an order and none otherwise: a job
that makes a second one did not see the first, and is refused. For `NoneMissed`, the
invariant must speak of transactions as well as of the table: `KnownInv` says that
files are never lost and that what a job is about was placed, and `CursorInv`
that an order the settings let in, updated before the cursor that a poll is going to
write, is in its page or has a file. The page holds the oldest orders, so what it
leaves out is later than all it has; the cursor is one second less than the latest of
the page, so what has the same second is asked for again; what is updated meanwhile is
later than the snapshot. That a page has a latest order is shown by the
well-foundedness of the natural numbers. `Burst` is not used: no order is passed however many arrive at once.

**Contacts.** An order is created in one step of the model, but that step searches and
creates up to five times in the contacts of a snapshot, and what it has made is then
moved behind what others have created meanwhile. The lemmas follow this order. A
transaction only adds contacts, changes of the others no more than what was empty, and
adds none that a search of it would have found (`Grows`): this holds of each operator and is
passed along the chain of calls, from `Company` to `Outcome` (`CustomerIs`, `AddressFor`
say what is found). The merge keeps it, since a row that the transaction changes was
changed by nobody else, and what it adds can be the double only of a contact that
it did not see, which is what `apart` records.

`PInv` is the inductive invariant. `SnapInv` relates what a transaction has seen to the
table: contacts only grow, and a row that differs is among its conflicts. `KeyInv` is
what `NoDuplicates` follows from: of two contacts that a search takes for the same
(`Twins`), each was created without seeing the other. It has to speak of what the searches
compare and not of whole records, because contacts are filled in later
(`_write_address_fields_if_empty`) and two that differ may become the same. For
`OneContact`, `CustomerInv` says how a customer got each contact: without a user's choice
the mapping is what the last of the orders of the customer has written (`ExternalInv`);
a contact that is a person was the first that a search for one of those orders finds
(`FirstFound`), or is the mapping itself (`PersonInv`); one that is a company has the name
that the order gives (`FirmInv`). Two orders that say the same then have found the same
contact, or found it apart.

The proof found two faults of the properties, which TLC confirmed on a larger instance
before they were corrected. `AddressAlike` failed for goods sent to a company under its
own name when individual contacts are skipped: the address is then the company itself, and
belongs to nobody. `OneContact` failed where the mapping does not decide, which it took
for granted: a customer who orders under another name or e-mail (`AlsoNamed`), two
companies of one name created at the same time by orders of different customers
(`Twofold`), and a search by an e-mail that the order lacks, which finds nothing
(`Unknown`). The instance has these cases now. `AddressAlike` is of every order, of which the proof assumes
no more than `DataAssumption`: types, and that a customer has a name. It says of an address
what the order says: a street or a country that an order lacks may be filled in at the
same time, in the contact that it gets (`_write_address_fields_if_empty`).

**Products matched.** A transaction imports a block, one template after the other in the
order in which the store answers, and commits the rows it has written over a table that
users and other imports have changed since. The proof has three parts.

What one template does (`ImportOneIs`): it is either left as it was, and counted as a
failure; or its records are written, the matching leaves it with the product it had, and
either has found one that suits all its variants (`FullyMatched`) or has stopped, counted
as a failure, with variants of that product, or of none (`Halfway`). What a block does: no
template touches the family of another (`Apart`), so the same holds of each at the end of
any order (`ImportAllIs`). The recursion is over the position in the block; that what holds after k
templates holds after all is shown by the least position at which it would fail, so that no
induction over data is needed.

What lands (`ImportLands`): `ReadInv` says of every transaction in progress that a template
whose record nobody has written since (no row for it in `changed`) still has the records
that the transaction has read, and also the mappings unless a user has changed them, and
that a mapping that differs is a row. An import writes the record of each template it has imported, so
that a commit without conflict has read the records as they are. This is why two imports never mix their
matchings, though the mappings that an import leaves alone are not rows. `ProductKept`
follows at once, also for what a user has mapped by hand in the meantime.

What the invariant says of the rest: `Reported`, which is inductive, since whatever the
failures of a block are counted as, a template that is not settled is among them
(`OwedFailed`); and `WholeInv`, which is stronger than `WholeProduct`: a
job that is to excuse a template that lacks a variant must wait, have failed, or have begun
after the last import of the template (`Shown`), since a job that will be refused for its
conflict, and begun again, is not the same as one that imports what it has read.

The proof found the property wrong: a template stays mapped in part, with no job to show
it, when the store deletes its last variants before the job that was asked for again
begins: the store does not know the template any more, and the code takes what it does not
receive neither for imported nor for failed. It takes three templates: two of a block are matched
in part and asked for again together, and when the variants of one are deleted the other is
imported, without which the job would have failed. `WholeProduct`
has the exception now, and TLC shows the trace on that larger instance without it.

**Deliveries.** `AppliedOnce` is about who can apply what. `EchoInv` says that while nothing
was excused, a record that can be applied (draft or failed) is of a fulfillment of the
staff, and a fulfillment of Odoo that has no record yet was made by an export in progress,
which will mark it as done in the transaction in which it ends. The export of tracking
is the odd one: it creates its records as drafts, applies all drafts, its own ones
included, and marks them as done only after. That they validate nothing rests on
`ShippedInv`: such an export is asked for when nothing is left to deliver, and nothing
ever is after that, since backorders come only from open deliveries. The loop over the
records is a recursive function; that it exists, and that what one round keeps
(`Progress`) the whole loop keeps, is shown by taking the least round for which it
failed. The quantities play no part, and are not typed. Writing the proof showed that the
alternatives of `Validate` and of some operators of `Partners` and `ProductMatch` were
not exclusive, so that only TLC's choice of the first one that applies was the code's;
they are now.

**Products.** `OneProduct` is about two stores that share no transaction. `OneInv` says
that there is one product and one export at most, and that an export that found none
still has none beside it when it creates one; a killed export leaves its product, which
the search by reference of the next one finds. For `NothingLost`, the invariant has to
say at every moment, and not only at the end, who will make the two sides the same.
`SyncInv`: while nothing was dropped, a template and a product that is mapped to it differ
only if a webhook or a job that will look at the product is pending, or a transaction is
about to (`Pending`, `Working`), which is said of every record, though a template has one
only (`OneRecord`: what gives it a second is an excuse); what the transaction has read of the template is what the
template is, or another export was asked for (`Snapshot`); what an export has sent,
or an import has read, is what both sides have, or somebody will look again
(`SentSync`, `ReadSync`). Each action then either makes the sides the same, leaves
somebody who will look, or has an excuse. The proof found two faults of the model,
which are corrected: the excuse of a webhook within the gap did not cover an import in
progress that had read the product before, of which TLC then found the trace, and the
identity key that imports and creations share needed no excuse of its own.

**Stock.** `StoreFollows` speaks of the end, when nothing is left to do. `StoreInv` says at
every moment, while nothing was dropped, who sees to a product that the store does not
have as Odoo has it: a job that waits, an export in progress, or an order of the store
that is not imported (`TakenCare`); that what an export is about to send is what Odoo
has, or another export waits (`SentRight`); and that no product is in two exports at once
(`OneAtATime`), without which the older could be sent last. The step that carries the
proof is that of a change: the quantities that differ after it are those of the product
and of what is made of it, however long the chain of bills, and all of these are asked
for. Two lemmas say so. `ParentsUpward`: the parents of a product, with it, hold all that
is made of them. `ProducibleSame`: what can be made of a product depends on its parts
alone; it needs that the recursion of `_compute_qty_producible` ends (`ComputedAll`),
which is shown from the absence of cycles, by taking a largest set of products for which
it does. The quantities themselves play no part, and are not typed: their division and
their minimum may be any functions of what the parts have. The proof made explicit what the
model took for granted: that bills have no cycles, which Odoo refuses, and that the needs of
a kit are those of `explode`, so that no part is a kit (`BomAssumption`).

**Only model-checked.** Every invariant and every action property of the runs is proved; what
is left to TLC are:

- The types of OrderDelivery and of StockSync, which hold on the instances of their runs
  and are not among the properties: the
  quantities of the first are sums over deliveries, which is induction over data; those of
  the second need that no more is reserved than there is, which only TLC's run has. Of
  `MatchTypeOK`, that no two records have the same reference, that what is mapped exists in
  Odoo, and that jobs are not empty and not too large.
- Liveness (`EveryJobEnds`, `GraphEnds`, `Received`, `EchoDies`, `StockSettles`,
  `ShippedAlike`, `ImportsEnd`) and `ENABLED` are out of the prover's reach.

The strengthenings (`LockingInv`, `MemoryInv`, `SleepInv`, `AloneInv`, `DelayInv`, the
`SnapshotInv`, `OrderInv`, `LiveInv`, `CursorInv`, `OneInv`, `SyncInv`, `EchoInv`, `StoreInv`, `PInv`,
`MatchInv`) are proved with the properties they are for, and not listed with a run.

## 5. Findings

One run refutes a sentence of the repository:

- `rerun_on_mapping` (`integration/models/queue_job.py:158`): the fields "used for
  re-run jobs on fixed mapping" are cut from a message that begins with the name of
  the integration; the name of the model that is kept is never the one that is
  looked for, so jobs that wait for a mapping stay failed when it is made.

Met while modelling, modelled as the code has it, and without a run of their own.
In `queue_job`:

- the query of dead jobs takes a started job for dead whose handler is alive and has
  not yet taken the lock, if it was enqueued more than ten seconds ago
  (`runner.py:369`; the docstring at 402 says otherwise). `ExecutionExclusive` holds
  nevertheless;
- `set_job_enqueued` overwrites a job cancelled since the runner looked
  (`runner.py:317`), which is then executed;
- a serialization error or a dead handler is retried beyond `max_retries`
  (`main.py:116`, `runner.py:337`): the one is not counted against the limit where
  it is raised, the other allows one more;
- a sequential channel waits for the job with the next eta only, and overtakes one
  that comes first and has a later eta (`channels.py:341`);
- a job that is requeued or postponed while a parent is not done any more goes back to
  `wait_dependencies` (`job.py:790`), of which the runner takes no notice
  (`channels.py:1060`): it keeps its place, which counts against the capacity of its
  channels, or blocks a sequential one as the failed job that it was, and if it was in a queue it is executed
  without its parents, since `set_job_enqueued` looks at no state;
- a kill between the commit of done and the release (`main.py:161`), two users who
  set the two parents to done at the same time, a requeue of the child that meets
  the end of its parent (`job.py:790`): each leaves the child waiting for ever; so
  does the release that is retried in the transaction that a serialization error has
  aborted (`main.py:48`; in a graph where two jobs share some parents only, section 4), and the button of `integration` that looks for the children
  before it stores that their parent is done (`integration/models/queue_job.py:357`);
- `cancel_dependent_jobs` stops at the children (`job.py:571`);
- a chain asks its first node for the tail and its last for the head
  (`delay.py:330`), which connects a chain that begins or ends with a chain, or with a group that holds one, at
  the wrong ends;
- a group of none, as `split()` makes of an empty recordset (`delay.py:570`), has no head and
  no tail (`delay.py:382`): in `chain(a, group(), b)` b does not wait for a, and what is passed to the `on_done` of
  such a group is not connected and may never be delayed;
- `delay()` returns when it has replaced the first generated job by one with the same
  identity key (`delay.py:285`), and drops a graph all of whose keyed jobs exist, with
  those that have no key; `split()` gives all parts the same key.

In the import of orders:

- the poll gets stuck when a page is full of orders of one second, since the next one
  asks from that second again: `Received` needs `Burst < PageLimit`;
- webhooks do not respect the cut-off date of imports; a status that comes while a
  job of the same order waits is dropped, and an older one may be applied last, since
  the identity key has no status (`sale_integration.py:5984`, 6711);
- `action_process` clears `update_required` before the job parses: the old content
  of the file is used;
- the lines that would disable the steps after a disabled one are commented out
  (`sale_order.py:37`); an update of the workflow does not create a trigger if its
  snapshot shows one waiting (`sale_order.py:615`), and the report of a failed step
  has the identity key of that step (`integration_workflow_pipeline.py:199`).

In the customers of orders:

- an order without a company, of a customer who also buys for one, gets the contact
  that was mapped last, which may be the one under the company;
- with `skip_individual_contacts` a mapping to a person is never compatible: under a
  search by e-mail, a customer without e-mail gets a new contact for each order;
- without an e-mail the default search takes any contact of that name;
- a company that two customers order for at the same time may be created twice;
- a job whose snapshot is older than a mapping resets what the user has chosen, with
  its new cursor; a violation of the unique external record is swallowed, so that the
  job fails where it would be retried.

In the import of products:

- an error of the matching is caught inside of the savepoint
  (`sale_integration.py:3621`): a template keeps variants that were unmapped or mapped
  before the error;
- a product that fails alone in its job leaves no record; among others that succeed
  it does;
- an id that the store does not know gives neither a product nor an error (the FIXME of
  `sale_integration.py:2599`): a template that was matched in part, and whose variants are
  deleted in the store before the import is tried again, stays so and no job shows it;
- variants are written one by one under a unique reference: if two variants exchange
  their references in the store, every import of their template fails; a variant that
  the store has deleted blocks the import until a user resolves the conflict;
- `import_products` with `remove_existing_records` (`sale_integration.py:2535`) deletes
  in its own transaction, then imports blocks in others, which see the deleted records,
  wait for their locks, and are waited for: it never returns if there was a record;
- products are searched without regard to case, variants of the product that is found
  with it.

In products, stock and deliveries:

- the comment of `StockMove.write` (`stock_move.py:117`) says that the cancellation of an
  outgoing move fires the trigger of the quant: a move that was not reserved has no
  reservation to release, and with `virtual_available` as the exported field nothing
  is exported until the scheduled export;
- an export that finds a product by its references asks for its import with the key
  that a creation by webhook uses (`sale_integration.py:5954`): the import that
  the message promises may never be done;
- an external record without a template (`auto_create_products_on_so` off) is not found by
  an export of the template, which asks the mapping: if the store has two products by then
  the export fails, and otherwise the product is taken by its references, or a new one is
  made after this one is gone, whose record is refused for its reference
  (`uniq_reference`) after the store has it;
- an import and a user may both create a template for a product: nothing in the database
  tells them apart. From then on each export of the one fails (`validate_in_odoo`), and the
  import of a record without a mapping finds two;
- a variant whose bills of materials are all unusable is exported with its stock twice
  (`product_product.py:400`);
- the location of an item of an order overwrites its quantity: an item split over two
  locations goes to the first entirely;
- a delivery in a job of its own and in one of the whole order is fulfilled twice in
  the store (`sale_integration.py:4287`); a tracking reference that the carrier gives
  after the export is never sent; deliveries that the workflow validates are not
  exported.
## 6. What is not modelled

- In `queue_job`: several databases and the election of the master runner,
  autovacuum and deletion of jobs, messages and subscriptions, the encoding of
  arguments, the heaps of `PriorityQueue`, a change of the channel or priority of
  a job, the parsing of the configuration of channels, the button of immediate
  execution in JobQueue (it is in JobGraph), the table of the delays of retries.
- In `integration`: the settings and their tests; the content of orders (lines,
  taxes, discounts, deliveries of several kinds), which is computed in one
  transaction and has no interleaving; invoices and payments; the conversion of
  fields between the catalogues, images, prices, categories and attributes;
  barcodes; the real-time import of products. Of the second template in ProductSync,
  its content and what users do with it, and users who make one knowingly.
- In `integration_shopify`: the client of the API and the texts of its queries, which
  are calls to an external service, modelled by what they return; order transactions;
  deliveries over several locations, kits in deliveries, the cancellation of
  fulfillments.
- `sale_advance_payment`, `purchase_vendorbill_advance`, `jf_quality`, `nuprod_*`:
  each operation is one synchronous act of a user on amounts or fields that Odoo's
  own applications, which are not in the repository, compute.
- The carriers and the web shop, portal, helpdesk and base tweaks: synchronous
  calls or overrides of one line, no sequence of steps to go wrong.
- Odoo and PostgreSQL: the transactions are as documented (REPEATABLE READ, FOR
  UPDATE, unique constraints, LISTEN/NOTIFY), the ORM writes only the fields that
  change; that it copies the address of a company to its contacts is left out.

The map covers a minor part of the implementation: the larger part of it is
configuration, conversion of fields, views and the texts of queries. What is modelled
is what runs as jobs, webhooks or transactions at the same time as something else.

## 7. What is left

1. `JobChannels`: the search of dead jobs with the clock (`runner.py:582`).
2. The immediate execution added to JobQueue, and the refinement theorem extended
   to it; `JobGraph` shown to use of a job no more than `JobLife` promises.
3. The transactions of Shopify and the payments they become; the fulfillments of an
   order over several locations.
4. The residual amounts of `sale_advance_payment` and the recomputed reservations of
   `nuprod_recalculate_reserved_quantities`.
