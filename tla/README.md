# A TLA+ model of the SuperERP backend

The repository is a multi-tenant ERP backend: NestJS handlers over TypeORM
repositories and PostgreSQL. Every HTTP handler is an `async` function that issues
one database statement after another. Almost nothing runs in a transaction and
nothing takes a row lock, so **between any two `await`s any other handler may run,
and a handler may die at any `await`**. That is where this code is hard to test, and
it is what the modules here describe: one action per database statement, requests
interleaving, requests dying, copies of rows going stale between a read and a write.

Paths below are relative to `src/src/modules/` unless they start with `src/`.

## 1. Inventory

| Component | State | Operations | Hard behaviour | What makes it correct |
|---|---|---|---|---|
| Workflow execution engine (`workflows/workflow-execution.service.ts`) | `workflow_executions` row (status, currentState, currentStepOrder, stateHistory, stepResults), `tasks`, `workflow_events` | trigger, run a step, resume after a task, approve/reject, execute a transition | overlapping requests on one row, `save()` of stale copies, pause written after the task is visible, crash between statements | the history explains the state; a waiting execution waits for a real task; decisions are in the audit trail; no execution is left RUNNING with nobody running it |
| Task inbox (`tasks/tasks.service.ts`) | `tasks` row (status, assignedToId, claimedByUserId, metadata) | claim, unclaim, start, cancel, complete | check-then-write races, entitlement withdrawn between check and write | one owner at a time; only entitled users own a task |
| Delegations, approval limits (`workflows/workflow-delegations.service.ts`, `workflow-approval-limits.service.ts`) | `workflow_delegations`, limits on roles and users | create, revoke, who may act, how much | time windows, empty role lists, null as "unlimited" | authority starts from a holder; the strictest limit wins |
| Workflow design (`workflows/workflows.service.ts`) | workflows, steps, states, transitions | CRUD, activate, remove, deploy from template | removal under running executions, compensation after a failed deployment, limit check then insert | a deployment is all or nothing; limits hold |
| Workflow catalog (`workflow-catalog/`) | published templates | sync at start, publish, unpublish | restarts while an administrator edits | publication survives a restart |
| Event triggers (`workflows/workflow-trigger.service.ts`) | none | for each linked workflow, trigger it | errors swallowed in the middle of a loop | each linked workflow is triggered at most once per record |
| Automation (`workflows/workflow-automation.service.ts`) | `entity_data.data` | update a field, create a record, notify | read-modify-write of a JSON object | a field is lost only by a stale copy |
| Dynamic entities and records (`entities/entities.service.ts`) | entities, entity_data | schema and record CRUD | uniqueness by query, count then delete, a PATCH that moves a record | unique fields, no orphans |
| Subscriptions, payments (`subscriptions/`) | plans, subscriptions | default subscription, upgrade, checkout, verify, limits | a payment verified twice, two first requests | one subscription per tenant, on the plan last chosen; no plan doubled |
| Tenants (`tenants/tenants.service.ts`) | tenants.status, verification, settings | onboard, submit, approve, reject, settings | status written without a look at it, settings merged from a stale copy | the verification cycle, no lost settings |
| Accounts and roles (`auth/`, `users/`, `roles/`) | users, roles | register, sign in, reset password, assign roles | role lists saved whole, tests before inserts, limits that change | no lost role change; one account per address |
| Permissions (`src/src/common/permissions/`) | none (pure) | merge of role permissions | | the merge is a union |
| Attendance (`attendance/`) | attendance rows, adjustments | check in and out, request and decide adjustments | two check-ins, approve against reject | one row a day; a decision and its effect agree |
| Accounting (`accounting/`) | accounts, journal entries | create accounts, post entries | tolerance of the balance, rollback | entries balance |
| Invoices, products, HRM | rows, image files | CRUD, image upload and removal | file and row written separately | a product's path names its file |
| Notifications, audit log, e-mail, analytics, HTTP shell | append-only rows, I/O | | | |

How they interact: a record created through `entities` (or HRM) calls the trigger
service, which calls `triggerWorkflow` of the engine for each linked workflow. The
engine creates tasks; people claim and complete them in the inbox, which asks the
delegation and limit services and then calls `resumeAfterTaskCompletion` of the
engine. Automation steps of the engine write records. Design operations change the
workflow that the engine reads. Creating entities and workflows asks the subscription
service for the tenant's limit. Everything shares state through the database only;
there is no queue, timer or background job.

`PROJECT.json` lists every hazard found in this survey at its line.

## 2. The modules

| Module | Models |
|---|---|
| `WorkflowExecution` | one execution of one workflow, all calls, each handler split at its awaits |
| `ExecutionLifecycle` | the abstract promise of an execution to the people who decide its tasks |
| `MCWorkflowExecution` | small workflows and client surfaces for TLC |
| `WorkflowExecutionProofs` | TLAPS proofs about `WorkflowExecution` |
| `ApprovalLimits` | the approval limit as operators, with the rule in words (`MayApprove`) beside it |
| `TaskInbox` | one approval task: claims, delegations, limits, and the changes administrators make meanwhile |
| `MCTaskInbox` | two users, two roles |
| `Records` | entity definitions, records, event triggers, the record actions of automation, the audit log |
| `WorkflowDesign` | a tenant's workflows with their states, transitions, steps and executions: editing, removal, deployment |
| `TemplateCatalog` | the catalog of published templates over restarts and publications |
| `Tenancy` | one workspace: onboarding, settings, verification, blueprints |
| `Billing` | plans, one company's subscription and its payments |
| `Accounts` | users, passwords, reset links, roles |
| `Attendance` | the attendance of one date, adjustments and verdicts |
| `Ledger` | accounts, journal entries, the trial balance |
| `ProductImages` | products and their image files |
| `TaskInboxProofs` | TLAPS proofs about `TaskInbox` and `ApprovalLimits` |
| `RecordsProofs` | TLAPS proofs about `Records` |
| `WorkflowDesignProofs`, `DeploymentProofs` | TLAPS proofs about `WorkflowDesign`: tables and limits; on top of them, whole deployments |
| `CatalogProofs` | TLAPS proofs about `TemplateCatalog` |
| `TenancyProofs` | TLAPS proofs about `Tenancy`, `Billing` and `Accounts` |
| `BackOfficeProofs` | TLAPS proofs about `Attendance`, `Ledger` and `ProductImages` |
| `MCRecords`, `MCWorkflowDesign`, `MCTenancy`, `MCBackOffice` | small instances for TLC; the last three put modules that share no table side by side |

### WorkflowExecution

`row` is the `workflow_executions` row, `tasks` the task rows it created, `events` the
logged `workflow_events`. `pc[p]` is the statement request `p` is about to issue and
`loc[p]` its JavaScript locals; `loc[p].snap` is the copy of the row it read last.
The correspondence with the code is the `map` of `PROJECT.json`; the shape is:

| Code | Actions |
|---|---|
| `triggerWorkflow` | `TriggerWorkflow`, `TriggerEvent`, then the run loop |
| `runNextStep`, `runStepAt`, `gotoStepById`, `proceedAfterStep`, `completeExecution` | `RunNextStep`, `RunStepAt`, `Proceed`, `CompleteExecution` |
| `executeStepOfType` and the step executors | `ExecuteStep`, `AutomationEvent`, `ReadResults`, `WriteResults`, `SaveTask`, `Pause` |
| `completeTask`, `resumeAfterTaskCompletion` | `CompleteTask`, `ResumeLoad`, `CloseTask`, `TaskMove` (`TaskMoveFails` is its catch clause), `Resume`, `CancelExecution` |
| `routeAfterRejection` | `RejectEvent`, `RejectGoto` or `RejectLoad`, `RejectSave`, `RejectMovedEvent`, `RejectStatus` |
| `handleApproval` | `HandleApproval`, `DecisionEvent`, `ApproveSave`, `ApproveEvent` |
| `executeTransition` with its `create_task` actions | `ExecuteTransition`, `MoveSave`, `MoveEvent`, `MoveLoad`, `SaveTask`, `Pause` |
| `startTask`, `claimTask`, `cancelTask` as the engine sees them | `StartTask`, `CancelTask` |
| a failed statement, a crash | `Fail` |

What is abstracted, and how:

- One execution of one workflow, fixed while it runs. Editing or removing a workflow
  under an execution is in `WorkflowDesign`.
- A computation and the statement it leads to are one action. A read whose result the
  handler does not carry over another await is folded into the following step.
- `save()` writes every column of the loaded copy that differs from the row, so it is
  modelled as the copy replacing the row. TypeORM does this by re-reading the row and
  comparing; the model treats that re-read and the write as one statement.
- `stepResults` is the set of its entries and its last entry: the code appends, filters
  by step id and looks at the last entry, nothing else. `handleApproval` decides by the
  last one.
- PENDING and IN_PROGRESS are both "open"; `TaskInbox` tells them apart.
- The record's data is abstracted: a condition step may take either branch, an
  automation may succeed or fail.
- Notifications, `update_field` and `send_notification` actions of a transition, logging
  and the required role of a transition leave this state alone and are left out; a
  refused call changes nothing.
- Steps of equal order come in any order (the database gives none); states of equal
  order likewise.
- A task that a transition created has a null step id, and `findOne` with a null id
  applies no condition: the engine then gets some step. The model takes any step of the
  workflow. (The code's query is not limited to the workflow.)
- `executeStep`, `findValidTransitions` and `resolveAssignment` have no caller and are
  left out.

### TaskInbox

One approval task assigned to a role, two users with at most one request each.
Each handler is split into its reads and its write; `AssignRole`, `RemoveRole`,
`SetOverride`, `CreateDelegation`, `RevokeDelegation` and `Tick` happen in between.
TypeORM's `update()` leaves out columns whose value is `undefined`, so the update in
`unclaimTask` writes the status only. `held`, `entitled`, `permitted`, `approvedBy` and
`roled` are history variables that no guard reads: who ever held the role, who was ever
entitled to act on it, whose limit ever covered the amount, who last approved, and
who held the role at some moment since beginning the latest claim, while it was handled.
Creating and revoking delegations and changing a role are single steps.
The amount is a number and the task has an execution; other tasks are not limited.

### The shape of the other modules

All of them are built alike. The tables are one or two variables each. Per request
there is a control point, the statement to be issued next, and a record of the
handler's locals, above all the copy of the row it loaded. One action is one statement
together with the computation that follows it up to the next. A request may stop at any of
its statements (`Fail`, `Crash`, `Break`, `BreakOff`, `Abandon`, `BillingFail`, `Drop`):
the database refused one or the process died. Unique keys and foreign keys of the
entities are guards of the statements they constrain. `save()` of a loaded row is
modelled as TypeORM does it: the columns in which the copy differs from the row as
it is *then* are written. An `update()` writes the columns it names.

Most of these handlers are not safe under overlap, and the code does not claim they are. A
property saying "no update is lost" would be false and one saying "no update is lost by a
single request" would be empty. The properties therefore have the form *an anomaly has a
cause*: history variables, which no guard reads, note every overlap that the code cannot
see (two tests before two inserts, a save from a copy that another save had outdated, a
request that broke off half-way), and the invariant says that the anomaly occurs
only where such an overlap was noted. That excludes every other way to the
anomaly: a missing guard, a swapped order, a forgotten column, a retry that does it twice.

**Records.** A record has a number field (nothing, `''`, a number, the number as
text, one above `validation.max`, a word) and a lookup field; other types pass through
the same statements with another test. Creating and updating validate by different
functions with different rules (`AcceptedOnCreate`, `AcceptedOnUpdate`) and the
uniqueness test compares texts. After the insert a record walks through the linked
active workflows, each call to the engine succeeding or failing, and is then
logged. HRM's employees enter the same loop through the slug `employee`. `update_field`
and `create_entity` are what a resumed automation does, statement by statement.
`Toggle` switches a workflow on or off. The body of an update may carry `entityId`:
`update()` then writes it, so the record arrives in another definition, with new data tested under
the old one (`BeginUpdate`) or with the data it has (`BeginMove`). A record remembers which
handler wrote it, under which version of which definition (`born`, `tested`), the lookup its last form
gave it, and whether a write came between its test and its insert. `effects` are the things requests
did, beside the `log` of what they said they did. A definition counts its versions and its id is never given out again, as a
database's ids are not. A behaviour starts from tables that `TablesAssumption` describes: any that the
handlers could have stored.

**WorkflowDesign.** A deployment runs through seeding of entity definitions, the
insert of the workflow (after the limit count), states, roles, transitions, steps and
activation; when a statement fails the catch clause removes the workflow in the
transaction of `remove`, and that may fail as well. Every other design request, the
triggering of a workflow and the removal of an entity definition interleave. The transaction
of `remove` is one action over the ids read before it began, guarded by the foreign
keys, so a row that was added in between makes it fail. Statuses that `update`
can set are those of `activate` and `pause`. Step configuration is abstracted. `roles`
counts the roles of each name, active and not: a deployment reads the active ones, and
administrators create, rename, deactivate and reactivate roles under it (`CreateRole`, `UpdateRole`).
A behaviour starts from tables that `TablesAssumption` describes: within the plan's limit, with
rows the handlers could have stored, and with no deployment half done.

**TemplateCatalog.** `Release` is a new version of the code; a process start loads and
saves one template after another, while administrators publish and unpublish.

**Tenancy.** The row with its two status columns, three parts of `settings`, the documents and
the files behind them, the definitions and workflows of a blueprint, the audit
log. `updateMySettings` and `submitVerificationApplication` read the tenant, store files
and write; a verdict writes and then logs, and `verdicts` remembers which request gave which. The seeding loop swallows errors.

**Billing.** `StartProcess` seeds the default plans by name; `CheckLimit` creates the
trial of a company that has no subscription, and the free plan if none with price 0 is active;
`CreatePlan` and `UpdatePlan` let an administrator give a plan any name and price and withdraw it;
`Upgrade` and `Verify` move the company to a plan. Payments are external: a checkout is
paid by the customer at any time and verified any number of times.

**Accounts.** Registration, registration with a company (one transaction, one action),
creation by an administrator, set-up of the super administrator, changes of the plan
(`ChangePlan`: the limit of users becomes another), role assignment and removal as load, look up, save; password
change; reset links that are made, expire, are found and used.

**Attendance.** Check-in, check-out and approval as load and save of the row of one
date. Times of an adjustment are text (`type: 'time'`), the minutes computed
from them are NaN and the save is refused: `ApplyAdjustment` models that.

**Ledger.** Amounts are thousandths, columns keep hundredths, and the balance test allows
a hundredth. `createJournalEntry` is one transaction and one action.

**ProductImages.** File and row are written by separate statements; the file's name is
the product's id and the image's type. An upload removes the old file and may then be refused
(`FindForUpload`). The bodies of create and update are spread over the row, so they may bring a
path, also one of another product's file, and an id: `handmade` notes the products concerned.

### Slips

Each module holds definitions marked "Slip": one operator changed the way a
plausible bug would change it (a result that is not recorded, a check that is
dropped, `>=` for `>`). No specification uses them. Each property of a passing run
has one; with the slip in place of the definition TLC reports that property violated.

## 3. Runs

| Run | Question | Bounds | Result |
|---|---|---|---|
| `engine_overlap` | every call, two requests overlapping, one death: do row, tasks, events and history still agree? | 2 slots, 4 calls, 1 death; three workflows (task then approval with rejection by goto; condition, notification, automation, approval, dangling reference; states only with task-creating transitions); symmetric slots | `TypeOK`, `WaitingHasTask`, `DecisionsAudited`, `HistoryExplainsState`, `MovesAreConfigured` hold (157 000 states) |
| `engine_inbox` | does one client at a time in the inbox see an execution keep `ExecutionLifecycle`? | 1 slot, 7 calls, 2 deaths; adds a workflow with equal orders and an unknown step type | `KeepsLifecycle` holds (2 300 states) |
| `engine_settles` | do overlapping requests always come to rest? | 2 slots, 4 calls of every kind but transitions, no death, fairness | `IdleMeansSettled`, `RequestsFinish` hold (88 000 states) |
| `engine_resume` | is a paused execution always resumed by completing its tasks? | 2 slots, 3 calls, inbox only | violated, see the findings |
| `engine_next_step` | is `nextStepId` followed after a completed task? | 1 slot | violated, see the findings |
| `task_inbox` | who owns a task, who may, and up to which amount? | 2 users, 2 roles, clock 0..2, 2 administrative changes | `TypeOK` and five invariants hold (355 000 states) |
| `task_inbox_claim` | does a claim only take an unclaimed task? | clock 0..1, 1 change | violated, see the findings |
| `task_inbox_unclaim` | does unclaiming release ownership? | clock 0..1 | violated, see the findings |
| `records` | what do uniqueness, validity, triggering and the audit log still promise when requests overlap? | 2 symmetric requests, 3 definitions (limit 3), 3 rows, 2 linked workflows, 1 switch of a workflow; a record in each of two definitions, or one record and room for two | `TypeOK` and seven invariants hold (537 000 states) |
| `workflow_design` | is anything orphaned, half built, doubled or lost when designs are edited, deployed, removed and triggered, and when processes restart? | 2 requests, 3 workflows, a good and a broken template, limit 2, 2 role names in 3 initial tables; catalog: 2 templates, 2 clerks, 2 releases, 4 requests | `TypeOK` and seven invariants hold (635 000 states) |
| `tenancy` | which updates of a workspace, its billing and its accounts can be lost, doubled or contradictory, and only why? | 2 actors and 3 visits; 2 payers, 3 plans and 4 orders; 2 callers, 3 users, a limit of 0 to 2 and 3 calls; actors, payers and callers symmetric | seven invariants hold (1 341 000 states) |
| `back_office` | do attendance rows, verdicts, balances and files agree? | 2 clerks and 4 requests; 2 keepers and 3 entries out of specimen forms; 2 sellers, 2 products and 4 errands | `AttendanceHolds`, `LedgerHolds`, `ImagesHold` hold (1 360 000 states) |

Why the bounds are enough. The races are between a read and a write of one handler
and a write of another, so two slots show them; four calls are enough for a trigger, two
overlapping decisions and one more that meets their result. The longest sequential
path, a trigger and every decision of the four-step workflow with one retry after
each death, fits in seven calls. Two changes are enough for a delegation to be created
and the role then withdrawn, and a clock of three values for a window that is
over before the end. In `records` and `tenancy` requests differ by name only, so their permutations are a symmetry of
the run; all properties there are invariants. Deadlock checking is off because every run stops once its calls
are used up, and because a client need not call.

The four later runs follow the same reasoning: an anomaly is made by two overlapping
requests, so two slots, and it is met by one or two more requests, so three or four in
all; two in `records` and `workflow_design`, whose requests are long (a
deployment has a dozen statements) and which start from tables that already hold a
record or a deployed workflow. In `tenancy`, `back_office` and
`workflow_design` a variable `part` selects one module per behaviour: these modules share
no table, so their product would add states and no behaviour.
`TenancyHolds`, `BillingHolds`, `AccountsHold`, `CatalogHolds`, `AttendanceHolds`, `LedgerHolds` and
`ImagesHold` join the type invariant of a module with named statements about it
(`VerdictsHold`, `TwinsHaveCause`, `TrialBalanceHolds` and so on; below they are
explained, and in section 5 proved, one by one).

`MaxCalls`, `MaxFails`, `MaxTime` and `MaxChanges` bound the runs, as do `MaxRequests`, `MaxVisits`, `MaxOrders`, `MaxHits`, `MaxEntries`,
`MaxErrands`, `MaxRounds` and `MaxRelease`; they appear only in
guards and in ranges of history. `MaxEntities`, `MaxWorkflows` and `MaxUsers` are not bounds
of a run: they are the limits of the tenant's plan (`MaxUsers` the greatest a plan may have). `Surfaces` restricts the calls of a run's client. `Overlap` says whether
requests may overlap.

### Fairness

`FairSpec` adds weak fairness of `Statement(p)` for each request: Node resumes a
handler when its statement returns. No call is fair: nobody is obliged to
make one. Deaths are not fair either, and `engine_settles` has none: with a death an
execution may rightly be left RUNNING, since the code has no recovery.
`RequestsFinish` speaks of workflows whose branches lead forward, apart from a
rejection back to an earlier human step. A cycle of automatic steps never returns;
nothing in the code forbids one.

The modules written after the engine state safety only: their handlers are straight
lines and finite loops, so they end whenever Node resumes them, and nothing there waits for
another request.

### What the properties say

- `WaitingHasTask`: the task is saved before the pause; stale copies only carry
  entries that were once true.
- `DecisionsAudited`: rejections, and approvals through POST `:executionId/approve`, are logged
  before they are written. An approval in the inbox is stored as a completed step and logs none.
- `HistoryExplainsState`: `currentState` and `stateHistory` always travel together.
  Each writer takes both from one copy, so a stale save may lose moves but never
  leaves a history that contradicts the state.
- `MovesAreConfigured`: a transition tested on a stale copy is also applied to that
  copy, so the pair it adds is still a configured one.
- `KeepsLifecycle`: refinement of `ExecutionLifecycle` with `awaiting` mapped to the open
  tasks. It is stated for one client at a time: two overlapping completions break it.
- `IdleMeansSettled`: a later handler may overwrite an earlier one, but the last status
  any handler writes is never RUNNING. It holds of clients that execute no transitions:
  `executeTransition` saves the status of its copy, and with transitions in the
  client's surface TLC finds an execution set back from COMPLETED to RUNNING by a
  transition that was loaded while the trigger's handler was still at work. No document
  promises the contrary, so this is recorded as a hazard and not as a finding.
- `ClaimantIsAssignee`, `ClaimantWasEntitled`, `ActingForAnotherIsMarked`,
  `DelegationStartsFromHolder`: ownership and authority in spite of claims racing with
  each other and with administrative changes. They say "was entitled at some moment":
  a check made before the write cannot promise more. `ActingForAnotherIsMarked` is about the flag
  `actedViaDelegation` and about the role while the claim is handled: who held it only
  before or after is no exception. On whose behalf the claim was made the code does not keep.
- `ApprovalsWithinLimit`: whoever approved had a sufficient limit, stated by the
  rule in words and not by the minimum that the code computes. It is a promise of the inbox:
  POST `:executionId/approve` (`workflow-execution.service.ts:1152`) tests no limit.

- `DuplicateHasCause`, `TwinsHaveCause`, `TwinCodesHaveCause`, `TwinRowsHaveCause`,
  `SecondRoleHasCause`, `DoublePlanHasCause`, `LimitOvershootHasCause`: what is tested by a
  query and then inserted is doubled by overlapping tests or by the paths that test
  nothing and in no other way. Those paths are named one by one: automation, `duplicate`,
  an update that moves a record, users created by administrators, the super administrator at an
  address in use, a plan that became smaller, a role that gets a name an active one has. Of
  plans, the ones an administrator created or edited are left out: the service itself doubles one only
  by an overlap.
- `OneDefinitionPerSlug`, `OneStatePerKey`: the same test is backed by a unique index,
  and then there is no exception.
- `RecordsHaveDefinition`, `NothingIsOrphaned`: removal counts or lists first and deletes
  later; foreign keys make the late insert or the delete fail.
- `StoredRecordsAreValid`: under the rules of the form that wrote it, which differ
  between creating and updating, as long as the record stands where that form tested it.
- `TriggersOnce`: the loop and its swallowed failures; a workflow of the definition a record
  was created under is neither called twice nor skipped because an earlier one failed, wherever
  the record is moved meanwhile.
- `AuditTellsTruth`: both ways between `log` and `effects`, for records and definitions: what is
  logged was done, and what was done is logged unless the request failed after it, is still on its
  way, or updated what was gone when it looked again.
- `VerdictIsLogged`: verdict by verdict. Each one given is in the log, about to be, or
  the very request that gave it failed; the log holds no others; and the verdict the row shows was given.
- `LookupLossHasCause`: the write of `update_field` carries the whole object: a record has another
  lookup than its last form gave it only if that write used a copy another write had overtaken.
- `OnlyCompleteRuns`, `DeploymentsSettle`: activation comes last, and a failed deployment
  is removed by the request that made it.
- `SettingsLossHasCause`, `CatalogLossHasCause`, `UserLossHasCause`, `RowLossHasCause`: the row
  is what the requests' own columns made of it, unless a copy was outdated.
- `VerdictsHold`: documents, files, both statuses, the reason and the log.
- `PaidPlanHolds`: the trial made by a limit check never replaces a plan chosen meanwhile.
- `LinkWorksOnce`, `VerdictMatchesRow`: a link, or an adjustment, takes effect once.
- `BlueprintSeededOnce`: however often the onboarding is repeated.
- `TrialBalanceHolds`: tolerance and rounding add up entry by entry; what is posted to
  another company's account is the only other difference.
- `ImageLossHasCause`: path and file agree when no request is under way. After a refused upload the
  file is gone and the path still there, and the statement says so.

## 4. Findings

1. `engine_resume`: two completions of one task, or a completion between a task's save
   and its pause, leave an execution PAUSED with no open task
   (`workflows/workflow-execution.service.ts:474`).
2. `engine_next_step`: `nextStepId` is ignored after a task completed in the inbox
   (`workflows/workflow-execution.service.ts:201` and `:664`).
3. `task_inbox_claim`: two claims of one task both succeed; the later one
   takes it over (`tasks/tasks.service.ts:266`).
4. `task_inbox_unclaim`: unclaiming leaves claimant and assignee in place
   (`tasks/tasks.service.ts:321` and `:340`).

These four are violations TLC finds. The following were met while modelling; the
models contain the behaviour, and no run is dedicated to them:

5. `updateTransition` accepts states of other workflows, which `createTransition` refuses; the
   workflow owning such a state can then not be removed (`workflows/workflows.service.ts:579`).
6. The first `checkLimit` of a tenant without a subscription fails after storing the
   trial, because the row just saved has no `plan` (`subscriptions/subscriptions.service.ts:177`).
7. Every process start undoes what an administrator changed in a default plan
   (`subscriptions/subscriptions.service.ts:76`).
8. `update_field` of a workflow that HRM triggered always fails: it looks the employee up among
   the records (`workflows/workflow-automation.service.ts:454`).
9. `ensureTemplateEntities` recognises a definition that exists by the words "already
   exists", which the error of the unique index does not contain
   (`workflows/workflows.service.ts:896`).
10. `completeOnboarding` takes an approved tenant back to pending while
    `verificationStatus` stays approved (`tenants/tenants.service.ts:176`).
11. Lateness and early departure are never found: a date is compared with a column that arrives
    as text (`attendance/attendance.service.ts:79`).
12. An adjustment with times can never be approved (`attendance/attendance.service.ts:361`).
13. A journal line may name another company's account (`accounting/accounting.service.ts:113`).
14. An upload that is refused for its type has already removed the product's image; the row still
    names it (`products/products.controller.ts:97`).
15. `createSuperAdmin` makes a second account of an address that another role has
    (`auth/auth.service.ts:287`).
16. A PATCH with `entityId` moves a record to a definition that never validated it
    (`entities/entities.service.ts:521`).

## 5. Proofs

Each theorem is proved for **every** value of the constants that the named assumptions of
its module allow: any workflows, rows, users and templates, any number of requests, any bound.

`WorkflowExecutionProofs`, from `ConstantsAssumption`; the last two have hypotheses of their own:

| Theorem | Statement | Inductive invariant |
|---|---|---|
| `TypeCorrect` | `Spec => []TypeOK` | `Typed`: `TypeOK` and `LocalsFit` |
| `HistoryCorrect` | `Spec => []HistoryExplainsState` | `HistInv`: the copies held by requests explain their state too |
| `WaitCorrect` | `Spec => []WaitingHasTask` | `WaitInv`: waiting entries in copies, and in the pause about to be written, name tasks that exist |
| `AuditCorrect` | `Spec => []DecisionsAudited` | `AuditInv`: the same of the copies, and of decisions between their event and their write |
| `MovesCorrect` | `Spec => []MovesAreConfigured` | `MovesInv`: every copy has configured moves only, and a move about to be saved is configured from the state *of the copy* |
| `SettledCorrect` | `Spec => []IdleMeansSettled`, if no process dies and no client executes transitions | `Typed`, `NoMoves` (no request is inside `executeTransition`) and the property: every statement writes a settled status or leaves its request with another to issue |
| `LifecycleKept` | `Spec => KeepsLifecycle`, if requests do not overlap and all come from the inbox (`InboxKinds`); deaths are allowed | `LifeInv`: at most one request is under way, at most one task is open, and for each control point (`Stage`) the status and the open tasks it is reached with |

The two hypotheses are those of the runs `engine_settles` and `engine_inbox`, and section 3 says why
they are needed: without them the properties are false of the code.

`TypeOK` alone is not inductive: `RunStepAt` applies `wf.steps` to `loc[p].cur` and
`SaveTask` takes the head of `loc[p].acts`. `LocalsFit` says, for each control point, what
its locals are: a step of the workflow where a step is used, at least one task
kind left where one is saved, a task that exists where one is completed. The other three properties fail to be inductive for a
common reason: a handler may write a copy that it read long before. Each invariant
therefore says of every copy what the property says of the row, and adds what holds at
the control points between a read and its write (for `WaitInv`, that `loc[p].task` is
the saved task of `loc[p].cur`; for `AuditInv`, that the event is logged where the
decision is still to be written). Since tasks are only appended, their step and kind
never change, and events are never removed, what was true of a copy stays true.
Each invariant was checked with TLC on the bounds of `engine_overlap` before it was proved.
The proofs are one lemma per group of actions and one step per action.
`LifecycleKept` is a refinement proof: `Open`, the tasks that are not closed, stands for
`awaiting`, and each statement either is a step of `ExecutionLifecycle` or changes neither the
status nor the open tasks.

`TaskInboxProofs`, from `InboxAssumption` and `NoLimitAssumption`:

| Theorem | Statement |
|---|---|
| `InboxTyped` | `Spec => []TypeOK` |
| `OneHolder` | `Spec => []ClaimantIsAssignee` |
| `ClaimsAreEntitled` | `Spec => []ClaimantWasEntitled` |
| `NoChaining` | `Spec => []DelegationStartsFromHolder` |
| `DelegatedClaimsMarked` | `Spec => []ActingForAnotherIsMarked` |
| `ApprovalsWereCovered` | `Spec => []ApprovalsWithinLimit` |
| `LimitRule` | the minimum that `Math.min` yields, with null as no limit, permits an amount exactly if no limit that applies is below it |

All but the last rest on `InboxInv`. A check and the write it permits are separate statements, so
what was checked need not be true at the write; `InboxInv` says instead that it stays true of the
past. `PresentIsObserved`: whoever holds the role, is delegated it or has the limit now is in
`held`, `entitled` or `permitted`. `ClaimsAreChecked`, `VerdictsAreChecked`: a request about to
write is for a user in those sets, or bears the flag if its user is not in `roled`. The sets grow
as long as a claim lasts, so no administrative change can disturb this. `LimitRule` joins code and rule: the handler tests the minimum, the
property speaks of the rule.

`RecordsProofs`, from `RecordsAssumption` and `TablesAssumption`:

| Theorem | Statement |
|---|---|
| `RecordsTyped` | `Spec => []TypeOK` |
| `SlugsAreUnique` | `Spec => []OneDefinitionPerSlug` |
| `NoRecordIsOrphaned` | `Spec => []RecordsHaveDefinition` |
| `DuplicatesExplained` | `Spec => []DuplicateHasCause` |
| `RecordsObeyForms` | `Spec => []StoredRecordsAreValid` |
| `TriggersAreCalledOnce` | `Spec => []TriggersOnce` |
| `AuditIsTrue` | `Spec => []AuditTellsTruth` |
| `LookupLossExplained` | `Spec => []LookupLossHasCause` |

Their common invariant is `RecordsInv`. Of the tables it says the properties themselves and: versions
are counted from 1 and no record is of a later version than its definition, a lookup
names a record of the related definition or one that was moved, a free row has called no workflow.
Of each request it says what the handler `Knows` at its statement:
`Control` (which locals are set), `OnRows` (its row is one that lasts; its lookup resolves),
`OnDefinition` (its copy of the definition is an earlier version or equals the present one, and the
data passed that copy's test), `OnCalls` (each linked workflow is still on its list or
was called once), `Unraced` (while no write has marked it, still nobody holds its value).
`Disjoint` says that two creations never own the same row or definition. Other requests
move the tables only in the ways of `Evolved`; the proof is that every action evolves the tables,
that evolution preserves what a waiting request knows, and that the action leaves its own
request knowing what it has to at its next statement.

The log has a second invariant on top of it, `AuditInv`. `Answers`: a request about to log did what it
will say, or what it was to delete or update is buried, and nothing buried comes back (`Burials`).
`NothingForgotten`: an effect that is not logged belongs to a request that still bears it (`Borne`),
to one that failed, or is an update of what is gone.

`WorkflowDesignProofs`, from `DesignAssumption`, `TablesAssumption` and `RolesAssumption`:

| Theorem | Statement |
|---|---|
| `NothingOrphaned` | `Spec => []NothingIsOrphaned` |
| `KeysAreUnique` | `Spec => []OneStatePerKey` |
| `OvershootsHaveCause` | `Spec => []LimitOvershootHasCause` |
| `SecondRolesHaveCause` | `Spec => []SecondRoleHasCause` |
| `DeploymentsDoSettle` | `Spec => []DeploymentsSettle` |
| `DesignTyped` | `Spec => []TypeOK` |

`DesignInv` is inductive. `Rows` says of the tables what foreign keys and unique indexes
enforce. `WithinLimit` counts the workflows that were created honestly, after a count no
other creation invalidated: a request whose count is still good (`OnLimit`) adds one below the
limit, and any other creation is noted as late or copied. This is why the overshoot needs a
cause, and it is stronger than the property. `Informed` says what each request knows: its
course, that the ids it read were given out and name rows of its workflow
or of none any more, that the roles it is about to insert have no active namesake or the name is noted in `raced`:
a deployment, an administrator's new role or a reactivated one came in between. `Agreed` says that two requests take a row for one of the same workflow and
never deploy the same one.

`DeploymentProofs` builds on it:

| Theorem | Statement |
|---|---|
| `OnlyWholeTemplatesRun` | `Spec => []OnlyCompleteRuns` |

`DeployInv` says how far a deployment has come (`Progress`): the keys, the pairs of keys and the number
of steps stored, with those its locals still list, make up the template, and a list is empty once
its loop is over. So a workflow is complete when its deployment activates it. `Sound` says
that a workflow nobody edited stays complete while it is active, announced or
executed. Each step either leaves the rows of an unedited workflow alone or belongs
to the one deployment that builds it.

`CatalogProofs`:

| Theorem | Statement | Inductive invariant |
|---|---|---|
| `CatalogLossesHaveCause` | `CatalogSpec => []CatalogLossHasCause` | `CatalogInv`: whoever is about to save holds the row as it is or knows that its copy is outdated |
| `CatalogTyped` | `CatalogSpec => []CatalogTypeOK`, from `ReleasesAssumption` | the same |
| `CatalogCorrect` | `CatalogSpec => []CatalogHolds` | both |

The point is that a save from a fresh copy changes exactly the columns
the request means to (`FreshSave`).

`TenancyProofs`, from `VisitsAssumption`, `OrdersAssumption`, `NamesApart` and `AccountsAssumption`:

| Theorem | Statement | Inductive invariant |
|---|---|---|
| `TenancyTyped` | `TenancySpec => []TenancyTypeOK` | `TenancyInv` |
| `SettingsLossesHaveCause` | `TenancySpec => []SettingsLossHasCause` | `TenancyInv` |
| `VerdictsAreKept` | `TenancySpec => []VerdictsHold` | `TenancyInv` |
| `BlueprintsSeededOnce` | `TenancySpec => []BlueprintSeededOnce` | `TenancyInv` |
| `TenancyCorrect` | `TenancySpec => []TenancyHolds` | the types and the verdicts |
| `BillingTyped` | `BillingSpec => []BillingTypeOK` | `BillingTypeOK` and `BillingInv` |
| `BillingCorrect` | `BillingSpec => []BillingHolds` | `BillingInv`, with the types |
| `AccountsTyped` | `AccountsSpec => []AccountsTypeOK` | `AccountsInv` |
| `UserLossesHaveCause` | `AccountsSpec => []UserLossHasCause` | `AccountsInv` |
| `LinksWorkOnce` | `AccountsSpec => []LinkWorksOnce` | `AccountsInv` |
| `TwinsHaveACause` | `AccountsSpec => []TwinsHaveCause` | `AccountsInv` |
| `AccountsCorrect` | `AccountsSpec => []AccountsHold` | the types and the twins |

`TenancyInv` adds `Informed` to the properties: each request is on its `Course`, and what it has read
is `UpToDate`, that is, still so, or the request was told of the change (`outdated`,
`stale`). A property about a stale write needs this for the request that is going to
write, at every statement between its read and its write, and under every statement of every other
request. `SeededOnce` is what `BlueprintSeededOnce` lacks to be inductive: a request which has created
the first definition of a blueprint and not yet its workflow is the only one that does, and the
workflow is still missing. The unique index on the slug makes that so, not the handler.

`BillingInv`: no limit check is about to change a subscription; a plan about to be inserted is
missing, among those no administrator touched, or there is a cause for two; the untouched free plan
stays free and offered, so that a trial that finds none may insert one. A name found missing may be
inserted by another request before this one: that request sees this one at its insert and
notes the cause, so the claim "missing or caused" survives. `TwinsAreDistinct` turns
cardinalities into two distinct plans.

`AccountsInv`: `CallsFit` says what each request relies on (its user exists; its copy is the row or
is outdated; nobody has the e-mail it is about to use, or it is marked a twin; the company has as many users as
it counted, and is then below its limit, or it is marked late; a change of plan marks whoever
was admitted by the old limit), `NumbersApart` that no two requests have one number,
`BlankRows` that free rows are blank and users are finitely many. `LinksInOrder` carries
`LinkWorksOnce`: a link has one holder, whoever resets a password with it does so for
that holder, a link about to be mailed was never used, and a link used once, by one request, is
held by nobody. It holds only until an outdated copy is saved over a user, which is exactly the exception
the property makes: that save may bring a spent link back.

`BackOfficeProofs`, from `HitsAssumption`, `NoughtApart`, `NoProductApart`, `ErrandsAssumption`,
`FormsAssumption`, `CodesAssumption` and `EntriesAssumption`:

| Theorem | Statement | Inductive invariant |
|---|---|---|
| `AttendanceKept` | `AttendanceSpec => []AttendanceHolds` | `AttendanceInv` |
| `ImagesTyped` | `ImagesSpec => []ImagesTypeOK` | `ImagesInv` |
| `ImageLossesHaveCause` | `ImagesSpec => []ImageLossHasCause` | `ImagesInv` |
| `ImagesCorrect` | `ImagesSpec => []ImagesHold` | both |
| `LedgerTyped` | `LedgerSpec => []LedgerTypeOK` | `LedgerInv` |
| `TwinCodesCoupled` | `LedgerSpec => []TwinCodesHaveCause` | `LedgerInv` |
| `TrialBalanceKept` | `LedgerSpec => []TrialBalanceHolds` | `BooksInv` |
| `BooksCorrect` | `LedgerSpec => []LedgerHolds` | the three |

`AttendanceInv`: `RowsFit` says of rows, log and adjustments what the property says and that a row
that has a check-in never loses it; `CardsFit` that a copy about to be saved differs from its
row in the columns the request means to change and in no other, or is outdated; `LooksFit` that a
request past its look for a row has still none to find, or the employee is noted; `VerdictsFit`
who may still settle an adjustment that was applied.

`ImagesInv` covers the time a property about rest says nothing of. `InTurn`: of a product that is not
noted at most one request is between file and row (`Half`), and then its files are those that
request is going to write into the row (`HalfWay`, `Owed`); otherwise they are what the path
names, or none after a refused upload. `PathsSafe`: a path names a file of its own product unless a
body wrote it, in which case the other product is noted, so removing the file named by
one row never takes another row's image unnoticed. `ErrandFits` says what a request carries
at each statement.

`LedgerInv`: a code that is not noted has one account at most, and none while a request is about to insert it.

`TrialBalanceKept` is about sums over sets of any size. `Sum` is a fold of the community
modules, which picks the elements in an unspecified order. Induction
is out of reach (see below), so each lemma about sums assumes a counterexample, takes
a smallest subset that is one (`SmallestSet`: strict inclusion below a finite set
is well founded) and removes the element picked from it. On this rest: the sum does not depend on
which element is taken out (`SumTake`), sums add (`SumAdd`), the absolute value of a sum
is at most the sum of the absolute values (`SumAbs`), rows and columns of a table have the same
total (`RowsAreColumns`), and the lines of an entry can be grouped by account (`SumOfGroups`). `BooksInv`
says that each stored entry is `Sound`: off by ten thousandths at most, as the form was, and
by five more per line, as rounding made it, with every line on an account that exists here or
elsewhere. The balance of all accounts is then turned into a sum over entries,
where each is off by its slack and its foreign lines.

The assumptions about bounds say only that they are natural numbers. `NamesApart`, `NoughtApart`, `NoProductApart` and
`CodesAssumption` say that the model's marks for "none" are no names, employees, products or codes, as NULL is
no value of a column; `AccountsAssumption` adds that there is an address, a company and a row and that
`MaxUsers` is positive (a limit of 0 stands for no limit, as in `checkLimit`), `RolesAssumption` that at first a name
has at most one active role, `FormsAssumption` that amounts are not negative
(`@Min(0)`, `accounting/dto/accounting.dto.ts:29-33`), `CodesAssumption` that the seeded codes are codes.

Only model-checked: `RequestsFinish`, a liveness property under fairness, which the
prover cannot treat. Every other property of a passing run is stated by a theorem.
Induction over an operator is out of the prover's reach; for the sums above the
well-foundedness of inclusion takes its place.

## 6. Plan

Written: the engine and its abstract specification, the inbox, the records, the
design of workflows with the catalog, tenancy, billing, accounts, attendance,
the books and product images. Proved: every safety property that a passing run checks, and the
refinement of `ExecutionLifecycle`. Left:

1. The merge of role permissions as operators against a reference definition.
2. The loops of automatic steps that never return: a run whose workflows may point back, with the
   condition on `nextStepId` and the branches under which requests do finish.

## 7. Not modelled

- **Permissions** (`src/src/common/permissions/`): a union of the permissions of the user's roles,
  computed afresh by every request from rows that `Accounts` models; no state of its own.
- **E-mail**: layout and delivery of messages. Whether one is sent changes no row.
- **Workflow analytics, conditional logic**: analytics only reads;
  `conditional-logic.service.ts` is not called by the engine.
- **Notifications**: rows that are appended and read by their addressee; no decision reads them.
- **`platform-catalog.service.ts`**: lists of industries and features, one statement per edit.
- **Invoices, shifts, holidays, profile edits**: single inserts and updates that test nothing
  and that nothing here depends on.
- **Sign-in**: reads a user and issues a token.
- **Reports, lists, searches, statistics** of every component: read-only.
- **HTTP shell, configuration, static template data, `dist/`**: framework wiring, data, and the
  compiled duplicate of the sources.
- **Subscription periods and status**: dates and a status that are written by upgrades and trials and
  read by no decision. That a second verification restarts the period is therefore not shown.
- **Within modelled components**: what section 2 calls abstracted. `PROJECT.json` repeats it by
  component. In particular:
  - A plan's name stands for the class of names that the seeding's `ILIKE` pattern matches.
  - `ChangePlan` changes the plan of one company in a step; an edit of a plan that several companies
    share is several such steps. A company's first limit is chosen when the behaviour starts.
    `MaxWorkflows` is a constant: a downgrade, which lets a tenant exceed it as
    well, is modelled for users only.
  - Bodies without a DTO are modelled where a property depends on what they may bring: names and prices of
    plans, names and `isActive` of roles, paths and ids of products, `entityId` of records. Not modelled: an
    id in the body of `createTenantUser` or of a plan, a `tenantId` in a product's, a state's
    workflow in `updateState` (`workflows.service.ts:485`; the model changes keys), a move of a record to
    a definition of another company, a product's path that names a file of no product.
  - A move that `handleStateTransitionAfterTaskCompletion` swallows (`workflow-execution.service.ts:724`)
    and a step skipped because another has the same order (`:146`) happen in the runs, but no property
    tells the result from an intended one.
