# Verification of the operations hub

TLA+ modules, TLC runs and TLAPS proofs for the parts of this program that act
on the outside world or decide about it: the execution ledger that lets every
prepared action reach its provider at most once, the approval queue in front of
it, the scheduled communications that send mail on their own, the observation of
the mailbox, retention, the write-backs into RentVine, the Admin stop, and the
access requests of staff.

The program is a Next.js server over Firestore. Any number of server invocations
run the same code at once, may die between two `await`s, and share state only
through Firestore documents. A Firestore transaction is atomic and serializable;
nothing across two transactions is. That is what every model here is built on:
**one transaction, one provider round trip or one external event is one action**,
and a value that a request carries across an `await` is state of that request.

Contents: [Inventory](#inventory) · [Modules](#modules) · [Runs](#runs) ·
[Fairness](#fairness) · [Proofs](#proofs) ·
[Claims the code does not keep](#claims-the-code-does-not-keep) ·
[Not modelled](#not-modelled) · [Plan](#plan)

## Inventory

### Execution ledger (S20) — `lib/firestore/action-executions.ts`

*State.* One document per action identity (`exec_<hash of principal, action key,
idempotency key>`): preparer, preview and context hash, risk, approval, state,
attempt count (0 or 1), claimant, outcome. An append-only activity collection.

*Operations.* prepare, approve, return, revoke, claim, complete, fail, and four
ways to close an attempt after reconciliation. Each is one transaction.
`lib/execution/authority.ts` and `staff-confirmation.ts` decide who may approve
and execute what.

*Hard.* Two claims at once; an approval for a preview that is not the one held;
a withdrawal that races the claim; a long series of fail, reconcile and
re-prepare calls that re-labels a verdict already given.

*Correct when* a High record is never approved or attempted without a matching
approval, the attempt counter, claimant and state agree, the activity shows at
most one claim, and final records and identities never change.

### Requests that spend an attempt — `lib/execution/service.ts`, `lib/external-execution/s20-bridge.ts`, `lib/gmail-hub/service.ts`, `lib/firestore/gmail-label-effects.ts`, `lib/firestore/vendor-lifecycle-executions.ts`

*State.* Where each invocation is and what it read; the label and Vendor
executors' own documents (prepared, provider started, settled or fenced); the
provider.

*Interaction.* `executePreparedAction` checks dependencies, the runtime gate and
the record, then calls the ledger's claim, then the executor, then the ledger's
complete or fail. A reconciliation reads the ledger, asks the provider what
happened and calls a closing transaction, possibly while the executing request is
still alive.

*Hard.* A crash between the claim and the recorded outcome; an answer that is
lost, or comes after a reconciliation closed the record; `complete` failing after
the provider succeeded; a Vendor attempt fenced while its claimed request is about
to start; a state read before a provider readback and used after it; a dependency
that another request is still executing.

*Correct when* one identity causes at most one provider call, nothing is called
without authority and its dependencies, closed records tell the truth about the
provider, fences hold, and an effect that happened is eventually recorded.

### Approval queue — `lib/firestore/approval-queue.ts`, `approval-queue-scheduled-notifications.ts`

*State.* One item per request for a decision: trigger key, owners, risk, status,
links to the item it supersedes. An item whose trigger is an action identity is
linked to the ledger's record.

*Operations.* create or merge, approve, return, deny, assign, snooze, disable,
close, each one transaction that carries the ledger's transaction with it where
the item is linked; the scheduler wakes snoozed items it read earlier.

*Hard.* The preparation writes the ledger and the queue in two transactions; the
decision stands in two documents; the scheduler's read is stale; a reassignment
may put the preparer into the approver's place.

*Correct when* a trigger has at most one open item, items and ledger agree about
what was decided, nobody but an Admin approves what is assigned to him, closed items
stay closed, and what was prepared comes to stand in the queue.

### Scheduled workflow communications — `lib/gmail-hub/sequence-store.ts`, `sequence-service.ts`, `sequence-worker.ts`

*State.* One versioned sequence document (draft, responsible sender,
authorization, due time, confirmed count, unresolved attempt) and one document
per admitted attempt, keyed by authorization revision and message number.

*Operations.* save, authorize (send, schedule, resume), pause, cancel, transfer,
observe incoming mail, dispatch, settle, reconcile. Staff writes are
compare-and-set on the version; claim, settle and observe are their own
transactions.

*Hard.* Two dispatchers admitting one message; death after Gmail accepted it; an
authorization computed from a read several awaits old; a stop ordered between
claim and settlement; one attempt settled by two parties; a reply read under an
older authorization.

*Correct when* only a reviewed draft of the responsible sender can be sent
automatically, the record names exactly the attempt that is unknown, the count
is the number of delivered messages, no message is attempted again while its
earlier attempt is unknown, and a stop stays until a person starts it again.

### The scheduled worker — `lib/gmail-hub/sequence-worker.ts`

*State.* One document with a lease of 180 seconds and a cursor over the open
communications; each run's page and elapsed time.

*Hard.* A run outlives its lease, is overtaken and finishes late; a page is broken
off when the time budget is spent; one communication always throws.

*Correct when* two runs never work within their lease at once, no open
communication is passed over by the cursor, and every one is reached again and again.

### Communication retention — `lib/gmail-hub/retention-store.ts`, `retention-policy.ts`

*State.* Retention fields of sequences, files and occurrences; a cleanup run with
a frozen, bounded plan and its account of what it did.

*Hard.* A legal hold, new work or a new anchor falls between listing and delete; a
delete is carried out and answered by an error; executions of one run overlap, die and
are repeated when part of the plan is gone or no longer due.

*Correct when* nothing held, in use or needed is retired, a run's count is exactly
what it retired, and a run that was begun is completed by repeating it.

### Mailbox observation — `lib/gmail-hub/service.ts`, `state-store.ts`

*State.* The mailbox's history cursor, health and resync checkpoint; one claim
document per push; the contact state of each linked thread.

*Hard.* Pushes are lost, repeated and late; the history has gaps; a resync takes
several batches; threads are deleted; every read of Gmail may be old when its result is stored, and the
whole mailbox state is written from an earlier read.

*Correct when* no reply behind the cursor is unknown to its link, contact state
never goes back, and a resync comes to its end unless one of its threads can no longer
be read.

### Write-backs into RentVine — `lib/lease-renewal/writeback/`, `lib/firestore/external-action-executions.ts`, `s97-renewal-writeback-claim.ts`

*State.* A lease's proposal with its generations and archive, one execution record
per effect and per reversal with its claim and receipt, previews of reversals, what
RentVine holds.

*Hard.* The proposal is replaced or discarded while one of its effects is claimed or
unresolved; an attempt is reconciled while its handler lives or before its write lands;
a stop falls between the gate, the claim and the call.

*Correct when* each attempt writes once at most, none is forgotten with its proposal
while its outcome is open, receipts stay loadable, reported outcomes are true, and
nothing is sent past a stop that stood since the claim.

### Runtime suspension — `lib/firestore/runtime-action-suspensions.ts`, `lib/operations/runtime-suspension-gate.ts`

*State.* One stop document per action key, one for the reserved global key, one
immutable document per Admin operation.

*Operations.* suspend, clear (naming the suspension it was shown), replay, and the
gate's transactional read of the global and the exact document.

*Hard.* Operations that arrive late, twice or out of order; a clear from an old
screen; a stop that moves between the gate's two reads; a malformed document.

*Correct when* a stop ends only through an operation that replaced it or named it,
repeats change nothing, and no effect passes that was stopped all the time.

### Access requests — `lib/access/request-service.ts`, `request-store-firestore.ts`, `apply-service.ts`, `lib/admin/users.ts`

*State.* A person's stored preview attempts with their pointers, requests with
an active pointer per intent, an index from attempts to requests; the sign-in claims
in Firebase, audits, previews of decisions.

*Hard.* Submits of one attempt overlap and lose their answers; the claims have no
versions, so every write stores what was made of an earlier read; a handler dies
between claim, audit, write and receipt, or reports after another Admin closed the
request; attempts are cut in bounded calls.

*Correct when* an intent has one active request and an attempt one answer, attempts
stay few, a request's claims are written once at most and it closes as applied only if
its access was active, every change was audited before, closed requests stay, and
every approval ends.

### Everything else

`PROJECT.json` lists the other components with the reason each is not modelled, and
the hazards: for each the line where it bites and the properties that would catch it,
or why none does.

## Modules

| Module | Models | Extends |
| --- | --- | --- |
| `ActionExecution` | the ledger | |
| `ExecutionAttempts` | requests, executors' documents and the provider | `ActionExecution` |
| `SingleEffect` | abstract: what both together promise about one identity | |
| `ApprovalQueue` | items, their decisions, preparation, the waking scheduler | `ActionExecution` |
| `CommunicationSequence` | one scheduled communication, its staff, dispatchers and Gmail | |
| `SequenceWorker` | the worker's lease and page cursor | |
| `CommunicationRetention` | records, legal holds and cleanup runs | |
| `MailboxSync` | pushes, refreshes, resyncs and linked threads | |
| `RuntimeSuspension` | the Admin stop and the gate | |
| `RentWriteback` | the updates of one lease and their reversals | `RuntimeSuspension` |
| `AccessSubmission` | filing of access requests | |
| `AccessApply` | decisions about them and the claims | |
| `MC…` | small instances for TLC | the module they name |
| `…_proofs` | theorems, see [Proofs](#proofs) | |

Definitions marked *Mutant* are plausible bugs in the code beside which they
stand. Nothing uses them: they show that each property can fail.

Where a module is composed with another, its actions use the other's: an item's
decision conjoins the ledger transaction it takes with it, and a write-back's gate
check is the request of `RuntimeSuspension`.

### ActionExecution

`ledger[id]` is the Firestore record, `activity[id]` its append-only history. A
*preview* stands for the pair of preview hash and context hash, which the code
always compares together. `Prepare`, `Approve`, `Return`, `Revoke`, `Claim`,
`Finish` (complete and fail) and `Resolve` (all closing transactions; `claimed` is
TRUE for the two that fence on the claimant) are the exported transactions. A call
that returns the stored record without writing, or throws, is a stutter. Blocked
records do not appear: the registry's classification refuses such keys before
any of these calls.

### ExecutionAttempts

`req[r]` is one invocation. Its `pc` is the last await it has passed: `admitted`
(everything checked before the claim), `saved` (the executor's snapshot), `claimed`,
`started` (provider start recorded), `called`, `answered`, `recorded`; and for a
reconciliation `reading`, `lookup`, `receipt`. `Stop` kills it anywhere.
`marker[id]` is the label or Vendor executor's own document; a bridge action has
none. `calls` and `world` belong to the provider: it processes a call at any later
moment (`Land`), and `ProviderAnswers` may lose the answer before or after that.
`Refused` is the branch on which the next transaction of an invocation finds its
precondition gone; where the code turns that into an unknown outcome instead
(a refused provider start), the model does so too.

Two assumptions about the outside. A person may label the thread by hand
(`LabelByHand`), but only before the attempt's own call: afterwards the provider's
answer about the thread no longer says who labelled it, in the code as in the
model. And a provider's definitive refusal or receipt is true.

### SingleEffect

Per identity a verdict and an effect: the effect is asked for once, happens or not,
and a verdict is given once and agrees with it. `ExecutionAttempts` maps onto it by
`VerdictOf` and `EffectOf`; a second call, a changed verdict or an untrue one has no
abstract step.

### ApprovalQueue

`items` is the collection in the order of creation, `preparing[a]` a preparation
between its ledger transaction and its queue transaction, `candidates` what the
scheduler read as snoozed. `Raise` and `PutItem` are creation with its merge into the
open item or link to a closed one; `ApproveItem`, `ReturnItem`, `DenyItem`,
`AssignItem`, `SnoozeItem` and `StopItem` (disable, close) are the transitions;
`ExecutionStep` lets claims and outcomes happen meanwhile.

### CommunicationSequence

`seq` is the sequence document and `occ` the attempt documents. `review[p]`
holds an authorization between its read and its write: the awaits between them are
where wording, sender or attempt may change. `disp[d]` is one dispatcher or
reconciliation; `Load`, `Observe` (twice), `Claim`, `LastCheck`, `Send`,
`SendReturns`, `Readback` and `Settle` are its awaits in order, and
`PauseForChange` the early exits that write. `mail[o]` is what Gmail did with the
attempt. Wording and source facts are compared by hash only, so each is a model
value. Calendar arithmetic is reduced to how many messages the schedule allows:
waiting for a due time is a dispatcher that does not run yet, and the end date is a
choice in `Claim`. The worker's lease is not a variable here: any dispatchers may
overlap, which is more than the lease allows.

### SequenceWorker

`worker` is the lease document, `run[r]` an invocation with its page and the ticks it
has lived, `open` the communications in an open state. `Claim` takes a lease that has
run out and keeps the cursor it finds, `ReadPage` lists, `Begin` and `Inspect` go over
the page while the budget lasts, `Finish` writes the cursor if the lease is still its
own. `owed` and `skipped` are history: what was open since the rotation began and
was not yet inspected, and what a finished rotation left.

### CommunicationRetention

`docs[d]` holds the retention fields of a sequence, file or occurrence, `seq[s]` what a
sequence refers to, `runs[r]` a cleanup run with its frozen plan, `exec[e]` one
execution of it. `List` freezes or takes up the plan, `Initialize`, `DeleteIfEligible`,
`RecordFailure`, `RecordUnresolved` and `WriteAudit` are its transactions, and
`DeleteFails` the delete that fails before it wrote anything; one that is carried
out and answered by an error is `DeleteIfEligible` with `answered` FALSE. The other
actions are the writes of the sequence store and the file service that create, use and
drop records, and the placing and releasing of holds.

### MailboxSync

`mail` is Gmail: the threads of the messages in order of arrival, so that a message's
number is its history id. `mailbox` is the stored state, `pushes` the claim documents,
`link` the contact state, `handler[h]` one push, refresh or staff action with what it
read. `ListHistory` reads from the stored cursor, `Gap` turns to a resync, `Batch` is a
page of it, `ReadThread` and `Mark` are the read and the write of one thread,
`CompletePush` moves the cursor to what the handler read at its start. `Long` threads
come back truncated, threads in `gone` were deleted. `ThreadGone` is `getThread`'s 404: in
a handler that reads the history it begins a resync, as an expired cursor does; a resync
is begun a second time from the `catch`, and when that meets the thread again the push
fails. `caught` says that the resync under way is the one the `catch` began. `Vanish` leaves
the links and the history as they are.

### RuntimeSuspension

A submitted operation stays in `sent` and may be delivered at any time, any number
of times. The operation's id stands for the suspension id it generates. `ReadGlobal`
and `ReadExact` are the two reads of the gate's transaction; `Locked` is the read
lock that makes a write to the first document wait. `damaged` remembers what a
malformed document replaced and `opening` is a history variable for `PassedWasOpen`:
was there, since the request asked, a moment when neither document stopped it?

### RentWriteback

A proposal is its number in the order of saving (a *generation*); `active` and
`archive` say which can still be loaded. `exec[x]` is the record of an effect of a
generation or of its reversal, `previews` the previews a reversal is bound to,
`handler[h]` an invocation, which is also a request of the gate. What RentVine holds
has two values per effect, because the code only asks whether a read equals the value
reviewed or the value wanted; `flight` are writes accepted and not carried out,
`landed` those carried out, `writes` counts them. `TimeOut` is the answer that does not
come, `Reconcile`, `Observe` and `Settle` the later look.

### AccessSubmission and AccessApply

Two halves of one component that share nothing but the request's state, so they are
two models: in `AccessSubmission` a request is open or closed, in `AccessApply` it is
there from the start. `AccessSubmission` has the stored attempts, the preview and
active pointers and the index; `Commit` is the transaction that creates a request or
joins the active one, and `Lose` the lost answer. `AccessApply` has the claims, which
`SetClaims`, `SetFails` and `StoreChange` write from what their handler read;
`Audit`, `ReadBack`, `Complete`, `MarkUncertain`, `Reconcile` and `Resolve` are the
steps of an approval, `DirectlyChange` the page People and Access. `writes` and `held`
are history: the writes made for a request, and which intents were ever active.

## Runs

| Run | Instance | Shows |
| --- | --- | --- |
| `requests` | three requests and two previews over one staff-confirmed bridge action, or two requests over that action and an upload that depends on it | `AtMostOneCall`, `EffectIsAuthorized` (authority and dependencies), `ImplementsSingleEffect`, through crashes, lost and late answers, withdrawals and reconciliations |
| `marked` | a label and a Vendor attempt, two requests | `VerdictIsTruthful`, `FenceHolds`: the executors' own documents and the fence beside the ledger |
| `recorded` | one bridge identity; Admin, Editor, verification account; two previews, two requests; fair | `ApprovalBinds`, `AttemptAccounted`, and `EffectIsEventuallyRecorded` |
| `sequence` | two staff, drafts, source facts, dispatchers and messages; version ≤ 4, revision ≤ 2 | `RecordIsExact`, `ActiveIsReviewed`, `AnotherCopyNeedsRefusal`, `OnlyReviewReactivates` |
| `settles` | one sender, two dispatchers, one message; fair | `DeliveredIsEventuallySettled` |
| `worker` | two runs, three communications of which one always fails; page 2, lease 3, budget 1; fair | `WorkerInv`, `NoneSkipped`, `EveryOpenIsReached` |
| `queue` | Admin, Approver and Editor; one consequential action or one ordinary review, two items; fair | `QueueInv`, `DecisionsAgree`, `NobodyApprovesOwnWork`, `ClosedStaysClosed`, `PreparedIsQueued` |
| `retention` | a sequence, a file, an occurrence; one cleanup run, two executions, a plan of two; fair | `RetentionInv`, `CountsAreExact`, `HeldIsKept`, `RunsComplete` |
| `mailbox` | three threads, two of them linked by staff on the way and one of these too long to read, or a linked thread deleted; two messages, one fault, batches of one; fair | `MailboxInv`, `ContactNeverGoesBack`, `ResyncFinishes` |
| `access` | one request, two Admins' handlers, one direct change, two faults; fair | `ApplyInv`, `ChangesAreAudited`, `ClosedStaysClosed`, `ApprovalsEnd` |
| `filing` | four attempts for three intents, two submitters, two open previews, one change of access | `FilingInv`, `StorageIsBounded`, `AnswersAgree` |
| `writeback` | two effects (one creates), two generations, two previews, two handlers; one edit or one death; an Admin, three operations, four submissions | `LeaseInv`, `OutcomesAreTrue`, `PassedWasOpen`, `StopsAreAccounted`, `SentWhileOpen` |

Each run ends within minutes on two workers.

A property whose name ends in *Inv* is the type invariant of its module with the
safety invariants that need no run of their own: `WorkerInv` has `LeaseIsExclusive`,
`QueueInv` has `OneOpenItemPerTrigger`, `RetentionInv` has `NeededIsKept`,
`MailboxInv` has `RepliesAreFound`, `ApplyInv` has `GrantedOnce`, `FilingInv` has
`PointerIsExact`, `IndexIsExact` and `RequestsAreIndexed`, `LeaseInv` has
`WrittenOnce`, `AwaitedIsActive` and `EvidenceIsKept`. `RecordIsExact` has
`UnresolvedIsExact`, `CountMatches` and `InflightIsAwaited`.

*Bounds and why they are enough.* The ledger's transactions touch one record each,
so identities interact only through dependencies; two cover both risk classes or
a dependency. Roles matter as Admin, other staff, verification account. Two
previews give a match and a mismatch. Three requests are an executing one, a rival
and a reconciliation; two suffice where a record's own document already separates
the cases. `MaxVersion` counts compare-and-set writes: four allow, after the first
save, an authorization, a stop or transfer and a second authorization, with claims
and settlements (which do not raise the version) between them. `MaxRevision` = 2 is
the least with which a message is attempted under two authorizations, `MaxSends` = 2
the least with a next message. Two dispatchers, runs, executions or handlers are one
and its overlapping successor, rival or reconciliation. A page of two over three
communications breaks off in the middle of a rotation and of a page. Two items are
a closed one and its successor. A cleanup plan of two of three records leaves one
behind for the next. Two messages are one behind the cursor and one that arrives
while the first is handled. Four attempts for three intents with room for two are one
that replaces, one that does not fit and one that is repeated. Two generations are a
proposal and the one that replaces it; three operations a stop, a newer stop and a
clear; four submissions allow a conflicting second use of an id.

Faults are counted (`MaxFaults`, `MaxDeaths`, `MaxEdits`, `MaxDirect`,
`MaxDecisions`, `MaxChanges`) so that a state space stays finite; the theorems below
hold for every value of these bounds.

The constraints in the MC modules make one run the sum of several small instances
instead of their product: `LoopOrPair` (three requests about one action, or two about
two), `MostlyUnchanged` (facts that change, or replies, with one dispatcher),
`Apart` in `MCApprovalQueue` (an action or a review) and in
`MCCommunicationRetention` (overlapping executions, or an occurrence), `Modest` in
`MCMailboxSync` (messages, faults, further links or a deleted thread) and in `MCRentWriteback` (stops,
reversals or faults). What they cut away is covered by the theorems only.

Symmetry is used on dispatchers, write-back handlers, submitters and intents, which
no definition distinguishes, and in no run that checks liveness.

*Deadlock* is checked in `worker` and `mailbox`, which are meant to go on for ever.
In the other models the system may really stop: records become final, requests end,
a cancelled communication stays so, and a bounded version or plan runs out.

Each property has a mutant in `PROJECT.json`: a plausible bug of the code under which
the same run violates it.

## Fairness

Everywhere: what an invocation owes is that it goes on unless it dies (weak fairness
of its own steps), and a provider processes what it accepted. Nobody owes a
preparation, an approval, a withdrawal, a first execution, a hold or a crash.
What people or the scheduler must repeat is named per module:

- `ExecutionAttempts`: staff keep reopening an unresolved record, which its page
  offers for as long as it is unresolved, and not every such reconciliation dies half
  way (strong fairness, because a crash or a rival disables it for a while).
- `CommunicationSequence`: somebody keeps opening the unresolved attempt, which the
  composer offers to the responsible sender, and not every look-up dies before it
  settles. The worker does not reconcile on its own, so without such a person a
  delivered message may stay unresolved; `DeliveredIsEventuallySettled` says no more.
- `SequenceWorker`: the scheduler keeps calling, time passes, runs go on, not every
  page takes the whole budget to read, and from some moment on no run dies and none
  is so slow that it is overtaken. Without the last a run may lose its cursor for ever.
- `ApprovalQueue`: the preparer submits again, and not every attempt dies between the
  two writes. `PreparedIsQueued` is exactly what the second submit repairs.
- `CommunicationRetention`: whoever began a run repeats it until it is complete,
  and executions proceed; deaths are bounded.
- `MailboxSync`: staff who see a mailbox that is resyncing refresh it again and again,
  and handlers proceed. Deaths and passing failures of Gmail are bounded; what fails every
  time, a thread that is too long or deleted, is a state of its own (`Long`, `gone`), and
  `ResyncFinishes` promises nothing while such a linked thread lies behind the checkpoint.
- `AccessApply`: handlers proceed; Admins reconcile a request left in the middle and
  resolve what waits for a resolution, each an operation of its own in `apply-service.ts`.
  `ApprovalsEnd` holds while the requester is still in the directory.

`ActionExecution`, `RuntimeSuspension`, `AccessSubmission` and `RentWriteback` state
safety only.

## Proofs

Every invariant and every action property that a run checks is also a theorem, for
every value of the constants that satisfies the named assumptions of its module: any
number of identities, requests, handlers, items, links, communications, faults. The
assumptions say that constants are of the right kind (a role for each actor, bounds
that are numbers, limits that are not zero), that the null values are not among the
values they stand beside, and that the linked threads of a mailbox are finitely many. `PROJECT.json` lists the theorems.

A property is seldom inductive as it stands. Each module of proofs therefore defines
an invariant that is, shows in one lemma per action that the action keeps it, and
derives the properties from it. The facts below are what each had to add.

| Module | Proves about | Inductive invariant |
| --- | --- | --- |
| `ActionExecution_proofs` | `ActionExecution` | `LedgerInv` |
| `ExecutionAttempts_proofs` | `ExecutionAttempts` and its refinements | `ExecutionInv` |
| `ApprovalQueue_proofs` | `ApprovalQueue` and its refinement of the ledger | `ApprovalInv` |
| `CommunicationSequence_proofs` | `CommunicationSequence` | `SequenceInv` |
| `CommunicationRuns_proofs` | `SequenceWorker`, `CommunicationRetention` | `Sound`, `Retention` |
| `MailboxSync_proofs` | `MailboxSync` | `Observed` |
| `RentWriteback_proofs` | `RuntimeSuspension`, `RentWriteback` and its refinement | `StopInv`, `GateInv`, `WInv` |
| `Access_proofs` | `AccessApply`, `AccessSubmission` | `AccessInv`, `FilingInv`, `StorageInv` |

### The ledger

`LedgerTypes`, `ApprovalsBind`, `AttemptsAreAccounted`, `FinalStaysFinal`,
`IdentityStays`, `HistoriesAreLawful`. `LedgerInv` is types and, for every record,
`RecordOK`, the conjunction of what the two state invariants say of a single record.
They need one another: a claim is authorised because an Approved record holds a
matching approval, and a withdrawal keeps the counter right because only unattempted
records can be withdrawn. One lemma per transaction shows that it stores a `RecordOK`
record; `TransactionAdvances` then says which records a transaction may replace and
what it keeps, from which both action properties follow. For the history, `HistoryOK`
ties the log to the record (attempted entries exist exactly when the attempt is
consumed, an Approved record shows its approval, a withdrawal is never left behind) and
`AppendKeepsHistory` carries `Lawful` over one append, for logs of any length.

### Requests

`ExecutionTypes`, `AtMostOneCallEver`, `EffectsAreAuthorized`, `VerdictsAreTruthful`,
`FencesHold`, `ImplementsLedger`, `ImplementsPromise`. The core of `ExecutionInv` is
`AttemptInv`: a request *holds* the attempt of its identity from its claim until it
records an outcome, two requests never hold the same one, and a holder that has not
called yet finds no call issued. `AtMostOneCall` alone says nothing of who may still
call. `MarkInv` adds that on a marked channel only a recorded start calls, so a
document short of it proves that nothing was sent, which is what makes the fence safe.
`WorldInv` and `CodeInv` carry what the provider did through a request's answer into
the record. `DependInv` keeps dependencies met from admission on, because a success
is final. `StepIsLedgerStep` reduces every step to a ledger transaction, which
brings `StepAdvances` (a consumed attempt and a final record stay) from
`ActionExecution_proofs`; `RecordChanges` sorts what a step does to a record into quiet,
claimed and truly closed, and both the verdict properties and the refinement of
`SingleEffect` follow from those cases. That mapping counts a label that somebody else
put there as untouched, and a verdict about it as void.

### The queue

`QueueKept`, `OneItemAsks`, `QueueAndLedgerAgree`, `ApproversAreOthers`,
`DecisionsAreForever`; `QueueImplementsLedger` and with it the ledger's theorems
(`HistoriesBesideQueue`, `ActionsBesideQueue`). `ApprovalInv` takes `LedgerInv` along,
because what an item may say depends on what its record can become. It adds that an item
waiting for approval has an assignee and an approver, which leaves nobody else to
approve it but an Admin (`ItemOK`), that a preparation between its two transactions has
its record (`PreparedAreRecorded`), and that an identity without a record has no
preparer (`BareRecords`). A decision about a linked item is then one ledger transaction
conjoined with one queue write, and the agreement of both is shown for that pair; an
execution meanwhile only moves an approved record on. `ApproversAreOthers` needs the
same item fact at a distance: who approved was the approver and not the assignee *when*
he did, and the item cannot change afterwards.

### Communications

`SequenceKept`, `RecordStaysExact`, `ActiveStaysReviewed`, `CopiesNeedRefusal`,
`StopsNeedReview`. `SequenceInv` adds to the properties of the record what the
processes around it know. `ReviewInv`: an authorization between its read and its write
is of the person who began it, and of the next revision if the record still has the version it
read, so no two writes store the same revision. `DispatchInv` has `Knows`, what a dispatcher found out about
its attempt is true of Gmail, and `Sole`, two dispatchers never carry the
same attempt on its way to Gmail: only the one that admitted it does. `RecordInv` has the
three parts of `RecordIsExact`, which need one another, and says that no attempt is of a
later revision than the record, so that a new authorization's attempts are new documents.

### The worker and retention

`WorkerStaysSound`, `LeaseStaysExclusive`, `NoneIsSkipped`, `InspectionsHoldLease`,
`RotationGoesForward`. `Leased` says of a run inside its lease that it is the one in
the document and that the document's lease lasts at least as long as its own, so a
second claim in that time is refused; `Rotation` says what a run has inspected of what
is owed, relative to its place in the page. `InspectionsHoldLease` (an inspection begins
only under the lease) and `RotationGoesForward` (the cursor only grows or starts over)
are proved without a run.

`RetentionKept`, `NeededStaysOnRecord`, `AuditsCountWhatHappened`, `HoldsStand`.
`RecordsInv` says that what a sequence still refers to is there and its parent is the
one it refers from; `CleanupInv` that a run's processed and failed records are disjoint
parts of its plan and that its count is the number of records that name it as their
end (`RunOK`), and that an execution works on what was in the stored plan (`ExecOK`).
The count needs the *retired by* of every record, because a run repeated after a lost
answer finds the record gone and must not count it again.

### The mailbox

`ObservationKept`, `NoReplyIsLost`, `ContactIsMonotonic`. `MailboxInv` speaks of the
stored cursor; a handler moves it to what it read several awaits ago. `Complete`
therefore says the same of every handler: what it may complete up to is on the link, or
still in the work before it (`Pending`). It holds while one page of a resync covers the
linked threads, for threads linked from the start that are not too long to be read: the
conditions under which the property is stated, and the section below says what happens
outside of them. `ContactIsMonotonic` has no such condition.

### The stop and the write-backs

`StopTypes`, `StopsStayAccounted`, `PassesOnlyWhenOpen`, `ReplaysStayInert` for
`RuntimeSuspension`, with any amount of repetition. `StopsAreAccounted` is not inductive
alone: nothing in it says that the stop a document shows was ever recorded for that
key. `StopInv` adds that, that a stop lost to damage never stands again, and that
whatever an operation ended had been recorded before it. `GateInv` adds to
`PassedWasOpen` that a half-read transaction which saw no global stop still sees none,
which is what the read lock is for.

`WritebackImplementsStops`: every step of `RentWriteback` is a step of
`RuntimeSuspension` or leaves it alone, its handlers being the gate's requests, so the
stop's properties hold beside the lease (`StopsAccountedBesideLease`,
`PassedWasOpenForLease`). `LeaseKept`, `LeaseStaysSound`, `OutcomesStayTrue`,
`SendsWhileOpen`, `ReceiptsStay`. `WInv` says what a handler `Knows` of the attempt it
is in (its write not sent, refused or landed), that one handler at most is on an attempt
(`Sole`), that what is stored of an attempt agrees with what was written for it (`Clean`),
and that the proposal of a claimed or unresolved effect is still the active one
(`AwaitedIsActive`, which is a property as well and carries the others: a generation is
replaced only when none of its effects waits). `ReceiptsStay` is proved without a run.

### Access

`AccessKept`, `GrantsStayExact`, `ChangesStayAudited`, `ClosedRequestsStay`; `FilingKept`,
`AnswersStay`, `AttemptsStayFew`. `AccessInv` says for a handler in the middle of a grant
that it alone has the request (`Sole`) and that nothing was written for it yet; the target
stored with a claimed request gives what was asked for (`TargetsAreEnough`);
`Holds(claims) ⊆ held` makes the history variable say what it should. `FilingInv` is
inductive as it stands: its parts need exactly one another. `StorageInv` adds that
attempts are finitely many, each with its own number that was issued, so that
cutting the oldest makes the room it should make.

### What stays with TLC

The liveness properties (`EffectIsEventuallyRecorded`, `DeliveredIsEventuallySettled`,
`EveryOpenIsReached`, `PreparedIsQueued`, `RunsComplete`, `ResyncFinishes`,
`ApprovalsEnd`): they rest on fairness and on ENABLED, which the prover cannot expand.
They are checked on the instances above. Nothing else is only model-checked.

## Claims the code does not keep

Statements of comments, documents or tests that the model, and the code, do not keep.
The formulas named stand in the modules, but belong to no run because they do not hold;
given to TLC as an INVARIANT or PROPERTY of the run of their module they show what is
described.

- **A crash can strand a governed label for ever** (`LabelCrashResolves`,
  `ExecutionAttempts`, under `FairSpec` with one label identity). The label reconciliation settles its own
  document first and then closes the ledger with the plain variant, which refuses a
  record still Executing; the next attempt returns early because the document is
  settled. The comment above it says such a crash resolves.
- **A delivered message may be recorded as refused** (`CommunicationSequence`: an
  occurrence `refused` whose mail is `delivered`). When the readback after a successful
  send is refused with a definitive error, the catch block settles the attempt as
  refused by the provider, and it may be sent again. R-S190-6 asks to keep refusal and
  delivery apart.
- **A completed communication can be run again** (`CommunicationSequence`: a step from
  a finished state to one that is not). Completion does not raise the version, so an
  authorization or pause computed before it still passes its compare-and-set. Authorize
  checks that the communication is open only before its awaits.
- **A returned action's item can never be closed** (`LinkedCanBeTurnedDown`,
  `ApprovalQueue`). Return makes the linked record final and leaves the item open;
  every later decision calls a ledger transition that refuses a final record. The guide
  says *Disable Action* turns such an item down.
- **A High item may be approved without its confirmation** (`HighIsConfirmed`). An
  item without an owner is stored as Blocked whatever its signals say, and assigning an
  owner unblocks its status but keeps that risk.
- **Supersession links disagree** (`SupersessionLinksAgree`). With two closed items of
  one trigger a new one is linked to the oldest, whose link it overwrites.
- **The mailbox cursor can go back** (`CursorNeverGoesBack`, `MailboxSync`). A manual
  refresh stores the whole mailbox state it read earlier over what a push stored
  meanwhile. Replies are then read twice, not lost.
- **A long thread is passed over in silence** (`LongThreadsAreReported`). On the history
  path a truncated thread is skipped without a mark; only the resync path marks it.
- **A resync may never end** (`EveryResyncFinishes`, `MailboxSync`). It stops at a linked
  thread that is too long (`service.ts` 1622-1631) or was deleted (`getThread` answers
  404, caught at 1578, tried once more, then failed), and so does every later push and
  refresh: each starts from the stored checkpoint and meets the thread again. The links
  behind it are not read and the cursor stays, while BEH-S191-2 says that after a gap the
  current linked replies are found.
  `ResyncFinishes` leaves out exactly these threads.
- **Replies can be lost in a resync of several batches, or while a thread is being
  linked.** The cursor is moved to what the last batch read, and a link is stored after
  its thread was read. `RepliesAreFound` and `NoReplyIsLost` exclude both: they are about
  one page and threads linked from the start.
- **Applied access may not stand** (`AppliedStands`, `AccessApply`, with the two intents
  of `TwoIntents`). Claims are merged from a read made before the request was claimed, so
  of two requests of one person applied at once the second takes away what the first gave.
- **A superseded request may grant** (`SupersededGrantsNothing`). A request may be
  reconciled and superseded while its handler lives, which writes the claims afterwards.
- **An audited transition may be wrong** (`TransitionsAreCorrect`). Two changes of one user
  read the same claims; the previous access in the second audit is no longer so.
- **"Not committed" may be untrue** (`NotCommittedIsTrue`, `AccessSubmission`). A submit
  reads the index and then the preview; when another submit of the same attempt commits
  in between, the answer is `not_committed`.

Seen while modelling the write-backs, and claimed otherwise nowhere: the record of a
reversal bound to an expired preview can never be tried again; a deletion whose final
list is refused is recorded as failed though it was carried out; an ambiguous effect
that never lands keeps its lease's proposal from being replaced; creations never
reconcile.

## Not modelled

Inside the modelled components: hash and id formats, wording, calendar and time-zone
arithmetic, notifications and e-mail settings, the outreach record kept after a send, the
Google token refresh, drafts and labels other than the governed one, the retired watch and
send paths, the assembly and validation of a write-back's proposal and its legacy
execution ids, the write-back into a Sheet, the count of remaining Admins and external
Vendor identities. Of `vendor-lifecycle-executions.ts` only the fence of prepared attempts
is modelled, which is all that is still reachable of it. The other components are listed
in `PROJECT.json`, each with its reason: provider clients and OAuth are I/O; renewal rules
and projections are pure functions over large data; working records are
compare-and-set editors of one document like the one in `CommunicationSequence`; operator
tooling and the user interface are not the running protocol.

## Plan

Next, in this order:

1. The claim documents of lease packets and renewal messages, against one abstract
   claim that `RentWriteback` already satisfies in its `Sole`.
2. The Sheet write-back (S98) beside `RentWriteback`.
3. The monthly usage quota and the steps of Space provisioning.
4. `AccessSubmission` composed with `AccessApply` over the request they share.
5. Abstract specifications, each refined by theorem as `SingleEffect` is: one grant for
   a request of access, one message for an occurrence, one account for a cleanup run.
