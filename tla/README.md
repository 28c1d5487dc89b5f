# Finne: dispute resolution on Arc, in TLA+

Finne lets a customer pay a merchant through Circle's `RefundProtocol` escrow,
dispute the payment, have an arbiter decide, and have every step of the case
anchored in an on-chain registry. The backend (`src/backend`) keeps the records
in MongoDB; the browser (`src/web`) signs the payments and the refunds; the
chain is the only judge of where the money is.

This directory holds a TLA+ model of that program, TLC runs that check it on
small instances, and TLAPS proofs of theorems about its core.

    tlc -workers 2 -config MCDisputeApi.cfg MCDisputeApi     # one run
    tlapm Disputes_proofs.tla                                # the proofs of one component

Contents: 1 inventory, 2 modules and how they correspond to the code, 3 runs,
4 fairness, 5 proofs, 6 what the runs found, 7 what is left out, 8 plan.

---------------------------------------------------------------------------

## 1. Inventory

`PROJECT.json` lists every component with its sources, and every hazard at its
line. This section says how they work together.

    browser --HTTP--> routes --> services --> MongoDB rows <-- anchor worker --> FinneCaseRegistry
       |  |                         ^    \--> AnchorJob rows ----^
       |  +--PUT--> upload store    |    \--> agent runs --> DraftFrame rows
       |                            |
       +--pay/refund--> RefundProtocol --events--> indexer
                                    ^
              deadline scheduler ---+

### Components with behaviour

**State machines** (`stateMachines.ts`). Two pure tables, of payments
(8 statuses) and of cases (6 statuses), and a counter of info requests. An event
that is illegal in a status throws. Correct if both tables are deterministic and
if no composition the handlers make of them leads out of a final status.

**Dispute API** (`services.ts`, `routes/cases.ts`, `routes/internal.ts`). State:
`Payout`, `Case`, `Response`, `Evidence`, `Decision`, `AnchorJob` rows.
Operations: open a dispute, reply, attach evidence, ask for information, record
a decision, stamp the refund the browser sent, and the hooks for refund
confirmed, withdrawal confirmed, lockup ended, debt settled, deadline passed.
Every handler is a chain of awaited reads and writes *without a transaction*:
requests interleave at every await, documents go stale between load and save,
and a restart leaves a prefix of the writes. Correct if the payout and the case
agree (a disputed payout has exactly one open case, an open case has money that
is held), if a verdict is single and final, if a refund verdict is never
followed by a release, and if the queue of anchor jobs never runs ahead of the
rows.

**Deadline scheduler** (`scheduler.ts`). No state of its own; a timer that moves
overdue cases from `AWAITING_RESPONSE` to `UNDER_REVIEW`, as a batch found first
and saved one by one. Correct if no case waits for an answer for ever and if a
late tick does no harm.

**Anchor worker** (`anchorWorker.ts`). State: status, attempts, backoff and
lease of each `AnchorJob`. Every three seconds a pass claims jobs one after the
other, sends each to the registry, awaits the receipt, saves the job, backfills
the transaction hash. Passes overlap (slow receipts, several replicas), sends
time out ambiguously, replicas die holding claims, and the registry refuses
calls out of the order of its lifecycle. Correct if a job has one owner, if
resends are bounded, if what is called done was sent, and if every job settles.

**Chain indexer** (`indexer.ts`) and **payment detection**
(`recordDetectedPayment`, `POST /payouts/confirm`). State: `ChainEvent` rows
(which events were seen) and the `Payout` rows they create. A polling loop, and
a tick at start-up that overlaps with it, read a rolling window of events; the
browser reports a payment on its own. Correct if an event is handled once, if
every payment gets its row and its receipt from whichever report comes first,
and if statuses follow the chain.

**Agent frames** (`registrar/frameOrchestrator.ts`, `registrar/frameStatus.ts`,
`agent/*`). The opening of a case, each reply, each summarised upload and each
refresh starts a *run*: read the file of the case, check it, ask the model for
questions and a narrative, validate the draft, save a `DraftFrame`, queue its
hash for anchoring. State: one in-memory status entry per case, with timers that
delete it; the append-only `DraftFrame` rows. Nothing keeps the runs of a case
apart, so they overlap, share the status entry and save in any order. Correct if
the entry never says "running" for good, if a frame was made from what gave rise
to it, if everything filed reaches a frame, and if only saved frames are
anchored.

**Contracts.** `RefundProtocol` and `FinneCaseRegistry` are external: their
Solidity is not in the repository. They are modelled from how the backend and
the wallets call them.

**Frame content** (`agent/frame-*.ts`, `proof/checks.ts`,
`buildFrameInputFromShared`). Pure functions of the file of a case: times of
deliverables and windows of the policy give findings; findings give the text of
the four outcomes, unresolved items and a citation depth. Several of them throw
on values a person may type. Correct if a run saves a frame whatever was typed,
if both parties are cited at equal depth, and if findings about time do not
contradict each other. The validator of drafts is the one thing that may cost a run its
frame: it throws on words that read as a conclusion.

**Uploads and documents** (`services/documents.ts`, `integrations/storage`,
`FileUpload.tsx`). Allocate, PUT, complete: three calls with a person and two
stores between them; pending uploads live in the process, bytes in a bucket or
in the process. Correct if what is recorded is the hash of bytes that arrived,
if whoever was told of a document can rely on it, if no document of a work order
is lost by a concurrent save, and if no screen stays busy.

**Payments and their metadata** (`wallet.ts`, `NewPayout.tsx`,
`routes/payouts.ts`, `models/appendOnly.ts`). A screen reads the nonce of the
contract *before* it sends `pay()`, takes it for the id of its payment, and
attaches the work order under that id; an append-only guard refuses changes of a
payout's facts. Requests whose answers are lost are sent again, and the indexer may
lose an event. Correct if a record exists only for a payment on chain, holds
another payment's data only where its number was a guess, and is never rewritten.

**Sign-in, sessions, permissions** (`routes/auth.ts`, `middleware.ts`,
`rbac.ts`, `App.tsx`, `Login.tsx`). Accounts bound to a wallet and a seat by
find-then-save; tokens that carry the role of their issue for a day; accounts
and tokens from before the seats, accounts by email, addresses that any session
may put on its account; tabs that share `localStorage`. Correct if an account keeps
the seat of its first sign-in and its tokens the role of it, if a tab's screens are
those of the role the API takes it for, and if a session is not dropped because a
server was unreachable.

**The arbiter's desk** (`Decision.tsx`, `useFinne.ts`, `wallet.ts`, `useApi.ts`). Flows that
record a decision, ask a wallet, relay a signature and stamp a hash; they are neither
cancelled nor kept apart by the screen, may decide one case twice at once, and all write one
`phase`. Correct if money is only moved as a recorded decision says, if a hash is stamped on
its own case, and if no spinner waits for nothing.

**The case room** (`CaseRoom.tsx`, `useFinne.ts`, `useApi.ts`, `App.tsx`,
`TopBar.tsx`). Every seat reads a case there and writes to it through four
composers. What is picked and what is shown are two variables, joined by an
effect on the change of screen; after a payment has moved, timers go on loading the
case of that moment; answers are shown as they arrive; half of the
composers write to the case picked, half to the case shown. Correct if the room
shows what is picked, if no text is filed twice, if what it offers the backend
takes, and if whoever wrote something gets to see it.

### Components out of scope

**Registrar v1** (`registrar/services.ts`): dormant. Its header (lines 6-14)
says that no route calls it and that it may be removed; only the read
`getCaseDetail` is used. **Amounts and hashes** and **Circle wallets**: values
that are opaque to every module, and a client without state. **Read-side
routes**, **configuration and seeding**, **infrastructure**: no state that
another component's correctness depends on. **Design prototype**
(`src/project`): click-through pages and a compiled bundle, not part of the
program.

### What is hard to test in this code

* two requests on one case or one payment that interleave at an await (two
  disputes opened, two decisions, a reply against a decision);
* a restart between two writes of a handler that looks atomic;
* the browser's stamp and the indexer's event of *one* refund, in both orders;
* jobs of a case sent out of order, twice, or claimed by a process that died;
* an event stored as seen and then not handled;
* an id read before the transaction that was to get it;
* runs of the agent over one case that overlap, fail, or are cut off half-way;
* an upload whose process restarts, or changes its store, before it is completed;
* two saves of one work order's list of documents;
* two tabs that sign in to different seats while a third restores its session;
* a decision cancelled on screen while the wallet is still asked, and a late
  answer that loads another case under it;
* answers that overtake each other while another case is picked, a text is sent
  and the other parties move the case on;
* timers that act on what was picked when they were set;
* a request sent again whose first try was carried out.

---------------------------------------------------------------------------

## 2. Modules

    StateMachines <- DisputeApi <- DisputeSteps <- DisputeStepsSerial <- MCDisputeStepsSerial
      ^   ^            ^             ^                   ^----- Disputes_proofs
      |   |            +- MCDisputeApi
      |   |                          +- MCDisputeSteps
      |   +----- Indexer <- MCIndexer, Indexer_proofs
      +--------- CaseRoom <- MCCaseRoom, CaseRoom_proofs
    CaseRegistry <- AnchorWorker <- MCAnchorWorker, AnchorWorker_proofs
    FrameRuns <- MCFrameRuns, Frames_proofs
    ProofChecks <- FrameContent <- MCFrameContent, Frames_proofs
    PayoutFlow <- MCPayoutFlow, PayoutFlow_proofs
    Uploads <- MCUploads, SeatsAndUploads_proofs
    Seats <- MCSeats, SeatsAndUploads_proofs
    ArbiterDesk <- MCArbiterDesk, ArbiterDesk_proofs

An arrow points from a module to what it extends.

Definitions called `..._Slip` are used by no specification. Each is a plausible
bug of the definition that follows it (a dropped guard, a missing save, an error
swallowed); substituted for it, it makes a run fail. `PROJECT.json` lists, under
"mutants", which slip each property detects.

### StateMachines

`PAYMENT_EDGES`, `CASE_EDGES` are the tables of `stateMachines.ts`;
`ApplyPaymentEvent` and `ApplyCaseEvent` return `Illegal` where the code throws.
`RefundedStatus`, `WithdrawnStatus`, `LockupEvent`, `ReviewThen` are the
compositions the handlers make of them before they save.

### DisputeApi

One atomic action per handler: what the API promises if no two handlers overlap
and none is cut off. It is the abstract specification that `DisputeSteps`
implements.

| State | Code |
|---|---|
| `payoutStatus` | `Payout.status` |
| `caseStatus`, `payoutRef`, `infoRequestCount` | the fields of `Case` |
| `unanswered` | targets of `Case.infoRequests` with no `answeredAt` |
| `overdue` | cases whose `responseDeadline` lies in the past |
| `replied`, `lateEvidence` | `Response` rows; `Evidence` rows filed after the decision |
| `decisions`, `executed` | outcomes of the `Decision` rows; whether the oldest carries a refund transaction |
| `jobs` | kinds of the `AnchorJob` rows of the case, by `_id` |
| `chainRefund`, `chainWithdrawn` | RefundProtocol, per payment |

| Action | Code |
|---|---|
| `OpenDispute` | `openDispute` |
| `SubmitResponse`, `SubmitResponseRefused` | `submitResponse`, and its 409 after the row was created |
| `AttachEvidence` | `attachEvidence` |
| `RequestInfo` | `requestInfo` |
| `DecideRefund`, `DecideClear` | `recordDecision`, by outcome |
| `StampRefundTx` | `POST /cases/:id/refund-tx` |
| `ConfirmRefundExecuted`, `ConfirmWithdrawn` | the functions of the same name |
| `LockupEnded`, `DebtSettled`, `DeadlinePassed` | the hooks of `routes/internal.ts` |
| `SchedulerTick` | `tick` of `scheduler.ts`, one case |
| `SendRefund`, `SettleRefund`, `RefundByRecipient`, `WithdrawOnChain` | RefundProtocol and its wallets (external) |
| `DeadlineElapses` | the clock |

Deliberate choices:

* `RefundProtocol` stays as permissive as the code assumes: the backend neither
  gates a refund by the recipient nor a withdrawal. `SendRefund` and
  `StampRefundTx` happen only in the situation in which the web application does
  them (there is a refund decision; a transaction was sent), though the routes
  check neither.
* The hooks for lockup and debt believe their caller, as the routes do: they may
  fire at any time.
* No route looks at `amountContested`, and `openDispute` throws on one that is no
  number, after the case and its notice are saved. `NotANumber` are the cases opened so:
  they exist, and have no opening job (`Opening`).
* The number of a case is an unused one; how `nextCaseNumber` finds it is in
  `DisputeSteps`.

### DisputeSteps

The same handlers as Node runs them: one step from await to await. `handler[s]`
holds the local variables of the request in slot `s`: the document it loaded
(`st`, `pst`, `n`, `ver`), its arguments, the jobs it has still to enqueue. Each
`...Load` action is a handler up to its first write; the actions of `Resume` are
the rest, named for the row they write. Modelled with them:

* Mongoose's saves: only changed fields are written, over whatever the row holds
  by then, except that a save that stamps an element of `infoRequests` fails when
  the array has grown (`version`);
* `nextCaseNumber` counts the cases, so two concurrent calls may draw one number
  and the second insert fails on the unique index;
* the unusual orders of writes: the payout before the `Decision` row, the anchor
  jobs of a refund decision before the case is `DECIDED`;
* the throw of `openDispute` between the notice and the job (`ServeNotice`, if the case is in
  `NotANumber`);
* `Crash`: everything in the air is lost.

`DisputeStepsSerial` adds the refinement mapping to `DisputeApi`: the rows of
the last moment at which no handler was half-way (`before`), and the chain and the
clock as they are. `ImplementsApi` says that with one slot and no restart every
call is one `DisputeApi` action or none; `MCDisputeStepsSerial` checks it and
`StepsImplementApi` proves it.

### CaseRegistry and AnchorWorker

`CaseRegistry` is the lifecycle of `FinneCaseRegistry` (external), as the order
of the worker's calls and the comments of `services.ts` and `models/index.ts`
rely on it. `AnchorWorker` runs overlapping drain passes over the jobs of one
case: `Claim` is the `findOneAndUpdate`; `Write`, `WriteFails` are
`writeContract` (gas is estimated first, which throws if the registry would
refuse; a timed-out call may have been broadcast); `Receipt` the swallowed
`waitForTransactionReceipt`; `SaveDone`, `Backfill`, `Catch` the rest of
`drainOnce`. `DatabaseFails` makes any of the saves throw, `Crash` kills a pass
with its claim. One operator account: transactions are mined in nonce order
(`mempool` is a queue). The default branch of the `switch` over kinds is not
modelled: every kind in `AnchorJobKind` has its case.

### Indexer

Two ticks (`startup`, `loop`) and requests to `/payouts/confirm` run as tasks
that interleave at awaits. `Fetch` is the window query; `Insert` the
`ChainEvent.create` in which any error counts as "duplicate"; `FindPayout`,
`CreatePayout`, `EnqueueReceipt` are `recordDetectedPayment`; `HandleRefund` and
`HandleWithdrawal` call the hooks, which are one step each here since
`DisputeSteps` takes them apart. `Confirm` chooses the id as the route does: off
the receipt, or the id the caller read in advance, or the last nonce. Failures
come in two sorts: a *hiccup* is one that the code makes up for by itself, a
*loss* cuts off a call half-way.

The window of blocks is assumed to reach back to the last event handled; withdrawals name
one payment each; the stamping of registry events on cases, and the heartbeat
row, are left out; so is `backfill.ts`, a manual repair.

### FrameRuns

The runs of `assembleForCaseByNumber` over one case. A run is named after what
started it: a reply, an upload, or a request (`openDispute`, the refresh route).

| State | Code |
|---|---|
| `filed` | `Response` rows and uploaded `Evidence` rows of the case |
| `phase`, `seen`, `verdicts` | where a run is; what it had read; whether the model's questions contain a conclusion |
| `created`, `frames` | `createdAt` order of the drafts; `DraftFrame` rows |
| `analyses` | `analysis` anchor jobs |
| `status`, `timers` | the case's entry in `_statusByCase`; pending `setTimeout`s |

| Action | Code |
|---|---|
| `SubmitReply`, `AttachUpload`, `RequestRun` | the triggers in `submitResponse`, `attachEvidenceDocument` and `-Link`, `openDispute` and `POST /cases/:id/refresh` |
| `Summarise` | `summarizeEvidenceDocument` and `-Link`, up to the run they start |
| `Begin`, `ReadCase`, `AskQuestions`, `Narrate`, `SaveFrame`, `Finish` | a run, from await to await |
| `RejectDraft` | `validateDraftFrame` throws |
| `DatabaseFails`, `Restart` | the catch block; the process and its map are gone |
| `TimerFires` | the `setTimeout` of `markDone` or `markFailed` |

Deliberate choices:

* The four stages of the entry, the degrade rung and all content are left out:
  a degraded answer of the model takes the same way as a good one. A run that ends
  without a frame has failed, at a read, a write or the validator, since
  `fillOutcomeRequirements` always returns its lines.
* What a run reads is the set of rows on file. Text evidence
  (`POST /cases/:id/evidence`) starts no run and is not represented.
* `markDone` and `markFailed` work on whatever entry is there, and set no timer
  when there is none; a timer deletes whatever entry it meets. So an earlier run
  may hide a later one. This is in the model, and no property forbids it.

### ProofChecks and FrameContent

`ProofChecks` has the checks of `proof/checks.ts` as operators on the times of one
deliverable. `FrameContent` puts them in place: the file of a case as
`buildFrameInputFromShared` reads it, with maps keyed by the *name* of a deliverable
(`Keeper`: of two rows of one name the last wins), the findings (`RunChecks`), the texts of
the outcomes (`CitedBy`), the unresolved items (`ComputeUnresolved`), the depth
(`CitationDepth`) and the part of the model (`Phrasings`), and whether `validateDraftFrame`
lets the draft through (`Refused`): it looks into every string of the draft, so the
questions of the model, and the names of deliverables that requirements cite (`Concluding`
are the names that hold a conclusion), may cost the run its frame. `order`, `calendar` and
`allegation` are what the case was opened on; `writers` and `evidence` grow by `Write` and
`FileEvidence`; `runs`, `concluded` and `made` count the runs, those whose questions
conclude, and the frames saved; `Assemble` is a run as one step, since `FrameRuns` has the
interleavings.

Conversions are modelled by what they do: `toMicro` makes a whole number of
"500" and of "33.34" and lets words through, which `BigInt` refuses
(`AmountFinding`); `ComputeUnresolved` is given the amount as it was typed, so
it throws on all but a whole number (`UnresolvedThrows`), and the assignments
before the throw stand (`Deterministic`). Sentences are left out; what they cite
is kept.

### Uploads

| State | Code |
|---|---|
| `store` | which of the two stores the process came up with (`_factoryStorePromise`) |
| `pending`, `received`, `stored`, `bucket` | the maps of the local store and the pending map of either; the S3 bucket |
| `placed`, `screen`, `req` | the URL an upload was given; `handleFile` on screen; the handler on the server, between two awaits |
| `hashed`, `rows` | what was hashed; the `Evidence` row or `WorkOrderDocument` |
| `seen`, `docs`, `version` | the work order's list as a handler loaded it, as it is, and Mongoose's version |
| `case`, `timely`, `note` | the case; requests sent while it was open; the summary |

`Allocate`, `Put`, `Complete`, `SendLink` are `handleFile` and `handleLink`;
`FinalizeLocal`, `HeadObject`, `Get` are `finalizeUpload` of either store; `FindCase`,
`CreateEvidence`, `FindOrder`, `SaveOrder` the services (a conflict of versions is an
error); `Summarize` the background reading. `CallFails` and `PutFails` fail any call,
answers may be lost, `Restart` empties the process and may change its store. The local store
hashes a stand-in when the bytes never came; that is in the model (`metadata`), and no
handler on screen gets there.

### PayoutFlow

A screen's `pc` is the place in `approveAndPay` and `NewPayout.tsx`: `PreRead`,
`Pay`, `ReRead`, `Confirm`, `Metadata`, `Upload`, with the loops of the code
bounded by one constant. `mined` is the contract, `Mine` and `Revert` what it
does, `Index` the indexer, which stores an event as seen before it handles it and so may
lose it (`lost`). `Confirm` is `POST /payouts/confirm` by what the receipt tells:
`ConfirmMined` and `ConfirmLast` may create the row and still not be answered (`Answer`),
and then the screen asks again. `rows`, `lockup`, `orders`, `contracts` are the
records, told by the screen whose data they hold. `how` says where the id came
from, `overtaken` which early reads turned out wrong, and `guesses` at which payments the
last of the contract was taken for that of a screen (both history).
The metadata route writes the work order *before* it saves the payout, and that
save is refused by the append-only guard when it would move the dates
(`Metadata`).

### Seats

`accounts`, `issued`, `expired` are the server's; `storage` the browser's
`localStorage`; `page`, `token`, `role`, `tries` a tab's. `Find`, `Save`,
`Create` are `POST /auth/wallet` between its awaits, `SignIn` its answer,
`SessionRole` is `resolveSession` (with a database that may be down), `Answers`
is `requirePermission` over the matrix of `rbac.ts`. `Load`, `Restored`,
`Rejected`, `Unreached`, `Logout` are the restore effect of `App.tsx` and
`onLogout`. `Register` makes an account by email, `LinkWallet` puts any address on the
account of any session (`HasSession`: accounts by email log in with their password, which
is not modelled); both keep the two ways in which an address may
be written apart, since the index does. `left`, `crossed` and `raced` are history: whether a tab
logged out, which tabs booted while another signed in or out, and which accounts got their seat
from two sign-ins at once.

### ArbiterDesk

| State | Code |
|---|---|
| `selected`, `shown`, `loading` | `selectedCaseId`, `apiData.activeCase`, the `GET /cases/:id` under way |
| `phase`, `signing`, `mining` | `decPhase` and the timers of `startSim` |
| `at`, `about`, `asks`, `pays` | where each flow is, and its local variables |
| `sent`, `stamp`, `escrow` | transactions, the hash on the decision, the contract |
| `verdicts`, `decided` | outcomes of the `Decision` rows of a case; cases saved as decided |
| `torn` | history: cases two requests decided at once, or with a row no save of the case followed |

`Record` is the button; `DecideReads` and `DecideSaves` are the request, before and after
its awaits, so two of them may find one case undecided and both be answered 201; `Connect`
to `Stamp` the rest of `decide` in `useFinne.ts` with `directRefundByArbiter`,
`directReleaseByArbiter`, `signRefundAuthorization` and `submitRefundSignature`; any answer
may be lost. `ViewCase`, `LoadFirst` (`App.tsx` 298-308) and `CaseLoaded` are how a case
gets on the screen, `Cancel`, `StartSim`, `SimSigns`, `SimMines` the other buttons and the
simulation left from the prototype. A case and its payment are one value.

### CaseRoom

| State | Code |
|---|---|
| `picked`, `screen` | `selectedCaseId`, `screen` in `useFinne.ts` |
| `timers` | timers of the `payoutVersion` effect, by the case they will load |
| `shown`, `load` | `apiData.activeCase`, the `GET /cases/:id` under way |
| `draft`, `waits` | the text of each composer; `responseSending`, `messageSending` |
| `rows`, `log` | the case rows; the `Response`, `Evidence` and request entries of this seat |
| `post` | the requests this seat made, and what became of them |

`View` and `Go` are `viewCase` and `go` with the effect of `App.tsx` that loads on a change
of screen; `Fetch`, `Read`, `Arrive` are `loadCase` around `getSharedCase`; `PayoutMoved` is
the effect on `payoutVersion`, whose timers keep the screen and the pick of that moment, and
`TimerFires` one of them; `Offers` is when the screen shows a composer; `Write`, `Press`,
`Told`, `Failed` are `submitResponse`, `sendMessage`, `addEv` and `sendReq`; `Handle` the
backend's handlers, over the transitions of `StateMachines`; `Reload` the effect on
`caseVersion`. `OthersStep` is any step of the other seats, the scheduler or the indexer.
`latest` and `missed` are history: which request was made last, and why the room may show
something else than what is picked: the pick was not loaded, its load failed, or another
answer overtook it, of an older load or of a timer. The cases begin `AWAITING_RESPONSE` or
`OPEN`, as a restart between the two saves of `openDispute` leaves them.

---------------------------------------------------------------------------

## 3. Runs

All runs pass. Properties written as a conjunction are listed with their parts.

| Run | Instance | What it checks |
|---|---|---|
| `api` | 1 payment, 2 cases, one of them opened on no number, 1 info request | **DisputesAndCasesAgree** (`DisputedHasOpenCase`, `AtMostOneOpenCase`, `OpenCaseHoldsMoney`); **DecidedOnce**; **RefundsAreFinal** (`RefundNeverReleased`, `ClosedRefundIsRecorded`); **AnchorScriptInOrder**: the queue holds a case's opening (if its amount was a number), at most one reply for the notice and each request, and the verdict as far as it has come, in this order; **VerdictIsFinal** (action property); **CasesMoveOn** (liveness: `OverdueCaseMovesOn`, `ArbiterRefundIsRecorded`) |
| `steps` | 1 payment, 1 case, 2 symmetric requests in the air, 4 calls, 2 info requests, restarts | what survives interleaving and restarts: **RecordsKeepUp** (`VerdictHasReasons`, `AnchorsFollowRecords`, `StatusFollowsChain`) |
| `serial` | 2 payments, 2 cases, one of them opened on no number, 1 request in the air, 4 calls | **ImplementsApi**: handlers that do not overlap are the atomic ones |
| `worker` | 2 passes, 3 jobs, 3 attempts, 2 faults, restarts | **QueueIsHonest** (`OneOwner`; `NoFreeResend`: a job is sent again only after a fault; `SettledHonestly`); **JobsSettle** (liveness) |
| `indexer` | 2 payments that look alike, 2 events, 1 report of the browser, 1 fault | **RowsFollowChain** (`OneReceiptPerReport`, `RowHasReceipt`, `StatusFollowsLog`); **EventsReachRows** (liveness: `PaymentsAreRecorded`, `RefundsReachRows`) |
| `frames` | 1 reply, 1 upload, 1 request, 1 fault, restarts | **NoStuckSpinner**; **FramesAreAccounted** (`FrameHasItsCause`, `AnalysesMatchFrames`); **RunsComeToAnEnd** (liveness: `StatusClears`, `FactsReachAFrame`) |
| `content` | times 0..4, grace 1, acceptance and deemed approval 2, orders of 0 to 2 rows, at most 1 piece of evidence a side, at most 2 runs, one name that holds a conclusion | **OnlyConclusionsAreRefused**: a run without a frame had a conclusion in its draft, and a frame has a line for every outcome; **DepthIsEven**; **FindingsAreSound** (`OrderAgreesWithAcceptance`, `NoGainFromDelay`, `JudgedOnItsOwn`) |
| `uploads` | 1 file for a case, 2 for a work order, 1 link, 1 restart, both stores | **RecordsAreHonest** (`RecordedFilesAreReal`, `ToldIsRecorded`, `NoEvidenceAfterClose`); **DocumentsKept**; **ScreensSettle** (liveness) |
| `payouts` | 2 screens, 2 tries of a loop, 2 payments, 3 shapes of a work order | **RecordsTellTheChain** (`ChainFirst`, `OthersRecordsOnlyByGuess`); **PayoutsAreForever** (action property); **PaymentsComeThrough** (liveness: `PaymentsAreRecorded`, `ScreensEnd`) |
| `seats` | 2 wallets, 1 email address to register, seats of arbiter and platform, 2 symmetric tabs, 2 tokens, 1 account from before the seats | **SeatsAreKept** (`AccountsKeepTheirSeats`, but for tokens of sign-ins that raced; `ScreensFitTheToken`, but for crossed tabs); **OnlyRejectedTokensAreDropped** (action property) |
| `desk` | 2 cases, 2 flows, both symmetric | **DeskIsHonest** (`SentIsDecided`: sent as a recorded decision says, both ways only for a case that is `torn`; `StampIsOwn`, `SpinnerHasWork`) |
| `room` | 1 seat of any role, 2 symmetric cases, 1 text, 2 posts, 2 requests in flight, 2 openings or refreshes, 1 step of the others or of a payment, 1 timer, 1 info request | **RoomIsHonest** (`ShownIsPicked`, `NoTextTwice`); **RefusalsAreExplained** (action property); **OwnPostsShow** |

The runs also check the type invariant of each module.

### The bounds, and why they are enough

* `api`: a case concerns one payment, and what two cases have to do
  with each other is that they may want the same payment: two cases, one payment.
  `steps` has one case, for what two handlers do to each other's rows. `serial` has two of each,
  since its question is the mapping.
  One info request more than none shows the cap at work. A stale read needs one
  handler to overlap another, so two slots in `steps`. Cases opened on no number are in
  `api` and `serial`; in `steps` a restart after the notice leaves the same rows.
* `worker`: three jobs are the shortest script in which a job depends on one that
  depends on another; two passes are an owner and a thief; three attempts let
  the cap be reached with faults on the way.
* `indexer`: two payments that look alike are what mixes up rows; start-up and
  loop overlap; one report, one fault.
* `frames`: one trigger of each kind gives up to three runs that overlap.
* `content`: all five orders of two instants around a window of length 2 with a
  grace of 1 fit into 0..4; two rows are the least in which names collide; one name
  holds a conclusion.
* `uploads`, `payouts`, `seats`, `desk`: two actors of every kind whose order
  matters, one restart or old account, the loops cut to two tries. In `seats` an account is
  registered only while there is none (`MaxRegister`): what `Register` adds is an account with no
  wallet and no seat beside one of the others.
* `room`: two cases are the one picked and the other; two requests in flight are
  one that overtakes the other; two posts are a try and its retry, or a button
  pressed twice; one text, since all of it is about what becomes of that text. Of the six
  timers of the code one is enough to overtake a load.

`CHECK_DEADLOCK FALSE` is said where the program really may stop: calls are used
up (`steps`, `serial`), the queue is empty (`worker`), every run is over
(`frames`, `content`), every upload settled (`uploads`), screens at their end
(`payouts`), tokens used up (`seats`), a seat that is done (`room`).

---------------------------------------------------------------------------

## 4. Fairness

* `DisputeApi`: the scheduler's timer is rearmed for ever (`SchedulerTick`), a
  transaction that was sent is mined or dropped (`SettleRefund`), and the
  indexer polls for ever, so an event whose hook *can* take effect is applied
  (`ConfirmRefundExecuted`). All weak. Nobody owes a reply, a decision, a
  refund or a withdrawal.
* `AnchorWorker`: `setInterval` keeps starting passes and Node keeps running
  them (`Drain`), backoffs end, transactions are mined. Faults, restarts and
  enqueueing are owed by nobody; that faults are bounded says that eventually
  they stop.
* `Indexer`: ticks and requests that run keep running, and the loop starts over.
  Payments, events, disputes and faults are owed by nobody.
* `FrameRuns`: a run goes on, because its reads and writes return and every model
  call is aborted after a timeout (`model-client.ts`); so does a summary; timers
  fire. Triggers, failures and restarts are owed by nobody.
* `Uploads`: a handler that has begun goes on to its answer (`Api`), and
  `handleFile` goes on from one call to the next (`Screen`); a broken connection
  is an answer too. Nobody owes a restart.
* `PayoutFlow`: once its wallet has sent the payment, a screen runs its loops, which are
  bounded (`Screen`), and the indexer polls (`Index`). Nobody owes the start of a payment or an
  answer to the wallet, no transaction has to be mined, and the indexer may lose any event: a
  payment gets its row unless both reports of it failed (`BothReportsFailed`).

`Seats`, `ArbiterDesk`, `CaseRoom` and `FrameContent` have no fairness and no liveness
property: people at screens owe nothing. That the desk's spinner does not wait
for ever is a safety property there (`SpinnerHasWork`), and so is that a text on record
shows: it does as soon as the load made last is answered (`OwnPostsShow`).

Weak fairness is enough: where one actor can disable another's step (a pass that
claims the job, a tick that stores the event), it does so by doing it.

---------------------------------------------------------------------------

## 5. Proofs

TLAPS proves, for every number of payments, cases, requests, runs, screens and
every value of the other constants that satisfies the assumptions:

| Module | Theorem | States |
|---|---|---|
| `Disputes_proofs` | `TypeCorrect` | `TypeOK` of `DisputeApi` |
| | `MoneyIsHeld` | `DisputesAndCasesAgree` |
| | `OneVerdict` | `DecidedOnce` |
| | `RefundStands` | `RefundsAreFinal` |
| | `VerdictFinal` | `VerdictIsFinal` |
| | `ScriptsInOrder` | `AnchorScriptInOrder` |
| | `StepsTypeCorrect` | `StepsTypeOK` of `DisputeSteps` |
| | `RecordsAlwaysKeepUp` | `RecordsKeepUp` |
| | `StepsImplementApi` | `ImplementsApi`: the refinement |
| `AnchorWorker_proofs` | `TypeCorrect` | `TypeOK` |
| | `QueueHonest` | `QueueIsHonest` |
| | `ClaimsOutliveTheirPass` | no step takes up the claim of a pass that died |
| `Indexer_proofs` | `TypeCorrect` | `TypeOK` |
| | `TicksDoNotMeet` | two ticks never record one payment at the same time |
| | `RowsFollow` | `RowsFollowChain` |
| `ArbiterDesk_proofs` | `TypeCorrect` | `TypeOK` |
| | `DeskHonest` | `DeskIsHonest` |
| `Frames_proofs` | `FramesTypeCorrect` | `FramesTypeOK` of `FrameRuns` |
| | `SpinnerStops` | `NoStuckSpinner` |
| | `EveryFrameIsAccounted` | `FramesAreAccounted` |
| | `OnlyConclusionsCostAFrame` | `OnlyConclusionsAreRefused` of `FrameContent` |
| | `DepthIsAlwaysEven` | `DepthIsEven` |
| | `FindingsAreAlwaysSound` | `FindingsAreSound` |
| `PayoutFlow_proofs` | `TypeCorrect` | `TypeOK` |
| | `RecordsAlwaysTellTheChain` | `RecordsTellTheChain` |
| | `PayoutsStand` | `PayoutsAreForever` |
| `SeatsAndUploads_proofs` | `SeatsTypeCorrect` | `SeatsTypeOK` of `Seats` |
| | `SeatsKept` | `SeatsAreKept` |
| | `SessionsAreKept` | `OnlyRejectedTokensAreDropped` |
| | `UploadsTypeCorrect` | `TypeOK` of `Uploads` |
| | `RecordsHonest` | `RecordsAreHonest` |
| | `DocumentsStay` | `DocumentsKept` |
| `CaseRoom_proofs` | `RoomTypeCorrect` | `TypeOK` |
| | `RoomStaysHonest` | `RoomIsHonest` |
| | `RefusalsHaveReasons` | `RefusalsAreExplained` |
| | `OwnPostsAreShown` | `OwnPostsShow` |

So every invariant and every action property that a run checks, and the
refinement, is proved for all values of the constants; what is left to TLC is
liveness.

**Assumptions.** Bounds are natural numbers or positive ones (`MaxInfoRequestsAssumption`,
`BoundsAssumption`, `StepBoundsAssumption`, `AttemptsAssumption`, `RunsAssumption`, `FaultsAssumption`,
`ContentBoundsAssumption`, `WindowsAssumption`, `SeatBoundsAssumption`). What is counted is finite: the
requests in the air (`SlotsAssumption`), the payments of the indexer and the
reports of the browser (`PaysAssumption`, `RequestsAssumption`), the flows of
the desk (`FlowsAssumption`); how many there are is open. Sets of scripts, orders, calendars,
allegations and details have the shape the code reads (`ScriptsAssumption`, `OrdersAssumption`,
`CalendarsAssumption`, `AllegationsAssumption`, `DetailsAssumption`). Which cases are opened on no
number and which names hold a conclusion is open (`NotANumberAssumption`, `NamesAssumption`). "None" is
not one of the values it stands for (`NoPayoutAssumption`, `NoJobAssumption`,
`NoneAssumption`, `NoRecordAssumption`). Seats, stores, kinds of upload and the
accounts from before the seats are what the code knows (`SeatsAssumption`,
`StoresAssumption`, `KindsAssumption`, `OldAssumption`). TLC evaluates each of
them in the run of its module. `StepsImplementApi` alone has a hypothesis of its
own, `OneAtATime`: at most one slot, and no restart. It is what the refinement
is about, and what the run `serial` has; with two handlers in the air, or a
restart between two writes, `DisputeSteps` does not implement `DisputeApi`
(section 6), and `RecordsKeepUp` says what is left.

Every inductive invariant below was first checked by TLC, on the instance of its module's run.

**`DisputeApi`.** `IInv == TypeOK /\ Safety`, where `Safety` is the six
invariants of disputes, cases and verdicts. None is inductive alone. A release
after a decision for release touches only the payment of *that* decision because no
other case of the payment is open (`AtMostOneOpenCase`); a refund is never
followed by a release only if a case closed as refunded has its decision on file
(`ClosedRefundIsRecorded`); a case has one decision because a decision is
only taken in statuses that are undecided; and that a case exists exactly if it
has a payout is part of the types. The proof has three layers: what the two tables allow
(`DisputeOpens`, `ClearReleases`, `RefundConfirms`, ...); what each handler does to
the variables (`...Effect`); and that each kind of step keeps `Safety`
(`CaseWalksSafe`, `PayoutMovesSafe`, `OpenDisputeSafe`, `VerdictSafe`,
`RefundClosesSafe`), brought together in `NextSafe`.

**`FrameRuns`.** `NoStuckSpinner` is inductive together with the types.
That a frame was made from its cause needs that a run past its first read has
read its cause (`CauseRead`); that anchored analyses are those of saved frames
needs which phases come after which write (`SavedInPhase`, `AnchoredInPhase`).

**`FrameContent`.** `FrameInv` says of every saved frame that it is what
the operators of the module make of the file it was made from. What the
properties say of a frame is then a lemma about those operators, for every order,
calendar and set of times. `made + concluded <= runs`, with equality where no name can conclude,
is kept by every run: it saves a frame, or its questions conclude, or a name did.

**`PayoutFlow`.** `PayoutInv == TypeOK /\ ChainFirst /\ MinedOnce /\ SettledOnce
/\ IdIsWorth /\ DataIsPlaced`: a payment is mined at most once and settles the
screen that sent it; an id that a screen holds is worth what `how` says of it; data
a row is of its own payment or of one that was taken for it (`guesses`), however often the screen asked;
a work order under another's payment was placed by a screen whose id was a guess.

**`DisputeApi`, the anchor script.** That the jobs of a case are the script its history calls for
is not inductive: a reply that adds a `response` job
must know that the script has no verdict yet, and how many replies there were.
`ScriptsMatch` counts them: a case has had at most one reply more than it was asked
for information, and as long as it awaits an answer at most as many
(`Replies`); and which jobs of the verdict are queued follows from its status
(`VerdictScripts`). A step that queues nothing keeps every script
(`ScriptsUntouched`), one that queues touches one case (`OneScriptMoves`).

**`DisputeSteps`.** The hard part is that a handler acts on what it loaded,
and others write in between. Two ideas carry it. First, *rows only grow*
(`RowsGrow`): a case that exists goes on existing under its payment, does not
go back to `OPEN`, keeps its first decision, its replies and its stamps; what was sent stays
sent, and refunds and withdrawals on chain stand.
`Fits(h)` says what the rows owe to each handler at each of its awaits, in
terms that growth keeps (`FitsStays`), so only a handler's own step has to be looked at: it
reads, and writes what the next await needs. Second, a queue that does not run
ahead has to be *counted*, since two decisions on one case may both be
enqueueing: `CountsMatch` adds the jobs in the queue to those a handler in the air
is about to queue, and that sum stays below what the jobs rest on
(`under_review` below the Decision rows, `decision` below `under_review`, `correction` below
`correction_outstanding`). `VersionsMatch` bounds the pushes to a case's info requests by
the calls made. A restart loses what handlers owe and changes no row, so
it only lowers the sums (`CrashSafe`).
The proof has a lemma for each step of a handler (`...Safe`), which brings it into
one of a few forms: a call begins (`CallSettles`), a handler reads and goes on
(`ReadStep`), saves and goes on (`SaveStep`), or returns (`ReturnStep`); steps
that add to a count (`CreateDecisionSafe`, `EnqueueAnchorSafe`,
`SaveInfoRequestSafe`) have their sums worked out.

**`AnchorWorker`.** `WorkerInv == TypeOK /\ OneOwner /\ AccountsMatch /\ StepsMatch`.
`AccountsMatch` is the account of one job, broadcasts against attempts;
it only stays true if one knows what the row says at each await of the pass that
holds the job (`StepsMatch`), and that nobody else holds it (`OneOwner`).
`ClaimsOutliveTheirPass` proves of every size what section 6 says of the lease.

**`Indexer`.** `OneReceiptPerReport` compares two counts, and a report under way
is in neither. `ReceiptsCounted` counts the reports that are done with; that the
event of a payment is done with once needs `TicksApart` (only the tick that
stored the event records it), which needs that a payment has one event in the log
(`ChainMatches`). That a row is refunded because the chain says so needs what a
tick knows between its reads and its writes (`TasksMatch`); `WithdrawnHasRow` keeps a
payment that is created again from losing its status.

**`ArbiterDesk`.** `FlowMatches` says what is decided and sent at each await of a flow. That
two outcomes on one case are `torn` needs what a request that is about to save knows: it
found the case undecided, alone, or it is `torn` already (`SavesFit`, `VerdictsFit`).
`SimsFit` is needed for the types only: simulations are started from a failure on screen, a
failure ends a flow, so there are never more than flows. `SpinnerHasWork` is inductive by
itself: a flow writes the phase when it leaves.

**The refinement.** What `DisputeApi` sees are the rows a handler *started* on. So
the invariant, `ShadowFits`, says for every handler and each of its awaits how
the rows differ from those (`OpenDisputeAt`, `RecordDecisionAt`, ...): what it has
loaded is still what the row says, what it has saved is what the action of the
API will save, and what it has not come to yet is as it was. Every step then
*follows* (`Follows`): one in mid-air keeps `ShadowFits` and leaves what the API sees alone
(`GoesOn`); the one that returns is one action of the API, whose guards hold since
the handler met them on the same rows (`Lands`, `RestsAgain`). The saves of the
scheduler's batch are an action each. Two things are needed from outside a handler. The
chain moves while one is in the air (`OutsideStays`, `AtStays`): a refund is sent
only for a case whose decision the API has seen (`DecisionsBefore`), which is why
`Answered` guards it, and `DecisionsHaveCases` keeps decisions from cases that are
just being opened. And the number `nextCaseNumber` counts is free because numbers
have no gaps (`Numbered`), which holds as long as handlers do not overlap. `ShadowFits` uses
`StepsInv`, the invariant of `DisputeSteps`.

**`Seats`.** `SeatsInv == SeatsTypeOK /\ AccountsFit /\ AccountsKeepTheirSeats /\ CallsFit
/\ TabsFit /\ StorageFits`. That a tab's screens are those of its token's role needs to
know which pairs of a token and a role may be in `localStorage`
(`StorageFits`), and the one pair that does not match is the one left from before the seats,
whose token the server will not take (`Useless`). That it stays useless needs
that only a sign-in gives an old account its seat, and that everybody who signs in is
looking at the login page (`CallsFit`), where nobody is as long as that token
is stored. `AccountsKeepTheirSeats` holds because what an earlier find leads a
sign-in to save was an account without a seat (`CallsFit`), so an account made for a wallet is never
saved again; if another sign-in has given it one meanwhile, it is in `raced` from then on. Linking
an address changes neither seat nor role.

**`Uploads`.** `UploadsInv == TypeOK /\ PhasesFit /\ FilesFit /\ LinksFit /\ SeenFit /\
TimelyFit /\ ToldFit`. `FilesFit` follows the bytes of a file: an upload is pending only in the
process and the store it was placed in, its bytes are there when the screen asks for
them to be recorded, and what was hashed is what arrived. `SeenFit` is what makes Mongoose's versions
enough: a list read under the version of now is the list of now, so a save that
passes the check loses nothing.

**`CaseRoom`.** `RoomInv == TypeOK /\ AnswersFit /\ RoomFits /\ RecordsFit /\ TextsFit /\
WaitsFit /\ SentOnce /\ OffersFit`. `RoomFits`: as long as nothing was missed, the request
made last is for the case picked, or its answer is what the room shows.
No text twice needs an owner for every text (`TextsFit`: one composer) and at most
one post of it that may still be recorded (`SentOnce`), which is kept because a composer that
waits cannot be pressed (`WaitsFit`); evidence has no such lock, and is the exception the property
makes. That what is offered is taken needs that a post was offered on a row the room had
seen (`OffersFit`), compared with the row as it is when the request arrives. That a text on
record shows rests on `ShowsInv == PostsOnRecord /\ ShowsFit`: a post that was taken is on the
case it was for, and whoever is told so in the room, or comes there later, has it read again.

**Only model-checked**: liveness (`CasesMoveOn`, `JobsSettle`, `EventsReachRows`,
`RunsComeToAnEnd`, `ScreensSettle`, `PaymentsComeThrough`), since fairness and ENABLED are out of the prover's reach. No module with proofs reaches a
recursive operator.

---------------------------------------------------------------------------

## 6. What the modelling found

The following disagreements between the code and what is written about it were
met while modelling. The models follow the code, and a property that touches one of them
names the exception; none claims what is written.

* A case that was asked for information awaits a response again, so the reply to the request
  counts as the first one and queues a second `response` job (`services.ts:497`), though
  `services.ts:494-496` and `551-553` say that the contract accepts only one per case and
  that subsequent messages are not anchored (`AnchorScriptInOrder` counts one more
  reply than requests). The worker's resends and dead letters are where such a job ends.
* `assembleFrame` throws, and no frame is saved, if the validator takes words in the
  questions, or in the name of a deliverable that a requirement cites, for a conclusion
  (`frame-assembly.ts:172`); `frame-assembly.ts:9-11` says that a frame can always reach
  rung 1 (`concluded` in `FrameContent` counts the runs that make none).
* One wallet may come to have tokens of two seats, though `routes/auth.ts:245-247` binds it
  to exactly one: any session may link its address in other letters to another account
  (`routes/auth.ts:206`), and two sign-ins to an account without a seat may both save theirs.
  `SeatsAreKept` is about accounts, not wallets.
* A case opened with an amount that is no number is served and saved, and then `openDispute`
  throws before its opening is queued (`services.ts:451`; `routes/payouts.ts:489` does not
  look at the amount). The caller is told of an error, and the registry never opens the
  case.
* Two overlapping `POST /decisions` on a case are both answered 201, and with different
  outcomes the desk sends both a refund and a release (`torn` in `ArbiterDesk`).
* A screen whose confirmation fails after the row was made asks again and may leave its data
  on the rows of several payments (`NewPayout.tsx:177-179`).
* `docs/TECHNICAL_PRD.md:779` and the description at `routes/cases.ts:129-130` say that a
  reply is only legal in `AWAITING_RESPONSE` and for the recipient only. It is taken in
  every status, decided and closed cases included (`services.ts:499-512`), and from the
  customer too (`routes/cases.ts:132-150`).
* `docs/TECHNICAL_PRD.md:781` and `routes/cases.ts:301` say that information is requested
  only under review; `requestInfo` also takes `AWAITING_RESPONSE`. The document's targets,
  platform and recipient, are customer and merchant in the code (`routes/cases.ts:304-309`).
  Likewise `routes/cases.ts:334` has decisions refused unless the case is under review, and
  they are taken from `AWAITING_RESPONSE` too (`services.ts:683-689`).
* On a case left `OPEN` the room offers a request for information (`App.tsx:367-375` shows
  it as under review), which the backend refuses.
* After a payment has moved, timers go on loading the case picked at that moment
  (`App.tsx:338-354`), so the room may show a case left up to 38 seconds before.

* The decision screen reports the hash of a *release* through
  `POST /cases/:id/refund-tx` (`Decision.tsx:247-251`), which moves any disputed
  payout to `REFUNDED` (`routes/cases.ts:412`) and closes the case. A released
  payment may have been disputed again before the report arrives: its payout
  then says refunded and no refund was sent. The route's comment
  (`routes/cases.ts:391-393`) speaks of the arbiter's refund only (`Misreported` in
  `DisputeApi`).
* If the browser's stamp comes before the indexer's confirmation, the
  correction jobs are never enqueued, though `services.ts:747-748` says that they
  fire later.
* A refund outside any case is not recorded on the payout, though
  `docs/TECHNICAL_PRD.md:784` says that it is.
* Two disputes opened at the same time may both get a case;
  `docs/TECHNICAL_PRD.md:776` rules it out.
* The claim of a worker that died is never taken over, though `anchorWorker.ts:15-16`
  says that leases expire.
* An event stored as seen and then cut off is never handled;
  `indexer.ts:125` says there is nothing to recover.
* The latest frame may be one of an older view of the case, if runs overlap
  (`services.ts:571-572`).
* An address linked in mixed case gives a wallet two accounts: the index is on
  the address as written (`models/index.ts:529`).
* Retry after a declined signature starts a simulation, which the decision
  screen's comment rules out (`Decision.tsx:213-215`).
* An amount typed as "33.34" costs the frame its unresolved items
  (`frame-assembly.ts:9-11` says that they always succeed).
* Dates that the metadata route would move are refused by the append-only guard
  after the work order was written (`routes/payouts.ts:328-345`).
* Evidence is taken between a refund decision and its execution, though
  `docs/TECHNICAL_PRD.md:780` says it is refused after the decision.
* Annotations never meet their summaries: keys differ
  (`frameOrchestrator.ts:273`).
* A restart leaves a payout `DISPUTED` with no case, or a case that stays `OPEN`; a
  stale save may put a decided case back to review.
* A row may describe another payment, because the id was read too early
  (`routes/payouts.ts:141-142` says the indexer puts it right).
* A case picked on the case screen is not loaded, though `useFinne.ts:50` says
  that the pick drives what is loaded; evidence and requests then go to one case
  and replies to the other. With no case picked, their buttons do nothing.
* `activeCaseId` in `useApi.ts` is written and never compared, so an older answer
  may replace a newer one in the room.
* Every decided case is shown as "Refunded", whatever the verdict
  (`CaseRoom.tsx:732-734`).

---------------------------------------------------------------------------

## 7. What is left out

* **Amounts and hashes.** Amounts are opaque, but for the forms in which an
  amount may be typed (`FrameContent`); that the worker sends a hash of the row is
  not represented.
* **Crashes in `DisputeApi`.** They are `DisputeSteps`' subject.
* **Permission checks** in all modules but `Seats`: elsewhere actions are the
  handlers after the check.
* **Who sends a transaction.** That the stamped transaction is the arbiter's is
  not checked by the route and not modelled; that it was sent for this case is
  (`ArbiterDesk`).
* **Prompts, answers, stages of agent frames**; `assembleForCase`, the twin keyed by
  the v1 case id; the legacy brief and its copy of the checks.
* **The indexer's block window and its registry events** (`CaseOpened`,
  `HumanDecisionRecorded`), `backfill.ts`, the derivation of `platformKey`.
* **Uploads**: expiry of presigned URLs, the local job queue (nothing enqueues),
  the text a reader extracts.
* **Work orders without a payment** (`routes/workorders.ts`), passwords, the
  roles of the domain package.
* **Receipts and the dispute form, lists, notifications** (`Receipt.tsx`,
  `OpenDisputeModal.tsx`, `Disputes.tsx`, `notify.ts`): they load and write as the
  case room does, with timers of their own.
* **Registrar v1**, for the reason in section 1.

---------------------------------------------------------------------------

## 8. Plan

1. *Done.* Payment and case machines, the dispute API, its steps, the refinement
   between them, and the proofs of the API's safety.
2. *Done.* The anchor worker against the registry; the indexer and payment
   detection.
3. *Done.* The agent's runs over a case, what they put into a frame, and the
   proofs of both.
4. *Done.* Uploads; payments from the screen with the proofs of their records;
   sign-in and seats; the arbiter's desk; the case room.
5. *Done.* The safety of the worker, the indexer, the desk, the anchor scripts and
   the API's steps, proved.
6. *Done.* The step simulation from `DisputeSteps` with one slot to `DisputeApi`,
   proved; and the safety of the room, the seats and the uploads.
7. *Next.* The API's queue, the worker and the registry composed: that what
   `DisputeApi` enqueues in order is accepted in order, through the worker's faults.
