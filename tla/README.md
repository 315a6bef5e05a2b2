# MarketingIQ in TLA+

MarketingIQ is a multi-tenant B2B sales assistant: it finds companies and decision
makers, scores and qualifies them as leads, drafts outreach that a person reviews,
sends the approved mail, records what became of it and tracks the resulting sales
opportunities. The program is a WSGI application (FastAPI behind Passenger) and four
cron jobs over one MySQL/InnoDB database. Several worker processes serve requests at
the same time and nothing is kept in memory between requests, so **every hard
behaviour of the system is a behaviour of concurrent database transactions, and of
the outside world (SMTP, IMAP, paid providers) that cannot be rolled back with them.**
That, and the decision tables by which leads and people are judged, is what these
modules are about.

Contents: [The system](#the-system) · [How a request is modelled](#how-a-request-is-modelled) ·
[Modules](#modules) · [Runs](#runs) · [Fairness](#fairness) · [Proofs](#proofs) ·
[Where code and docs disagree](#where-code-and-docs-disagree) ·
[Known limits](#known-limits-of-the-code) · [Not modelled](#not-modelled) · [Running](#running)

Source paths below are relative to `src/src/marketingiq/`; `docs/` is `src/docs/`.

## The system

```
 cron jobs (jobs/*.py)                 HTTP requests (api/*.py)
   run_company_discovery  ┐              │ one transaction per request
   run_automation_policies├ advisory     │ (infrastructure/database.py session,
   run_pipeline_sync      │ lock, one    │  committed by the route)
   run_mailbox_engagement ┘ transaction  ▼
          └───────────────► application/*.py services ──► InnoDB
                               │        │        │
                      SMTP (send)   IMAP (scan)  paid providers (search, enrich, AI)
```

Requests never call each other; components interact only through committed rows. The
chain is: catalog/ICP → company → facts → fit → lead qualification → contact and
verified address → draft → reviews → send attempt → engagement events and
suppressions → opportunity → learning.

| component (module) | state it keeps | operations | what is hard | what makes it correct |
|---|---|---|---|---|
| Campaign draft review (`DraftReview`) | draft rows, append-only review ledger with unique `(draft_id, revision_number)` | generate, edit, approve, reject | decisions taken on a snapshot older than another's commit | each event follows the ledger before it; approval is final; equals some serial order |
| Outbound sending (`OutboundSend`) | attempts with unique `(tenant, idempotency_key)`, suppressions | send, suppress, one-click opt-out | irrevocable delivery inside a transaction; lost answers; duplicate keys; opt-outs racing sends | only approved text leaves; attempts say what happened; a settled key is never sent again; opt-outs bind |
| Engagement (`Engagement`) | append-only events with unique keys, suppressions | record (manual), ingest (webhook), summary | two reporters of one key; reports out of order | an outcome that must suppress does; one outcome per key; a bounce verdict stands |
| Mailbox scan (`MailboxEngagement`) | UID cursor with UIDVALIDITY | read a batch, match, ingest, save the cursor | failed fetches, renumbered mailboxes, sends committed during the run | no readable mail is passed over; cursor and events land together; a backlog drains |
| Sales pipeline and its synchronization (`Pipeline`) | opportunity (stage, value, currency), numbered stage events | create, move_stage, update_details; the bounded batch | user against user, user against job; a batch that loses one race rolls back whole | events explain the stage; stages only move forward; the job never overrides a person, and catches up |
| Company discovery (`CompanyDiscovery`) | rules with schedule and result offset, run rows unique per slot, spend rows | create/update a rule, preview, run now, run due, attach a result | daily budget counted in a snapshot; an offset counted for other criteria; a batch rolled back after paid calls | overspend is bounded; no result is paged past; a due rule gets its turn |
| Automation policies (`AutomationPolicies`) | policies with a schedule, runs unique per slot | create, update, run_due | cron and run-due meet the same slot; a search's failure commits half a batch | one run per slot; a switch stands; the schedule moves on |
| Workflow (`Orchestration`) | none beyond the services it calls | plan, step, run until gate | acting on a plan that others have outdated; a step that does not change the plan | it settles at the human gate or where a person is needed |
| ICPs, fit and qualification (`LeadFit`, `FitScoring`) | profile revisions, score snapshots, qualification rows | revise, switch, assess, qualify, evaluate freshness | two services choose "the active revision" by rules of their own; evidence ages, is contradicted and reviewed after it was scored; thresholds over rounded sums | they choose the same but for a tie; a lead called actionable by a current assessment still is; good news never demotes |
| Decision makers (`DecisionMakers`, `DecisionMakerScoring`, `Personas`) | candidates, evidence, reviews, personas | discover, find and check addresses, review, replace personas | two discoveries of one person; a review racing a discovery; two lists of personas racing; overlapping rules | a verdict is not undone; statuses agree with their columns; renames never collide; the two gates agree |
| Contacts and research (`PaidCalls`) | usage rows, cached answers | discover, find, verify; run | cache misses that both pay; usage lost after the call | calls are counted; kept answers are reused |
| Company intelligence (`CurrentFacts`) | facts, fact reviews | add, review, revoke, current facts | two active reviews of one fact | reviews give way to each other unless they raced; a revocation restores |
| Companies (`Companies`) | companies and relationships | attach, CSV preview and import | two creations of one domain; values another organization filled in | shared values stand; a report counts what was done |
| Login throttle (`LoginThrottle`) | failure counter per key and window | check, record failure | lost updates of the counter | never counts too many; exact without overlap |
| AI drafts, learning, tenancy, adapters, deployment, web interface | – | – | – | see [Not modelled](#not-modelled) |

`PROJECT.json` lists the components with their files and, under `hazards`, every
place in the code where one of these behaviours bites, with the property that would
notice it or the reason that none does.

## How a request is modelled

InnoDB's default isolation is REPEATABLE READ. A plain SELECT reads the snapshot of the
transaction's first read; an INSERT or UPDATE meets the latest committed rows and the
unique keys. The services are written as read-check-then-insert without `FOR UPDATE`, so
only the unique keys order concurrent requests. Each request is therefore two or more
steps:

1. **Begin**: every read and every check, in the state the step is taken in (the
   snapshot). What the request will write is computed here and kept in a variable
   (`pending`, `sending`, `report`, `run`, `work`). A check that fails ends the request
   without a trace, and so is a step that is not enabled.
2. **(Outside world)**: where the code calls SMTP or IMAP, one step per outcome.
3. **Commit**: guarded by the unique keys as they are *now*; all rows land together.
4. **Abandon**: an IntegrityError, a lost connection, or a dead worker: nothing lands.
   It is always possible, so it stands for the losing side of a key race as well.

A flush and the commit that follows it are one step when nothing outside happens between
them, since no other transaction can see the flushed row, and losing or waiting for the
key has the same result. In `OutboundSend` the provider is called between them and the
index entry held meanwhile is what protects the key, so there they are separate steps.
Rows are UPDATEd column by column: SQLAlchemy writes just the columns that differ from
the snapshot (`Written` in `Pipeline`, `ChangedColumns` in `CompanyDiscovery`). One tenant is
modelled where every query filters on `tenant_id`; where rows are shared (companies,
facts) there are two organizations. Audit rows are left out, except the two that code
reads back: AI searches count as spend, and a search for people ends the workflow's.

A batch is the same with many commits' worth of rows. In `CompanyDiscovery` and
`AutomationPolicies` the batch keeps an overlay of what it wrote (`rows`, `written`,
`adds`, `inserted`); rows it wrote are locked for others until it ends, a slot it
inserted makes others wait, and an IntegrityError inside a savepoint loses that item
alone. Where a request only computes over its snapshot and nothing it does can be seen
before it commits (`DecisionMakers`, `Companies`), its body is one step, of the
snapshot taken at its beginning.

## Modules

### `DraftReview`, `DraftReviewSerial`

`reviews[d]` is the ledger; event *i* has `revision_number` *i*. `EffectiveStatus` and
`EffectiveContent` are `effective_state_for`; `RequestEdit/Approve/Reject` are the reading
halves of `edit`, `approve` and `reject`, `AppendEvent` is the INSERT of `_append_event`
that meets the unique key (`RevisionFree`). `pursuable` and `address` hold what other
services decide and approval re-reads (lead status, fit freshness, role, targeting;
the latest VALID address): `Reassess` and `VerifyAddress` change them at any time and are
marked external in the map. `replaced`, the fields an edit named, is history.

`DraftReviewSerial` is the abstract specification: one reviewer, no requests in flight,
a legal event appended to a ledger in one step. `DraftReview` implements it
(`SerialReview`, identity mapping on `generated` and `reviews`).

### `OutboundSend` (composes `DraftReview`)

A send request goes `checked → inserted → accepted | unacknowledged | refused` and
commits. `BeginSend` is everything `send()` reads; `InsertAttempt` is the flush of the
PENDING row, which waits while another request `Holds` the key's index entry;
`DuplicateKey` is its IntegrityError; `Deliver` and `Refuse` are the SMTP adapter, which
reports a message that was taken but whose answer was lost as an error
("unacknowledged"); `CommitAttempt` writes SENT or FAILED. `CrashSend` loses the
transaction but not the mail. `OptOut` is `suppress`, the one-click link, or a bounce.
`mailed` (what the provider delivered) and `lost` are history: they are the world that
the attempt table must agree with. Reviews go on during a send: `Next` interleaves
`ReviewNext`.

### `Engagement`

Events and the suppression list, with reports as transactions (`BeginReport`,
`CommitReport`). A report computes from its snapshot whether the suppression row is
missing (`Suppresses`) and fails whole when either unique key was taken since.
`DeliveryStatus` and `ReplySentiment` are `summary()`. Positive and negative replies can
only be recorded by hand (`ProviderTypes`).

### `MailboxEngagement` (composes `Engagement`)

`BeginRun` reads the checkpoint – the first read, hence the snapshot: the run matches
mails only against attempts committed before it. `Selected` is the choice of UIDs (the
latest `Limit` on a bootstrap, else the oldest `Limit` above the cursor); `Fetch(n)`
fetches a prefix of *n* of them, since a failed fetch ends the batch, and fixes the
checkpoint to be saved (`Advanced`). `CommitRun` lands events, suppressions and cursor
together. The mailbox lives on: mail arrives, is moved away, moved back under a new UID,
and the server may renumber everything under a new UIDVALIDITY. `handed` says that SMTP
took a message whose attempt is not committed yet: its bounce may arrive before the row
is visible. `window` and `consumed` are history. What parsing makes of a mail
(`Outcome`) and the message ids it quotes (`References`) are constants. The advisory
lock (`infrastructure/job_lock.py`) makes the run single, so there is one `run` variable.

### `Pipeline`, `PipelineStages`

`stage` and `details` are the opportunity, `ledger` its stage events. `NewStageEvent`
numbers an event by counting those in the snapshot; `KeysFree` are the two unique keys.
`BeginSync` builds one bounded batch: unsynced attempts first, then CONTACTED
opportunities with a reply, `Limit` in all; which ones is left open (the code orders
by time). `PipelineStages` is the abstract specification: an opportunity is a sequence of
stages each of which may follow the one before. `Pipeline` implements it with the
refinement mapping `history <- History`, the ledger read in order of its sequence numbers.

### `CompanyDiscovery`

A rule row has its criteria, offset, next run and switch; `origin` is history: the
criteria whose pages the offset counts. An actor is the cron job or a user; `search[a]` is
its open transaction: the snapshot (`known`, `spent`, rules), what it wrote, and the rules
it has yet to run. `Turn` takes the next due rule; `SkipSlot` finds the slot run in the
snapshot; `RunsNew` inserts the run; `AskProvider` passes or fails the budget check
(`HasBudget`) and pays; `TakeAnswer` adds what is new up to `MaxNew` and moves the offset
(`OffsetAfter`); a refused or failed search ends the run with FAILED (`FailRun`).
`CommitSearch` lands the columns that changed over the rows as they are then
(`Overlaid`); `CommitPartly` is the commit in the middle of a batch that a failing
contact search performs; `LoseSearch` is a crash. `paid` and `lost` are history: the
provider's bill.

### `AutomationPolicies`

`BeginDue` takes the due policies in the order of the query, with the snapshot;
`SkipExisting`, `TakeSlot` and `LoseSlot` are the three outcomes of a policy's turn: its
slot was run already, is inserted now, or was inserted by another batch meanwhile.
`Unlocked` and `Uninserted` are the waits for another batch's row lock and index entry;
`BreakDeadlock` is InnoDB's choice of a victim. `PersistDue` writes the schedule over the
row as it is now (`WrittenBack`), which is what lets `SwitchStands` hold. What a run
*does* is `Orchestration`.

### `LeadFit`, `Orchestration`, `FitScoring`

`LeadFit` holds the tables the workflow reads: profile revisions, observations with their
age and the active review of one, assessments, qualifications. Its operators take a *view*,
so that the same definitions serve the committed tables and a transaction's own.
`ActiveIcp` is how orchestration chooses a profile, `CurrentIcp` how freshness does.
`Projected` is what intelligence makes of the observations – which one is selected and by
what, its staleness, whether credible values contradict each other (`ConflictOf`), the
state of the review – and what an assessment keeps of its evidence. `IsCurrent` compares
the two field by field as `fit_freshness.py:67-104` does: input, quality, staleness,
conflict, review, selection, and the profile. An assessment has one criterion here, and
an observation always has the same value, so its result is the observation's.

`Orchestration` EXTENDS it: `ReadySteps` is `_plan`, `Research/Assess/Qualify/Discover` are
the steps with their effects; the plan reads the clock once, when the request begins, and a
step's services read their own (`Now`). `Proceeding` is the loop of `run_until_gate` (it
never repeats a step in one request), `Finish` the commit. `Refresh`, `Expire` and the
catalog's operations are what users and time do in between. In `AtGate` a person is ready
for a draft: nothing goes on without a human.

`FitScoring` is the arithmetic of both services on tables of evaluated criteria: score,
coverage, caps, confidence, grade, status, and the qualification score, with Python's
rounding (`Rounded`: half to even; a sum of floats whose half may fall either way is a
set of outcomes).

### `DecisionMakers`, `DecisionMakerScoring`, `Personas`

A request in `DecisionMakers` lands one of: a discovery (public, provider, with or without
credits for addresses), a search or check of an address, a user's review. Each evaluates
and ranks everyone in scope (`Evaluated`). `Existing` is `_find_existing`: rows that have an
address are found by the address observed, rows with a reference by the provider's, and
by profile or `name_key` whoever has one key in every source (`Keyed`). `name_key` keeps
the letters a–z only, so that someone of a name in another script, or spelt in two ways, is
found by chance: anyone outside `Keyed` may or may not be, and a single request may insert
a second row. What a race may cost is kept in history (`raced`, `agreed`, `answered`).

`DecisionMakerScoring` is the decision table behind `StatusOf`: employment, sources, grade,
status, and the gates of drafting and sending (`Blocked`), over dossiers of at most two
pieces of evidence.

`Personas` is `replace_personas` statement by statement, since the unique name is met at each. Requests
overlap: each has the table it read (`base`) and what it wrote (`own`), its statements meet
what is committed by then (`Met`), and rows and names that another open request holds make
it wait (`RowHeld`, `NameHeld`) until that one commits or is dropped. The statements of one
flush are taken in any order. Two overlapping requests of disjoint lists leave the union of
them, which may be longer than MAX_PERSONAS; where both insert one name, or one renames a
row the other deletes, the later is refused.

### `PaidCalls`, `CurrentFacts`, `Companies`, `LoginThrottle`

One unique key, cache or counter each; the headers of the modules say how their steps
correspond. `PaidCalls` serves both the older contacts interface and research: they share
the cache-then-pay pattern and differ in what they remember (`Remembered`) and what time
they stamp (`Completed`).

### MC modules

They give TLC the function-valued constants, symmetry sets and composed specifications.
`MCProspecting`, `MCWorkflow` and `MCRegisters` compose modules that share no state. Taking
their product would only multiply states, so each has a variable `focus`, chosen at the
start: a behaviour exercises one of the modules while the others keep an initial state, and
one run checks several modules. Where a focus bounds its module further than the
configuration does, it is said there and here:

* `MCWorkflow`: *alone* is one request at a time among at most two edits, *together* two
  requests without edits, the second begun before anything is stored; *profiles* has users
  only, who revise, switch, assess and qualify (4 edits); *evidence* has users only, who
  observe, review, revoke, assess and qualify while observations age (5 edits, three
  observations of which one contradicts the others). In *alone* and *together* (`MCFlow`)
  there is one observation, which may be approved; edits stop 8 instants before the end,
  so that the workflow has time to settle; of two added revisions the one with the higher
  id is stored first, and keeps the name of the profile if it revises that. The second may
  have another name, and thus its version, so the tie over which the services differ
  (`Disputed`) is among the behaviours; it repeats until two assessments are made.
* `MCRegisters`: *pair* is two people and two requests, *person* one person and up to three
  landings, both from an empty table or people met before; *personas* has at most two
  requests, which overlap at will, over stored lists of up to two rows, new rows taking the
  first ids that are free (`MCFirstFresh`).

`WorkflowTypeOK`, `ProspectingTypeOK`, `RegistersTypeOK`, `RecordsStand`,
`RequestsAreHonest` and `CountersAreHonest` are conjunctions of the modules' own
properties, named there one by one.

## Runs

| run | instance and bounds | what it shows |
|---|---|---|
| `draft_review` | 1 draft, 2 reviewers, 2 fields of 2 texts, 3 revisions | `LedgerFollows`: no lost update, nothing decided on an unseen text; `ApprovalIsFinal`; `SerialReview`: refinement of `DraftReviewSerial` |
| `outbound_send` | 1 draft, 1 reviewer, 2 senders, 2 keys, 2 spellings of one address, 2 revisions, 1 lost delivery per key | `MailWasApproved`, `AttemptsTellTheTruth`, `KeyIsSettled`, `OptOutBinds`, `SentDraftStaysQuiet` |
| `outbound_send_live` | the same with 1 text, 1 address, 1 revision | `SendEnds`: every request ends, those waiting for another's key too |
| `mailbox` | 2 mails, 2 UIDs in each of 2 generations, batches of 2, 1 attempt, 1 manual reporter | `ReadMailIsRecorded`, `CursorIsHonest`, `BacklogDrains` |
| `pipeline` | 2 attempts, 1 user and the job, batches of 1 | `LedgerAccounts`; `OneDecisionAtATime`: refinement of `PipelineStages`; `SyncCatchesUp` |
| `prospecting` | 2 rules, 3 companies (1 refused), pages of 2, 1 new per run, a budget of 1, 1 user and the job, 2 days, 1 crash; 2 policies, 1 administrator and cron, 2 periods, 1 edit, 1 roll-back | `OverspendIsBounded`, `NoResultSkipped`, `DueRuleRuns`; `SlotRunsOnce`, `SwitchStands`, `DuePolicyRuns` |
| `workflow` | up to 2 requests, 3 revisions, 2 names, 3 observations, up to 5 edits (by focus, see above), 11 instants; 3 criteria of weights 1 and 2 | `WorkflowSettles`; `ServicesAgreeOnIcp`, `ActionableStillHolds`; `ActionableIsEvidenced`, `ConfirmationNeverDemotes` |
| `registers` | two requests that may overlap in every register, three paid calls, five logins (the configuration gives the rest) | `OutcomesSuppress`, `KeyNamesOneOutcome` (engagement); `StatusesAgree`, `OnlyRacesLose`, `ReadyIsTargetable`, `VerifiedMailNeverHurts` (people); `ReviewsSettle` (facts); `RequestsAreHonest` (personas, imports); `CountersAreHonest` (paid calls, logins); `RecordsStand` (verdicts on mail, people and facts; shared values) |
| `outbound_send_twice` | as `outbound_send` | violated: `OneSuccessfulSendPerDraft` |
| `mailbox_stale` | batches of 1 | violated: `ReadBounceSuppresses` |
| `pipeline_currency` | 1 attempt, 2 users, 1 value, 1 currency | violated: `ValuesHaveCurrency` |
| `discovery_budget` | as `prospecting` | violated: `DailyLimitHolds` |

For every property of a passing run `PROJECT.json` names a mutant: a plausible slip in one
mapped definition with which TLC refutes the property under the same configuration. The
mutants are the definitions marked "Mutant" in the modules.

*Why the bounds are enough.* All races here are between two transactions over one unique
key or one row: two reviewers, two senders, two reporters, a user and the job. A third
would only repeat the second's role, and where the proofs below reach they cover every
number. `MaxRevisions` 3 allows reject–edit–approve; two keys on one draft are the
different-key race, two senders on one key the same-key race. Two UIDs, two generations
and a batch of two give a partial batch, a renumbered mailbox and an old cursor larger
than a new UID. Batches of one in `pipeline` make both attempts, and replies and new
attempts, compete for room. In `prospecting` a page of two with one new company per run
is cut short, the third company lies on the second page, one result is refused, and a
budget of one with two actors can be exceeded; two policies and two executors give the
lock waits and the deadlock. Three revisions are needed for a lineage revised twice under
two names; five edits for an observation, a review, an assessment, a qualification and
what changes the evidence after it; three observations for two that agree and one that
contradicts them; three criteria for a failed, an unknown and a matching one in one score.
Deadlock is checked in the send and review runs; elsewhere the system may come to rest
(all keys used, all mail read, all bounds reached) and the check is off.

## Fairness

Fairness is asked only of what the deployment keeps doing, never of people.

* `OutboundSend`: weak fairness of a request's own steps (the SMTP call has a timeout,
  the code after it does not wait); strong fairness of `InsertAttempt`, because InnoDB
  grants a contended index entry in the order of waiting. The crash is not fair.
* `MailboxEngagement`: weak fairness of `BeginRun` (cron) and of a run's end; strong
  fairness of a fetch of at least one mail and of a commit, that is, IMAP and the
  database do not fail for ever. A mail that can *never* be fetched stops the cursor for
  good: the code accepts this, and `BacklogDrains` says nothing of that case.
* `Pipeline`: weak fairness of `BeginSync` and of a run's end, strong fairness of
  `Commit(Sync)`: the job does not lose its race, or crash, every time.
* `MCProspecting`: weak fairness of progress as a whole – the scheduler starts a job while
  something is due, and *some* open transaction takes its next step – and, for each
  executor of policies, strong fairness of its next step: a batch that is granted its
  rows now and then goes on. Crashes are bounded (`MaxFaults`, `MaxLost`), not fair.
* `MCWorkflow`: weak fairness of the next step of an open request. That requests are made
  at all is not assumed; `WorkflowSettles` is conditional on them.

## Proofs

TLAPS proves the following for **all** values of the constants. The assumptions are the
named ones of the modules, which TLC evaluates on every run. Every invariant and every
action property of the passing runs is among them; what is left to TLC is liveness.

| theorem | module | states |
|---|---|---|
| `ReviewTypeCorrect`, `LedgersFollow`, `ApprovedLedgersAreFinal`, `ReviewIsSerial` | `OutboundSendProofs` | type, `LedgerFollows`, `ApprovalIsFinal`, and the refinement `SerialReview` |
| `SendKeepsReview` | `OutboundSendProofs` | `Spec => ReviewSpec`: all of the above holds beside sends |
| `TypeCorrect`, `MailIsApproved`, `AttemptsAreTrue`, `SettledKeysStay`, `OptOutsBind`, `SentDraftsStayQuiet` | `OutboundSendProofs` | the six safety properties of `outbound_send` |
| `EngagementTypeCorrect`, `OutcomesAlwaysSuppress`, `KeyAlwaysNamesOneOutcome`, `VerdictsStand` | `EngagementProofs` | type, `OutcomesSuppress`, `KeyNamesOneOutcome`, and that BOUNCED and POSITIVE stand |
| `MailboxTypeCorrect`, `ReadMailIsAlwaysRecorded`, `CursorIsAlwaysHonest`, `ScanSuppressesToo` | `MailboxEngagementProofs` | type, `ReadMailIsRecorded`, `CursorIsHonest`, and `OutcomesSuppress` with the scan among the reporters |
| `PipelineTypeCorrect`, `LedgerAlwaysAccounts`, `PipelineIsStepwise` | `PipelineProofs` | type, `LedgerAccounts`, and the refinement `OneDecisionAtATime` |
| `SlotAlwaysRunsOnce`, `SwitchAlwaysStands` | `ProspectingProofs` | `SlotRunsOnce`, `SwitchStands` |
| `NoResultIsSkipped`, `OverspendStaysBounded` | `ProspectingProofs` | `NoResultSkipped`, `OverspendIsBounded` |
| `ActionableIsAlwaysEvidenced`, `ConfirmationNeverHurts` | `WorkflowProofs` | `ActionableIsEvidenced`, `ConfirmationNeverDemotes`, for any number of criteria and any weights |
| `ServicesAlwaysAgree`, `ActionableAlwaysHolds` | `WorkflowProofs` | `ServicesAgreeOnIcp`, `ActionableStillHolds`, of users' steps beside any number of workflow requests |
| `StatusesAlwaysAgree`, `OnlyRacesEverLose`, `PeopleInvariant` | `RegisterProofs` | `StatusesAgree`, `OnlyRacesLose`, and the invariant they follow from, also for people met before |
| `ReadyIsAlwaysTargetable`, `VerifiedMailHelps` | `RegisterProofs` | `ReadyIsTargetable`, `VerifiedMailNeverHurts`, of dossiers of any size |
| `ReviewsAlwaysSettle`, `ReviewedSelectionAlwaysStands` | `RegisterProofs` | `ReviewsSettle`, `ReviewedSelectionStands` |
| `SharedValuesAlwaysStand`, `ReportIsAlwaysTrue` | `RegisterProofs` | `SharedValuesStand`, `ReportIsTrue`, of files of any length |
| `PersonasBecomeTheList` | `RegisterProofs` | `RenamesNeverCollide`, `ListIsWhatWasAsked`, of lists of any length and any number of overlapping requests |
| `PaidInvariant`, `CountIsAlwaysHonest`, `LoneFailuresAlwaysCount` | `RegisterProofs` | the counters: `AttemptsAreRecorded`, `KeptAnswersAreReused`, `CountIsHonest`, `LoneFailuresCount` |
| `ProspectingTypes`, `WorkflowTypes`, `RegisterTypes`, `RecordsAlwaysStand`, `RequestsAreAlwaysHonest`, `CountersAreAlwaysHonest` | the same | the conjunctions that the composed runs check, of the composed specification `MCSpec` |

None of these properties is inductive: a transaction in flight carries what it computed
earlier, and the inductive invariant must say why that will still be right when it lands.

*Review.* `ReviewInv` adds `RequestsFollow`: *while the revision a request asks for is
still free*, its event follows the ledger – a request asks for `Len + 1` of its snapshot
and ledgers only grow, so a free revision means the ledger is exactly the one it saw. The
unique key does all the work, and finality and the refinement follow from the same fact.

*Sending.* Two independent invariants. `MailInv`: every mail in flight and every mail
delivered was approved, inductive because of `ApprovedLedgersAreFinal`, used as a step
fact. `KeyInv`: `OneHolder` (one request at a time past its INSERT for a key, and none
when the key is committed) and `KeyAccounts` (the deliveries of a key are its lost ones,
the holder's and the committed attempt's). The composed content must be a content and the
"no request" values no requests; that `Normalize` is idempotent is not needed.

*Engagement.* `EngagementInv` says of an open report that leaves the suppression row out:
the row it saw is there, and suppressions are never removed. Key uniqueness is by
`KeysFree` at the commit.

*Mailbox.* `MailboxInv` relates the run to the mailbox it read: the mails of the run are
the ones selected above the checkpoint *of its snapshot*, which is still the committed
one, as the advisory lock leaves one run to read and write it; what it fetched is a prefix
of them, so that the checkpoint it will save has no unread mail of its generation below
it. If the mailbox was renumbered during the run, its cursor is of another generation and
claims nothing. Numbers of UIDs are handled by their least and greatest elements, through
the well-foundedness of the naturals.

*Pipeline.* `PipelineInv` gives a stage event what `RequestsFollow` gives a review event:
an event numbered by the count of its snapshot is still the next one if its number is
free, and then starts where the ledger ends. The refinement maps an opportunity to its
events in the order of their numbers.

*Slots.* `SlotInv`: the slots inserted by open batches are disjoint, and disjoint from the
committed ones – which the unique key, waits and roll-backs keep – and a slot was executed
once if it is committed and never otherwise. `PolicyInv` is the types of a batch: it is
what a batch writes back that must not contain the switch.

*Discovery.* `DiscoveryInv` says that an offset is *covered* (`Covers`): every result
before it is on the list or was refused. It says so of every stored rule and, because a
transaction lands columns over rows that have changed, of the columns that an open
transaction will write (`ColumnsOK`), given the companies it adds itself; and the page in
hand of an unpaid search is the catalogue's, at an offset that was covered (`PageOK`).
Overlaying is harmless whichever columns land, as long as `offset` and `origin` land
together. `BudgetInv` is an account: the searches on the books of a day and what every
open transaction may bring to them (`May`: its share if its snapshot left room, or else
nothing) never exceed `DailyLimit - 1` and the shares of all. A snapshot with room was
taken below the limit, so its share fits; a commit moves at most that share to the books,
and a roll-back gives it back. TLC checked both invariants before they were proved.

*Workflow.* `FlowInv` says that assessments, and qualifications, have instants of their
own, those of open requests among them (`Apart`), that a score suits pursuit only without
gaps in its evidence (`Sound`), that a QUALIFIED row is of such a score, in whatever request
it was made (`Judged`), that profile revisions were born one after the other and number as
many as the highest version at least (`RevisionsOK`), and that a step was planned for a
reason that holds in the view of the request until the step is taken (`StepOK`). That the
services agree is then a statement about two ways to choose a maximum. That an actionable
lead still holds goes from the row back to the assessment it was made of (one, by `Apart`),
which had no gaps, and through the comparisons of `IsCurrent` to the evidence there is now:
an equal quality and conflict say that no credible observation contradicts another whatever
was stored since, an equal input and selection that the reviewed observation was scored.

*Scores.* No induction over steps: both properties hold of every table of criteria. The
proofs are arithmetic over sums of weights: the sum over a union of disjoint sets, its
monotony, and that a rounded share moves by less than the gap between two thresholds.

*People.* A request computes on its snapshot and lands the columns it changed. `ContactInv`
says that rows are never deleted (`SnapshotsKept`) and that before the first race a `Keyed`
person has one row, any other at most one with a reference, and an answered lookup has its
stamp (`NothingLost`): whom `Existing` may fail to find has no row with a reference, or is
not observed by one. The work is in saying what a
request makes of a table: it keeps every row's person and stamps and adds rows for people
who had none (`Rowed`), and, except for a review, the verdicts (`SameReviews`).
`Evaluated` is shown to be a fixed point – ranks depend on the statuses, not on the ranks
(`RankAgrees`) – and the places that ranking gives run from 1 without a gap (`RanksRun`),
which is what the loop over ranked people relies on. If nobody else has landed, what is
stored is what the request computed (`LandedIs`).

*Dossiers.* Rules on employment, grade and status are compared case by case; the one
fact about points is that a verified mailbox and a matching role are worth 45 together.

*Facts.* `FactInv`: an open review saw every review that is still in force and had landed
when it began (`SawTheActive`), and it revokes all it saw in force. So what survives its
commit has landed after it began. That a review moves no other organization's selection
needs that the instant a review was made tells its owner (`MadeTellsOwner`), as the
commit finds the rows to revoke by it.

*Companies.* `CompanyInv`: nothing a snapshot has is ever deleted. The table after an
import is described line by line (`AfterLines`), and the report's counts by a bijection
between the lines that were first with their domain and the rows added.

*Personas.* `PersonaInv` speaks of every open request by itself: each row is unwritten, or
deleted, parked under its own name, or named as the list wants it (`Orderly`), and the rows
it inserts are no one else's (`NewAreOwn`). If the table is still the one the request read,
its list has distinct names, so a name is free once what held it is deleted, parked or
done, and nothing is refused. When it commits, every row it read has been written and is
the list's; any other row of the table was inserted since.

*Paid calls.* `PaidInv` numbers the rows in the order they landed and dates what they wrote:
a kept answer is in the snapshot of every later request within its window and makes it
`Remembered`. Its proof failed at first for a good reason: a check of an address that finds
the date of its own instant in its snapshot writes none, and an older check may have
overwritten that date. TLC meets this only with a fourth call; `Kept` now excepts it.

*Logins.* A login has not counted more than the failures there were; where none
overlapped, the one at work has the present count.

*The registers together.* `RegistersAreApart`: a behaviour of the run's specification is
one of each register, so the theorems carry over. People met before are the one
difference – their first table is no initial state of `DecisionMakers` – and
`PeopleInitial` shows the invariant of it.

*About data.* `FiniteLemmas` has what the proofs need of the community modules'
operators: sums and other folds over a set, a set listed in an order, and how many values
a function takes. The library's induction theorems take a predicate as a parameter, which
the provers at hand cannot instantiate; `SetInduction` is over a *set* of numbers instead
and is proved from the well-foundedness of the naturals. A few definitions are written so
that they can be reasoned about: an order is CHOSEN among `SetToSeqs` where the code
sorts, functions are joined by `Joined` rather than `@@`, and an open transaction of
`CompanyDiscovery` is one in the domain of `search`. `MCAssumption` and
`MCRegistersAssumption` name what the initial states of the composed runs assume of their
constants.

*Only model-checked:* liveness (`SendEnds`, `BacklogDrains`, `SyncCatchesUp`,
`DueRuleRuns`, `DuePolicyRuns`, `WorkflowSettles`), since TLAPS does not reason about
ENABLED, hence not about fairness; and the violations, which are counterexamples.

## Where code and docs disagree

| run | what the docs or the code say | what happens |
|---|---|---|
| `outbound_send_twice` | docs/outbound-sending.md:38: after one successful send no other key sends the draft | two requests in flight with different keys each find no SENT attempt in their snapshot and both send (`application/outbound.py:121`) |
| `mailbox_stale` | docs/mailbox-engagement.md:14: bounces automatically create the suppression | the snapshot is older than the IMAP session; the bounce of a send committed in between matches nothing, and the cursor passes it (`infrastructure/mailbox_checkpoint.py:33`) |
| `pipeline_currency` | `application/pipeline.py:297`: a value needs a currency | value and currency are checked together and written column by column: adding a value and clearing both, at once, leave a value alone (`application/pipeline.py:213`) |
| `discovery_budget` | docs/company-discovery.md:27: every AI search counts toward the daily limit, and a rule over it fails its run | the batch and a preview count in their snapshots and both search at the limit (`application/discovery.py:114`) |

What the code does guarantee instead is stated and checked: `SentDraftStaysQuiet` and
`KeyIsSettled` once the attempt is committed and the requests under way have ended;
`OverspendIsBounded`.

Found while modelling, without a run of their own:

* `application/outbound.py:152` – the attempt row commits after the hand-over; if the
  worker dies in between, the row is gone and the client's retry mails again.
  docs/outbound-sending.md:38 says that repeating a key never contacts the provider
  again. `AttemptsTellTheTruth` counts these deliveries as `lost`.
* `infrastructure/mailbox_checkpoint.py:70` – if the first fetch of the very first run
  fails, an empty cursor is saved and the next run imports the mailbox's history, which
  docs/mailbox-engagement.md:27 excludes. `CursorIsHonest` holds of it: nothing is missed.
* `application/contacts.py:293` – `find_email` remembers an address it found, but no
  NO_RESULTS, and pays again; docs/contact-discovery.md:7 says that the freshness windows
  prevent repeat spend. `Kept` in `PaidCalls` leaves this case out.
* `application/orchestration.py:475`, `application/fit_freshness.py:189` – a revision that was
  revised twice under two names has two active successors of one version. The workflow
  takes the one with the higher id, freshness the one created later. Where these differ every
  assessment is stale at once and ASSESS is ready for ever: each run of the
  workflow adds a row and comes no further, until a user switches one of them off
  (`Disputed` in `NeedsUser`; without it TLC finds the loop).
* `application/decision_makers.py:207`, `:838` – `name_key` is empty for a name without Latin
  letters, and `_find_existing` then has nothing to go by but an address, a reference or a
  profile: the same person on the same page is inserted again by every discovery, no race
  needed. `TwinsNeedARace` speaks of `Keyed` people and of those with a reference.
* `application/decision_makers.py:349` – nothing keeps two replacements of a product's personas
  apart. Disjoint lists that overlap are both stored, beyond MAX_PERSONAS even, though each
  request is to replace the whole list; `ListIsWhatWasAsked` says exactly how far.
* `application/contacts.py:374` – a stored `verified_at`, which MySQL returns without a time
  zone, is compared with an aware `now`. The reuse of a recent check is modelled as written;
  on MySQL the comparison probably raises.
* `application/contacts.py:372` – `verify_email` remembers a check by the date it writes.
  One that finds this very date in its snapshot writes nothing, and if an older check has
  landed its date in between, the next request pays again. `Kept` leaves this out, too.
* `application/contacts.py:147`, docs/contact-discovery.md:7 "Every attempt has a
  ProviderUsage row": an unexpected error or a crash rolls the row back after the call
  (`lost`), as it does in `research.py`.
* The older contacts interface (`api/app.py:517`) changes an address without evaluating
  the person: READY_FOR_DRAFT may outlive the verified address
  docs/decision-maker-discovery.md asks of it. Drafting and sending re-check it, and the
  next discovery or review corrects it (`StatusesAgree` speaks of evaluated rows).
* docs/decision-maker-discovery.md:50 – a rejected mailbox makes a person FORMER if no
  source still lists them; the code asks one kind of source
  (`application/decision_maker_scoring.py:167`): gone from the company's website, a person
  is FORMER although the provider still lists them.
* `application/orchestration.py:526` – the comment says that automation never buys the
  same search again for a qualification; two requests that overlap both do.
* `application/login_throttle.py:102` – the comment says that a row inserted concurrently is found and counted against; a
  REPEATABLE READ snapshot does not show it, and the failure is not counted
  (`CountAfter`).
* docs/provider-research.md:16 – a reused answer writes a SUCCESS row of its own, which
  is reused in turn: the freshness window slides.
* `application/ai_campaigns.py:261` – the failed attempt is flushed and the error that
  reports it rolls the row back.

## Known limits of the code

Stated as exceptions in the properties, so that a reader sees what is *not* promised:

* A mail that is moved away and back gets a new UID and thus a new event id, so its reply
  or bounce is recorded twice; verdict and suppression do not change. A mail without
  Message-ID is keyed by its UID alone (`Unidentified`).
* Revising one revision twice under two names gives two active revisions of one version;
  the services may then choose differently (`Tied`), and the workflow assesses for ever.
* `NeedsUser`: without an active profile, over such a tie, or after an older assessment was
  qualified again, the workflow cannot go on by itself. A request limited to one step makes no
  progress where the first step of the plan changes nothing; `StepLimits` in the run is the
  default of four.
* A person found neither by address, reference nor profile, whose name has no key or more
  than one, may have several rows (`Keyed`).
* Two lists of personas that overlap may both be stored (`ListIsWhatWasAsked`).
* Two requests that overlap may insert a person twice, overwrite the stamp of a paid
  lookup, or both keep a fact review in force; the properties say so (`OnlyRacesLose`,
  `TwoActiveOverlapped`).
* A rule's offset may be committed over a change of its criteria made meanwhile;
  `NoResultSkipped` speaks of offsets counted for the rule's own criteria (`origin`).

## Not modelled

* *AI-written drafts* (`application/ai_campaigns.py`): one request, one remote call, one
  inserted row; its successful result is `Generate` of `DraftReview`. The text and
  its validation are content.
* *Conversion learning* (`application/learning.py`): read-only counts over rows of
  `Pipeline` and `Engagement`.
* *Tenancy and permissions* (`application/authorization.py`, `tenant.py`): a table lookup
  at the head of each operation; a refused request changes nothing.
* *AI and search adapters, parsers, formatters* (`infrastructure/llm_clients.py`,
  `ai_discovery.py`, `leadership_pages.py`, `providers.py`, ...): remote calls and text
  handling without state. The modules see success, failure, no answer and what was found.
* *Token signing, HMAC and its time window, password hashing*: library calls.
* *Deployment, seeds and schema checks*: one-shot scripts. *Web interface*: a client; its
  double clicks are the repeated requests of the models.
* *Inside the modelled parts*: wording of drafts and mails, reasons and notes, owners and
  next actions, metadata of events, the comparison of texts and numbers behind a
  criterion, more than one criterion in an assessment of `LeadFit` (`FitScoring` has
  several), a person listed twice by one source, more than one persona and one address per person, the passing of evidence
  windows in `DecisionMakers` (it is an input of `DecisionMakerScoring`), the matching of
  data sources and the status rows of a research run, products and the definitions of
  criteria, the deletion of old throttle windows.
* `Reassess` and `VerifyAddress` of `DraftReview` stay external: what they may do to a
  draft's lead is any of what `LeadFit`, `DecisionMakers` and the contacts interface do,
  and the review holds of any of it.

## Running

```
tlc -config OutboundSend.cfg MCOutboundSend     # one run; PROJECT.json lists them all
tlapm OutboundSendProofs.tla                    # the proofs of one module
```
