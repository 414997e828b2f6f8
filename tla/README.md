# A TLA+ development of the Google review responder

The repository pulls a business's Google reviews, drafts replies with a language
model, decides by a fixed policy what a human must approve, and publishes replies
to Google. This directory models the life of a review, the connection to Google it
depends on and the console it is run from, model-checks them with TLC and proves
their safety properties with TLAPS. Paths below are relative to the
repository's `src/`, its application code.

## The system

| Part | State | Operations | Talks to | Modelled |
| --- | --- | --- | --- | --- |
| Review row (`database/repositories/review.repository.ts`, migrations) | `status`, `google_reply_state`, texts, approver, publisher, flags, times | one SQL statement each; most are `UPDATE ... WHERE`, the lock of the design | everyone | partly (no event log) |
| Notifications (`reviews/pubsub.service.ts`, `app/api/pubsub/reviews/route.ts`) | what Pub/Sub has not yet got acknowledged | push, targeted fetch, fallback resync | Google, ingestion, generation | partly (no push-token check) |
| Ingestion (`reviews/ingest.service.ts`, `mapper.ts`, `sync.service.ts`) | `review_revisions` | new review, duplicate, edit; pull | row | partly (one review of a location) |
| Generation (`reviews/processing.service.ts`, `openai/`) | none of its own | process, regenerate | model, policy, row | partly (no prompt) |
| Policy (`policies/`) | none | risk classification, publishing decision | settings | yes |
| Approval (`reviews/approval.service.ts`) | none of its own | approve, reject, edit, regenerate, unapprove | row | yes |
| Publishing (`reviews/publishing.service.ts`) | none of its own | claim, live check, PUT, outcome | row, Google | yes |
| Sweep (`reviews/sweep.service.ts`, `scripts/run-sweep.ts`) | none of its own | recover stale claims, publish GENERATED reviews, in batches | rows, publishing | yes |
| Google client (`google/client.ts`, `utils/retry.ts`) | none | attempts, one more round after a 401 | token store | yes (no clock times) |
| OAuth connection (`auth/token-store.ts`, `auth/google-oauth.ts`, `connection.repository.ts`) | one row of credentials, a refresh in flight per process | exchange, save, refresh, revoke, disconnect | Google | yes |
| Session and OAuth state (`auth/session.ts`, `auth/oauth-state.ts`, the start and callback routes) | cookies | log in and out, start a flow, take a callback | browser, connection | yes |
| Synchronisation (`reviews/sync.service.ts`, `google/accounts.service.ts`, `locations.service.ts`) | rows of accounts and locations | list and upsert, pull | Google, connection | yes |
| Settings (`reviews/settings.service.ts`, `settings.repository.ts`, `app/components/SettingsPanel.tsx`) | a row per location | load, edit, save | console, generation | yes |
| Dashboard (`app/console.tsx`, `app/components/`) | what a tab has listed, picked and typed | clicks | every route | partly (no list of reviews) |
| Environment, logging, encryption, fixtures, scripts | none that matters here | | | no |

Handlers run in separate serverless invocations, so nothing but the database is shared
(except a process's refresh in flight) and every `await` is a point where another
handler may run. What makes the behaviour hard: two handlers on one review; what a
handler read before an `await` and writes after it; a crash between Google's
acceptance and the database write; the owner replying in Google's own UI;
notifications that come twice, late or never acknowledged; a sweep that must tell an
abandoned claim from a slow attempt; a refresh, a disconnect and a new connection that
overlap; tabs that act on lists long out of date. `PROJECT.json` lists each of these
hazards at its line.

What makes each part correct:

* publishing: one attempt at a time, never over another's reply, a record of the
  publication that is true and final, and no claim left behind;
* approval: what goes out is what a human approved, as the row has it when it goes;
* ingestion: no words lost, nothing acknowledged that is not stored, no duplicate
  draft, and the last words drafted in the end;
* generation and policy: only an earned draft may post itself, and a flag once
  raised stays;
* the sweep: one candidate never costs another its turn, and each gets its turn;
* the connection: no token without a connection, a fresh one after a 401, a row that
  is true of its credential, and no removed credential that comes back;
* consent: a credential is stored only by the browser that asked for it, in time, and
  at most once;
* the console: nothing outlives its connection, and only what an admin typed changes;
* the whole: an approval, and the verdict that lets a draft post itself, count only
  for the words they were given to.

## Modules

### The life of a review

* **ReviewRow** is the row and its statements. A statement with a WHERE clause is a
  pair `canX`, `X`: Postgres runs it atomically. `version` stands for the customer's
  words with `review_updated_at`; `aged` says that `updated_at` is before the sweep's
  cutoff, and every statement clears it as the `reviews_set_updated_at` trigger does.
  Version 0 is the absence of a row.
* **Review** is what the modules about one review share: the row, the reply that Google
  shows for it, and the bounded faults.
* **PublishWorkflow** has one process per admin request or run of the sweep. A
  process is at the round trip it is about to make (`local[p].pc`) and holds what it
  read earlier (`text`, `by`). `Write` is one guarded statement with its three
  outcomes: it applies, it matches no row (a `ConflictError`), or the call fails with
  the statement applied or not. `Put` covers the retries of `googleRequest`: a failed
  attempt may have reached Google. `approvals`, `shown` and `raced` are history and
  guard nothing.
* **ReplySlot** is the abstract promise of publishing: a slot on Google, the texts
  seen in it, who stands for which text, and one record. **PublishRefinement** maps
  PublishWorkflow to it: the record is `published_by` and `final_response` from the
  moment `published_at` is set.
* **PublishingPolicy** is the decision as operators; **PolicyTightening** a machine
  that changes its inputs one at a time for the worse.
* **ReviewIntake** has one job per Pub/Sub delivery or admin request: fetch, find,
  insert or (revise, apply), read, mark, generate, with the acknowledgement at the
  end of every path on which the route answers 200. The customer's `updateTime` is
  compared the way the code does it, as strings in Google's and Postgres's formats.
* **ReviewSystem** composes PublishWorkflow and ReviewIntake (it extends both) over one
  row and one reply. `OneAtATime` says that no two jobs of ingestion and generation
  overlap, `JobsAlone` that nothing else is in the middle of something while a job is:
  the single writer that `markProcessing` (`review.repository.ts` 294-303) and
  `processing.service.ts` say they assume. Publishing is not part of that assumption:
  admin requests and sweeps overlap one another as they like. `approvedFor` and
  `redone` (a job has written the row under its claim) are history.
* **SweepBatch** is the sweep over several reviews. PublishWorkflow has each round
  trip of one review; here a claim and its outcome are one step each, and the subject
  is the batch: its limit, its order by `created_at` and `updated_at`, candidates
  taken by others between listing and claim, failures inside and outside the `try`,
  and ticks that are cut short. `pending` is the order that `updated_at` gives.

### The connection to Google

* **TokenStore** has the row of `google_connections`, a refresh in flight for each
  process (`inFlightRefresh`), each `googleRequest` with its attempts and its round
  after a 401, each disconnect request, and Google's token endpoint. A refresh moves
  through the token request, the statement that stores the token, and the settling of
  the promise; a call that joined waits for the latter. Statements name the row by id
  or by slug just as the code does, which is what the races are about.
* **ConsentFlow** extends it with browsers, their session and state cookies, visits to
  the consent screen and callback requests: state checked, code exchanged, credential
  saved. A callback URL may be opened late, twice, or in another browser; Google takes
  a code once, a failed exchange may have used it up, and a failed save may have stored
  the credential. `left`, the credentials that were in the row and are no longer, is
  history. What a flow does to the connection is put together from TokenStore's own
  steps.

### The console

* **Directory** is the database without the reviews' texts: the connection, accounts,
  locations, settings and which reviews are stored under what, with the statements on
  them and the cascade of a disconnect.
* **SettingsPanel** and **ConnectionPanel** are the two tabs with their routes, one
  step per click and per round trip; **Console** composes them over one Directory. The
  fourteen fields of the form are two, one for the switches and one for the texts,
  which is what the properties tell apart: a field typed into and one that is not.

### Instances and proofs

* **MCPublish**, **MCIntake**, **MCSystem**, **MCToken**, **MCConsent**, **MCConsole**,
  **MCSweep** give values for TLC, and **MCSystemFindings** states what a document
  claims and the code does not keep.
* **PublishWorkflowProofs**, **PolicyProofs**, **ReviewIntakeProofs**,
  **ReviewSystemProofs** (the review as a whole), **SweepBatchProofs**,
  **TokenStoreProofs**, **ConsentFlowProofs** and **ConsoleProofs** hold the proofs.

Operators marked `Mutant:` are broken variants of the definition that follows them.
No specification uses them; each property has one that it rejects.

## What the runs check

| Run | Question | Bounds |
| --- | --- | --- |
| `publish_approval` | Is what goes out approved as it goes out, one attempt at a time, never over a foreign reply, and is no claim left behind, when humans approve everything? | 2 requests, 1 sweep, 2 admins, 2 faults |
| `publish_auto` | With auto-publishing on: is the abstract slot implemented, and is every cleared draft handled? | 1 request, 2 overlapping sweeps, 1 fault |
| `publish_slow` | Is the record true and final when the sweep takes over from a live attempt? | threshold not assumed, 2 requests, 1 sweep, 2 faults |
| `policy` | Is the decision right and monotone? | every input; minimum ratings 0, 3..6 |
| `intake_faults` | Do flags, verdicts and words survive failing calls and crashes, and is nothing drafted twice? | 4 versions: 5 stars, 1 star, 5 stars with a keyword, and that again; 2 faults; fallback resync |
| `intake_live` | Is nothing acknowledged and missing, and do the last words get drafted? | 3 versions, of which the third restores the first; 2 crashes or failures of Google; no database failure |
| `system_alone` | With auto-publishing on: do an approval and a verdict count only for their words, is a publication final, and is a review with a foreign reply never claimed again, across crash, sweep and edit? | 2 versions, 1 job, 1 request and 1 sweep, which overlap, 2 faults |
| `sweep` | Does every claim get resolved and every cleared review published, whatever becomes of the others in its batch? | 3 reviews, batches of 2, 2 actions of others, 1 fault |
| `token_store` | Are tokens fresh after a 401, is nobody served without a connection, does a removed credential stay away, is the row true, and is every waiter told? | 2 processes, 2 calls, 1 disconnect request, 2 grants, 2 attempts, 1 fault |
| `consent` | Is a credential stored only by its own flow, and does one that was replaced or removed stay away? | 2 browsers, 2 flows, 2 callbacks, 1 disconnect request, 3 grants, 1 fault |
| `console` | Does nothing outlive its connection, is a pull stored under its account, and do settings change only as typed? | 1 Settings tab, 2 Connection tabs, 2 requests of theirs, 1 edit, 1 reconnection |
| `finding_system_approval` | Does every reply have a human's approval when it must? (It does not: see below.) | the instance of `system_alone` with humans approving everything, without crashes of ingestion or replies by the owner |

Why the bounds are enough. The code never compares two requests, so two overlapping
ones and a sweep give every pair that can race; a third attempt on the row needs a
claim, which the two already contend for. Two faults allow a failure during the
recovery from a failure. One text per author is enough since the properties ask only
whose text it is; `Trim` is the identity in the runs and any function in the proofs.
Two versions give an edit, three an edit of an edit, four a version that changes
nothing. Three reviews and batches of two are the smallest case in which a candidate
is left outside a batch; two deleted reviews fill one. Two processes are needed for
two refreshes at once, two calls for one that joins; the second grant is the one that
a reconnection brings. Calls are left out of `consent`, whose callbacks do not wait
for them, and the proofs put them back. In `console` one request can be under way
while a disconnect and a reconnection happen; the bounds on clicks, edits and
connections are used up in the end, which is why that run alone does not check
deadlock. Symmetry is used over requests and admins (`publish_slow`), calls
(`token_store`), callbacks and further grants (`consent`) and Connection tabs (`console`),
none of which is told apart from its like, and none of these runs checks liveness.
`MaxFaults`, `MaxVersion`, `MaxEvents`, `MaxFlows`, `MaxClicks`, `MaxEdits`,
`MaxConnections` and the sizes of the sets are the only bounds; they appear in the
guards of `Fault`, `CustomerWrites`, `Event`, `StartFlow`, `Start`, `Type`
and `saveConnection`.

`ThresholdCoversAttempt` is what `defaultStalePublishPendingMs` intends: a claim ages
only when no attempt is alive. `publish_slow` and `sweep` do without it.

Fairness. A handler that has started runs on (unless it crashes), the scheduler wakes
the sweep, time passes, and Pub/Sub pushes what is not acknowledged. In SweepBatch
these are `WF(Tick)` and `WF(Age)`: `scripts/run-sweep.ts` leaves the schedule to the
infrastructure that calls it. Nobody has to send a request, the customer need not
write, the model may fail. `PendingResolves` holds because only GENERATED and
PENDING_APPROVAL rows may be edited: were an APPROVED row's `updated_at` bumped again
and again, the stale pass would starve. With `LeftoverDrafts = TRUE`, which no run
takes, an admin who edits a claimed GENERATED review without end does keep its claim
from ageing. `LastWordsAreHandled` is checked with crashes and excepts what a crash in
mid-generation leaves: the row in PROCESSING. `EligibleIsPublished` excepts as many
older reviews, deleted at Google, as a batch takes: those stay eligible, fail every
time, and starve whatever comes after them.

## Where the code departs from what is said of it

`finding_system_approval` is checked: an attempt crashes after its claim, the customer
edits, the new draft is not approved, and the stale pass, which goes by
`google_reply_state` alone, posts it, with no overlap at all. `docs/SPEC.md` says that
nothing reaches Google without a human's approval. `SystemOnlyApprovedShown` is the
other half: without a fault, or without an edit, nothing does.

Others were met while modelling. They are in the models, and the properties are stated
so as to be true of what the code does:

* a duplicate delivery is said to carry an identical `updateTime` and so to do "no writes
  at all" (`ingest.service.ts` 31-34); the times are compared as strings, Postgres gives
  them back with `+00:00` where Google writes `Z`, and so the duplicate is rewritten
  through `applyReviewEdit`. That the words are unchanged is what keeps it from being
  drafted again (`DraftedOnce`);
* unapprove succeeds after Google took the reply and `markPublished` failed, although
  a posted review "can never be walked back" (`review.repository.ts` 458-461);
* two deliveries of a new review both find no row, and the slower upsert puts the row
  that the faster one has drafted back to RECEIVED (`ingest.service.ts` 42-44);
* a database failure in ingestion is tallied and acknowledged, where the push route
  promises a 500 and a redelivery (`app/api/pubsub/reviews/route.ts` 31-33);
* `final_response` survives regeneration, so with auto-publishing on a human's edit
  goes out unapproved when the new draft may post itself;
* the two passes of a sweep are said to work on disjoint rows (`sweep.service.ts`
  190-193); a row that the first marks PUBLISH_FAILED while GENERATED is listed by the
  second;
* stale claims are published also after `REQUIRE_APPROVAL_FOR_ALL` is switched on;
* the column `auto_publish_enabled`, described as a kill switch
  (`0001_init.sql` 142-145), is read nowhere;
* the comment that a token request has no timeout (`sweep.service.ts` 53-55) is out
  of date;
* a refresh that fails for a passing reason leaves the status ERROR, which only a new
  connection clears;
* a location listed under two accounts is found under neither when reviews are pulled;
* the state cookie is deleted under another path than the one it was set for, so it
  lives until it expires. The model lets it.

The models show more of the kind when an assumption is dropped by its constant:
`OneAtATime = FALSE` lets overlapping generations unset the sticky flag or save a
verdict on old words over new ones; `JobsAlone = FALSE` lets ingestion write back a
reply state read before a claim, which breaks the lock or re-opens a published row;
`LeftoverDrafts = TRUE` lets a publish request post a draft older than
`REQUIRE_APPROVAL_FOR_ALL`. The code names the overlap as a known gap.

## What is proved

TLAPS checks the following for every size of the sets and any number of faults,
versions and attempts, from the assumptions on the constants (`TextAssumption`,
`ReviewAssumption`, `ProcAssumption`, `MinimumsAssumption`, `IntakeAssumption`,
`WriterAssumption`, `SweepAssumption`, `ConnectionAssumption`, `FlowAssumption`,
`DirectoryAssumption`, `ClicksAssumption`, `EditsAssumption`): the sets are apart, and a
bound such as `MaxFaults` is a natural number.

Publishing and the policy:

* `TypeCorrect`: types, by `TypeInv`, which adds to `TypeOK` that the attempt's author
  is a possible publisher.
* `PublishedRecordCorrect`, `PublishedOnceCorrect`: the record is true and final. The
  inductive invariant `TruthInv` joins the property with `RecordInv`, which says what an
  attempt on its way carries: an author who approved its text (`AttemptIsCleared`), and
  at "record" a text Google has shown (`RecordedWasShown`). Neither needs the stale
  threshold: an outcome is written only through `WHERE google_reply_state = 'PUBLISH_PENDING'`.
* `OnlyApprovedShownCorrect`, assuming `HumansOnly`: `RecordInv` with the property.
* `SinglePublisherCorrect`, assuming `ThresholdCoversAttempt`: `LockInv` says that at
  most one process is past its claim (including one that is about to write a failure,
  which the property does not mention but induction needs) and that the row is then
  PUBLISH_PENDING and not aged.
* `InFlightCorrect`, assuming both: `FlightInv` joins `RecordInv` and `LockInv`.
* `NeverOverwritesCorrect`: `SlotInv` says that an attempt about to PUT found the slot
  free, or is among `raced`.
* `ReplySlotImplemented`: PublishWorkflow implements ReplySlot. Under `TruthInv` each
  step maps to one abstract step or a stutter: ApproveWrite to Endorse, Put to Post,
  Record to Record, the owner's reply to OwnerReplies, all others to nothing.
* `AutoPublishCorrect`, `TighteningCorrect`: the decision, for every integer in
  `min_auto_publish_rating`.

Ingestion and generation:

* `IntakeTypes`: types, with requests overlapping as they like. `IntakeInv` adds what a
  job may rely on whoever else is at work: it ingests a version Google has, and drafts
  for a row that is there.
* `FlagSticksCorrect`, `GeneratedIsEarnedCorrect`, `NoWordsLostCorrect`,
  `DraftedOnceCorrect`, assuming `OneAtATime`, as the code does. The properties are
  not inductive, since a job writes what it read: `SoloInv` adds that what a job knows
  (`Knows`) is still so when it acts on it, that a snapshot precedes an edit, and that
  a row in RECEIVED has not been drafted in its version (`DraftsInv`).
* `AckedIsStoredCorrect`, assuming moreover named notifications and a database that
  answers: `HeardInv` says that a job carries, or the row has, what its message told of.

The review as a whole. What is proved of a part need not hold of the whole: an edit of
the customer's moves the row under an attempt, and an approval under a draft. These
theorems carry the parts' promises over, each step of the other part being shown to
keep the invariant:

* `SystemTypes`: the types, however requests overlap, by the types of both parts
  (`WholeInv`).
* `SystemKeepsIntake` and `SystemAcksStored`: what is proved of ReviewIntake, under the
  same assumptions, with any number of attempts, approvals and sweeps under way
  (`SoloWhole`, `HeardWhole`). A publishing statement leaves the flag, the words and
  the version alone and never takes a row to RECEIVED, which is all that a job relies
  on; what a job says of `google_reply_state` is not among its promises.

The rest assumes `JobsAlone`, and nothing of requests and sweeps, any number of which
may be between a claim and its outcome at once. Without it ingestion writes back a reply
state that it read before a claim, and TLC finds `BlockedForGood` violated.

* `ApprovalIsCurrentCorrect`, `SystemPublishedOnceCorrect`, `BlockedForGoodCorrect`.
  `SystemInv` adds to the approval's currency that what a job
  holds of the row fits it until the job writes (`Fits`: the reply state, and whether
  the words changed), that a published row is not claimed, and that nothing has
  happened to a row before its insert. No request or sweep is half-way while a job is,
  so a claim or an outcome cannot outdate what the job holds; unapprove and the ageing
  of a claim, one step each, can come in between and touch nothing that it holds. With
  `JobsAlone`, `approvedFor`, which takes the version at the write, is the version the
  approving request read.
* `SystemSinglePublisher`, `SystemNeverOverwrites`, assuming
  `ThresholdCoversAttempt`: the lock of PublishWorkflow survives ingestion
  (`LockWhole`). Among requests and sweeps it is the WHERE clauses that keep a second
  attempt out, as in PublishWorkflow. What the composition adds is a row that jobs
  rewrite between attempts, claims left by a crash included, and that comes back with
  a new status and the old reply state.
* `AutoPostIsEarnedCorrect`, assuming `OneAtATime` as well: what posts itself has earned it
  by the words, the settings and the flag as the row has them then. `EarnedInv` adds to
  the lock and to `SoloWhole` that a claim which nobody drafted under (`~redone`) is
  held of a row with the approver it had when claimed, or of an earned draft
  (`ClaimIsEarned`). The exception is the path of `finding_system_approval`: the stale
  pass posts what was drafted under an abandoned claim.
* `PublicationIsTrue`, assuming `FaultsOrEdits`: the step that sets `published_at`
  records a text that Google showed, and a publisher who stands for it. In the whole
  this is a property of a step and not of a state, since a published review that is
  edited gets a new draft under its old record. `FaultsOrEdits` excludes, where humans
  approve everything, a fault together with an edit. Under it nobody drafts while a
  reply is claimed (`DraftsUnclaimed`), as only a fault leaves a claim without a live
  attempt (`NoneLeftBehind`); `ClaimWhole` joins the two with `RecordInv`.
* `SystemOnlyApprovedShown` and (with `ThresholdCoversAttempt`)
  `SystemInFlightIsApproved`, where humans approve everything, with no fault or with
  no edit. The run `finding_system_approval` shows that the last hypothesis is needed:
  with one fault and one edit the first is false.

The sweep, for batches and numbers of reviews of any size, with no threshold assumed:

* `SweepTypes`: types, that `pending` holds the claimed rows once each, and that no batch
  is longer than the limit. `SweepInv` adds that a claim is held only of a candidate and
  that between ticks there are none.
* `RestKeepsItsTurnCorrect`: each step of a sweep takes the head off its batch or leaves
  the batch alone, unless a fault cuts it short.
* `ListingsTakeTheOldest`: a listing is made of the oldest that qualify. `created` and
  `pending` list each review once; `Among`, a recursive function, picks from them in
  order. The library's induction theorems cannot be used here, so its lemmas go by a
  set of numbers that has 0 and the successor of each of its members (`Counting`).

The connection:

* `TokenTypes`, and `WaitersAreHeard`: whoever waits, waits for a refresh in flight;
  the step that settles one releases its waiters with it.
* `CutOffIsServedNothing`: `CutOffInv` adds that no row is there for a call that began
  without one, as long as it is marked so.
* `RemovedIsFinal`: `OwnedOnce` says that an issued grant is held by one callback, or
  stored, or gone, and that a disconnect request knows only one that was stored.
* `RowIsTrue`: `RowInv` adds what a refresh carries (`RefreshInv`: a token of the grant
  it read, or Google's word that this grant is dead) and that a row still has the grant
  that refreshes and calls read of it, unless it was re-authorised (`RowIds`).
* `SecondRoundIsFresh`: `FreshInv` says that a token which its refresh has not stored
  yet is nowhere else, so that nobody can have been refused with it (`NewIsNew`), and
  what the calls of a second round wait for (`FreshCalls`).
* `StoredByItsFlowCorrect`: `FlowInv` says that a cookie names a flow of its own browser
  (`CookieIsOwn`) and that a callback past the check was a proper one (`AllProper`).
* `NeverComesBackCorrect`: `LeftInv` joins `OwnedOnce` with the property: a credential
  that has left the row is gone from every callback too, whether it was replaced or
  removed, and whether or not the save that stored it was told so.
* `ConnectionKeepsItsPromises`: TokenStore's theorems with calls, refreshes and flows
  together. ConsentFlow is put together from TokenStore's steps, so that it implements
  TokenStore holds by construction (`FlowIsTokenStore`); the theorem only collects what
  follows.

The console:

* `ConsoleTypes`: types, by `ConsoleInv`, of the two tabs and the Directory together.
* `NothingOutlivesCorrect`: inductive by itself; every statement names the connection
  it read, and the foreign keys refuse the others.
* `StoredUnderCorrect`: `StoreInv` adds that what a pull is about to store was listed
  under its account (`PullsAreListed`).
* `SettingsChangeCorrect`: each step but a PUT leaves a surviving row's settings alone.
* `UntypedCorrect`: `FormInv` adds that a form differs from what it was filled in from
  only where it was typed into, and so does the request made of it.

Only model-checked: liveness (`PendingResolves`, `GeneratedIsHandled`,
`LastWordsAreHandled`, `StaleIsResolved`, `EligibleIsPublished`), since the prover
handles neither fairness nor ENABLED, and the violation in `finding_system_approval`.
The invariants and action properties of the runs are all proved. No module uses a
RECURSIVE operator.

## Not modelled

* Logging and the event log (`recordEvent` never throws and nothing reads it back),
  encryption and the signatures of cookies and push tokens: inputs, outputs and
  primitives without state of their own. Cookies are modelled by what they prove.
* Prompt, schema text and the parsing of the model's answer: the answer is any draft
  with any risk, or a failure.
* Clock times: backoff, `Retry-After` and timeouts. Whether a configuration satisfies
  `ThresholdCoversAttempt` is a sum of those; a model of it would be arithmetic about
  `defaultStalePublishPendingMs` and the second round after a 401, which that sum does
  not count.
* A PUT that timed out and reaches Google after its attempt has given up: an attempt's
  requests take effect, if at all, before its outcome is known.
* The dashboard's list of reviews and its unsaved drafts, mock mode and its fixtures,
  and the scripts that verify a deployment by hand.
* Several reviews of one location in one ingest: reviews share nothing but their
  location, and a failure of one is tallied without touching the next.

What could come next: an abstract specification that the whole implements, a reply slot
with a round for each publication; a model of the durations; and the dashboard's list
of reviews.
