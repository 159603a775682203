# Sild in TLA+

Sild is a multi-tenant chat platform: a Go backend (`backend/`: REST API, realtime
node, background worker, mail server), an AI bridge (`bridge/`), an agent inbox, a web
widget and native SDKs. This directory models the part of it that is hard to test: what
several replicas, workers and requests do to the same rows, in any order, while clocks
drift, processes die, calls hang, and calls fail with or without having had an effect.

Paths below are relative to `backend/internal/` unless they start with another top-level
directory.

## 1. Inventory

| Component | State it keeps | Operations | What is hard about it |
|---|---|---|---|
| Delivery-queue claim protocol (`store/gormstore/claim.go`, `outbox.go`, `push.go`) | rows: `status`, `available_at`, `attempts`, `claim_token`, `locked_until` | `claimDue`, `renewClaim`, `settle`, `reschedule`, `Enqueue` | leases on rows judged by each worker's own clock; settling writes that do not check the token; a snapshot of `attempts` used minutes later |
| Webhook relay (`connector/webhook/relay.go`) | the queue; endpoints; a pass's local variables | `ProcessOnce`, `deliver`, `holds`, `post`, `reschedule` | posts that outlive the claim, partial failure over several endpoints, dropped write errors |
| Push fan-out (`push/fanout.go`, `domain/push.go`) | the queue; `TenantPushConfig`; device tokens; a pass's cache `resolved` | `ProcessOnce`, `deliverRow`, `deliver`, `resolve`, `SetPushCredential`, `DeletePushCredential`, `RegisterPush`, `DeregisterPush`, `TestPushSend` | a credential cached for a pass, replaced meanwhile; several devices, one verdict |
| Leased runs (`store/lease.go`, `store/gormstore/lease.go`) | one row per lease: `owner`, `expires_at`; the heartbeat's `expires` | `RunLeased`, `renew`, `RunExclusive`, `Acquire`, `Release` | renewals that fail, hang, or succeed and report an error; release against a renewal in flight |
| Signing-key bootstrap (`auth/jwt.go`) | signing keys | `EnsureActiveKey` | replicas that boot together, crash, and wait for one another |
| Archive sweep (`archive/`) | conversations' `archived_at`, messages, tombstones, objects in the sink | `RunSweep`, `RunOnce`, `archiveOne` | two stores, written one after the other, next to people who go on writing |
| Conversations, members, assignments, receipts (`domain/conversation.go`, `assignment.go`, `peer.go`, `receipt.go`, `store/gormstore/conversation.go`) | conversations, member rows, assignments, receipts | create, add, remove, remap, close, claim, reply, step into a peer conversation, mark read | checks and writes in separate statements; no unique index where one would help; webhooks written after the change |
| Messages (`domain/message.go`, `parts.go`) | messages, their steps, outbox rows | `SendMessage`, `UpdateMessageParts`, reads by page and by cursor | retries with one `client_msg_id`; ids drawn before the commit; best-effort publication |
| Team, roles, queues, sockets (`domain/admin.go`, `store/gormstore/rbac.go`, `realtime/`) | role assignments, queues, the channel set of each socket | invite, grant, rescope, revoke, `SetQueue`, connect | a socket moved from what was held before to what is read after, next to other writes; the last owner |
| Authorization (`policy/`, `principal/`, `apiutil/authz.go`) | none | `Authorize`, ceilings, scopes | the same decision is taken on a row, in SQL, in the search and by channels |
| Sign-in (`domain/identity.go`, `middleware/auth.go`, `auth/jwt.go`) | providers, links, embedded sessions, cookies, keys, realtime tokens | exchange, set and delete the provider, relink, log in and out | an exchange calls out between its reads and its writes while owners change the provider |
| Email ingest (`domain/email.go`, `mail/smtpd.go`, `store/gormstore/email.go`) | ingest claims, threads, channel settings | `HandleForwarded`, `HandleInbound`, `ClaimIngest`, `CompleteIngest`, `ReleaseIngest` | the sender retries what was not acknowledged; attempts overlap and die |
| Lists, search, paging (`store/gormstore/page.go`, `apiutil/paging.go`, `search/`) | cursors held by clients | `Paginate`, `SlicePage`, `listMessages`, archived reads | ties at a page boundary; rows that move between pages; the sweep between two reads; rows handed over in another order than the cursor's |
| Contacts (`domain/contact.go`, `store/gormstore/contact.go`) | a wide and a narrow row per person | `Upsert`, `SetPushOptOut`, language, searchable keys | compare, then write two tables, on every start of an app |
| Translations (`domain/translation.go`, `i18n/catalog.go`) | projects, keys, drafts, releases, bundles | create, save, delete, put, publish, roll back, resolve | two publications compute one next version; a draft written in between |
| Assistant (`domain/requester_assertion.go`) | approvals, assertions | `ApproveDataAccess`, `MintRequesterAssertion` | steps written while an approval is read and written; time stamps taken before the writes |
| Web widget, its text (`web/src/i18n/index.ts`) | language, text and version of a page; bundles and manifest in local storage | open, `refresh`, `adopt`, `apply` | two awaits in `refresh`, calls that overlap, a language that changes between them |
| Web widget, open thread (`web/src/core/client.ts`, `packages/client/src/list.ts`) | the messages shown | own sends, live events, catch-up | three sources of the same message in any order |
| Provisioning, brands, uploads, secrets, configuration, bridge, inbox, SDKs, deployment | see section 7 | | not modelled |

How they interact. A request handler authorizes (`policy`), runs a domain operation in one
or several transactions, publishes to sockets best-effort, and writes webhook and push rows
that the worker's relay and fan-out deliver. The worker's sweep moves idle conversations to
the sink under a lease. Sockets and pages are read models that may lag behind the tables.

## 2. Modules

| Module | What it models | Built on |
|---|---|---|
| `WorkQueue` | abstract: rows are put, taken by one worker, dropped, finished or postponed | - |
| `DeliveryQueue` | the claim protocol and the part of a pass that relay and fan-out share | implements `WorkQueue` |
| `WebhookRelay` | `ProcessOnce` and `deliver` of the relay | extends, and implements, `DeliveryQueue` |
| `PushFanOut` | the fan-out, the tenant's credential, device registration | extends, and implements, `DeliveryQueue` |
| `Lease` | `RunLeased`, heartbeat, `Acquire`, `Release` | - |
| `KeyBootstrap` | `EnsureActiveKey` under `RunExclusive` | extends, and implements, `Lease` |
| `ArchiveSweep` | the sweep next to senders | extends, and implements, `Lease` |
| `Thread` | `SendMessage` with retries, outbox rows and publication, catch-up by cursor, and the widget's open thread | - |
| `Policy` | principals, capabilities, decisions, ceilings, channels: operators, no state | - |
| `Desk` | conversations, members, assignments, replies, receipts | `Policy` |
| `Team` | roles, queues and sockets next to one conversation that changes | `Policy` |
| `SignIn` | cookies, embedded sessions, service keys, realtime tokens, the identity provider | - |
| `Translations` | one translation project | `Policy` |
| `WidgetText` | the widget that fetches released texts and keeps them | `Translations` |
| `Inbound` | mail that becomes messages | - |
| `Listing` | a client that walks a collection page by page | - |
| `Contacts` | one person's record | - |
| `Assistant` | steps, approvals, assertions | - |
| `DeliveryQueueProofs`, `LeaseProofs`, `KeyProofs`, `ArchiveProofs`, `ThreadProofs`, `DeskProofs` | theorems and proofs | the module they are about |
| `DeliveryProofs` | theorems about the relay and the fan-out | `WebhookRelay`, `PushFanOut`, `DeliveryQueueProofs` |
| `TenantProofs` | theorems about `Policy` and the parts of a tenant | those modules |
| `MC*` | constants for TLC; `MCTenant` also puts the parts of a tenant side by side | - |

Conventions. Definitions keep the code's names where TLA+ allows. A comment starting
with "mutant:" marks a deliberately wrong variant of the definition after it; nothing
uses it in the model, and each is there to show that the property named with it in
`PROJECT.json` fails when the code is wrong in that way. History variables (marked in the
declarations) are read by properties only.

**Time** is relative in `DeliveryQueue` and `Lease`: a timestamp is kept as the time left
until it and `Tick` counts all of them down, so that no clock grows and the state space is
finite. `locked_until` is `lockLeft`, `available_at` is `availIn`, `expires_at` is
`leaseLeft`, `renewFrom` is `renewIn`. `SignIn`, `Inbound` and `Listing` have a small
bounded clock.

**Requests** in `Desk`, `Team`, `SignIn`, `Translations`, `Contacts`, `Assistant` and
`Inbound` are records in slots: what is asked, where the request is (`pc`), and what it has
read. One action is one statement, or one transaction whose isolation makes it one step;
between two actions other requests run and the process may die. Where a race really does
have the outcome a reader would not want, a history variable (`raced`, `mixed`, `overlap`,
`torn`, `late`, `excused`, `slipped`, `missed`, `crossed`) records that it happened, and the property
says exactly which races are needed to reach that outcome: no other sequence of requests
may.

### DeliveryQueue

A row has the five columns; a worker has the local variables of `ProcessOnce`: its token,
the batch it has not come to yet, the attempts as the claim read them, the row it is on,
`renewFrom`, and `age`, the time since it last looked at the clock.

| Code | Action |
|---|---|
| `Enqueue` | `Enqueue` |
| `claimDue` (select, conditional update, re-read under the token) | `Claim`: any non-empty subset of the due rows, by a clock up to `MaxSkew` ahead |
| `renewFrom := time.Now().Add(renewAfter)` | `StartPass` |
| `holds` true / false / error at the loop head | `TakeRow` / `SkipRow` / `AbortPass` |
| `holds` inside `deliver` | `Recheck`, `LoseRow`, `LeaveRow` |
| `settle` through `MarkDelivered`, `MarkFailed` | `MarkDelivered`, `MarkFailed` |
| `reschedule` of relay and fan-out | `Retry` |
| return, process death | `EndPass`, `Crash` |
| time | `Tick`; `Stall` lets more than `ClaimTTL` pass while nobody moves |

The candidate select and the conditional update are one step: the update repeats the
select's condition, so what a worker gets is decided by the update alone.

### Lease

`Acquire` is two statements (`INSERT .. ON CONFLICT DO NOTHING`, then a conditional
`UPDATE`), each a step, with a call age for the `now` it was started with. A failed call
may have had its effect. `RunLeased` is `StartRun`, `Won`/`Beaten`/`AcquireFails`,
`FnReturns`, `RenewalCut` (the heartbeat cut short by `cancel()` may have reached the
database), `Release`; the heartbeat is `Heartbeat`, `Renewed`, `TakenOver`,
`RenewalFails`, with the ticker's one-place channel.

### WebhookRelay, PushFanOut, KeyBootstrap, ArchiveSweep

Each adds the steps between the actions of the module it extends, one per await, with
local variables in a record (`job`, `sweep`) or functions. The refinements are the identity
mapping: dropping the added variables leaves a behaviour of `QueueSpec` or `LeaseSpec`, so
that every property of these holds of the composed module too. They are proved (section 5).

### Thread

`SendMessage` is `Find` (idempotency lookup, then a new id), `Commit` (the transaction: the
message, its nudge and its webhook event, all or none; the answer of the database may be
lost), `Refind` (the lookup after an error) and `Emit` (publication, best effort).
A page is a set of ids, the oldest `Limit` after the cursor; `Fresh` is what `freshMessages`
adds of it, what is not held yet, in the order of the ids.
The widget's thread is a sequence of ids. It grows by `OnEvent`, `Answered` (the answer to
an own send) and `Apply` (a page of the catch-up). A catch-up is `Reconnect` (which starts
`loadConversations`), `ReadSince`, then `Fetch` and `Apply` per page, or `FetchFails`.
`owed` and `behind` record what the thread should have got back, for the properties.

### Policy

`capabilities` is the table of `policy/action.go`, `Authorize` and `authorizeConversation`
the decisions of `policy/policy.go`, with the attributes that `apiutil/authz.go` and
`domain/peer.go` collect. `Ceiling` with `applyCeiling` and `applyScope` is the conversation
list's `WHERE`, `buildFilters` the search's, `contactBase` the contacts'; `AgentChannels`,
`Observers` and `channelsFor` say which socket hears of what.

### Desk

| Code | Actions |
|---|---|
| `createConversation`, `CreateConversation` | `createConversation`, `CountOpen`, `CreateConversation` |
| `AddMember`, `Remap` | one action each |
| `RemoveMember` | `removeMember`, `CountMembers`, `RemoveMember` |
| `CloseConversation`, `fireConvWebhook` | `closeConversation`, `Close`, `FireClosed`; `FireUnread` when the queue's settings cannot be read |
| `AddAssignment`, `ClaimAssignment`, `CloseAssignment` and `transition` | `AddAssignment`; `patchAssignment`, `ClaimAssignment`, `AnswerClaim`, `CloseAssignment` |
| `postMessage`, `SendMessage`, `requeueOnReply` | `postMessage`, `SendMessage`, `requeueOnReply`, `Requeue`; `requeueUnread` when the lookup fails |
| peer messages of operators, `agentJoinPeer` | `postPeerMessage`, `PeerAgentSend`, `agentJoinPeer`, `JoinNote`, `SendPeer` |
| `MarkRead`, `receiptRepo.Upsert` | `markRead`, `FindRead`, `SaveRead` |
| process death between two steps, or a statement that fails and ends the request | `CutOff` |

A lower-case action is the handler: it authorizes the caller with `Policy` on the rows as
they are, and starts the request. `Silent` are the queues with webhooks off; a queue's
settings do not change in a behaviour. A conversation the server key creates may name a
member twice, which makes two rows. Failures are bounded by `MaxFaults`; the two that the
code turns into a decision (`FireUnread`, `requeueUnread`) are actions of their own.

### The parts of a tenant

`Team`: `putAssignment`/`removeRole` authorize and read what is held, `WriteRole` writes
(the last-owner check is inside the transaction), `ReadAfter` and `reconcileSubscriptions`
move the socket; `Connect` computes the channel set and `agentSubscriptions` applies it;
`SetQueue` with `subscribeQueueOperators`, `OpenRequest` with `FollowRequest`.
`SignIn`: an exchange is `exchangeEmbedded`, `Validate`, `AdminBySub`, `CreateSession`,
`Recheck`; a provider write is `SetIdentityProvider`, `UpsertProvider`,
`EndTenantSessions`, or `DeleteSessions` and `DeleteProvider`; `resolveAdmin`,
`resolveEmbedded` and `resolveAPIKey` are the middleware.
`Translations`: a request authorizes and reads, `WriteEdit` writes the draft or key,
`publish` builds the bundles from what the tables hold, `commitRelease` inserts them.
`ResolveText` has no failing read: in the code a bundle that cannot be read counts as one
that has not the key, and the next language or the shipped text answers.
`WidgetText`: `Open` is the constructor; `refresh` asks, `translationManifest` answers,
`hold` takes the manifest and may change the language (`adopt`), `translationBundle`
answers, `apply` takes the text; `giveUp` is a call that fails. The text is the platform
project's, since the widget names no project (`web/src/index.tsx:61`).
`Inbound`: an attempt is `Accept`, `HandleForwarded`/`HandleInbound`, `ClaimIngest`,
`uploadInboundAttachments`, `ingest`, `appendInbound`/`createFromInbound`,
`CompleteIngest`/`ReleaseIngest`, `Finish`.
`Listing`: a page is one request, in two steps where the code reads twice (`enrich`,
`hydrate`, `ListHot`/`ListArchived`); rows are inserted, moved, removed and swept between.
`SlicePage` sorts nothing: `Slice` skips forward in the order `asHanded` gives, which is
the cursors' but for the queues and the translation projects (`pinned`).
`Contacts`: `upsertContact`, `ReadProfile`, `Upsert`, `Tell`, whose publish may fail.
`Assistant`: `SendSteps` and `UpdateMessageParts` make a message or an edit out, with its
time, and `WriteSteps` writes it; `ApproveDataAccess` reads, `StampApproval` makes the
approval out, `SendApproval` writes it; `MintRequesterAssertion`, `RecordAssertion`.

## 3. Runs

Every run finishes within four minutes on two cores. "V" marks a run whose property is
expected to fail: it states what a comment or document says and shows that the code does
otherwise.

| Run | Instance | What it shows |
|---|---|---|
| `relay` | 2 events, one with 2 endpoints and one with none, 2 relays, 1 fault, a schedule of 2 attempts | `QueueInv` (the inductive invariant); `OneWorkerPerRow`; `SettledIsFinal`; `ImplementsWorkQueue`; `DeliveredMeansAcknowledged`: delivered means every subscriber has answered 2xx; `RelayInv`: no attempt is spent that is neither charged, final nor due to a fault |
| `relay_live` | 1 event, 2 relays, 2 faults, stalls | `EventuallySettled` |
| `push` | 1 nudge, 2 fan-outs, 2 users with a device each, 2 credentials, 1 fault | `DeliveredMeansReached`; `PushInv`: only a refused credential or an exhausted schedule drops a nudge |
| `push_verified` (V) | 1 fan-out, 2 credentials, no faults | a nudge sent with the old credential marks the new one as verified |
| `keys` | 2 replicas, TTL 3, period 1, calls of up to 1, a wait of at most 6, 2 faults, fair | `LeaseInv` (inductive), `OneWithinLease`, `OverrunBounded`, `OneKeyWithinLease`, `BootInv` (nobody is ready without a key or times out behind a dead holder), `BootEnds` |
| `archive` | 2 workers, 1 conversation, 1 message, 1 fault, 1 error, fair | `NothingLost`, `ArchiveInv` (a tombstone counts what its object holds), `EventuallyArchived` |
| `archive_lost` (V) | 1 worker, 2 messages, no errors | a message sent between the sweep's read and its purge is in neither place |
| `thread` | 3 sends, one of them a retry of another and one the widget's own; a thread that is empty or has a message; pages of 1 | `AnswersAgree`: callers with one `client_msg_id` get one message; `ThreadInv`: announced once, shown once; `CaughtUpFromSince`: a catch-up gets all there is after its cursor; `CatchUpEnds` |
| `thread_gap` (V) | 2 sends, one of them the widget's own | a catch-up ends without a message missed before the reconnect |
| `desk` | 2 conversations, 2 end users, 2 operators, a requester and the server key; 2 requests at a time, 3 in all, 1 fault; four kinds of start | `DeskInv`, `OneOpenRequest`, `QueuedOnce`: which races break a limit, and that nothing else does; `OneClaimWins`; `JoinNotedOnce`; `CloseAnnounced`; `ReceiptForward` |
| `desk_empty` (V) | one request at a time | an open conversation is left without members: one person with two rows |
| `tenant` | see below | `TeamInv` (never without an owner), `SocketFollowsRoles`, `ShownIsReadable`, `VouchedByCurrent`, `NeverOutlives`, `PublishedIsLive`, `ShowsTheRelease` (a page that has the newest version shows it), `MailInv`, `WalkSeesAll`, `ContactWhole`, `ApprovalCovers` |

`tenant` puts `Team`, `SignIn`, `WidgetText` over `Translations`, `Inbound`, `Listing`,
`Contacts` and `Assistant` side by side. They share no variable, so every interleaving of two of them is
a pair of behaviours that do not touch: in one behaviour one part moves (`scene`) and the
others keep their first state. `Translations` moves on its own, with all its requests, and
under the widget with one request at a time that changes the languages or writes a text
and releases it. What is checked of each is what a run of its own would
check. The instances: an owner and one more person, with three grants to give; two staff,
one identity and two provider writes; one project with a key, two words, two languages,
shipped or the tenant's own; two mails, one with a Message-ID and one from an
autoresponder; three rows with every pattern of equal times and a fourth to be inserted,
pages of at most two; two profiles; two messages with two steps; one page with two calls
of `refresh` and a browser that names a language or none. Each has two slots for
requests, which every part calls `i` and `j`, and three requests in all, so that two
overlap and a third comes before, between or after. Slots are interchangeable, and so are
words, writers and labels: the symmetry set swaps each pair in all parts at once, which is
sound because only one of them moves.

Why the bounds are enough. The races of the claim protocol and of the lease involve one
row and two processes: one that is slow and one that takes over. A second row lets a
worker hold a batch, so that the row it has not come to yet lapses while it works on the
first. `ClaimTTL`, `RenewAfter`, `TTL` and `Every` keep the proportions of the code (the
period is a third of the TTL) in the smallest unit in which a claim can be fresh, in need
of renewal and lapsed. Two faults allow a crash and a failed call in one behaviour. A
schedule of two delays has a retry and an exhaustion. Four tokens suffice for two workers
with two rows: `UnusedTokens` is never empty there, and the liveness run would find a
worker stuck for want of one. Fault bounds (`MaxFaults`, `MaxErrors`) also
make liveness meaningful: the code promises nothing under failures that never stop.
`WaitMax` is the least that satisfies `PollsInTime`; with one less TLC finds a replica that
times out behind a dead holder.
For every safety property a passing run checks, the proofs of section 5 lift these bounds.

A check and a write race with one other request; a third request sets the scene or comes
after it. Three sends give a race between a retry and its original, a message of the
widget's own, and with pages of one a gap of two pages. One catch-up runs at a time
(`CatchUps` has one member): a second reconnect waits for the first catch-up to end.

Symmetry is used in safety runs only, over workers, credentials and request slots.

`CHECK_DEADLOCK FALSE` in `keys`, `desk`, `desk_empty` and `tenant`: replicas that have all
booted, and clients that have made their bounded number of requests, have nothing left to do.

## 4. Fairness

Liveness is checked under weak fairness of each process's next step (`Work(w)`,
`BootStep(p)`, `SweepStep(p)`, `Beat(p)`) and fairness of time. The code justifies it:
`jobs.go` starts a pass from a ticker every five seconds and a sweep every hour, for as
long as the process lives; every post and every push has a client timeout; a renewal has
a context timeout of one period; what remains are database calls, which return or fail.
`SyncStep(c)` is fair in `Thread`: the requests of a catch-up are answered or fail.
`Pass` is strongly fair in `KeyBootstrap` and `ArchiveSweep` because a tick is disabled
while a call is at its time limit, again and again: time does not stop for that, it is the
call that has to return. Nothing is assumed of crashes, failures, stalls, senders or
administrators, except in `ArchiveSweep` that a conversation nobody writes to grows old
(`GoIdle`).

## 5. Proofs

TLAPS checks the following for every set of rows, workers, endpoints, devices, replicas,
tenants, conversations and messages, and every value of the constants that satisfies the
named assumptions (`QueueConstants`, `LeaseConstants`, `ArchiveConstants`, ...).

`DeliveryQueueProofs`
 - `TypeCorrect`: `QueueSpec => []TypeOK`, with no assumption on timing. `attempts` stays
   below the length of the schedule: `reschedule` never indexes past it.
 - `ClaimsHeld`: `Timely => (QueueSpec => []QueueInv)`, where
   `Timely == 2 * MaxGap + MaxSkew <= ClaimTTL - RenewAfter`.
 - `HolderOwnsRowHolds`, `OneWorkerPerRowHolds`, `SettledIsFinalHolds`,
   `AttemptsCountUpHolds`, each under `Timely`, from `QueueInv`.
 - `QueueImplementsWorkQueue`: `Timely => (QueueSpec => ImplementsWorkQueue)`, the refinement
   of the abstract queue.

`DeliveryProofs`
 - `RelayImplementsQueue`: the relay implements the claim protocol; with it
   `RelayOneWorkerPerRow`, `RelaySettledIsFinal` and `RelayImplementsWorkQueue` carry results
   of the queue over.
 - `AcknowledgedHolds`: `DeliveredMeansAcknowledged`, with no assumption on timing, from
   `AckInv`: the endpoints a pass is past have answered, unless it remembers a failure.
 - `RelayInvHolds`, under `Timely`: `RoundInv` counts a round that is under way once, which
   needs `SnapshotCurrent` of `QueueInv` when it is charged.
 - `PushImplementsQueue` and `PushImplementsWorkQueue`; `ReachedHolds` and `PushInvHolds`
   under `Timely`: `NudgeInv` ties what a pass remembers of its devices to what they got. That
   needs the row to be the worker's alone, or another pass would list the devices again.

`LeaseProofs`
 - `LeaseHeld`: `LeaseSpec => []LeaseInv`.
 - `OneWithinLeaseHolds`, `OverrunBoundedHolds`: from `LeaseInv`, for any hang, failure or
   crash.
 - `RenewedInTimeHolds`, under `Prompt == 2 * MaxHang + MaxLag + Every <= TTL`.

`KeyProofs`
 - `BootImplementsLease`; `OneKeyHolds`, from `KeyInv`: a run that has not been past its
   lease is alone (`OneWithinLease`), so a key it did not find is still not there when it
   creates one.
 - `BootInvHolds`: `PollsInTime => (Spec => []BootInv)`, where
   `PollsInTime == TTL + 2 * MaxHang < WaitMax`.

`ArchiveProofs`
 - `SweepImplementsLease`; `NothingLostHolds` and `ArchiveInvHolds`, from `SweepInv`.

`ThreadProofs`
 - `AnswersAgreeHolds` and `AnnouncedOnceHolds`, from `ServerInv`, for any finite set of
   sends and any assignment of `client_msg_id`s to them.
 - `ThreadInvHolds` and `CaughtUpFromSinceHolds`, from `ServerInv` and `WidgetInv`, for any page
   size and any number of catch-ups at a time.

`DeskProofs`, for any set of conversations, people, queues and request slots, any number of
requests and faults, any queues with webhooks off, and any start that `SeedsAssumption` allows
 - `OneClaimWinsHolds`, `CloseAnnouncedHolds`, `JoinNotedOnceHolds`, `QueuedOnceHolds`,
   `OneOpenRequestHolds`, `DeskInvHolds` and the action property `ReceiptForwardHolds`.

`TenantProofs`
 - About `Policy` alone, with no state: `ListedMayBeOpened` (what a list shows its reader may
   open), `SearchMatchesList` (search and list admit the same rows), `HeardMayBeRead` (who hears
   of a conversation on a channel may read it).
 - `TeamInvHolds`, `SocketFollowsRolesHolds`, `ShownIsReadableHolds`; `VouchedByCurrentHolds`,
   `NeverOutlivesHolds`; `PublishedIsLiveHolds`; `ShowsTheReleaseHolds`; `MailInvHolds`;
   `WalkSeesAllHolds`; `ContactWholeHolds`; `ApprovalCoversHolds`: each about its part's own
   specification, which is what moves in the `tenant` run while the others stand still.

Assumptions on constants. Beyond types they say: marks are none of the things they mark
(`NoRow` is neither a row nor a worker, `NoCred` no credential); a schedule is not empty,
pages and tenant-wide limits are not zero; sets that are counted are finite; the starts that
`Desk`, `Team` and `Listing` are given (`SeedsAssumption`, `CrewAssumption`,
`ListingAssumption`) are states the tables can be in: ids that are apart, owners that are
members, an assignment that is queued belongs to nobody. TLC evaluates all of them on the
instances of the runs. `Timely`, `Prompt` and `PollsInTime` are assumptions on timing and stand
in the theorems themselves.

Argument for the queue. `HolderOwnsRow` is not inductive: nothing in it says why a lock
that is alive now is alive at the next look at the clock. `WorkedRowLocked` says how much
of the lock is left in terms of `age`, the time the worker has been away. To establish it
when a row is taken without a write (`Fresh`), `FreshClaimHeld` keeps every row of the
batch locked for what is left until `renewFrom` plus
`ClaimTTL - RenewAfter - MaxGap`; the `MaxGap` lost there is the time between the claim
and the reading of `renewFrom`, the second `MaxGap` of `Timely` the time away from the row.
No other worker can claim meanwhile because its clock is at most `MaxSkew` ahead.
`TokensApart` and `ClaimedIsPending` make "under the worker's token" mean "pending and
nobody else's", `SnapshotCurrent` ties the attempts to the token.

With the code's numbers, `ClaimTTL` is five minutes and `renewAfter` half of that: a worker
must look at the clock every 75 seconds, less half the skew. The relay's and the push
provider's HTTP clients give up after ten seconds.

Argument for the abstract queue. The mapping names for each row the worker that has it
(`workerOf`), which exists only because no two have it: `SoleWorker` follows from
`OneWorkerPerRow`. A step of the queue takes, drops, settles or postpones one row and leaves
the worker of every other row as it was (`ApartOn`), or it changes none; a claim that takes a
row over changes none either, for the worker that had it is past its claim and not on it.

Argument for the lease. `LeaseCoversRun` (until its `expires` the row is the run's and does
not lapse before) needs `CallWithinTTL`: a renewal under way never sets an expiry before
the one in force, also if it reports an error. `OverrunBounded` and `RenewedInTime` follow
from `BeatInTime`, which bounds the age of `expires` by how far the heartbeat has got, and
`TickPhase`, which bounds how far that can be given the ticker's one-place channel.

Argument for the boot. `BootInv` is not inductive: a replica that times out must have seen
somebody else's write. `WaitKnown` bounds the lease's remaining time by the time the replica
has waited, as long as nobody has written to the row since it began, so that at the
deadline the lease has lapsed and the next two statements find the row free. The second one is
needed because a poll may begin just before the lease lapses. With the code's numbers
(`leaseTTL` five minutes, `leaseWaitMax` six) `PollsInTime` allows calls of just under half a
minute. A slower call finds the row deleted between its `INSERT` and its `UPDATE` when no time
is left for another poll.

Argument for the sweep. `NothingLost` is not inductive: a sink write replaces what an
earlier sweep put under the same key. `HotUntilPurged` says that this is harmless before
the purge; `ListedIsHot` that a sweep within its lease is never on a conversation that has
been archived, because it is the only one within its lease; `CopyCurrent` and `Written`
that what the purge deletes is in the object, or was sent behind the sweep's back.

Argument for sends. `AnswersAgree` says nothing of the table. `StoredBeforeAnswer` puts
the message of a request past its commit into it and `RowsUnique` allows one row for a
key. A second row for an id would count a second webhook event: `IdIsMine` rules it out,
and `IdsSuffice` counts that the ids of the model do not run out.

Argument for the catch-up. `CaughtUpFromSince` speaks of a catch-up that is done. `Chased`
follows one that is not: while it fetches, what it owes is held or after its cursor; while it
applies a page, what it owes is held, on the page, or after the page's last id if there is
more. That a page is a beginning of what is after the cursor (`OldestFirst`), and that a sorted
enumeration of a finite set exists (`InOrderSorted`), is proved by induction on size in the
form of a least counterexample (`WFMin`).

Argument for the desk. `DeskBase` holds the types, what each request has read that cannot
have changed, and `OverlapKnown`: two requests of one kind on one conversation are recorded in
`raced`. On top of it each property has a part of its own, per conversation or per member,
that says what a request between its check and its write relies on, unless a race has
been recorded: `ClaimsInv` (the owner of a claim stays), `ClosesInv` and `JoinsInv` (a change is
announced, about to be, or was cut off; by one request), `QueuesInv` (all but the
latest assignment are closed), `RequestsInv` (nothing is open where one is being inserted),
`MembersInv` (a removal leaves somebody behind), `ReceiptsInv` (a receipt is replaced by a newer
one). A step that touches nothing of a conversation keeps its part, so that each action
is looked at where it writes.

Arguments for the parts of a tenant.
 - `ContactInd`: a request carries a text that the searchable keys of some moment picked; a
   change nobody was told of has a request about to tell it, or is excused.
 - `TeamInd`, per member: who is writing a member's roles or moving their socket is alone
   (`Alone`) unless the history says otherwise, knows what was held when it began, and the
   channels of the socket are between what was held and what is held; when nobody is at it
   they are what is held.
 - `SignInInd`: a session was vouched for by the provider that stands, unless provider writes
   and exchanges overlapped; nothing is minted that ends after what it was minted from.
 - `LiveInd`: unless a publication was torn, releases are `1..n`, a publication under way
   carries what the tables held when it began, and a published word is in the latest bundle.
 - `WidgetInd`: versions count up and what is released under one stays (`ServerReleases`), a
   manifest a page holds lists the languages of its version (`Genuine`), and a bundle on its
   way (`PullRight`) is of the newest manifest the page has taken, and then the page still
   has its language because that manifest offers it, or of an older one, and then it is
   not the newest release.
 - `MailInd`, per mail: a claim that is alive has one attempt in flight, and a stored mail has
   a claim that is finished or about to be.
 - `AssistantInd`: every step that waits is fresh or named by an approval that is no older,
   unless one that is had read before it was written; assertions
   written and about to be written stay below the limit plus the number of minters.
 - `ListInd`: the keyset orders rows strictly and totally (`RowsOrdered`), so a page is
   a beginning of what is due and its cursor the place of its last row (`PaginateGives`,
   `SearchGives`). `Kept`: at its place the client has, or will come to, every row that was
   there at the start and was left alone, and has passed those of them that it has. `SliceIs`
   shows that skipping forward is `Paginate` where the rows come in the cursors' order. For the
   second read of a page it says the same of the place the cursor will have; a move of the row
   it is minted from, a sweep before the hot rows are read, or a second page of a pinned
   list is what `slipped` excepts.

Only model-checked: what needs fairness (`EventuallySettled`, `BootEnds`, `EventuallyArchived`,
`CatchUpEnds`), which TLAPS does not handle here, and the four runs that are expected to fail.

## 6. Findings

 - **Verified credential** (`push/fanout.go:231`): `MarkVerified` names the tenant only and
   may land on a credential that has replaced the one that was used.
 - **Message lost to the sweep** (`archive/job.go:128`): `archiveOne` reads outside the
   transaction that purges, and closed support conversations accept messages. Apart from
   that window and from sweeps past their lease, `NothingLost` holds.
 - **Gap not closed** (`web/src/core/client.ts:368`): the cursor of the catch-up is the last
   message shown when it is read, which may be later than the messages missed (a lost
   publication, an own send or a live event during `loadConversations`, an id that
   committed late), and a thread that is empty asks for nothing. `CaughtUpFromSince` says
   what does hold.
 - **Open conversation without members** (`domain/conversation.go:230`): rows are counted,
   people are removed.

Seen while modelling, without a run of their own. The properties allow for each of them by
name, so that nothing else hides behind it:
 - Leases. A heartbeat whose renewals fail and then hang runs past its lease while another
   replica has it (`store/lease.go:105`); `OverrunBounded` bounds the overlap. The work done
   under a lease tolerates it: a second key is harmless, a second tombstone aborts its
   transaction.
 - `reschedule` (`connector/webhook/relay.go:118`, `push/fanout.go:147`) indexes the schedule
   with the incremented count, so that its first delay of 60 s is never used.
 - Receipts. `MarkRead` with the server key has no participant and moves the first
   operator's receipt. The receipts' unique index has nullable columns, so two first reads
   make two rows. A remap saved next to a receipt may undo its `external_user_id`.
 - Push. The comments at `push/fanout.go:21` and `:216` say that a lock that could not be
   renewed leaves the row neither settled nor rescheduled; only a lost claim does, an error
   of the renewal reschedules.
 - Conversations. `requeueOnReply` decides on a copy of the conversation read before the
   send, and queues again when it cannot read the assignment (`domain/message.go:318`). The
   event of a close is lost when its write fails (`domain/conversation.go:266`), and a queue
   with webhooks off is announced when its settings cannot be read (`domain/service.go:209`).
   The server key may name a member twice. `RemoveMember` leaves the user's socket subscribed to the conversation.
 - Team. A role write that overlaps a connect may leave the socket on the older set. A
   member who opened a request as an operator keeps its channel after losing every role.
   `guardOwnerMutation` checks before the write.
 - Sign-in. `DeleteProvider` deletes the sessions before the provider's removal commits: an
   exchange that inserts and looks again in between hands out a session that stays. The same
   follows from overlapping provider writes and from a crash between `UpsertProvider` and
   `EndTenantSessions`. `SetAdminPassword` ends no cookie.
 - Translations. A project deleted and created again starts at version 1, although bundles
   are served as immutable (`api/translation.go:374`): a client that cached one keeps it.
   The widget fetches the platform project's, which cannot be deleted. A write in flight across a deletion leaves rows that come back.
   An automatic publication that fails leaves the draft saved and answers an error. Two
   releases with disjoint languages can share a version.
 - Widget. When two calls of `refresh` overlap and the older manifest arrives last, the page
   may go to another language and then take the text of the first under the newest version
   (`web/src/i18n/index.ts:165`), and keeps it until the next release.
 - Email. `FindByInboundToken` and its sibling turn any error into "not found", which SMTP
   acknowledges: a transient database error loses the mail. `HandleForwarded` writes back
   the whole settings row it read. Two first reads of the settings mint two addresses. Two
   mails of one sender and subject at once open two conversations, and a mail may be
   appended after its thread was closed. A mail without a Message-ID is stored again on a
   retry.
 - Listing. A sweep between the check for an archive and the read of the hot rows gives an
   empty last page. Queues come with support first and then by key (`api/admin.go:515`),
   translation projects with the platform's first and then by slug
   (`api/translation.go:71`), under cursors that go from the last id to the first: a second
   page skips rows and repeats others, although `api/admin.go:467` says that it works. The
   default page of 100 holds them all in practice.
   A waiting-time cursor minted from a later read can skip rows.
 - Contacts. A write that found nothing to change and lands over another's is not announced,
   and neither is one whose publish fails (`domain/service.go:58`).
   Changing the searchable keys rewrites no row.
 - Assistant. Messages and edits are stamped before they are written (`domain/message.go:99`,
   `:293`): an approval that reads in between and is stamped later covers a step it has not
   seen, which then waits until it is edited. Steps beyond the tenth waiting are passed over by the approval that names ten,
   and only the last hundred messages are read. The limit of assertions is counted before
   the insert.

## 7. Not modelled, and why

Provisioning (a sequence of creations that runs once), brands and other single-row
settings, uploads, secrets and configuration: no state shared between steps of several
actors. The AI bridge: one Node process around calls to models and brokers; what it does to
the platform is modelled (`Assistant`, `Desk`). Inbox, SDKs and the widget beyond its open
thread and its text: user interfaces over the same API. Request decoding, rendering, generated
documentation, cryptography, MIME, SMTP framing, text search and object storage: I/O and
formats.

In the modelled parts, these are left out: the content of messages, payloads, signatures
and logs; the delivery log; the registry of webhook endpoints (a constant); `TestPushSend`,
`DeleteUserPushTokens` and a device that changes its owner; `RunOnce` of `jobs.go` and the
parsing of `SILD_JOBS`; the member snapshot in an archive object; in a thread, opening
another conversation (`openConversation` may overwrite events that came in meanwhile) and
older pages; attachments, previews and typing; the socket of an end user; the auto-reply
and outbound mail; `ReturnToQueue`, which nothing calls.

## 8. Plan

Done: the queues, the leases and what is built on them; a thread, its sends and its catch-up;
conversations, the team, sign-in, translations and the widget's text, inbound mail, lists,
contacts and approvals.
Every safety property of a passing run, and every refinement, is proved.

Next: what the proofs show to be needed of timing, in the other direction (that `Timely` and
`Prompt` are tight, as `PollsInTime` is); the parts the model still leaves out, above all
`openConversation` and an end user's socket, and the bridge's slots.
