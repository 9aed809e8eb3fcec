# Shoppingmate in TLA+

TLA+ models of the parts of Shoppingmate where several things happen at once: the
assistant's text and voice sessions, a voice call from the hover to its record, the
requests and photos of customers, the onboarding of a store, the jobs that read its site,
and the billing webhook. TLC checks them on small instances; TLAPS proves the types and most
of the safety properties of every one of them for all instances.

| Module | What it is |
| --- | --- |
| `PendingCalls` | abstract: what a table of pending host calls promises |
| `TextSession` | the text channel: `apps/api/src/index.ts` with `runTurn` of `packages/agent` |
| `SiteRead` | one store's crawl, extract and apply-exclusions jobs: `apps/worker` with `enqueueSiteCrawl` and the dashboard's exclusions route |
| `VoiceBridge` | the voice channel: `createBridge` of `apps/voice-agent/src/bridge.ts` |
| `GeminiLive` | the call's transport to the live model: `geminiSdkTransport.ts`, `turnDetector.ts`, `inputFlusher.ts` |
| `CallFlows` | what a call does besides talking: the completions, the booking guard and the checkout gate of `agentWorker.ts` |
| `CallLife` | how a call starts and ends: the widget's voice modes and `runVoiceSession` |
| `Cases` | requests, photos, replies and the purge: `packages/db/src/notify`, `routes/care.ts`, `purgeCarePhotos.ts`, `cases/actions.ts` |
| `Billing` | `web/src/app/api/webhooks/razorpay/route.ts`, and the deletion of an account |
| `Onboarding` | a store's row from its first ping to live: `routes/install.ts`, `handlers/onboarding.ts` and everyone else who writes its status |
| `X_proofs` | the theorems about `X`, one module for each of the above but `PendingCalls`; those about `CallFlows` and `CallLife` are in `VoiceCall_proofs` |
| `MC...` | the instances TLC checks; one `.cfg` per run |

`PROJECT.json` lists components, runs, the mutant that breaks each checked property, the
source lines every definition models, findings, hazards and theorems.

## 1. The system

Shoppingmate puts a shopping assistant on a store's site. A **widget** in the page opens a
WebSocket to the **API** (text) or a LiveKit call to the **voice agent** (speech). Both run
the same executor, `runTurn` of `packages/agent`, which calls a model in a loop; the model
calls tools, some of them *host actions* carried out by the widget on the page. A **worker**
reads the store's site into a knowledge base (KB), a **dashboard** (Next.js) lets the
merchant steer it and takes the payments.

| Part | State it keeps | Operations | Hard behaviour | Correct when |
| --- | --- | --- | --- | --- |
| Text session (`apps/api`) | Redis `session:<id>` and `session:<id>:live-signal`; in memory: `turnNotes`, `pendingHostActions`, `recorders` | frames `user_text`, `card_tap`, `session_resume`, `visitor_action`, `host_action_result`, `session_end` | one handler per frame, no queue, each on its own copy of the session; timers; `session_end` at any time | exchanges and notes are neither lost nor doubled, a turn always ends, a conversation is recorded once, the steer is current |
| Voice bridge (`apps/voice-agent`) | `turnSeq`/`current`, `aborted`, `voiceHistory`, `pending`, `recentCartAdds` | `handleUserText`, host-action results and timers, `handleBargeIn`, `noteAssistantTurn` | a sentence heard in halves, turns superseded or withdrawn while they load or act, barge-in | a withdrawn half never acts, no words are lost, nothing is added twice, a silenced turn stays silent |
| Voice call worker | call state of `agentWorker.ts`: busy flags, `consultBooked`, modes, recorder, ticker | tool calls of the voice model, completions of consultation, order and contact form, checkout gate, warm-up, go-live, hang-up | completions racing each other, the executor and the voice model; a watchdog racing the tap | a booking is made once, flags come down, a record outlives the process |
| Input flusher, turn detector | buffered words, open turn, timers | words, pauses, flush | timers that re-arm each other | the action layer has the words before the answer |
| Gemini transport | session, reconnect budget, held reply, `discardOutput`, stall timer | turn start and end, messages, close, reconnect, fallback model | the visitor carries on while a reply is held; stalls and reconnects | a dropped reply is never heard, every tool call is answered, holds end, a stalled question is asked again |
| Widget voice modes | connection, microphone, watchdog, transport in use | warm, start, stop, close, switch to LiveKit | the microphone's question, the watchdog, errors and the visitor's End in any order | nobody waits for ever, an unused line closes, the microphone is off when the call is over |
| Site reading worker | crawl rows, per-store Redis lock, KB pages | crawl, extract, exclude, reproject | retries, a lock that expires, newer crawls superseding older ones | reads of one store do not overlap, the KB is never older than a finished read |
| Razorpay webhook (dashboard) | `razorpay_events`, `merchants`, `merchant_owners`, alerts | one POST per event | repeated, overlapping, reordered deliveries; crashes between statements | an event that names its store or user takes effect, once; a store's status is that of the subscription it is on |
| Customer requests, photos | `support_cases`, `case_attachments`, objects in R2 | submit, upload, link, reply, change of status, purge | select-then-insert, object and row apart | a need is filed once, a photo is filed with the case of its conversation |
| Consultations, visitor profiles | `consultation_requests`, `visitor_profiles` | submit, upsert | read-modify-write | no merge is lost |
| Onboarding | `merchants.status`, `adapterConfig`, `lastInstallAt`; `products`; the onboarding queue | ping, provision, retry, re-sync, connect, address; the job: safety check, fingerprint, catalog, selectors, smoke test | pings at once, retries of a half-done job, jobs side by side, edits during a job | a new store is started once, is never left waiting, is served only when checked, has no cart over a catalog without variant ids |
| KB ingest, scheduled jobs | rows per job | step sequences | retries | progress is monotonic |
| Executor tools, adapters, site graph, shared clients, dashboard pages, CLI | none of their own, or a single row | calls to models and store APIs, pure functions | — | — |

How they interact: the widget sends frames and host-action results to the API or, over the
LiveKit data channel, to the voice agent; both call `runTurn`, which reads the site graph
and writes cases, consultations and conversation records; the dashboard queues reads that
the worker runs; Razorpay calls the dashboard.

## 2. The models

### TextSession

The API starts an `async` handler per frame (`ws/agent.ts` does not await `onMessage`) and
Node runs them to the next `await`. So `TextSession` has a program counter `pc[f]` per frame
and one action per stretch of code between two awaits. What a handler carries over an await
is in its `snap` (the session object it loaded) and `turn` (ownership of the note queue,
host calls made, recorder).

| Code | Model |
| --- | --- |
| Redis `session:<id>`, `...:live-signal` | `store`, `liveKey` |
| the single Redis connection, answering in order | `replies`: a GET reads the store when it is sent (`SendGet`), replies are taken in order (`TakeReply`) |
| `turnNotes.get(sessionId)`, `ownsTurn` | `turnNotes`, `turn[t].owns` |
| `pendingHostActions`, its 5 s timers | `pendingHostActions`, `HostActionTimeout` |
| `recorders`, `emitConversation` | `recorder`, `created`, `emitted` |
| `user_text`, `card_tap`, `session_resume` | `TurnArrives`, `TurnLoaded`, `MerchantLoaded`, `TapCart`, `DispatchHostAction`, `SaveTurn`, `ExecutorError`, `TurnThrows`, `Classify`, `FinishTurn`, `FlushNotes` |
| `visitor_action` | `NoteArrives`, `NoteLoaded` |
| `host_action_result` | `HostActionResult` |
| `session_end` | `EndArrives`, `EndLoaded`, `EndDeleted` |

A history is a sequence of exchanges and notes: an exchange stands for the visitor's words,
the reply and the `[ACTIONS_DONE]` note, which one save writes together. A second result for
a call, or one for an unknown call, changes nothing in the code and is no action here.

`Pace` names three kinds of visitor: `"free"` sends whenever they like (the input is never
disabled), `"replied"` waits for the reply, `"settled"` until the turn's handler has ended.

### VoiceBridge

Each final transcript starts a turn. `turnSeq` and `current` are assigned together, so one
variable `current` stands for both and a turn is superseded when it is not current. The
promise `done` of a turn is its label `"finished"`; a turn whose loads throw is `"failed"`,
and never resolves it (the `try` starts later). `WindowCloses` is the passing of
`DUPLICATE_ADD_MS`. Whether an utterance continues the one before (the flusher decides) and
what the model calls are free choices. The bridge finds a half in the history by its text;
two utterances have different words here, so `Splice` finds it by the utterance.

### SiteRead

One store. Every `await` of a job that touches the database, Redis or a queue ends an
action; two of them share one only when what lies between cannot be seen by another job.

| Code | Model |
| --- | --- |
| `merchants.kb_excluded_paths` | `excluded` (the set of pages the rules match) |
| the BullMQ job `crawl-<merchant>` | `crawlJob`: there is one at most, a request finds it or adds it |
| `site_crawls`, `crawl_artifacts` | `crawls`, a sequence ordered as `startedAt`; a row has its status and its stored pages. `superseded` is the code's `failed` with the text "superseded by a newer read" |
| `site_pages` and their children (media, FAQs, links; not products) | `kb[p]`: the crawl that last wrote page `p`, 0 for none |
| `projection_cache` | `summary`: the `kb` it was made of |
| `sm:site-graph:lock:<merchant>` | `lock`; `Orphan` when its holder is gone and the key has not expired |
| jobs of `site-graph-extract` | `job[j]`: label, attempts left, stalls, and the local variables of `runExtractSiteGraph` |
| the exclusions route | `SaveExclusions`, `QueueApply`, `PostEnds`, `PostThrows` |
| `runCrawlSite` and its worker | `CrawlStarts`, `CrawlFetched`, `CrawlFails`, `QueueExtract`, `CrawlStops` |
| `withMerchantLock` | `Acquire`, `LockTimeout`, `Release`, `LockExpires`; `WorkerStops` is a killed process |
| the extract job | `CheckNewest`, `BeginRead`, `EarlySummary`, `StopReading`, `ReadPage`, `Recheck`, `Prune`, `SummariseRead`, `CloseRead`, `NothingRead`, `ReadThrows` |
| `applyKbExclusions` | `LookUp`, `Drop`, `SummariseApply`, `ApplyThrows` |

Which pages a crawl can fetch, which the model can read, and whether a page that fails had
written its row, are free choices. A deferred apply-exclusions job is the same job again.
What the route decides on with the old list (`reincluded`) only asks for a crawl, which
`RequestCrawl` may do at any time, so its SELECT and UPDATE are one step. A holder of the
lock that lives renews it in time: what a process that hangs for more than 180 s does is not
modelled. `isSuperseded` and the write of the page that follows it are one step (`ReadPage`,
`StopReading`): a crawl that starts between the two is seen at the next check, as one that
starts just after the write is.

### Billing

One process per delivery; one action per SQL statement (none is in a transaction), and
`Crash` between any two. Razorpay's redelivery is a bounded set of `Deliveries` per event.
A minted store is named by the delivery that minted it.

| Code | Model |
| --- | --- |
| `razorpay_events` | `ledger` |
| `merchants` (subscription, status, `deletedAt`, balance), `merchant_owners`, alerts | `sub`, `status`, `deleted`, `balance`, `owners`, `alerts` |
| the idempotency check, the event's row, `processedAt` | `Check`, `Record`, `MarkProcessed` |
| `subscription.activated` | `FindOwner`, then `KeepStore`, or `MintStore` and `AddOwner` |
| `payment_link.paid` | `AddTopup` |
| `subscription.pending`, `payment.failed` | `MarkPastDue`, `FindFailed`, `Alert` |
| `subscription.cancelled`, `.completed` | `FindCancelled`, `Cancel` |
| `account/delete/route.ts` | `DeleteAccount` |

Every branch that leaves the `switch` without an effect goes on to `processedAt`, as in the
code: notes that name no user, no known pack, no store or one that is not there, an event
about no subscription or one no store has. Two constraints of the database decide whether a
statement throws: `razorpay_subscription_id` is UNIQUE, and an owner's row refers to a store
that exists.

### Cases

One store. Each statement on `support_cases`, `case_attachments` or R2 is an action, as none
runs in a transaction with another. The clock `now` ticks; windows are compared with it as
the queries do.

| Code | Model |
| --- | --- |
| `support_cases` by its serial id | `cases`, a sequence: conversation, type, status, `createdAt` |
| an upload, its row in `case_attachments`, its object in R2 | `photo[p]`: label, `row`, `kase` (`caseId`), `at`, `object` |
| `submitSupportCase` | `SubmitSupportCase` (the search), `UpdateRepeat`, `InsertCase`, `SubmitFails`, `LinkSessionPhotos` |
| `submitConsultationRequest`'s mirror | `MirrorConsultation` |
| `POST /v1/care/upload` | `Upload` (the count), `PutObject` (object, then `latestSessionCase`), `SavePhoto`, `UploadBreaks` |
| `setCaseStatus`, `sendCaseReply` | `SetCaseStatus`; `SendCaseReply` (the read), `ReplySent` |
| `purgeCarePhotos` | `SelectBatch`, `DeleteObject`, `DeleteRows`, `PurgeStops` |

`request[r].known` and `.moved` and `parted` are history: what the customer would call the
same request when the call began, which of these the owner moved since, and the photos a
request's linking could not reach. Requests without a session neither search nor link and are
left out. `Casts` says which calls happen in one behaviour.

### GeminiLive

One thread; what interleaves are callbacks. A timer is a flag and an action that takes it
down; two delays are never compared, except that Gemini has noticed the start of a turn
(tens of milliseconds) when the end is sent (750 ms or more).

| Code | Model |
| --- | --- |
| `session`, `intentionalClose`, `reconnects`, the reconnect's timer and `connect()` | `net` |
| `model`, `manualTurns` | `model` |
| `turns.active()`, `pendingEnd` | `turn`: `"idle"`, `"open"`, `"ending"` |
| `holding`, `held`, `awaitFirstWords`, `holdTimer`; `discardOutput` | `hold`; `discard` |
| `createInputFlusher`, `captionTimer` | `words` |
| `stallTimer`, `lastUserText`, `pendingAnswer` | `ask` |
| what Gemini heard and says | `gem` (environment), `hist` (history) |
| tool calls | `calls[c]`: waiting in a hold, running in the action layer, done, or lost with their session |
| `onStart`, `onEnd`, `finishTurn` | `TurnStart`, `TurnContinues`, `TurnResumes`, `TurnPauses`, `FinishTurn` |
| `onmessage` | `Transcribe`, `NoticeInterrupt`, `GeminiSpeaks`, `GeminiCalls`, `ReplyEnds` |
| timers | `JudgeTimer`, `ReleaseTimer`, `CaptionTimer`, `QuietTimer`, `StallTimer`, `HealthyTimer`, `Reconnect` |
| `onclose`, `connect()`, `close()` | `SessionCloses`, `Connected`, `ConnectFails`, `HangUp` |

The verdicts on text (`utteranceHold`, `CLARIFY`) are free choices. What a session sends that
opens after the hang-up is left out.

### CallFlows

The worker runs in one thread; each `await` (an extraction, a page action, a row) ends an
action. A text is the set of intents the worker's patterns find in it, so which patterns
match which sentence is free.

| Code | Model |
| --- | --- |
| `toolsOn()` | `toolsOn`, lost for good by `ToolsOff` |
| `consultMode`, `contactMode`, `checkoutEntered`/`flowState.checkoutReached` | `mode` |
| `consultBooked`, `contactFilled`, `orderPlaced` | `completed` |
| `bookingConsult`, `completingOrder` | `busy` |
| `completeConsultation`, `completeOrder`, `completeContactForm` | `job[j]`: `Launch`, `NotExtracted`, `Extracted`, `ConsultSaved`, `Navigated`, `Filled`, `FillFails` |
| `submitConsultationOnce`, called by executor turns and tool calls | `once[p]`: `OnceCalled`, `OnceSaved` |
| `final_transcript`, `bot_text` | `HearVisitor`, `HearOlivia` |
| the executor's turn or the model's tool call for an utterance | `act[u]`: `Added`, `TurnDone` |
| the checkout gate | `gate[u]`: `ReadCart`, `CartRead`, `CheckoutShown` |
| `caseCaptureEnabled(merchant)` | `CaseCapture`: such a store takes requests instead of its contact form |

No property reads the checkout gate. It is there because its mode, `checkout`, is what starts
the order's completion. One intent, `"details"`, stands for `hasCheckoutSignal` and
`wantsDetailsFilled`, so some sentences do more here than in the code; `FillFails` is a page
action that fails and is tried again, and a throw (straight to the `catch`) ends the same way.

### CallLife

The visitor taps once. A line per transport, at most two; at the far end of each a worker
that runs `runVoiceSession`. Both sides are one module because what goes wrong is between
them: a message sent before the listener is there, a close one side does not hear of.

| Code | Model |
| --- | --- |
| the WebSocket, the LiveKit room | `line[t]` |
| `createVoiceModeWithFallback` | `client`: transport in use, watchdog, `hadAudio`; `Switch`, `NoAudioTimer` |
| `voiceModeWs`, `voiceModeLiveKit` | `voiceMode[t]`: state, the async part of `start()`, `started`, microphone; `Warm`, `Tap`, `AskForMic`, `MicOn`, `MicDenied`, `LineFails`, `OnClose`, `EndCall`, `WarmIdle` |
| `runVoiceSession` | `worker[t]`: `Loads`, `Prepares`, `Opens`, `SetupFails`, `WarmWatchdog` |
| `goLiveP`, `live` | `gate`, `live` |
| `onDisconnected`, the shutdown callback | `OnDisconnected`, `RecordOf`, `RecordWritten`, `JobEnds` |

`JobEnds` (a LiveKit job's process ends with its room, after the shutdown callbacks) is the
agents runtime's behaviour, taken from the comment at `agentWorker.ts:1612`. Pre-greeting is
on, the default.

### PendingCalls

Text session and bridge each keep a `Map` of pending host calls with a timer per entry.
`PendingCalls` is what its users rely on: a call is opened once, then settled or dropped,
once. `TextSession!CallsKeptOnce` and `VoiceBridge!CallsKeptOnce` state that both implement
it under a refinement mapping (settled calls are those made that are neither pending nor
dropped); the bridge never drops any.

### Onboarding

One store. A ping is every page load with the widget; the other actors are the operator's
`retry-onboarding` command, the Shopify app, and the owner in the dashboard. Each statement
on the row is an action, and so is each step of the handler between two of them; the worker
takes four jobs at a time, so jobs interleave.

| Code | Model |
| --- | --- |
| `merchants.status`, `.platform`, `adapterConfig.transactionalDisabled`, `.lastInstallAt` | `store` (`lastInstall`: never, today, or a day ago) |
| `products` of the store, by where their catalog came from | `store.goods` |
| `POST /v1/install` | `Look` (the SELECT and `nextInstallAction`), `Flip` (the conditional UPDATE), `Touch`, `Add` (the queue), `Breaks` |
| `retry-onboarding`, `provisionShopifyMerchant`, provisioning | `RetryLook`, `retryOnboarding`; `provisionShopifyMerchant`; `Provision` |
| the dashboard's re-sync, a Composio connection, the address form | `Resync`, `ConnectionActivated`, `StartUrl` |
| what else writes `products`: reads of the site, Shopify's product webhooks | `extractSiteGraph`, `ProductWebhook` |
| a job of the onboarding queue, its attempts | `job[j]`: `Start`, `Throw`, `JobBreaks` |
| the steps of the handler | `safetyCheck`, `fingerprint`, `catalogSync` (fetch and DELETE), `writeProducts` (INSERT), `selectorExtract`, `FinishShopify`, `smokeTest`, `Close` |

What the site is, what its catalog holds and which step fails are free choices (`Kinds`,
`Sources`), and so is which products a read or a webhook adds and takes away. A worker that is
stopped is counted as a failed attempt. `orphaned`, `starts`, `cleared`, `overlapped` and
`parted` are history: they name the ways a store is lost and the conditions under which a job's
results are those of one job.

## 3. What TLC checks

| Run | Instance | Shows |
| --- | --- | --- |
| `TextOverlap` | 2 turns, 1 note, 1 `session_end`, free visitor, with fairness | one owner of the queue, waiting turns can be woken, one record per conversation, no repeats in the history, `PendingCalls` is implemented, every turn ends |
| `TextSettled` | 3 turns, 2 notes, a visitor who waits | exchanges are kept and counted |
| `TextRace` *violation* | 2 turns, 1 note, a visitor who waits for replies | a note and a turn's save overwrite each other |
| `VoiceTurns` | 3 utterances, or 2 with barge-ins and 2 calls each; 1 product, 1 page action; with fairness | a withdrawn half never acts, words are kept, a follow-up is told, no double add, a silenced turn stays silent, `PendingCalls` is implemented, every turn ends |
| `BillingRetries` | an owner who moves to a new subscription while the old one fails and ends, a new customer with two subscriptions (one activation twice), or events that lack what their branch looks for | processed events have taken effect, a store's status is that of its subscription |
| `BillingTwice` *violation* | 1 event, 3 deliveries | a top-up can be credited twice |
| `SiteReads` | 2 crawls, 2 pages (one a blog post), 1 change of the exclusions, 1 thing that goes wrong | jobs of a store never overlap, skipped pages are forgotten, the summary follows the knowledge base, no read writes behind a newer one |
| `Requests` | 1 conversation; 2 requests and a reply, a request and 2 photos, or 2 requests and a photo; 1 change of status, consultations, the purge | a need is filed once and a correction does not land in a handled request, a photo is filed with the case it found or the request that links it, row and object go together |
| `VoiceLine` | 3 fragments, 2 replies, 1 tool call, 2 sessions, 1 reconnect, with fairness | a dropped reply is never heard, every tool call is held, with the action layer or answered, words before the answer, holds end, a stalled question is asked again |
| `VoiceCall` | `CallFlows` with 2 utterances and 2 callers of the booking, and `CallLife`, with fairness | two bookings only of attempts under way together, the two forms are never filled at once, busy flags come down, unused lines close, nobody is stuck on the WebSocket, the record is written before the process ends |
| `NewStore` | two pings, a ping and the Shopify app, or the app and the operator; 2 jobs of 2 attempts, 1 edit, day, read of the site or product webhook; with fairness | a store that waits is worked on, a new store is started once, no cart over a catalog crawled without variant ids, a served store is safe, a store is decided |
| `MicReleased` *violation* | one call, one tap | the microphone comes on after the call was ended while it was starting |

Every type invariant is proved, and none is repeated in a run.

`VoiceTurns` runs `MCSpec`: the third utterance is spoken only in calls in which no event was
routed, the voice model said nothing of its own and no turn called the page twice (`Plain`).
Without it the instance has several million states; with it three utterances overlap in every
way, and two utterances overlap with all that `Plain` excludes.

`VoiceCall` is the sum of two models that share no variable: `part` says which one steps.
That is sound because each behaviour of the sum is a behaviour of one of them beside the
initial state of the other, and no action either treats as fair is enabled where it begins
(no completion runs, no line is open), so the fairness of the part that rests asks for
nothing. The instance with `toolsOn` belongs to the flows only.

**Bounds.** Two turns overlap in every way two turns can; what a third could add (ownership of
the note queue passing on) is in `TextSettled` and, for any number, in the proofs. `MaxCalls`
(1 or 2 host calls per turn, the code allows 8 rounds) covers a call made after one that timed
out, in `VoiceTurns`. `CapTurns = 2` reaches the cap. Three utterances are needed for a half,
its rest and a turn in between. `MaxEvents` and `MaxSpoken` only bound counters. For
`BillingRetries` three casts are enough, as deliveries meet only at a user's store or at a
subscription: Ann's store gets the failure and the end of its first subscription, the
activation of a second and a payment, in any order; Bob is new, with overlapping activations of
one subscription and of another and a failure; the third cast has the events without effect.
For `SiteReads`, two crawls are the fewest that supersede one another, two pages with a
supersede check every second one (`CheckEvery`; 5 in the code) put the check before and after a
write, and one blog post brings the early summary. One fault (`MaxFaults`: any failure, stop or
timeout) at any step exercises each recovery; with two faults the same properties hold over 9.4
million states, too many for the regular run. `Attempts = 1` (3 in the code) lets a job fail
for good within that bound; a stalled job (`MaxStalls = 1`, BullMQ's default) is still run a
second time.

`Requests`: two calls are the fewest that can repeat one another; windows of one tick with a
clock of two put each call inside, at the edge and outside of them (`createdAt` is compared
strictly, as in the code). The casts leave out two requests with two photos and a reply at
once, which are independent. `MaxPhotos = 1` (3 in the code) reaches the limit; three rows of
`support_cases` hold two requests and a mirrored consultation. `VoiceLine`: three fragments are
a turn, its continuation and a new turn; a second session and `MaxReconnects = 1` (3 in the
code) reach both a reconnect and an exhausted budget; `StalledIsAskedAgain` excepts a behaviour
that has used up the model's sessions. `VoiceCall`: two utterances start two completions or a
completion and the checkout gate; two callers beside the completion overlap in each pair.
`NewStore`: two pings are the fewest that race for the compare-and-swap and two jobs the fewest
that overlap; two attempts (5 in the code) have a first and a last; one event puts an edit, a
read, a webhook, or the day after which a ping restarts a store, before, between or after any
two steps. The casts leave out the operator beside a ping, whose jobs are those of the operator
beside the app.

**Fairness.** Weak fairness of what a handler does by itself: model calls have a 60 s abort,
queries and Redis replies end in an answer or an error, timers fire. None of frames arriving,
of the widget answering, or of the visitor; `TurnEnds` needs none of these. It excepts the
turn whose call a `session_end` threw away: its promise is never resolved and the handler
stays parked (`apps/api/src/index.ts:210`). `Billing`, `SiteRead` and `Cases` state no
fairness: their properties are of safety, and a store may wait for hours for its read.
In `GeminiLive` the two timers of the hold and the reconnect's fire, a session told to close
does, and `connect()` resolves or fails; Gemini owes no message and the visitor no word. In
`CallFlows` a completion goes on: the model call and the row end in an answer or an error and
a page action in its result or its 5 s timeout. In `CallLife` connections are made or fail,
timers fire, the awaits of the set-up end, and the visitor answers the browser's question
about the microphone; that a live worker is heard is assumed for the audio path. Hovering,
tapping, ending and dropped lines are never owed. In `Onboarding` a request under way ends, in
an answer or an error, and the worker does not stand still while jobs wait (one fairness
condition for all of them: BullMQ runs what is queued, and no attempt waits for another). No
page load, address or command is owed, so `StoreIsDecided` does not lean on the ping that
restarts a store after a day.

**Deadlock** checking is off: all instances have finitely many frames, utterances,
deliveries, crawls or jobs and stop when these are handled.

**Mutants.** Each property of a passing run has a mutated definition, next to the original,
that breaks it: the operators marked `mutant`.

## 4. What is proved

`TextSession_proofs`, for any sets of frames and steers, any cap and any pace, from
`TextSessionAssumption` (frames are of one kind each, turns are finitely many, bounds are
naturals):

- `TypeCorrect`: `Spec => []TypeOK`.
- `QueueHasOneOwner` and `WaitersCanBeWoken`: `Spec => []OneOwner` and
  `Spec => []WaitersAnswerable`. Neither is inductive alone. `SessionInv` joins them with the
  types: a turn arriving owns the queue only when there is none, and by `OneOwner` then no
  other turn owns it; in the other direction an owner's finally block removes the queue, and
  uniqueness shows no owner is left. For `WaitersAnswerable` both conjuncts need each other:
  the removal of a call from the table wakes just the turn that waits for it because the
  table holds no call of another turn.
- `CallsImplement`: `Spec => Calls!CallsSpec`, the refinement of `PendingCalls`. It needs
  `SessionInv` and that dropped calls were made and left the table (`DroppedCalls`).
- `ConversationRecordedOnce`: `Spec => []RecordedOnce`, strengthened by: every recorder is
  numbered at most `created`.
- `NothingTwice` and `CountIsExchanges`: `Spec => []HistoryNoRepeats` and
  `Spec => []CountMatchesHistory`, at any pace, though handlers load the session, work on their
  copy and save it over whatever was saved meanwhile. Both follow from `HistoryInv`, which
  speaks of every copy and not of the saved session alone, as any copy may be saved next: a
  copy has no repeats, the right count, only turns that came to their save (`Saved`; so a turn
  that saves is not in it yet) and only notes that nobody holds any more (`Gone`; so a note
  that is written is not in it yet). `NotesApart` says that a note held is held once, in the
  queue or in the batch of one turn.
- `ExchangesKeptUntilEnd` and `ExchangesKept`, for a visitor who waits until the previous
  turn's handler is through (`Pace = "settled"`): the first says that no exchange saved is lost
  while no session_end has arrived, the second is `Spec => ExchangeKept` for one who never
  sends it. (Without the hypotheses both are false: that is what `TextRace` shows of the pace,
  and a note whose read crossed a session_end brings the ended session back, which the next
  turn, loaded in between, then overwrites.) `SettledInv` says that one turn runs at a
  time and owns the queue (`TurnsApart`, `EachOwns`); that a note which writes directly has its
  read in the connection's line, before that of the next turn (`InLine`, `NoteLabels`), so no
  note holds a copy while a turn works on its own (`NoOtherCopy`); and therefore that every
  copy yet to be saved has the exchanges that are saved (`CopiesAgree`).

`SiteRead_proofs`, for any pages, crawls, apply jobs, attempts and number of faults, from
`SiteReadAssumption` (apply jobs are not named like crawls, the lock's two marks are no jobs,
bounds are naturals):

- `TypeCorrect`: `Spec => []TypeOK`;
- `LockExcludes`: `Spec => []ReadsNeverOverlap`;
- `ForwardOnly`: `Spec => NeverBackToOlder`;
- `SkippedPagesGo`: `Spec => []SkippedForgotten`;
- `SummaryIsCurrent`: `Spec => []SummaryCurrent`.

The first three come from one invariant, `StoreInv`. Beside the types and the lock's it says
that a job which can still run has attempts left (`Spare`: else `tries - 1` leaves its type),
that a crawl's extract exists only once the crawl does and the active crawl has none yet
(`Queued`: else a queued extract could overwrite one at work), and that while a read is at
work no page is newer than it (`NoneNewer`: it was the newest when it passed the check under
the lock, and since then nobody else could write, as the lock excludes). The argument about
the lock is made once for all actions: `JobsLive` shows that every step leaves jobs and lock
alone, lets the lock expire, or leads one job on along `Life`.

The other two speak of a store at rest, so their invariants say what is still owed before it
rests. `SkipsOwed`: a skipped page that has a row, or that the read at work may yet write
because it began with an older list, is owed by a request that has not queued its job, or by a
job that will look the pages up again, has this one to drop, or has failed for good. Only
`LookUp` and `Drop` settle it, and both have the lock, so no read is at work that could write
the page behind their back. `SummaryInv`: where summary and knowledge base differ, an apply job
or the newest read has yet to make the summary, or has failed (`SummaryOwed`). An older read
that is still at work when a newer crawl starts changes pages and then gives up without a
summary; that is safe because the newest has not got the lock yet (`NewestWaits`) and will make
its own.

`VoiceCall_proofs`, of `CallFlows` for any utterances, narrations and callers, from
`FlowAssumption` (the bounds, and that no caller of `submitConsultationOnce` is named like
the completion):

- `FlowTypeCorrect`: `FlowSpec => []FlowTypeOK`.
- `BookedOnce`: `FlowSpec => []BookedTwiceOnlyTogether`. Not inductive: the booking saved
  second may have begun before the first was. `BookInv` says of a call in which no two
  attempts crossed that at most one is in flight, and that nothing is saved yet or one
  booking is, the call is marked and no attempt is in flight: the next one then finds the
  mark and returns.
- `OneFormAtATime`: `FlowSpec => []FillsNeverInterleave`. `FormInv` says that a completion
  which runs has its flag up and that the two forms, which share one, never both run.

and of `CallLife` (the module has no constants; the theorems hold for behaviours of any
length):

- `LifeTypeCorrect`: `LifeSpec => []LifeTypeOK`.
- `RecordKept`: `LifeSpec => []RecordSurvives`, from `RecordInv`: the types; that while the
  WebSocket is in use nothing has happened on LiveKit (`NotYet`); and per line `Kept`: a
  worker that said something has its handlers in place, is live until its process ends, and
  once its line is closed has its record begun.

`VoiceBridge_proofs`, for any number of utterances, products, page actions and routed
events, from `VoiceBridgeAssumption` (bounds are naturals; products, moves and reads are
apart). Every safety property of the bridge is proved: `TypeCorrect`, `HalvesNeverAct`
(`WithdrawnNeverActs`), `NoWordsLost` (`WordsKept`), `FollowUpsAreTold` (`FollowUpIsTold`),
`AddedOnce` (`NoDoubleAdd`), `SilentAfterBargeIn` (`SilencedStaysSilent`) and
`CallsImplement`, the refinement of `PendingCalls`. All follow from `BridgeInv`. Beside types
and properties it says: a turn that has not begun has no words, no half and no note
(`NotBegun`: so no words are kept by it); a withdrawn turn is not in charge (`HalvesOut`: only
the turn in charge acts, and a turn is put in charge once); whoever added a remembered product
has begun (`AddsRemembered`: its text, on which `NoDoubleAdd` depends, is final); a silenced
turn in charge means the flag is up (`FlagMeans`); a pending call is the last of a turn that
waits for it (`CallsAwaited`); and the note of a finished turn stands in the history after the
visitor's words of that turn (`DoneAfterSaid`). The last needs the order of the entries, not
just their presence: what runTurn is given begins at the visitor's first words, and a
withdrawal takes an entry out of the middle (`Spliced`).

`Billing_proofs`, for any events, deliveries, users and stores, from `BillingAssumption`:

- `TypeCorrect`: `Spec => []TypeOK`;
- `NothingLost`: `Spec => []ProcessedMeansApplied`;
- `StatusIsOfItsSubscription`: `Spec => []StatusFollowsSubscription`.

Neither is inductive: the ledger is set from where the delivery stands alone. `BillingInv` says
what each place in the handler means (`LabelsMean`: a delivery that is about to mark the event
has applied it, or its event does not say whom it is for), that owners and their stores stay
(`OwnersStand`), that a store is past due or canceled only for a cause (`LapsesHaveCause`: the
statements choose by the subscription a store is on when they run, not by the store looked up
before), and that what a processed failure or end did lasts (`ProcessedLapsed`: only an
activation makes a store active again).

`Cases_proofs`, for any conversations, requests, photos, windows and retention, from
`CasesAssumption` (the window of a repeat is no longer than that of a photo; no request is of
the type of a mirrored consultation, as `CASE_TYPES` has it):

- `TypeCorrect`: `CaseSpec => []CaseTypeOK`;
- `PhotosKept`: `CaseSpec => []PhotoAndRow`;
- `PhotosFindTheirCases`: `CaseSpec => []PhotosAreFiled`;
- `RepeatsMeet`: `CaseSpec => RepeatsGoTogether`.

`CasesInv` adds what a request remembers of its search, what the purge holds and has deleted,
and that a request which has linked its photos has left none behind that is not on its own
way to it (`LinksMade`). That the latest of the ids found is one of them is proved by
well-founded induction (`MaxOfIds`).

`GeminiLive_proofs`, for any amount of speech, replies, tool calls and reconnects and at least
one session (`GeminiAssumption`):

- `TypeCorrect`: `LineSpec => []LineTypeOK`;
- `FirstHalfUnheard`: `LineSpec => []DroppedIsNeverHeard`;
- `CallsAccounted`: `LineSpec => []NoCallForgotten`;
- `WordsComeFirst`: `LineSpec => WordsBeforeReply`.

`NoCallForgotten` is inductive. `DroppedIsNeverHeard` is not: the flag that drops the rest of
a reply comes down at the end of the visitor's turn, which is safe only because by then Gemini
has noticed the turn and gives no reply (`TurnMeans`), and the next reply has a new number
(`ReplyInv`).

`Onboarding_proofs`, for any number of pings, jobs, events and attempts, from
`OnboardingAssumption` (the pings are finitely many, the operator and the app are neither
pings nor the same, bounds are naturals, there is at least one attempt):

- `TypeCorrect`: `Spec => []TypeOK`;
- `NeverLeftWaiting`: `Spec => []OnboardingIsWorkedOn`;
- `StartsOnce`: `Spec => []PendingStartsOnce`;
- `ServedWasChecked`: `Spec => []ServedStoreIsSafe`;
- `CartFitsCatalog`: `Spec => []CatalogFitsCart`.

`OnboardingIsWorkedOn` is not inductive: a job that only has its metric left to write would
count, and its end would leave the store alone. `Awaited` asks for a job that has yet to write
the row; every way out of such a job writes it or marks the store as lost. `Room` says that
whoever is about to queue a job finds a number for it below the model's bound.
`PendingStartsOnce` needs that a store that was started is never new again (`StartedOnce`). For
`ServedStoreIsSafe`, `SoloInv` says what `alone` and `overlapped` mean: a job is alone only
while it is the one that runs and has not chosen an adapter, jobs that have not overlapped run
one at a time (`OneByOne`), and the one at work past its check has seen it pass
(`CheckedBefore`). `CartInv` adds what row and products are while such a job fills the catalog
(`Filling`): the row says "onboarding" and is of the job's platform, and of the catalogs of
onboarding jobs there is none before the job writes and only its own after. Reads of the site
and webhooks may write at any step; `Restocked` says that they add no catalog of a crawl.

Only model-checked: liveness (`TurnEnds`, `HoldEnds`, `StalledIsAskedAgain`, `BusyEnds`,
`UnusedLineEnds`, `PrimaryNeverStuck`, `StoreIsDecided`), which is out of the prover's reach.
Every safety property a passing run checks is proved.

## 5. What the models show the code does

Three runs find a property violated that a comment of the code states: `TextRace`,
`BillingTwice` and `MicReleased`; `PROJECT.json` quotes the lines under "findings". Some other
behaviours the models contain, or that were met while writing them, surprise; most contradict
a comment or a design document, and no property is about them:

- a turn whose model fails twice forgets what it did on the page (`runtime.ts:441`,
  `ExecutorError`);
- a steer the classifier has cleared goes on steering from the saved session
  (`apps/api/src/index.ts:414`);
- a note whose read is under way when a session_end deletes the session saves its copy and
  brings the ended session back (`apps/api/src/index.ts:188`, `NoteLoaded`);
- a half-sentence withdrawn while it loads joins the history afterwards (`bridge.ts:152`);
- a read stops in favour of a newer crawl that failed (`apps/worker/src/index.ts:121`);
- a hang-up between a close and its reconnect opens a Gemini session that nobody closes
  (`geminiSdkTransport.ts:526`), and a reconnect that fails is not tried again (line 549);
- when a quota close comes while `discardOutput` is up, the fallback model, whose turns have
  no `finishTurn`, stays muted for the rest of the call (line 259 is the only reset);
- a `start_voice` that arrives before the worker listens is lost (`agentWorker.ts:525`), and a
  line that closes before the worker's handlers are there leaves its ticker and its Gemini
  session open;
- the owner's reply to a request that was handled meanwhile reopens it
  (`packages/db/src/notify/care.ts:155`, `ReplySent`);
- "Re-sync now" (`web/src/app/api/merchant/resync/route.ts:13`) and a Composio connection set
  the status to "onboarding" and queue nothing, where
  `docs/superpowers/specs/2026-05-04-phase2-brand-dashboard-design.md:462` says "Re-trigger
  catalog sync". The next pings take it that a "job is already in flight"
  (`2026-04-30-shoppingmate-phase1-plan2-provisioning-design.md:99`) and note the time of
  their visit, so the restart after a day never comes to a store with daily visitors
  (`Resync`, `Touch`; `orphaned` in the properties);
- a job whose last attempt breaks outside the steps that catch (the safety check among them)
  leaves "onboarding" for good; line 146 of the same design promises a final hook that writes
  "failed", and the code has none (`JobBreaks`);
- two pings a day later both pass the compare-and-swap, which swaps "onboarding" for
  "onboarding" (`install.ts:117`), and start two jobs that run side by side;
- a storefront catalog that comes back empty leaves the products of an earlier crawl, whose
  variant ids are not there, in a store that goes live with its cart on, which
  `apps/worker/src/steps/shopifyFinalizeOutcome.ts` is there to prevent (`catalogSync`);
- a store whose selectors cannot be made out is "degraded" and returns before its pages are
  queued for reading (`handlers/onboarding.ts:294`), against the comment at line 386;
- the read each Shopify onboarding queues (`handlers/onboarding.ts:345`) puts products with
  `variants: null` beside the catalog of a live store with its cart on
  (`extractSiteGraph.ts:209-236`): they are keyed by the sku of the page's JSON-LD, the catalog
  by handle, so they are additional rows that no cart can be filled with (`extractSiteGraph`;
  `CatalogFitsCart` therefore speaks of the catalogs of onboarding jobs only);
- an address entered after the safety check is not checked (`StartUrl`);
- the billing webhook marks an event processed that it did nothing for: notes without a user
  (`route.ts:52`) or a known pack (96-98), an update that hits no row (101); a payment with
  such notes is then lost without an error (`FindOwner`, `AddTopup`, `SaysWhom`);
- a delivery that stops between making a store and naming its owner (`route.ts:84-85`) cannot
  be repaired by the next: the store holds the UNIQUE subscription id, the retry's insert does
  nothing, and the owner's row then refers to a store that does not exist (`MintStore`,
  `AddOwner`); the subscriber gets no store however often the event is delivered;
- two overlapping activations of different subscriptions of a new user make two stores, which
  the comment at `route.ts:54-56` says no longer happens;
- the critical alert of a late failure may reach a store that has moved on to another
  subscription between the statements at `route.ts:115` and 119 (`Alert`);
- an activation that comes after the account was deleted sets the deleted store to "active",
  and the deletion cancels a Stripe subscription only (`account/delete/route.ts:15`,
  `DeleteAccount`, `KeepStore`);
- a photo that found an older case, or the mirror of a consultation, at its upload stays there:
  a request made later in the conversation does not get it, against `submitCase.ts:135`
  ("Photos the shopper added earlier in this conversation belong to it"; `PutObject`,
  `LinkSessionPhotos`).

## 6. Not modelled

In the modelled parts: the 24 h TTL of a session, `tour_request` (logged only), the SMOKE model
override, what the models say, `pendingLiveSignal` and `closeRoom` of the bridge, signature
check and parsing of the webhook, its plans, customer ids and `resolvedMerchantId`, the
(unique) domain of a store, requests without a session, the products a read finds (in
`SiteRead`; `Onboarding` has them), `site_graph_version`, a lock that its living holder fails
to renew, mails and timeline events of a request, audio bytes, energy thresholds and prompts of
the voice transport, the greeting cache, captions, cards, mute, a second tap on the same call,
a tap after the warm line was dropped (it opens a new one), LiveKit's own reconnect, and what
an unhandled rejection does to the process (`agentWorker.ts:571`). Of onboarding: origin,
domain and rate checks of the ping, the metrics, the brand profile, the rules of the
fingerprint, the catalog clients and `suggestAdapter`, the domain in a job's payload (the job
does not re-read the row), the status "suspended", an answer of the safety check whose UPDATE
fails (both are one step: the next attempt asks again), and the crawl a finished job queues:
`SiteRead` may start one at any time, and what its read does to the products is
`extractSiteGraph` of `Onboarding`. The stores' APIs, the model providers, LiveKit and the
browser are external: they answer, fail or stay silent. The parts of section 1 without a module
are pure functions over text, single statements or content; `PROJECT.json` gives the reason for
each.

## 7. Plan

1. `Visits`: the end of a session, attribution and visitor profiles, whose
   read-merge-write loses a merge (`visitorProfileRepo.ts:45`).
2. An abstract `KnowledgeBase` (what a merchant may expect of the store's pages) that
   `SiteRead` implements.
3. `KbIngest`: `ingestKbDoc.ts`, where an edit saved during an ingest is overwritten by it and
   two ingests of one document double its chunks.
