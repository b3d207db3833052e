# Verification of wpp-bot

TLA+ models of the core of the deal bot, the TLC runs that check them on small instances,
and proofs that TLAPS checks for every instance. Every definition is translated from the
code under `src/src` (the bot) and `src/web/src` (the panel); `PROJECT.json` names the
lines behind each one (`map`), the runs, at least one plausible bug per property that its
run catches (`mutants`), the places where the code is easy to get wrong (`hazards`) and
the theorems.

Contents: 1 the system, 2 the modules and the code, 3 the runs, 4 fairness, 5 the proofs,
6 where code and comments part, 7 what is not modelled, 8 the plan.

## 1. The system

One NestJS process collects deals from Mercado Livre and Shopee on a schedule, screens and
scores them, and puts the survivors on a BullMQ queue in Redis, or in a table from which a
person approves them in a panel. One worker takes jobs one at a time, confirms prices that
got old, and publishes to WhatsApp groups (Baileys) and Telegram channels. PostgreSQL keeps
what was posted, the price history, the pending deals, the audit, the counters and the OAuth
token. The panel is a page in a curator's browser that polls the bot and sends it decisions.
There are no threads: what makes the system hard is that every `await` is a point
where another request, timer, cron or callback may run, that Redis and the tables survive
the process, and that memory does not.

| component | state | operations | talks to | hard because | correct when |
|---|---|---|---|---|---|
| send path: `PipelineService.enqueueScored`, queue, `SendDealWorker`, `DedupService` | BullMQ jobs, wait list, delayed jobs; DedupEntry; the attempt at hand | add, take, hold, re-scrape, publish, mark, complete, retry, promote, recover, prune | fed by scheduler and approval queue; publishers, formatter, price scraper | failures and crashes between publish and mark; retries, LIFO adds, promotions and recovery of stalled jobs move one job between lists; job ids that Redis retains | no message repeated without a failure; what was sent is marked; every job settles; urgent jobs overtake |
| approval queue | PendingDeal rows, audit rows | hold, refresh, approve, reject, preview, expire | scheduler holds, panel decides, approve enqueues | tick, sweep, and requests meet on one row between its read and an unconditional update | no approval is lost without a word; discarded rows were not sent; one decision per row |
| curation gate and judge cache | verdict cache in memory; each run's pool, budget | select for dispatch, ask the judge, remember | called by every dispatch | runs overlap; a verdict is reused for another price, later, or evicted; the judge fails | fail closed; budget; category diversity |
| collection: scheduler, pipeline, `CurationService`, ML source | `tickInFlight`; price history in memory and table; `rawIndex`; dedup table | tick, discover, screen, record, enrich, boot | feeds, dedup, enrichment | manual runs overlap ticks; the same data is read and written by a tick; three prunings at boot | a price does not judge itself; dedup window survives restarts; a failing run does not stop the scheduler |
| rate limiter | counters in memory and WaCounter | canSend, recordSend, load, prune | worker, DM alert | check and count are apart; absolute saves overlap; restarts | bounded overshoot; the table follows; restarts remember |
| WhatsApp connection | `sock`, `ready`, attempts, timer, `reconnectExhausted` | connect, open, close, reconnect | Baileys events | late events of an old socket, timers, a `connect()` that throws | one connection; it comes back or gives up visibly |
| ML token service | token in memory and in MlToken, shared refresh | get, proactive refresh, exchange, boot | OAuth server, ML client | refresh tokens work once; answers get lost; writes fail | single flight; durable before used; the live token is not lost |
| affiliate browser | browser, context, `initPromise`, link cache and table, latch | resolve, scrape, start, reload | Playwright, JSON adapter | shared start, reload during start, dead browser | one start at a time; no browser lost; calls end |
| quiet hours | none | window test, delay to its end | worker, scheduler | wrap past midnight, odd hours, units | nothing sent inside; back right at the end |
| prices: analytics, deal score, coupons, scraper cache, captions | price history, coupon table, cached page views, what a card and a job carry | score, boost, hold, edit, scrape, choose a coupon, check again, print | collection scores, panel edits, dispatch and worker scrape, template prints | the price of one deal is the API's, the page's or a person's, and is read, cached, held and queued before it is printed with a coupon chosen for another one | the printed price is not older than its parts may be; the coupon belongs to it and is valid; a person's price stays; a lower price never scores less |
| publishing targets, opt-out | WaTarget, WaOptout, throttle in memory | boot import and seed, add, pause, remove, `/sair` | panel's endpoints, group messages; worker reads targets | pausing is an add, a read and a write; requests cross; boots write too | as last told, through restarts; whoever was told that he is out is |
| enrichment, seller cache | map, file, `writeLock` | enrich, get, set, persist | Mercado Livre API; `MLSource` | two calls per deal of which one fails; writes in turn; crash in a write | a good answer is not lost; the file is whole |
| headlines | copy, cache map, file, write queue | generate, persist, load | formatter; DeepSeek | the gate depends on a copy that changes between boots; cut-off writes | only lines the gate passed; the file follows memory |
| short links | ShortLink table | wrap, create, follow | formatter; readers | captions rendered together, random codes | each link leads to its own deal |
| DM alert | `lastAlertSentAt` | tick | approval rows, publisher | ticks may overlap; rows are inserted between the list and the mark | no deal overlooked, none repeated |
| panel, queue page and cards | list, polls, open decisions, each card's editor and preview | poll, approve, reject, edit, preview, key, tabs | approval endpoints | lists and answers arrive late; optimistic removal and snapshots | you see what you send; one decision per row; the page converges |
| panel, composer | form, preview, submission | type, resolve, preview, submit | manual endpoints | answers meet another form; lost answers are retried | one card per submission; the preview is of the form |
| panel, settings and history | drafts and effective values; page and items | load, save, turn | ops-config, history | saves and loads overlap; the app's renders reload the tab | a draft is kept; what is shown is what the server has |
| ops config | OpsConfig rows, environment | resolve, set | crons, panel | a malformed row | falls through to the next source |
| feed rotator | weights, last pick | pick, persist, load | ML source | ties, stale state after a restart | no feed starves or repeats |
| formatting, publishers, metrics, HTTP API, bootstrap | none of their own | — | — | — | — |

## 2. The modules and the code

State variables carry the code's names where it has one; comments in the modules name the
rest. In every module one action is what a handler does between two awaits (or a whole
handler that has none), and ghost variables, marked so, only record history for a property.
Bounds are constants called `Max...`, spent from a `budget` or `fails` variable.

| module | models | how |
|---|---|---|
| `Delivery` | the promise of the send path | per job: none, pending, done, dead; what it delivered, whether it failed after a delivery; the marked deals. A job with nothing marked wrong may deliver once; repeating needs a failure. |
| `SendQueue` | `enqueueScored`, BullMQ, `SendDealWorker.process*`, `DedupService.markPosted` | `Dispatch`/`Approve` plan the adds of one activation (Telegram singles, then WhatsApp digests, chunked and capped as `Plan`), `Add` is `Queue.add` with a job id; `Take`, `Hold`, `Check`, `Rescrape`, `Discard`, `Publish`, `Mark`, `Complete`, `FailBefore`, `FailAfter` are the attempt; `Promote`, `RecoverStalled`, `Prune` are BullMQ; `Crash` ends the process. Instantiates `Delivery` with a refinement mapping (`Promise`). |
| `ApprovalQueue` | `ApprovalQueueService`, its repository, the panel's controller, the hold of manual deals | each request, the tick and the expiry cron are handlers with a program counter; `Read`/`Ruling` is `mustBePending`, `Mark` is `markDecided`, `Audit` the upsert and the answer. `Select`, `AddJob`, `AddsDone` are `enqueueScored`: the gate may drop the deal, and adds may fail unheard; of several targets the first add that works is the one that counts. |
| `CurationGate` | `selectForDispatch`, `JudgeVerdictCache`, the judge's adapter | `Block`, `AutoApprove`, `UseVerdict`, `OverBudget`, `AskJudge` are the branches for the deal a run looks at; only a judge request awaits. `cache` is the insertion-ordered map, oldest first. |
| `Collection` | `SchedulerService.tick`, `runOnce`, `scorePipeline`, `screenRaw`, `CurationService`, `MLSource`, boots | a run goes from jitter over feeds to screening, recording, pre-score cut and lookup; the history is a set of observations, `Median` a definition by rank. |
| `PriceHistory`, `DealScore` | `CurationService`'s statistics, `price-analytics`, `DealScoreService` | functions on a set of observations: `Analyze` takes the windows, one operator per factor, `RawScore` adds them up. `Collection` and `Pricing` use them. |
| `Coupon` | `coupon-math`, `CouponService`, `CouponRepository`, `curator-edits`, the template's coupon line | functions: `Views` is `computeCouponView`, `Resolve` runs `Better` over the rows as the loop of `resolveForDeal` does, `PrintedFinal` is `couponLine` with `couponFinalOver`. |
| `Pricing` | the way of one deal's price: `scorePipeline`, `applyCouponBoost`, `holdPending`, manual deals, `applyEdits`, `enqueueScored`, `scrapePriceView`, the worker's checks, `ofertasTemplate` | `Screen`/`Score` are a run, `Compose`/`Dispatch` the panel (or, with approval off, the run's own dispatch), `PrintAsIs`/`PrintRefreshed`/`Drop` the worker; page, coupon table and clock change by themselves. `by` tells who said a price: the API, the page or a person. |
| `RateLimiter` | `RateLimiterService` and the sends of `WaService` that use it | `Check`, `Send`, `Record`, `SaveHour`, `SaveDay` per sender; `Restart` is load and gc. Time is the hour. |
| `WaConnection` | `WaService`'s connection | `MakeSocket`, `Open`, `Close`, `TimerFires`; `ConnectRejects` is a `connect()` that throws, fatal or not as Sentry's handler is installed or not. |
| `MlAuth` | `MercadoLivreAuthService`, OAuth callback, refresher | `AskToken`, `Rotate`, `Persist`, `Assign` are `refresh`; the `Exchange...` actions `exchangeCode`; `Restart` loads and imports. A token is its number in the order the server issued it. |
| `Affiliate` | `PlaywrightAffiliateAdapter`, `FallbackAffiliateAdapter` | `Ask` to `Ready` are `ensureBrowser`/`initBrowser`, `Page` to `Save` a resolve or a scrape, the reload actions `closeBrowser`/`loadCache`. |
| `QuietHours` | `isQuietHours`, `msUntilQuietEnd` | the two functions on milliseconds of a day, and one job that arrives, is parked and returns. |
| `Targets` | `TargetsService`, its endpoints, `CommandHandler`, `OptoutService` | `Backfills`, `Seeds` are a boot; `RequestStep` is one query of an add, pause or delete; `Leaves`/`LeftIsWritten` are `/sair`. |
| `SellerCache` | `EnrichmentService.enrich`, `SellerCacheService` | `SellerAnswers`, `ItemAnswers` end the two calls; `WriteStarts`, `WriteEnds`, `Renames` are `persistNow`, in turn. |
| `Headlines` | the DeepSeek adapter, its cache and copy | `Generates`, `Answers`, `ModelFails` are `generate`; `SaveStarts`/`SaveEnds` a write straight into the file. A line is what the gate makes of it under a copy. |
| `ShortLinks` | `RedirectService` | `Wraps` looks for a row, `Creates` draws a code that the unique index may refuse, `Follow` is the redirect. |
| `DmAlert` | `DmAlertService`, with the inserts of the approval queue | `Fires`, `Lists`, `Sends`/`SendFails` are one tick between its awaits; a row has its `createdAt` before it is committed. |
| `Panel`, `DealCard` | `App.tsx`, `DealCard.tsx`, `api.ts` | a poll is `PollStarts` and `PollAnswered`; a decision goes `Decide` (optimistic, with its snapshot), `CallServed`, `CallMarked`, then `DecisionDone`, `RepostConfirmed`/`RepostDeclined` or `DecisionFailed`. `CallBreaks` is a handler that throws; `CallLost` a connection that breaks, which gives the card back while the handler goes on. `LookupSays` is the dedup lookup, which says "never" when it fails. `DealCard` is the editor with the effect on `[editing, edits]`; `Rendered` unmounts cards. |
| `Composer` | `ManualComposer.tsx`, `createManual` | whatever is typed or resolved is a new number, so a caption tells which form it renders; a submission goes `CardStored`, `CardApproved`, `SubmitAnswered` or `SubmitLost`. |
| `Settings`, `OpsConfig` | `ConfigPanel.tsx`, `OpsConfigService` | `Load`/`Loaded`, `Draft`, `Save`, `SaveAnswered`; a PUT is `SaveWrites` and `SaveReads`, two awaits of one handler, and may break (`SaveBreaks`) or go on unheard (`SaveLost`); `AppRenders` hands down another `onUnauthorized`. `Effective` is `resolve`. |
| `HistoryPage` | `HistoryPanel.tsx` | `Loads` is the effect's clean-up and request, `Fetched` an answer. |

`MC...` modules give constants their values; `...Proofs` modules hold theorems. `MCPanel` and
`MCServices` put modules side by side that share no state: each behaviour looks at one of
them, so that a run searches the sum of their states and not the product. The
composition in the code is by calls: `ApprovalQueue`'s `Select` to `AddsDone` are `SendQueue.Approve`
and its `Add`s,
`SendQueue.quiet` with `Hold`/`QuietEnd` is what `QuietHours` computes, `Panel.CallServed` and
`CallMarked` are a request of `ApprovalQueue`, `DmAlert` watches its rows, `FailBefore` covers
the refusals of `RateLimiter` and `WaConnection`, `Collection.Post` is `SendQueue.Mark`, and
what `Collection.Finish` hands on goes through `CurationGate`; `Pricing` follows
one deal through all of them and takes their verdicts, losses and delays as choices. Each of the modules takes
from its neighbours more behaviour than they have (any deal may be posted at any time, any
send may fail), so its properties hold in the composed system too.

External parts are modelled from how the code uses them: BullMQ (job ids are unique among
retained jobs; delayed, active, stalled, attempts; LIFO adds; a worker with concurrency 1),
Baileys (a socket opens or closes, closes once), the OAuth server (a refresh token works
once), Playwright (any step may fail) and the clock.

## 3. The runs

A passing run is a complete search of its instance. `CHECK_DEADLOCK FALSE` is said in all:
each module has bounds to use up, and an idle system with nothing due does stop. Type
invariants are theorems (section 5) of the modules that have proofs; elsewhere `TypeOK`
documents the state. Each module needs few
actors because its hazards need few: two runs that overlap, one that is overtaken, one
failure at the worst moment. `Pricing` scales the code's 30, 14 and 7 days, 10 minutes and
24 hours to single units, which keeps their order but for the windows' overlap with a job's
age, on which nothing depends; a caption waits for its publish alone (`Next`), since
nobody reads it once it is printed.

| run | question | instance, and why it is enough | properties |
|---|---|---|---|
| `SendQueue_safety` | can retries, crashes, recovery and failures between the marks of one digest lose or repeat a message? | two deals (so digests of one and two, and a digest half marked), one group, two activations, two attempts, one stall, one crash | `JobsAreSound`, `UrgentOvertakes` |
| `SendQueue_fair` | does every job settle, and does the whole implement `Delivery`? | one deal, group and channel, one activation, a night, a crash, two attempts; no symmetry | `EveryJobSettles`, `ImplementsDelivery` |
| `Approval_races` | which interleavings of tick, sweep and panel harm a row? | one deal, two rows (so a duplicate can exist), two requests, three operations, one failure or crash; a gate that drops the deal and adds that fail cost nothing | `DecisionsHold`, `OneOfEach`, `AuditAgrees` |
| `Curation_gate` | do overlapping selections stay fail-closed, within budget and diverse? | tick, manual run and approval; four deals of two categories, one warming up; a cache of one entry, verdicts that age, a price that drifts by 3 % against a limit of 2 % | `GateIsSound`, `Diverse` |
| `Collection_runs` | do ticks, manual runs, posts and boots keep history, dedup window and scheduler in order? | one deal, one price and one legacy price, two ticks and a manual run of which two start, four days, windows of one and two days, one failure anywhere | `OwnPriceUnseen`, `RunsApart`, `MemoryIsKept` |
| `Pricing_captions` | which price and which coupon does a caption show, and how old are they? | one deal, two runs or manual deals; three histories (none, steady, a jump), two API prices, two page prices (one with a lower PIX price), a coupon of each kind (one of them only below its minimum, one expiring in each unit, one that never applies), four edits; three days, windows of 3, 2 and 1, cards that last one unit, jobs that are stale after one, a cache of two | `PriceAge`, `CouponIsGood`, `CheaperScoresNoLess`, `BestCoupon` |
| `Pricing_manual` (violation) | is a manual deal's price as authoritative as a comment says? | the same | `ManualPriceKept` |
| `Rate_bounds` | by how much can the caps be exceeded, and what does a restart forget? | both senders, three hours of two days, caps that grow, two failures | `OvershootBounded`, `CountsAreKept` |
| `Auth_orders` | does any order of calls, writes and restarts lose the token or a caller? | two requests and the cron, three tokens, two failures | `TokenIsKept`, `EveryCallAnswered` |
| `Affiliate_sharing` | is the browser shared, and are no browsers lost? | two calls, two reloads, three browsers, one fault | `OneBrowser`, `EveryCallEnds` |
| `Services_each` | do the smaller services keep their promises through overlaps, failures and restarts? | quiet hours: hours -25 to 30 that cover each case of the code, four moments in each hour, the millisecond before the next included; connection: seven sockets, three closes in a row, two rejecting connects; alert: two deals, two ticks, four units of time; targets: two jids (one of the environment, one legacy), two requests, three wishes, a fault; sellers: two of them in a batch of two, two mishaps; headlines: two items, three kinds of line, two renders, two mishaps; links: two links, three codes, two captions, four wraps | `HoldIsSound`, `SentUnlessAlwaysQuiet`, `ReconnectIsSound`, `DownIsRetried`, `NothingOverlooked`, `NoSpam`, `RegistriesKeep`, `EnrichmentHolds`, `HeadlinesHold`, `LinksLeadHome` |
| `Panel_pages` | does the curator see what he sends, send it once, and end up seeing what the server has? | queue: two deals, a poll and two decisions under way, three acts, and one event: a row or the dedup table changed elsewhere, a rotated key, a request that fails or whose connection breaks; every lookup may fail; composer: four edits and clicks, a loss; settings: two keys with two values and a malformed one, four clicks, one fault (a failure, a broken connection, a render of the app, a write elsewhere); history: three pages, three turns | `OneDecision`, `RepostIsConfirmed`, `WhatYouSee`, `QueueConverges`, `ResubmitNeedsLoss`, `SettledPreview`, `DraftKept`, `ShownIsServed` |

A property that is a conjunction has a mutant for each conjunct that a bug of its own would
break.

Several properties name the circumstances under which the code does go wrong (`troubled`,
`met`, `told`, `cut`, `raced`, `broke`, `torn`, `clean`, `lost`, `blind`, `excused`,
`overtaken`, `crossed`, `disturbed`, `behind`, `late`, `missed`): they say that nothing else
breaks the promise. Section 6 lists those circumstances. Those of the panel and the approvals:

- `told`: an approval that enqueued nothing and answered so; `cut`: a crash took that answer.
- `troubled`: two handlers held the row at once, or one broke off between the queue and the mark.
- `excused`: the row's card came back while a decision on it was open (an older list, another
  decision's snapshot, or its own after a broken connection), or its handler broke off after
  the send path.
- `blind`, of one call: the dedup lookup of that very approval failed.
- `overtaken`: an answer of the settings was applied while one read before it was still on its
  way; or a PUT's answer was lost or broke off after its write; or another panel wrote. How
  often saves and reloads overlap, and in what order they write and read, excuses nothing.

`OneBrowser`, `JobsAreSound` and `ReconnectIsSound` speak of what happens unless such a
circumstance arose; the hazards that are themselves such circumstances (a browser lost with
its context, one deal in two jobs, equal quiet bounds) are not caught by any property, and
`PROJECT.json` says so at each.

## 4. Fairness

Only liveness runs assume any, and only of what the code or a library drives by itself:

- `SendQueue`: the worker takes a waiting job and goes on with it (event loop); due delayed
  jobs are promoted and stalled ones found (BullMQ's timers); a quiet window ends. Nothing
  is assumed of producers, pruning, ageing or crashes.
- `QuietHours`: the clock goes on.
- `WaConnection`: `connect()` ends one way or the other, an armed timer fires, a socket that
  is opening opens or closes (Baileys' connect timeout). An open socket need never close.
  `MCServices` asks this of whichever socket is opening: there is one at a time.
- `Panel`: the interval keeps polling, a poll's answer arrives, a decision is served and
  answered, and a dialog, which blocks the page, is answered (`TabsFairness`). Nothing makes
  the curator act.
- `MlAuth`: a refresh under way ends (15 s HTTP timeout, and the write).
- `Affiliate`: Playwright answers or times out, and the operator closes the login window;
  without that the call waits for ever, and with it every other call.

## 5. The proofs

All proved from the constants' assumptions in the modules, which TLC evaluates in the runs.

- **`SendQueueProofs`**: `Spec => []IInv` with `IInv == TypeOK /\ QueueConsistent /\
  Bookkeeping`, for any finite set of deals, any targets, caps, digest size, callers, and
  limits. The safety properties are not inductive: whether one more delivery is
  excusable depends on how far the worker is. `Bookkeeping` says it: a live job has paid for
  each delivery with a failure, except the one being marked; that one still has to mark
  exactly what it delivered; a job that is re-scraped has no edited price. From it:
  `TypeCorrect`, `OneAttemptAtATime`, `DuplicatesAreFaults`, `CompletedIsMarked`,
  `EditedIsNeverDropped`, `DeadIsExhausted`, `SendPathIsSound` (what the run checks as one), and the action property `MarksFollowDeliveries`.
  Lemmas on chunking (`AddsForTyped`, `PlanTyped`) show that every add has a well-formed id.
  `SendPathKeepsPromise` is the refinement, `Spec => ImplementsDelivery`: one lemma per action
  maps it to a step of `Delivery` or a stutter, using `IInv`. `UrgentGoesFirst` needs `InOrder`:
  the whole wait list is in an order in which an urgent job that was never attempted stands
  behind nothing but urgent jobs and ones put back by the stalled check.
- **`CurationProofs`**, the gate: `IInv == TypeOK /\ Asking /\ FailClosed`, where `Asking` says
  that a run which waits for the judge has paid for it and holds a deal that needs it. From
  it `TypeCorrect` (with the cache's size and one entry per deal), `GateFailsClosed`,
  `BudgetIsKept`, `GateSoundness`. The argument for a cached verdict: everything in the cache
  was given by the judge, and `UseVerdict` tests age and drift in the step that approves.
  `DispatchIsDiverse` needs `RunsOrderly`: what a run still has to look at is sorted, and what
  it approved was taken from it in that order.
- **`CurationProofs`**, the approval queue: `QueueIInv == QueueTypeOK /\ HandlersFit /\ OneHolder
  /\ SentIsMarked /\ AuditFollows /\ OneRow`. A row on which nothing met is in the hands of one
  handler (`OneHolder`), so what that handler sent is marked or about to be (`SentIsMarked`);
  a handler that found no pending row of a deal is the only one about to create it (`OneRow`).
  That an approval is not lost rests on each handler knowing whether one of its adds worked
  (`put`) from its first add until it has answered.
  From it `DecisionsAreHonest`, `OneOfEachRow`, `AuditIsTrue`.
- **`CollectionProofs`**: `ColIInv`. Observations carry the number of the run that made them
  and numbers are never reused (`Numbered`), so a run that has not inserted cannot meet its
  own (`RunsFit`); memory and table differ by what is unsaved in a run (`MemoryHeld`), and a
  post the table forgot is older than the dedup window (`PostsHeld`, from `Window <=
  PruneAge`). From it `DecisionsIgnoreOwnPrice`, `RunsStayApart`, and the action property
  `MemoryOutlivesRestarts`.
- **`WhatsAppProofs`**, quiet hours: `HoldIsExact`, for every pair of integer hours and every
  millisecond, from `WindowIsInterval` (the code's three cases are one circular interval)
  and `DelayLeadsToEnd` (clock plus delay is the end hour, up to a second); `HoldSoundness`.
  The connection: `ConnIInv` adds that whoever may still connect has an attempt left;
  `ReconnectingIsSound`. The rate limiter: `RateIInv`, in which every message that left
  is counted, was lost in a restart, or is about to be counted by its sender
  (`NothingUncounted`), the cap holds with the messages still to leave taken as sent
  (`RoomForWaiting`), and what is saved last of a bucket is memory's count
  (`SavesAreCurrent`); `CapsAreSoft` for any number of senders, by counting
  them, and the action property `CountsAreRemembered`.
- **`MercadoLivreProofs`**, the token: `AuthIInv`. A refresh works with the token of memory
  and ends with the one it persisted (`RefreshHolds`), and a callback that overlaps it is
  known as a race (`Overlaps`); `TokenSurvives`. The browser: `AffIInv`, in which a reload
  closes the browser that runs (`ClosesTheOne`); `OneBrowserForAll`.
- **`PricingProofs`**: `PricesAreFresh` from an invariant that dates what a card and a job
  carry. `PrintedCouponsFit` from `CouponInv`: a job without a curator's coupon carries a view
  of a row of the table, made for the job's price. `DispatchFindsTheBest`: `LoopRuns` shows
  that the recursive function of `Resolve` exists, and `BetterTurns` that each turn of the loop
  leaves a view of a row seen so far that none of them beats; since the rows are an injection
  from as many places, every matching row is seen (`RowsListed`). `CheaperIsNoWorse`: each
  factor of the score is monotone in the price (`DiscountMonotone`, `MedianMonotone`,
  `LowestMonotone`, `RaisedMonotone`), the median of a finite history exists (`RankedTyped`),
  and a run's history is never empty. Its hypothesis, that a longer window's lowest price counts no less
  than a shorter one's, is true of the defaults (15, 10, 5), and needed:
  `DEAL_SCORE_W_LOWEST_...` may be set otherwise, and then a lower price that becomes the
  lowest of 30 days loses points.
- **`PanelProofs`**, for any deals, editor contents, keys and bounds. The page's `IInv ==
  TypeOK /\ CardInv /\ CallInv`. `CardInv`: a preview on its way is of a mounted card and, if
  it is the last one asked for, of the edits as they stand; this is why the sequence number
  must move on every run of the effect. `CallInv`: an unexcused row is on the page or in one
  call, never both, and a settled one is decided or about to be; a call that the page gave up
  still is one. From it `TypeCorrect`,
  `YouSeeWhatYouSend`, `RowsAreDecidedOnce`, `RepostsAreConfirmed`; for the composer
  `PreviewSettles`, and `DealsAreSentOnce` from `ComposeInv`: a product is in the form, in a
  resolution or with one submission, and a form that was handed over is about to be cleared
  or nowhere any more. For settings and history `DraftsAreKept` and `ShownIsWhatIsServed`. The
  history listens to one request, that of the page it is on. The settings may wait for many:
  `ServedWell` says that an answer of other values than the table's has a newer one behind it
  that carries them, or a save that has written and will read them, and that fields which show
  other values wait for such an answer too.
- **`ServicesProofs`**: `LinksAreOwn` (a caption's code led nowhere when its row was made, and
  rows never change); `RegistriesAreKept` (an undisturbed target has one request at most, on
  its way to what was asked); `NoDealIsOverlooked` and `AlertsAreNews` (an alert about to be
  sent has every row older than its `now`; without overlaps what was told for good is older
  than the last alert); `AnsweredSellersStay` (`SellerInv`: of the writes that wait only the
  first has begun, and what it puts in place has every seller the file has); `OnlyGoodLines`
  (`HeadlinesInv`: what is cached, queued or in the file passed the gate under some copy, and
  the last save in line writes what the cache has).

So every safety property that a passing run checks is a theorem, for every value of the
constants. Only model-checked is liveness (all `~>` and `<>[]` properties: `EveryJobSettles`,
`SentUnlessAlwaysQuiet`, `DownIsRetried`, `QueueConverges`, `EveryCallAnswered`,
`EveryCallEnds`), which is out of the prover's reach as is ENABLED.

Induction on a number is not available as a rule, since the library's rules take an operator
as parameter. Where a proof needs it, `PricingProofs` goes through sets: the intervals `0..n`
are finite, strict inclusion of finite sets is well founded, so a nonempty set of numbers has
a least one (`LeastOf`), and what holds at 0 and carries over from each place to the next
holds at every place (`Climbing`). No module declares a RECURSIVE operator.

## 6. Where code and comments part

One is shown by a run:

- `Pricing_manual`: a manual deal's prices are "authoritative, same as an edit. Skipping the
  scrape keeps the sent message identical to the composer preview"
  (`pipeline/pipeline.service.ts:347-351`). That holds when the job is queued; the worker
  exempts only an edited price (`worker/send-deal.worker.ts:274`, 182), so a manual job older
  than SEND_MAX_JOB_AGE_MIN is read off the page after all, or dropped.

Others the models describe as the code has them (paths under `src/src`):

- "On success the deal is marked posted" (`worker/send-deal.worker.ts:39`): an attempt that
  fails after delivering, and whose retry is stale and cannot re-scrape, completes with
  nothing marked. `SettledIsMarked` tells exactly that case apart.
- "`reject(id)` and expiry discard without sending" (`curation/approval-queue.service.ts:104`):
  while `approve` enqueues, the row is still PENDING and may be rejected or swept.
  `DiscardedWasNotSent` exempts the rows on which two decisions met.
- `couponFinalOver` is "clamped to the base" (`coupon/coupon-math.ts:30`), and returns a
  view's final price as it is; the template compares it with the price above
  (`templates/template-ofertas.ts:98`), so no markup is printed. The PIX price is not
  compared with the coupon's minimum, only the price it was chosen for.
- A code of the product without a price hides a cheaper coupon of its seller
  (`coupon/coupon.service.ts:25`): `BestCoupon` compares within a scope.
- An edit on a card replaces all earlier ones (`approval-queue.service.ts:370`): a new
  headline on a manual card drops the composer's coupon. A tick that holds the same deal
  replaces a manual card by the API's (348).
- `discount_from_original_only` needs a deal without history
  (`deal-score/deal-score.service.ts:251`), and a run records the price before it scores
  (`pipeline.service.ts:131`): it never applies there. For the same reason a deal that was
  never seen before is its own lowest price of 30 days.
- A coupon is checked before the pause between messages, which may take minutes
  (`worker/send-deal.worker.ts:268`, 295). A page that shows no discount leaves the old
  percentage on the new price (371).
- `approve` marks the row APPROVED also when nothing was enqueued, because the gate dropped
  the deal or every add failed, and tells so with `enqueued: 0` alone
  (`curation/approval-queue.service.ts:190-193`, 244; `pipeline/pipeline.service.ts:286`, 458). A
  crash before that answer leaves an APPROVED row that nobody was told about (`cut`).
- A job id that Redis retains is ignored by `Queue.add`, and the approval counts it as
  enqueued (`pipeline.service.ts:438-457`, `approval-queue.service.ts:242`).
- The worker does not read the dedup table before it publishes; a backlog may hold one deal
  twice (`worker/send-deal.worker.ts:288`; `SPECS.md:48`). The quiet window may open between
  the hold and the publish (135-141).
- `holdPending` may create two pending rows of a deal (346); the sweep may expire a row that
  was refreshed meanwhile (327); `createManual` may miss its card (175-177); the audit's
  upsert keeps one decision of a deal and day (473).
- Two senders may both pass the cap (`whatsapp/wa.service.ts:217`), and absolute counter
  saves may arrive out of order (`rate-limiter.service.ts:113`). Replies to commands bypass
  the limiter (`wa.service.ts:157`).
- A `connect()` that rejects in the reconnect timer arms no other; with Sentry's handler
  installed the process lives on with the service down and `reconnectExhausted` false
  (`wa.service.ts:124`, `shared/sentry.ts:34-42`). The limit N ends after N-1 reconnects
  (104; `SPECS.md:163`).
- A browser is lost when its context cannot be made, since the next start replaces
  `this.browser` (`affiliate/playwright-adapter.ts:487`, "Single Browser + Context per
  process" at 50), and when a start overlaps a reload (518). `newPage` of a scrape is outside
  its `try` (177).
- A boot that cannot read MlToken imports the legacy file over it
  (`mercado-livre/ml-auth.service.ts:279`, "Runs only when the DB has no token yet" at 285).
  A callback that overlaps a refresh may leave memory and table with different tokens.
- Deals the cap leaves over get no audit row (`curation/curation-gate.service.ts:24` and 151).
  A verdict that overlapping runs set twice keeps its place in the map, so the first key need
  not be the oldest (`judge/verdict-cache.ts:12`). The
  price may change after the gate (`pipeline.service.ts:521-531`).
- A deal that two feeds offer in one batch is screened against its own tick's observation
  (`pipeline.service.ts:121-127`); `Collection` lets a run see a deal once.
- A legacy import of the price history that breaks off is never completed
  (`curation.service.ts:208-216`). A dedup window above 14 days would outlive its rows
  (`dedup.service.ts:118`); `Collection` assumes `Window <= PruneAge`.
- A manual run that overlaps another empties `rawIndex` under it; the items are then made up
  (`sources/mercado-livre/ml-source.service.ts:34`, 84).

- The opt-out registry: "JIDs that must never receive sends" (`whatsapp/optout.service.ts:8`),
  and `/sair` replies that no more offers will come (`command.handler.ts:98`). No send path
  asks `isOptedOut`; offers go to groups. `RegistriesKeep` is about the registry alone.
- Targets: what an operator deletes comes back at the next boot while the environment, or for
  an empty table the legacy file, names it (`targets.service.ts:74-96`, 98-151). An add of an
  existing Telegram target turns it into channel `wa` (`wa-health.controller.ts:40`). Pausing
  is an add that makes the target active first (46-50).
- The alert: a deal whose insert straddles an alert may never be told or be told twice, and
  overlapping ticks repeat one ("Sem novidade na fila = sem DM" notwithstanding).
- A headline from the cache is served without the gate, so one that passed an older copy
  outlives a change of copy or forbidden words. A cached seller whose file cannot be written
  is thrown away with the answer (`enrichment/seller-cache.service.ts:48-52`), although
  memory has it.
- The panel: a list read before a decision, or the snapshot of another one that fails, brings
  a decided card back (`src/web/src/App.tsx`); a failed approval remounts its card and loses
  its edits. A broken connection gives the card back too (103) while `enqueueScored` goes on
  scraping and adding; the row is PENDING until it is marked, so a second click passes
  `mustBePending` and the deal is sent twice (`OneDecision` exempts that row).
- A recent post: "the send only proceeds with the curator's explicit confirmation"
  (`src/web/src/App.tsx:76-77`). The warning and the 409 rest on `postedDaysAgo`, which answers null
  when the dedup lookup fails (`curation/approval-queue.service.ts:419-432`, "best-effort"); a
  card without a warning is then sent with no dialog. `RepostIsConfirmed` tells exactly that
  approval apart. A preview that fails leaves the caption of earlier edits.
- The composer's preview "mirrors exactly what a card/dispatch would show"
  (`ManualComposer.tsx:66`), and has no sequence guard: the answer that arrives last stays
  (`late`). A resolution overwrites product fields typed meanwhile; a success clears what was
  typed since.
- The settings: "Sync internal state when external value changes"
  (`ConfigPanel.tsx:158`). Each render of the app, so each poll and toast, hands down another
  `onUnauthorized` (`App.tsx:176`), on which `loadData` depends (`ConfigPanel.tsx:36-40`): the
  panel reloads, its fields are unmounted and every draft is lost. The history reloads for
  the same reason. Two answers that overtake each other on the way back leave the older
  one on the page, and it takes the draft of a field whose value it changes. A PUT whose
  connection breaks may have been written all the same, and the page does not show it.

## 7. What is not modelled

- Text: layout, wording and prompts of headlines, labels, parsing of pages and prices. No state.
- HTTP handlers, DTO validation, guards, metrics, logging, database wiring: framework code.
- The pacing pauses between WhatsApp messages (`waJitter`): time only; `RateLimiter` covers
  the counts. Listing groups and answering commands: reads.
- `onModuleDestroy`: `main.ts` enables no shutdown hooks, so it never runs; `Crash` and
  `Restart` are what ends a process.
- `FeedRotator` and the cursor of the Shopee feed: `Collection` takes any feed at any time.
- `shared/retry.ts` (a retry is a call that fails later), the click counter of short links
  (nothing reads it), enrichment metrics, names and channels of targets, commands that only
  reply, the import of legacy opt-outs, the validators of each ops-config key.
- The level of a score, the trend and the pre-score; `CurationGate` takes any score.
- Deactivated coupons: nothing in `src` writes `active`.
- What a poll changes on an open card: a row that `holdPending` refreshes
  (`approval-queue.service.ts:348`) has another deal under the same id, and the card's caption and
  edits meet it. `WhatYouSee` is about the edits.
- Polls of the panel that overtake each other: the theorems hold for any number of polls, but
  `QueueConverges`, which is only model-checked, is searched with one under way.
- In `ApprovalQueue`, whether an add that did not throw was coalesced with a job of the same
  id: that is a matter of `SendQueue`.

## 8. The plan

Done, in this order: `SendQueue` with `Delivery` and their proofs (the promise the bot makes
its groups), `ApprovalQueue`, `RateLimiter`, `MlAuth`, `QuietHours` with proofs,
`WaConnection` with proofs, `Affiliate`, `CurationGate` with proofs, `Collection`, `Pricing`
with the functions it uses and proofs, the panel with proofs, the smaller services with
proofs.

Next:

1. `FeedRotator` and the source ids of the legacy tick: pick, persist, load; no feed starves.
2. The pauses and the cron's own reading of the ops config, so that a save in `Settings` is
   related to what the next tick does.
3. A composition of `ApprovalQueue` with `SendQueue`'s producers, so that what an approval
   counts as sent is related to what the queue holds, and a property over all jobs of one deal.

4. More refinements: `ApprovalQueue` as an implementation of an abstract decision register,
   `MlAuth` of a register with one writer, in the way `SendQueue` implements `Delivery`.
