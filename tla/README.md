# SuperJam, specified in TLA+

SuperJam is a platform on which people describe small social apps ("jams"), an
agent builds and deploys them, and the jams call back into the platform for
identity, data, messages and money. This directory holds TLA+ models of its
stateful parts, TLC configurations that check them on small instances, and
TLAPS proofs of what holds for every size. Paths below are relative to the
repository root; line numbers are the file's own.

Contents: [inventory](#inventory) · [plan](#plan) · [how the code is cut into
actions](#how-the-code-is-cut-into-actions) · [runs](#runs) · [pots](#pots) ·
[builds](#builds) · [payments](#payments) · [services](#services) · [web
client](#web-client) · [proofs](#proofs) · [observations](#observations) ·
[running](#running-the-checks) · [what is not modelled](#what-is-not-modelled)

## Inventory

Everything on the server is one Bun process with one database connection pool
(`apps/server/src/server.ts`). Routes are async functions without transactions:
between two `await`s a route runs alone, across an `await` every other route,
timer and fire-and-forget promise may run. The builder service
(`apps/builder`) is another process that keeps its state in memory; the web
client and the jams' frames are further actors, and the Base chain is a shared
state outside all of them.

| Component | State | Operations | Talks to | What is hard | What makes it correct |
|---|---|---|---|---|---|
| **Pots** `packages/api/src/services/pot-service.ts`, `routers/pot.ts` | tables `pot`, `pot_stake`; USDC in escrow | create, stake, resolve, payout | chain, oracle, `requireApp` | four awaits in stake; hashes compared as text; one transfer and one update per winner; lost receipts; overlapping resolves; payout called again | a stake is backed, paid as the outcome says and out of its own pool, and paid again only after a payment that was cut short; an outcome is final |
| **Build runner** `apps/builder/src/queue.ts`, `app.ts` | in-memory map of builds, count of live agents | start, report, get, process end | agent, platform | a `done` report awaits while the process ends; no durable state | slots are never leaked nor over-used; a terminal build stays as it is |
| **Build agent** `apps/builder/src/in-memory-build.ts`, `kits/gate.ts`, `backend/local.ts` | workspace, round, install beside the model, database, contract, deployment | seed, provision, rounds of model–install–build–gate, contract, deploy, report | runner, hosting, chain | commands that fail after their effect, an install beside the first round, parallel tool calls against a budget | done means live, complete and fully described |
| **Build lifecycle** `packages/api/src/routers/{builds,apps,publish}.ts`, `lib/builder-dispatch.ts`, `lib/reap-builds.ts` | tables `build`, `app`, `publish_payment`; one driver per build in memory | create, poll, finish, finalise, reap, discard, publish | build runner over HTTP | unordered progress writes, restarts, the reaper against the driver, discard against finalisation | every build settles; the URL is the builder's; a quiet discard stays |
| **Payments** `routers/payments.ts`, `apps/web/src/components/confirm/*`, `packages/sdk` | confirm sheet, executor, procedures, chain, chat lines | payUSDC, approve, reject, relay, relayDelegated, recordTip | chain, signer, chat | a lost answer followed by a fallback with a fresh nonce; procedures outlive their callers | one tap moves money once; a jam is told the truth |
| **Rate limits, quotas, AI** `lib/rate-limit.ts`, `routers/bridge-ai.ts`, `services/ai-service.ts` | windows and daily counters in memory, cache | allow, quota, refund | every limited route, models | window edges, midnight, refunds | limits hold; a refund gives back what was taken |
| **App data** `services/{data,storage}-service.ts` | records, keys | insert, update, delete, list, set, clear | bridge routes | count-then-insert, read-modify-write, offsets of pages | limits hold, updates are kept, pages miss nothing |
| **Inbox** `services/message-service.ts` | messages | send, evict, markAllRead | rate limits | eviction while sending | bounded; nothing goes but the surplus, the read before the unread |
| **People** `services/{chat,friend}-service.ts`, `auth/user-service.ts`, `routers/profile.ts` | users, pairs, lines, likes, ENS names | first sign-in, claim, add, remove, chat, like, top-up | chain, rate limits | check-then-insert, chain writes before unique rows | mutual friendship, sign-in works, names resolve |
| **Onchain games** `apps/builder/src/contracts/templates.ts` | the board | move, reset, relayed | chain | moves that cross | the board tells the winner |
| **Wizard drafts** `apps/web/src/lib/use-build-draft.ts`, `routers/builds.ts` | tab, local storage, row | edit, debounce, save, delete, collect, link | platform | saves that cross, other devices, closing before the timer, an idea that is emptied again | the newest that is worth a row reaches it; a built draft is listed no more |
| **Wizard flow** `apps/web/src/app/build/page.tsx` | history of the tab, plan, build, workshop | refine, adjust, make, poll, reveal, back, reload | build lifecycle | polls cancelled by renders, a second build, a lost answer of create | what is revealed is live; the workshop ends |
| **Shell** `apps/web/src/lib/use-host-auth.ts`, `components/{client-root,app-host,app-frame}.tsx`, `lib/bridge/host-bridge.ts`, `packages/sdk` | session, a hook per component, frames, documents, messages, requests under way, the place of the sheet | sign in and out, mount, handshake, call, approve, time out | platform, jams | hooks that learn the same thing at different times, late answers, reloads, requests that outlive the frame they are of | a jam shows and acts as its viewer; a call has one outcome; no splash for ever |
| Schema and adapters, MCP and composition, other screens, templates, examples, scripts | none of their own | — | — | — | see [what is not modelled](#what-is-not-modelled) |

The hazards, each at its line, are listed in `PROJECT.json`; the properties were
chosen from that list.

## Plan

Done, in this order: pots; build runner; build lifecycle over the runner; the
agent inside the runner; payments from the jam to the chain; the services
behind the bridge; drafts; the wizard over the promise of the build pipeline;
the shell. Abstract specifications: `PotEscrow` (implemented by `Pot`),
`BuildPromise` (implemented by `BuildLifecycle`, used by `MakeFlow`),
`BuildRunner` (implemented by `BuildAgent`, used by `BuildLifecycle`),
`GameSpec` of `Arcade` (implemented by the relayed calls).

Left: the contracts other than
tic-tac-toe; attachments; provisioning of a jam's database by the platform
(`lib/app-db.ts`).

## How the code is cut into actions

One action is what runs between two awaits: an awaited read, write or chain
call together with the synchronous code after it. A call in flight is a record
of where it stands and of the locals it will still use; values it read before
an await stay in that record, so staleness is modelled where the code has it.
Database statements are atomic, and there are no transactions to model. Names
follow the source: `call[c].at = "sum"` is a `stake` about to run
`stakesOf(...)` on line 133. In the web client one action is an event of the
page, or an effect of one component, with the rendering that follows.

Definitions that stand beside an original and differ from it by a plausible bug
(`MarkNothing`, `FramesAtOnce`, `EvictionSkipped`, …) are used by no behaviour.
`PROJECT.json` lists them as mutants: with the original replaced by its mutant
the named property fails, which shows that the property looks at that code.

## Runs

| Run | Instance | Properties |
|---|---|---|
| `Pot_pays` | two stakers, three stakes, one transfer in two spellings of its hash, two resolves or payouts that do not overlap, every fault, fairness | `StakesBacked`, `PayoutsMatchOutcome`, `PoolSolvent`, `PaidTwiceOnlyAfterFailure`, `ImplementsEscrow`, `RecordedWinnersPaid` |
| `Pot_v_double_resolve` | overlapping resolves, no fault | violates `NoDoublePay` |
| `Pot_v_rerun` | no overlap; a receipt is lost, and `payout` is called again | violates `NoDoublePay` |
| `Lifecycle_pair` | two builds, one slot, one slug; failing statements, crashes on both sides, fairness | `EveryBuildSettles` |
| `Lifecycle_owner` | one build, its owner discards and publishes, every fault | `UrlIsTheBuilders`, `QuietDiscardIsFinal`, `ImplementsPromise` |
| `Agent_ships` | an onchain game and a jam with a database, one slot, fairness | `SlotsExact`, `DoneIsShipped`, `OnlyCompleteIsLive`, `BudgetOvershootBounded`, `EveryBuildEnds`, `ImplementsRunner` |
| `Pay` | two requests, one to a friend and with answers that may be lost, fairness | `OnePaymentUnlessLost`, `RefusedIsUnpaid`, `ToldIsMined`, `NobodyWaitsForEver` |
| `Pay_v_double` | one request, lost answers | violates `OnePaymentPerApproval` |
| `Services` | 27 scenarios of up to four calls at once | the twelve of `ServicesProperties` |
| `Draft_v_resume` | one draft, two devices | violates `ResumesElsewhere` |
| `Web` | the drafts, the workshop or the shell, fairness | `NewestReachesTheRow`, `BuiltLeavesTheList`; `RevealIsLive`, `WorkshopEnds`; `ContextIsTheViewers`, `CallsAreTheViewers`, `AnswersFindTheirCall`, `JamsAppear` |
| `Shell_v_claim` | one person signs in on the welcome page | violates `DriversClaim` |

`CHECK_DEADLOCK FALSE` everywhere, because people may stop: calls are one-shot,
each build is posted once, and bounds on edits, turns and documents run out.

A few definitions are true or false of the code and in no run; each can be put
into a configuration as it is. `PotProperties`: `OneStakePerTransfer` (false: two
spellings of one hash are two stakes), `PoolCapped` (false: two overlapping
stakes pass the cap), `PoolOvershootBounded` (proved: by one capped stake for
each other call in flight), `NoWinnerRefundsAll` (false: a stake in
flight across a resolve is recorded after it), `FailedPayoutRetried` (false: no
code retries), `ResolvedIsFinal` (proved). `BuildRunnerProperties`:
`DoneIsFinal` and `TerminalIsFinal` (proved; the second is false with `Impatient
= TRUE`). `BuildLifecycleProperties`: `DiscardIsFinal` (false: work under way at
the discard lists the jam again). `DraftProperties`: `NewestIsHeld`,
`BuiltIsHeld` (proved, as the invariants under the two liveness properties of
drafts).

## Pots

| Module | What it is |
|---|---|
| `PotEscrow` | The promise: a hash, as it is spelled, stands for at most one stake; a pot is decided at most once; a stake is paid after the decision, a share if it won and otherwise exactly what was staked; and once it is booked as paid it is never paid again. No calls, no failures; and no promise that a payment is booked, which is where the service falls short of its own comment. |
| `Pot` | The service, one action per await, and the world around it. |
| `PotProperties`, `MCPot`, `PotProofs`, `SumLemmas` | Properties and the refinement mapping; instances; theorems, and the lemmas about sums that they need. |

| Model | Code |
|---|---|
| `pot`, `potStake` | the two tables of `payment.db.ts`; `potStake` is keyed by its unique `txHash`, which is text; `paidOutTxHash` holds the call whose transfer it names, which is what a hash tells apart |
| `Hashes`, `TxOf` | hashes as callers spell them, and the transaction the chain finds by each: `validators.ts:6` takes hexadecimal digits in either case, nothing makes them one, and the unique index compares text, so a transfer in two spellings is two stakes |
| `mined`, `TxFrom`, `TxValue` | the chain as `verifyUsdcTransfer` sees it: sender and value of the Transfer log into escrow. Transactions that revert or pay somebody else have value 0 |
| `delisted`, `Discard` | `app.status` and `apps.discard`; every route calls `requireApp` first |
| `call` | suspended calls of `stake` and of `resolve`/`payout`; one that is over "ended" by itself, with a result or an error the code throws, or "failed", cut short by a fault |
| `ledger` | a history variable: outgoing transfers, with a flag for those that landed |
| `StakeStart/Load/Verify/Sum/Insert` | `stake`: the route, `loadPot` and its checks, the receipt and its checks, the sum, the insert with its unique index |
| `ResolveStart/Load`, `OracleAnswers`, `ResolveUpdate` | `resolve`, with an outcome of the creator's or the oracle's |
| `PayoutLoad/Stakes`, `Send`, `Mark`, `PayoutReturns` | `payout`: re-read, snapshot of the rows, and the loop: one transfer, one update, per stake |
| `SendRejected`, `SendLost`, `Send(…, FALSE)` | the write throws; the wait for the receipt throws though the transfer lands; the receipt is of a reverted transaction, which `submit` does not look at |
| `Abort` | an awaited statement throws, or the server goes down |
| `Rerun` | `payout` called on its own. No route does; the test "payout is idempotent" does, for the sweep the docs describe |

Bounds. One transfer of 1, which has two spellings, and one of 2: staked in all
three ways the pool is 4, and winners who hold 3 of it get 4/3 and 8/3, which are
floored; a pool may also be won by one stake or by none (refunds), and be counted
larger than what came in. `Tried` names the stakes that are tried: a winner in
one spelling, a loser in the other, a second winner, and a transfer of somebody
else's. One stake is in flight at a time, beside two resolves or payouts: stakes
race each other for the cap only, of which `PoolOvershootBounded` is proved, and
for the index, whose insert is one step. One pot: calls share nothing across pots
but hashes, whose uniqueness does not depend on the pot.

`SerialResolves` is the assumption that no resolve or payout of a pot starts while
one is in flight. The code does not enforce it. `Pot_v_double_resolve` shows what
happens without it: both resolves pass the status check, which the update does
not repeat, and both pay. With it the mark of `paidOutTxHash` is what keeps a
second payout from paying again, and `Pot_v_rerun` shows where it does not: "Safe
to re-run after a partial failure" (`pot-service.ts:231`) is false when the
failure comes between a transfer and its mark. `PaidTwiceOnlyAfterFailure` is
what remains true: of two payments of a stake the call of one was cut short.

Fairness: `WF` of the own steps of each resolve and payout, since a promise that
settles is resumed by the event loop. Starting calls, stakes, mining, discarding
and faults have none. Faults happen in the run all the same, and
`RecordedWinnersPaid` excuses a winner only if the very call that resolved the pot
was cut short: nothing but another call of `payout` would then pay it, and no code
makes one.

## Builds

| Module | What it is |
|---|---|
| `BuildRunner` | `createBuildRunner`, its routes, and the agents that report to it: `builds` (the map), `active` (the counter), `resolving` (done reports suspended in `await resolveEntryUrl`), `agents` (processes). |
| `BuildAgent` | `runInMemoryBuild` inside that runner: `work[b]` is where the agent stands, its round, source, install, database, contract, what the web serves, and its use of the asset budget. EXTENDS `BuildRunner`; an action that starts, reports or ends is conjoined with the runner's. |
| `BuildLifecycle` | The platform: rows of `build` and `app`, the driver (`builds.create`, then `runBuild` with the remote deployer inlined), progress writes nobody awaits, freshness for the reaper, discard and publish. INSTANCEs `BuildRunner`. |
| `BuildPromise` | One verdict, which only an interruption may precede; a URL only for a build that is done, which is then done for good. |
| `…Properties`, `MCBuildAgent`, `BuildRunnerProofs`, `BuildAgentProofs`, `BuildLifecycleProofs` | Properties and refinement mappings, instances, theorems. |

A build and its process are separate: a build ends by a report, a slot is freed
by the end of a process. `Impatient` says which agents are admitted. The
protocol gives an agent a token that is never revoked, so it may go on reporting
(`TRUE`); the agent of the repository makes one final report and waits for its
answer (`FALSE`), as `ImplementsRunner` checks and `AgentRefinesRunner` proves of
`BuildAgent`.

| Model | Code |
|---|---|
| `Start`, `ReportStatus/Done/Failed`, `EntryUrlResolved`, `ReportLost`, `AgentEnds`, `Restart` | `POST /builds` and `start`; `report` before and after its one await; a report that never arrives; the process ends; memory is lost |
| `Seed`, `Provision`, `ModelEnds`, `InstallEnds/Awaited`, `NextBuild`, `Gate`, `NextRound`, `DeployContract`, `Deploy`, `Throws`, `Reports`, `Finishes` | the awaits of `runInMemoryBuild`. A command ends in `Outcomes`: it may have had its effect although it failed, was killed, or printed what cannot be read |
| `AssetStarts/Ends` | the image and voice tools, which the model may call in parallel |
| `Create`, `PickSlug`, `Allocate`, `Link` | `builds.create`: insert, `dedupeSlug`, the app's insert with its unique slug, the link |
| `StartRun`, `Post*`, `Poll*`, `SaveDone`, `SaveContract`, `Finalize`, `SaveFailed`, `StatementThrows` | `runBuild` and its catch |
| `PersistProgress` | a progress write lands, in any order |
| `GoesQuiet`, `Reap` | twenty minutes without a write; `reapStaleBuilds` when the owner lists the jams |
| `Discard`, `PublishStart/Ends`, `Crash` | `apps.discard`, `publish.submit` around its awaits, the server goes down |

Bounds. `Lifecycle_pair`: two builds compete for one slot and one slug, which is
where builds touch. `Lifecycle_owner`: one build, because discard and publish
concern one jam; two results, so that a wrong URL is seen. `Unlucky`, `Managed`,
`Published` name the builds that faults and owners befall: elsewhere they would
only multiply states. `MaxRounds = 2` gives a round that fails and a last one;
`AssetBudget = 1` with `ParallelTools = 2` is the least that can be overshot.

Fairness. A driver in flight goes on and its 24 hour deadline comes; writes
land; quiet time passes; the owner looks at the jams, as the reaper has no other
clock; an agent's process ends and a lookup of the alias answers. The last two
are assumptions about the environment: the service puts a time limit on
neither. The steps of the agent itself have WF: each of its commands has a
timeout.

## Payments

`Pay` follows a `payUSDC` from the jam to the answer: `told` (the SDK's pending
call), `host` (dispatch and `host-handlers.ts`), `active` and `resolver` (the one
confirm sheet and the promise it will resolve), `exec` (the executor), `call`
(each procedure on the platform, which goes on when the page has stopped
listening), `chain` (each signed transfer), `lines` (chat). The executor tries
`relayDelegated` and falls through to a signature of its own and `relay` on any
error; each path signs with a fresh nonce, so that a request has two possible
hashes. `RelayLost`, `SubmitLost` and `ReceiptLost` are the answer to the page,
to the platform, and the receipt; `MayLose` bounds the requests they befall.

`Pay` has two requests because there is one sheet: one is refused, taken over or
told of the other's if the sheet is confused. Fairness: executors, procedures and
the chain go on, the SDK's timer fires, and the host's page closes a sheet that
shows success. The person need do nothing.

`Pay_v_double`: the catch of the delegated path takes a lost answer for a
payment that was not made. `OnePaymentUnlessLost` is what remains, and is proved.

## Services

`Calls` is a scenario's calls in flight: `todo` in rounds, `call[c]` with where it
stands, what it saw, what it answered, and which calls were `beside` it when it
began; `faulty` scenarios may have any awaited statement throw. Over it:

| Module | Code |
|---|---|
| `RateLimiter` | `createRateLimiter`: windows, daily counters, the clock |
| `MeteredCalls` | `ai.chat` with cache, quota, failure and refund; `builds.refine` |
| `AppData` | `insert`, `update`, `delete`, `list` page by page; `set`, `delete`, `clear` of keys |
| `Inbox` | `send` with its two limits and the eviction (`EvictionCounts`, `EvictionChooses` in the order of `EvictionOrder`, `EvictionDeletes` one victim at a time); `markAllRead` |
| `People`, `Profile` | first sign-in, friends, lines of chat, likes; claim of a username with the ENS mint, top-up |
| `Arcade` | the tic-tac-toe contract and `onchain.write`, whose transaction is mined later or reverts |
| `Services` | all of them in one process, sharing the limiter and the clock |

`MCServices` names the scenarios: calls that share a limit, a table or a
contract, up to four at once, in every order and overlap, after a first round
where something must exist already. A scenario has the calls of one hazard, as
calls that share nothing commute; it starts with the empty state, so that
`After` and `Calmly` give a second round. Where three calls follow two that set
the tables up, nothing throws (`Calmly`), and a smaller scenario has the faults:
what these check is also proved for all scenarios. Bounds: limits of 1 to 3, so that they are reached;
a minute of one tick and a day of two, so that calls fall on both sides of an
edge; a board of two by two, whose lines are its rows and columns: the first
mark wins with its second move, or the board is drawn with the fourth. That the
second mark may win needs a larger board, which the theorem covers.

A user's row is unique in three columns: `dynamicUserId`, `username` and `email`.
The username is made free before the insert, the email is not looked for: an
insert whose email is on another row fails at this sign-in and at every later one
(`EmailKnown`). `SignInServes` says that this is the only refusal, and that it is
one each time.

Most properties have the form "what holds when nothing overlaps, and what still
holds when it does": `LimitsOfAMinute` (never twice the limit in any minute, and
who is refused has had the whole limit), `DailyLimitHolds` and `RefusedWhenSpent`
(a unit given back after midnight goes to the wrong day, and to no worse
effect), `LimitsHoldAlone`, `UpdatesKept`, `PagesMissNothing`, `InboxBounded`,
`EvictsNoMore`, `FriendshipIsMutual`, `SignInServes`, `NamesResolve`, `GameDecided`.

## Web client

`Draft`: one draft in a tab on each of two devices (`tab`), the local storage of
each (`local`), saves under way (`saves`, arriving in any order or failing), the
row, and the one `builds.create` that links it. `spoilt` is a history of why the
row may rightly not have the newest snapshot: a failed save, a tab closed before
its timer, a deletion, an older save that came last. What was made is the number
of its edit and what that left (`has`): an idea, a spec, or nothing, as an idea
may be emptied again. A blank snapshot is not saved and returns before it would
clear the timer (`use-build-draft.ts:52-55`), so the timer of the words before it
goes on: `WorthARow` says which snapshots the liveness is about.

`MakeFlow`: the history of the tab (`pages`, `at`), the plan, build and reveal
(`data`), what is awaited (`asking`, `making`), and the workshop (`beat`): its
timer or its poll, run anew by every render. The platform is `BuildPromise`,
which `BuildLifecycle` is shown to implement, with discards beside it.

`Shell`: what Dynamic's client says (`session`), `useHostAuth` in each component
that calls it (`hook`), the page and what it shows, and the frames with their
documents and messages. `Renders` is what a rendering keeps and drops: a
component that is not shown loses its state, and messages to it are gone. What
does not go with the frame is what `Outlives`: a request of the platform, which
nobody calls back, and the confirm sheet, which is up for as long as the gate is
open (`resolver` is its one place). A call is answered on the page, or is one
request, or opens the sheet; an approved payment is a row of requests ("pay", then
"more" for each later one), each with the token of its moment. A document reloads at
any time; a call has an id its document counts, as `genId` does, and the document
keeps which it waits for, which it gave up and which were answered.

`CallsAreTheViewers`: what runs on the platform for a jam runs as the person the
jam shows, through unmounts, sign-outs and sign-ins, however long the sheet is up.
It has to except one thing the code does: a payment's later requests go on when
their jam is gone, and as whoever has signed in since. And a jam that shows a
guest because the profile could not be had acts as the person whose profile it is.

`Web` puts one of the three on the page: to go from one to another is to leave
the one and open the other, which each has as actions of its own.

Bounds: two edits and two openings (a save that is overtaken, a second device);
two builds of a draft, two requests to refine, one page turned or reload; two
people, one of whom the last visit may have left signed in, four changes of the
session (sign in, out, another in), two documents of a call each, the first of
which may ask for a payment; one of the devices builds.

Fairness: timers fire, effects run, requests are answered or fail. `Web` has one
condition for steps that cannot put each other off for ever, which asks for less
than one for each. The polls of the workshop have SF: the network is not down
for ever, as each poll may fail any number of times and a render may cancel it.
Nobody must click.

`Draft_v_resume`: the effect that loads a draft has its `loggedIn` from the first
render, before the hook has a token, so the row is never read.
`Shell_v_claim`: signing in puts the splash over the welcome page, which is
unmounted with the ref that says a person has just signed in.

## Proofs

Every theorem holds for every value of the constants that the named assumptions
allow, and the runs evaluate these assumptions. They say what kind of thing a
constant is (`RunnerAssumption`, `LimiterAssumption`, …), that `Null` is no row or
answer (`NullAssumption`, `EscrowAssumption`, `WizardAssumption`, …), and that calls are
asked what they may be: a person and a friend that can be compared
(`PeopleAssumption`), a quota that exists (`MeteredAssumption`), a field that a record
has (`AppDataAssumption`). Limits of a minute let a call through
(`InboxAssumption`, `PeopleAssumption`), and only four kinds of key have one
(`ServicesAssumption`).

| Module | Theorems | Argument |
|---|---|---|
| `PotProofs` | `TypeCorrect`, `StakesAreBacked`, `NeverPaidTwice`, `ResolutionIsFinal` | The types are not inductive: that an outcome is an option needs what a call remembers at each step (`CallOK`, in `TypeInv`). `StakeChecked` says which checks a stake has passed at each await, and the lemmas `WorldStep` and `RowsStep` that what was checked stays so. `PayoutInv`, of payouts that do not overlap, re-runs and every fault allowed: `OneResolver` of a pot at a time; `ResolverOK`: what it is about to pay is not marked, and the pot's outcome is what it read; `LedgerInv`: a transfer whose stake is not marked is of a call that was cut short or is about to mark it, so that of two for one stake the call of one was cut short |
| `PotProofs` | `PotsAreSolvent`, `PayoutsFollowOutcome`, `PotRefinesEscrow`, `OvershootIsBounded` | `OwnInv`, which needs nothing to be serial: what a call has sent and still owes are different stakes of its own snapshot, each sent once. `SplitInv`: the transfers of one call and what it still owes are of one split of the pot, of no more than its stakes among those it was taken from; floored shares add up to no more than the pool, which is solvency whatever overlaps, and the pool is what came in unless a transfer has two rows. With payouts that do not overlap the split is by the outcome the pot shows, and a step of a call is a step of `PotEscrow` or a stutter. `OvershootInv`: the pool and what the stakes past their check may still add are within the cap and one stake for each of them |
| `SumLemmas` | lemmas | Sums over finite sets. The library's induction cannot be used (it takes an operator), so `SubsetInduction` proves that a set of subsets which contains each set whose proper subsets it contains is all of them, from the minimum of a set of cardinalities. From it: a term put in or taken out, images, monotony, and shares of a pool |
| `BuildRunnerProofs` | `TypeCorrect`, `SlotsAreExact`, `DoneForGood`, `TerminalForGood` | `RunnerInv`: a report being handled has a build. Each action adds one live agent and one to the counter, removes one of each, or touches neither. `PatientInv`, for agents that wait: the agent of a report waits for it, its build runs, and there is one such report |
| `BuildAgentProofs` | `AgentRefinesRunner`, `AgentSlotsAreExact`, `DoneMeansShipped`, `OnlyCompleteGoesLive`, `OvershootOfBudgetBounded` | Every action of an agent is the runner's it is conjoined with, or leaves the runner alone. `AgentInv`: an agent that was not accepted has made nothing, every other has made what belongs to its step (`MadeBy`), and a build that is done, or a report that says so, shows what was shipped; `WithinBudget` counts the drawings in flight |
| `BuildLifecycleProofs` | `LifecycleTypes`, `KeepsPromise`, `QuietDiscard`, `UrlsAgree` | `LifeInv`: the runner's invariant, types, and `DriverInv`, which relates where a driver stands to its rows: a driver that finalises has a row that says done, one that still polls has a verdict it may change, and an app has a URL only when its driver is over and its build is done. Every step maps to a step of `BuildPromise` or a stutter. `UrlsAgree` adds `ClaimsHold`: the result a driver has read as done, and the URL of the app, are what the builder shows, or the builder has forgotten the build, which needs agents that wait |
| `PayProofs` | `PayTypes`, `OnePayment`, `NothingSentWhenRefused`, `ToldTheTruth` | `PayInv` ties each procedure to its executor, each executor to the sheet and the promise, and each signed transfer to the procedure that signed it; an executor that fell through has a transfer behind it only if an answer was lost |
| `ServicesProofs` | `LimitsAreKeptAlone`, `UpdatesAreKept`, `LinesAreBetweenFriends`, `SigningInServes` | `CallsInv` ties `beside` to the calls under way: of two calls the earlier was in flight or over when the later began, so two that are both under way overlap (`RunningOverlap`). `StepCases` splits a step into time, an arrival (`Begins`) and a statement of one call (`CallStep`, which leaves the others: `GoesOn`). On these: what a call has checked holds while no call of its kind overlaps (`RecordsInv`, `StorageInv`, `SignInInv`), a written field is there until a later call writes it, and whoever reads it after that has read it (`UpdatesInv`), a heart is odd in its taps (`LikesInv`), friendship goes by the last call about it (`FriendsInv`), top-ups are a day apart because the table knows of each that was answered (`TopupInv`) |
| `ServicesProofs` | `NoDayIsOverspent`, `WhoIsRefusedHasSpent` | `DailyInv`: the entry of a key counts no more than the calls billed on its day, and no fewer but for the units that other days' calls gave back to it; an entry is of today or before, and no call is billed on a later day |
| `ServicesProofs` | `MinutesKeepTheLimit` | `MinuteInv`: for each key there are the times at which windows were opened, more than a minute apart, each by a call that was allowed; every call fell into one of them, none let more than the limit through, and the counter is that of the last. Any minute meets at most two of them, and of the earlier not its first call (`AMinuteMeetsTwo`) |
| `ServicesProofs` | `PagesAreComplete` | `PagesInv`: while nothing moves rows up, a record that no page has had yet is at or behind the next offset; inserts only move it down (`RowsMoveDown`), and its place is a number below that of all records (`PositionIsBelow`), which needs that what a listing is ordered by are numbers (`RanksInv`) |
| `ServicesProofs` | `InboxIsBounded`, `EvictionIsSparing` | One surplus may be counted by many sends, who then delete the same rows or different ones. `BoundInv` speaks of every set of sends that have counted: with room for as many victims as any of them counted and all of them chose, the inbox has no more than its cap, that room and a row for each of the other sends that owe an eviction. The empty set, with no room, is the bound. Victims are the first of the rows (`VictimsAreFirst`), so two that choose from one inbox choose the same; that the rows can be put in that order is `OrdersSort`, by the minimum of the lengths that cannot. `OrderlyInv`, while nothing overlaps: what is still to be deleted is the surplus, and read before unread |
| `ServicesProofs` | `ClaimedNamesResolve` | `NamesInv`: the name of a person, and the name that a claim is about to write, resolves to a wallet the person has brought, or somebody else has claimed the label later or at the same time. Only a mint can take a label away, and it is such a claim (`MintResolves`) |
| `ServicesProofs` | `BoardTellsWinner`, `ServicesPlayTheGame`, `GameIsDecided` | `GameInv`: marks are made in turns, a board is full when it has as many marks as cells (`FullWhenCounted`), and a line can only be completed by the mark that moves last. Every step of the services is a step of `GameSpec` or leaves the board alone |
| `WebProofs` | `NothingIsForgotten` | `DraftInv`: the types, and that the newest edit, if it is worth a row, and the link of each tab are held: by the row, its timer or a save under way (`NewestIsHeld`, `BuiltIsHeld`). Who persists something worth a row holds anew (`PersistsKeeps`); every other step passes on what is held, or spoils the row (`QuietKeeps`). The row is overtaken only by what is older, which spoils it, or carries its link over |
| `WebProofs` | `PagesKeepApart` | A step of `Web` is a step of one page that leaves the variables of the others alone |
| `WebProofs` | `RevealedIsLive` | `FlowInv`: what a poll has seen as live has a URL, URLs stay (a step of `BuildPromise`), and whatever is on the reveal came from such a poll or from the timer |
| `WebProofs` | `ShellTypes`, `ContextIsRight`, `CallsAreRight`, `AnswersAreRight` | `ViewInv`: while a jam is mounted the gate has the token of one person; who is signed in is that person or nobody; each hook, frame, document and greeting below the gate speaks of that person, or of a guest where nobody could be known. Rendering keeps it when the hooks rendered are right (`RendersView`). `DeedsInv`, of what outlives a frame: a document's number never comes back, so that a call, a sheet or a request whose document is there is of what that document shows; the sheet is up only while the gate knows one person, who is the one the call shows; and a request is made as that person or nobody, but for the later ones of a payment whose document is gone. `IdsInv`: the ids a document has made are those it waits for, gave up and had answered, and no two of these meet |

Model-checked only. Liveness (fairness and ENABLED): `RecordedWinnersPaid`,
`EveryBuildSettles`, `EveryBuildEnds`, `NobodyWaitsForEver`, `JamsAppear`,
`WorkshopEnds`, `NewestReachesTheRow` and `BuiltLeavesTheList` (the safety under
them is `NothingIsForgotten`: what remains is that timers fire and saves are
answered), and that `BuildAgent` is fair to `BuildRunner` (its safety is
`AgentRefinesRunner`).

## Observations

Met while modelling, without a sentence of the repository that a run could
refute, or beside one of the runs above.

* Pots. One transfer, its hash written in upper and in lower case, backs two
  stakes (`validators.ts:6`, `pot-service.ts:147`), and the pool then pays more than
  it received. A reverted payout is marked as paid, because `submit` awaits the
  receipt and does not look at its status. Overlapping stakes pass the pool's cap.
  A payout that is called again splits a pool that late stakes have made larger;
  each call stays within the pool, all of them together may not. A pot nobody
  resolves, or whose jam was discarded, keeps its stakes.
* Builds. A reaped ("interrupted") build that later finishes is done, and a
  workshop that saw the interruption keeps saying that it "couldn't finish this
  jam". A builder that was restarted answers 404 to every poll until the 24
  hours are over. A builder at capacity answers 429 for a queue to hold and
  retry (`builder-dispatch.ts:80`), and the caller fails the build.
* Wizard. The workshop polls for ever when the jam it waits for was discarded or
  its finalisation failed. The demo timer announces a jam when `create` takes
  longer than 4.2 s. A second "Make it" shows the old build until the new one
  is there; it is not disabled during an adjust. Overlapping pastes exceed
  `BUILD_ATTACH_MAX`. An idea that was saved and then emptied stays on the
  platform, and a timer that still runs writes the older words
  (`use-build-draft.ts:52-55`).
* Confirm sheet. The later requests of an approved `payUSDC` take the token of
  their moment (`pay-executor.ts:72, 116, 132`, `use-host-auth.ts:84-87`): a person
  who signs out, and another who signs in, while a receipt is awaited, have the tip
  recorded as the other's.
* Shell. Should Dynamic's client fail to start, no hook ever leaves "pending",
  and the splash stays. `payments.mine` and `usdcBalance` are routed to
  `client.bridge.payments` (`host-bridge.ts:57-59`), which the bridge's router
  does not have (`routers/bridge.ts:415-425`). `GUEST` (`app-host.tsx:6-7`) is for
  signed-out viewers, whom `AuthGate` lets see no jam.
* Services. Who signs in for the first time with an email that is on another row
  is refused, then and for good: `user.db.ts:11` has it unique, and
  `user-service.ts` looks for the user by `dynamicUserId` alone. The comment "Sliding 60s window" is of a fixed window. "1/day" of the
  top-up is passed by overlapping calls, or after a lost receipt. Overlapping
  claims leave an ENS name with the wallet of the one who lost the username; a
  failed mint leaves the name of an earlier claim. A heart may show the opposite
  after a lost answer. A game's contract never checks whose turn the person is,
  and a reverted move still returns a hash.

## Running the checks

`tlc -config <run>.cfg <module>` for the runs of `PROJECT.json`, and `tlapm
<module>.tla` for the seven `…Proofs` modules and `SumLemmas`. The longest run, `Web`, takes about
four minutes with two workers; the proofs take some minutes together.

## What is not modelled

`PROJECT.json` lists every component with its status. The map covers about an
eighth of the repository's implementation lines. Most of the others hold no
state of their own that could go wrong between two steps:

* markup, styling and screens that show a list and call one procedure per button
  (`apps/web/src/app`, `components`), and the showcase and example jams;
* kits, templates, prompts and generators of `apps/builder` (text that is written
  into a jam), and copies of the SDK in them;
* scripts that run once by hand, migrations, configuration, schema files beyond
  the unique indexes and defaults that the modules have;
* queries that only read (feeds, threads, profiles, `pot.get`, balances), MCP
  tools that call the procedures modelled here;
* I/O around services outside the repository: models, speech, hosting CLIs,
  ENS manifests, token signing, the delegation webhook.

Of the parts that are modelled: the pinning of origins and the numbers of the
per-second limiter of the host; attachments and uploads; lists of drafts;
counters and reviews (each one atomic upsert); faucet; the size checks of
records; `requireApp` of a delisted jam in `Services`; the other two contracts;
provisioning of a jam's database by the platform (`lib/app-db.ts`; the agent's is
in `BuildAgent`); a deployment that succeeds unseen
(`in-memory-build.ts:536`, whose build is then reported as failed); and
`packages/builder/src/deploy/orchestrate.ts`, which nothing in the running
system calls but the teardown route. The `deadline` of a pot is stored and acted
on by no code; the sweep of unresolved pots that `SPEC.md` describes does not
exist.
