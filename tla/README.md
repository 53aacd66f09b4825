# TLA+ models of the crash game

This directory specifies, model-checks and proves the game in `src/`: a round
takes bets, runs while a multiplier grows, crashes at a point drawn beforehand;
a player who cashes out before the crash is paid stake times multiplier. Two
NestJS services do the work, connected by RabbitMQ: *Games* holds the rounds,
*Wallets* moves the money.

Contents: [inventory](#1-inventory), [modules](#2-modules), [what the model
leaves out on purpose](#3-abstractions), [runs](#4-runs), [fairness](#5-fairness),
[proofs](#6-proofs), [disagreements found](#7-where-code-and-documents-disagree),
[not modelled](#8-not-modelled).

## 1. Inventory

| Component | Source | State | Operations | Talks to |
|---|---|---|---|---|
| Round, Bet, CrashPoint | `services/games/src/domain` | state, multiplier, crash point, bets, winnings | placeBet, setCrashPoint, startRound, updateMultiplier, crash, cashOut, lose | called by the lifecycle service |
| Round lifecycle service | `services/games/src/application/services/round-lifecycle.service.ts`, `use-cases/`, `presentation/controllers` | `currentRound`, timers, nonce, seeds | initializeNewRound, transitionToRunning, multiplier loop, transitionToCrashed, placeBet, cashOutBet, `POST /games/rounds` | repository, publisher, gateway |
| Round repository | `services/games/src/infrastructure/typeorm` | tables rounds, bets | save (two statements), find | PostgreSQL |
| Publisher | `services/games/src/infrastructure/rabbitmq` | one lazily opened channel | publishBetPlaced, publishBetCashedOut, publishBetLost | RabbitMQ |
| WebSocket gateway | `services/games/src/presentation/gateway` | none | five broadcasts | frontend |
| Provably fair | `crash-point-generator.ts`, `verify-round.use-case.ts`, seeds of the lifecycle service | server seed, its hash, client seed, nonce | generate, reveal, setClientSeed, verify | lifecycle service |
| Event consumer | `services/wallets/src/infrastructure/rabbitmq`, `consumed-event.repository.ts` | channel, table consumed_events | handleMessage, three handlers, claim, retry, dead letter | RabbitMQ, use cases |
| Wallets | `services/wallets/src/application`, `domain`, `wallet.repository.ts` | table wallets | create, get, debit, credit | PostgreSQL |
| Demo service | `services/demo/src` | none of its own | the same code in one process, publisher replaced by direct debits and credits, a login that creates the wallet | wallets, games |
| Frontend | `frontend/src` | Zustand stores, `currentRoundIdRef`, the bet hook's reducer | socket events, fetch of the current round, bet and cash-out hooks, canvas | Games, Wallets over HTTP and Socket.io |
| Kong, Keycloak, Compose | `docker`, `docker-compose*.yml` | configuration | | |

What makes each component correct, and what is hard about it:

* **Round and bets.** States never go back; a bet is settled exactly once, in
  its round, below the crash point or at the crash. Hard: nothing by itself, it
  is sequential; the difficulty is which round a caller hands it.
* **Lifecycle service.** Rounds follow one another, one timer or loop at a time,
  and no bet stays without a result. Hard: every handler is cut at its awaits
  and reads `this.currentRound` again afterwards; failing saves are only logged;
  `POST /games/rounds` opens rounds beside the timers; a restart forgets.
* **Repository.** The rows of a round end up equal to the round. Hard: saves of
  one round overlap, each in two statements.
* **Publisher.** Every event handed over reaches its queue. Hard: a channel that
  closed is kept; nothing waits for the broker to confirm.
* **The two services together.** A bet is paid for and a win paid out, once.
  Hard: five windows in which a fault costs a payment, and all others in which
  it must not.
* **Provably fair.** A nonce is used once per seed, a crashed round verifies
  against the revealed seed. Hard: reveals rotate the seed between rounds.
* **Consumer.** An event moves its wallet exactly once. Hard: redelivery,
  crashes between claim and commit, retries, connections that are lost for good.
* **Wallets.** Balances are the sum of what was applied and never negative.
  Hard: read-modify-write without a lock, one handler per delivered message.
* **Wallet creation and the demo.** One wallet per user, money moved once per
  bet. Hard: check-then-create, no claim, no retry, errors that are swallowed.
* **Frontend.** What it shows is the round and the bet of the server. Hard:
  socket events and HTTP answers arrive in any order, connections break and
  come back, and effects react to a state that is local while disconnected.

The hazards are listed one by one, at their lines, in `PROJECT.json`.

## 2. Modules

| Module | Models | Role |
|---|---|---|
| `RoundAggregate` | domain layer of Games | operators on records: a guard `RoundCanX` and an effect `RoundX` per method that may throw |
| `RoundLifecycle` | lifecycle service, bet/cash-out/create handlers | state machine, EXTENDS `RoundAggregate` |
| `RoundContract` | what the domain layer promises | abstract specification |
| `RoundLifecycleProps` | | properties of `RoundLifecycle`, refinement mapping to `RoundContract` |
| `RoundAggregate_proof` | | lemmas about the domain operators |
| `RoundLifecycle_proof` | | theorems |
| `RoundRepository` | `RoundRepository.save` under all its callers, tables rounds and bets | state machine, EXTENDS `RoundAggregate` |
| `ProvablyFair` | seeds, nonces, crash point generator, verification | state machine |
| `WalletService` | consumer, claims, debit and credit, HTTP debits and credits | state machine |
| `RoundRepositoryProps`, `ProvablyFairProps`, `WalletServiceProps` | | properties |
| `RoundRepository_proof`, `ProvablyFair_proof`, `WalletService_proof` | | theorems |
| `BetOutcome` | what payments depend on in the game: how a bet ended, what it may win | shared by the two compositions, EXTENDS `RoundLifecycle` |
| `CrashGame` | both services, the publisher's channel and the broker between them | composition: EXTENDS `BetOutcome`, INSTANCE `WalletService` |
| `DemoService` | the demo deployment: games, transfers, logins and wallet creation in one process | composition, EXTENDS `BetOutcome` |
| `PaymentContract` | what both deployments promise about money | abstract specification |
| `CrashGameProps`, `DemoServiceProps` | | properties, refinement mappings to `PaymentContract` |
| `CrashGame_proof`, `DemoService_proof` | | theorems, from those about the services alone |
| `GameClient` | one page: socket, fetch, stores, bet hook | state machine, EXTENDS `RoundAggregate` |
| `GameClientProps` | | properties |
| `GameClient_proof` | | theorems |
| `MC…` | | instances for TLC |

**`RoundLifecycle`.** The Games service is one object on one JavaScript event
loop, so a step is what runs between two awaits. A handler that is suspended is a value
in `saving` (lifecycle steps waiting for their save), `placing`, `cashing`
(requests) or `losing` (the loop that publishes `bet.lost`). `timers` is the
queue of armed `setTimeout`s: all of them last 5000 ms, so they fire in the
order in which they were armed. `loops[r]` is the closure variable
`currentMultiplier` of the `setInterval` started for round `r`; the tick itself
works on `current`, as the code does. Rounds are numbered by creation;
`current` is `this.currentRound`, and a continuation that reads
`this.currentRound` after an await reads `current` of that later moment.
`firstRound` tells rounds of this process from what earlier processes left in
the database. `events` and `notices` collect what was handed to the broker and
announced to clients. `Crash` forgets timers and suspended handlers, `Boot`
constructs a new service that opens a new round.

**`RoundRepository`.** One round and one saver per call of `save` it can meet:
its creation, its start, its crash, each placed bet and each cash-out. `save[s]`
is where that call is (`select` → `write` → `written` → `selectBets` →
`writeBets`) and what it has in hand: the entity mapped when `save` was called,
the row it found, and the same for the bets, which are mapped only when the
round is written. TypeORM is external: it loads the row, inserts it if it was
not there, or else updates the columns that differ from what it loaded (an
undefined column is left alone). `overlapped` is a history variable.

**`ProvablyFair`.** `serverSeed`, `clientSeed`, `nonce` are the fields of the
service; `betting`, `loops`, `pauses` count its timers, and `TransitionToRunning`
is the draw. `verifying` holds the verifications that wait for `findById`.
`revealed`, `announced` and `verdicts` are history variables.

**`WalletService`.** `ready`, `unacked`, `dlq` are the queues of the broker
(external: modelled from the use the consumer makes of it); a copy
`<<message, retry count>>` is one delivery. `task[t]` is the suspended handler
of a copy or of an HTTP request: `claim` → `find` → `save`. `balance` is the
column; `ledger`, `applied`, `version` and `raced` are history variables the
properties read and no action's guard does.

**`CrashGame`.** A step of `RoundLifecycle` that adds an event is a publish: the
message arrives in the queues of `WalletService` (`Send`), or it was written to
a connection that is gone (`SendLost`). `channel` is the publisher's field: once
closed it is kept, and every publish throws until the process is restarted. A
restart of the broker closes both services' connections and loses what waits,
for nothing is sent as persistent. `excused` is a history variable: the payments
that a fault struck in one of the windows `EndsUnpublished` and `Struck` name.

**`DemoService`.** A call of `RoundLifecycle` that is `publishing` is here a
transfer: `TransferFinds`, then save; when the save returns the publish has
succeeded, when anything in it throws it has failed. `opening[k]` is how far
login or `POST /wallets` number `k` is, and `opened` are the rows the calls have
inserted, by the call. `saves`, `raced` and `overlapped` are history variables.

**`GameClient`.** The service is reduced to what a client can tell: one current
round that moves by `RoundAggregate` and announces each change after its save.
`net` holds the events under way on the connection, in order; `fetch[c]` is the
`GET /games/current` of connection `c`, and `call` the one POST the bet hook
waits for. `store`, `ref`, `position` and `localState` are the page's state. An
action is one event, answer or click with the React effects it causes
(`AfterEffects`). The histories `informed` and `untold` say when the page cannot
know better: an answer overtaken by events (or events lost with a connection)
came last, and a request that ended without telling of a cash-out.

**Mistakes.** A definition whose name contains an underscore
(`HasCrashed_exclusive`, `Claimed_ignoresDuplicate`, …) is the definition named
before the underscore with a plausible bug in it. No module uses them: each is
substituted for the original to see that a property notices.

## 3. Abstractions

* A multiplier is an integer, one unit per tick of the loop (0.01). Crash points
  of the generator have two decimals and the loop rounds to three, so the loop meets the crash
  point exactly; a configured override with more decimals is outside the model.
  `Winnings` keeps the rounding down.
* The multiplier of a cash-out comes with the request, as in the code: any
  value from 1.0 up.
* Refused requests (a guard of the domain layer throws) change nothing and have
  no action. Branches no request can reach are left out: a null
  `currentRound` (the server listens only after the first round was saved, and
  it is never set back), `hasBetBeenPlaced` false, `state !== "CRASHED"` in
  `transitionToCrashed`.
* In `RoundLifecycle` a save is one await that succeeds or rejects; what its
  statements write is the subject of `RoundRepository`. A publish is one await that hands over the event or rejects.
* `transitionToCrashed` visits the pending bets in any order (the code: in order
  of placement), and bets placed during the loop are not visited: `bets` is a
  getter that copies the Map's values once.
* `Number(amount) / 100` and `Money.fromMainUnit` are the constant relation
  `RoundTrip` (same amount, or one centavo less).
* A wallet's database calls are atomic and ordered. An error of the INSERT or
  of a save may come before or after the commit.
* Acking on a closed channel throws into the catch block, which then throws
  again: the broker has taken the message back, and nothing else changes.
* `RoundRepository` keeps the columns state, crash point and winnings. `null`
  winnings are 0: a pending bet has nothing else, and a lost one has 0.
  Writing the bets is one transaction, hence one step. The round is opened,
  started and moved by the guards of the domain layer; what the handlers do
  after a save is in `RoundLifecycle`.
* In `ProvablyFair` a save is part of the step that calls it, and it fails only
  when the row does not take the value. Random values do not repeat. A hash is
  what it is computed from, so equal hashes mean equal inputs; `Word` gives the
  number in its first four bytes, 8 bits in the runs, any width in the proofs.
  Multipliers are hundredths, as the generator computes them.
* Demo-session wallets are left out (the look-up has a second key then).
  `Registered` are the users with a wallet; how one comes to be is in
  `DemoService`.
* In `DemoService` the wallets table is the one TypeORM synchronizes from the
  entity, as the demo does: unique over user and session, and sessions are NULL,
  hence distinct. A direct `POST` debit or credit is left to `WalletService`.
* `GameClient` has one player; other players' rows in the live bets change
  nothing of his. Balances are a cached query that is refetched, here always
  enough. Reconnecting restarts nothing on the page but the fetch. A row of the
  live bets is absent, pending or cashed; display names are left out.

## 4. Runs

Bounds: two or three rounds are what it takes for a late step of one round to
meet the next one (and for the pause timer to replace a client's round, three);
one or two bets, so that a round can have a settled and a pending bet at its
crash; crash points one and two ticks above 1.0 (`One = 2`, `MinCrash = 3`,
`MaxCrash = 4`), so that a round can crash on its first tick or not, and a
cash-out can be below, at and above the crash point. `lifecycle_manual` takes
two and three ticks instead, so that two loops with different values can meet
on one round, and leaves failing saves to `lifecycle_core` and the proofs.
`repository_core` has one bet, hence up to five overlapping saves; what two
bets add is in the proofs, which hold for any number. Three server seeds allow
two reveals, or a reveal and a restart; `MCWord` gives points below, in and
above the range; `fair_core` configures a minimum below 1.3, so that
`CrashPoint.create` refuses a draw, and one of the two client seeds does not fit
its column. `MAX_RETRIES` is the code's 3, and 1 in `game_core`, where the first
redelivery already shows what a retry does.

`client_core` has two bets, for a retried or late answer to meet another bet,
failing requests and one connection, because what a lost event does to the crash
history is not what it asks; `client_reconnect` has two connections, one bet and
requests that succeed. There one event at a time is under way, which is enough
for an answer to be overtaken by it, and a fetch or a bet made on the first
connection can be answered on the second. The crash point is two ticks above 1.0.
`game_core` has one bet of one player, whose debit and credit already meet in
both orders, and every fault of both services; `demo_core` has two bets of one user, a login that opens a wallet with money for one
bet and a `POST /wallets` that opens an empty one. In both a payout of 3
loses a centavo. Both have one round: payments of two rounds do not meet but in the
wallet, where those of two bets already do.

Deadlock is not checked: a game whose rounds are used up, whose save failed, or
whose consumer is deaf really stops.

| Run | Question | Answer |
|---|---|---|
| `lifecycle_core` | Two rounds, two bets; saves, publishes and the process fail. Is there one driver at a time, is no bet left behind, is what is announced true? | holds; implements `RoundContract` |
| `lifecycle_manual` | The same with clients opening rounds (three rounds, one bet), so that several timers and loops are at work. What survives? | settlement, and replaced rounds at rest |
| `lifecycle_live` | Without failures: do rounds keep coming, bets settle, bets get announced? | holds under `FairSpec` |
| `repository_core` | One bet; the saves of a round overlap call by call, the database fails, the process dies. Is a row ever ahead of its round, or a mixture of two saves? | never; and saves that do not overlap leave the rows equal to the round |
| `fair_core` | Reveals, new client seeds, restarts, client-opened rounds, refused and unsaved draws, and verifications between the draws of three rounds. Is a nonce used twice, a draw made with a revealed or another seed than announced, a verdict wrong, a round left without a driver? | never, but for a round whose own draw failed |
| `wallet_core` | A debit, a credit, a malformed message and an HTTP debit on one wallet; database errors, lost connection, broker restarts, crashes. At most once? Balances exact? | holds |
| `wallet_live` | Without failures: does every credit arrive, does every message end? | holds under `FairSpec` |
| `wallet_lost` | A claim of a test | violated, see section 7 |
| `game_core` | Both services and every fault of each. Does a wallet move without its bet, twice, or by another amount? Does a payment fail to happen without a fault in a named window? | neither; implements `PaymentContract` |
| `demo_core` | The demo, with overlapping logins, creations and transfers, errors and a crash. The same promise? Two wallets? Money that does not add up? | implements `PaymentContract`; two wallets only after overlapping creations; totals exact unless two transfers overlap |
| `client_core` | One page, two rounds, failing requests. Does it show an outcome that is not one, or ask for a multiplier the round has not reached? | neither |
| `client_reconnect` | Connections that break and come back. Does a quiet page show the service's round and an open bet that is open? | yes, unless an overtaken answer or lost events came last |

`SingleDriver`, `NoBetLeftBehind`, `CrashesAtItsPoint`, `NoticesTellTheTruth` and the part of
`EventsTellTheTruth` about losses are true only while clients do not use
`POST /games/rounds`, and are checked without it. That part states a fact a
reader of `transitionToCrashed` would not expect: the loop that publishes
`bet.lost` never finds a bet, because `crash()` has settled them all before.

## 5. Fairness

Games: an armed timeout fires, a running interval ticks, and the database and
broker answer every call with a result or an error (weak fairness per suspended
handler). Clients are never obliged to do anything, and nobody is obliged to
boot the process or restart it. Hence the liveness properties start from a
current round or an existing bet.

The safety runs of `CrashGame`, `DemoService` and `GameClient` state no
fairness: what they promise is about what has happened when all is done
(`WalletsIdle`, `Quiet`), not that it gets done.

Wallets: the service is started, the broker delivers from a queue that has a
consumer, the database answers. No fairness on publishing, on requests, on
crashes or on connection losses.

## 6. Proofs

`tlapm` checks the `_proof` modules from the named
assumptions on the constants (`MultiplierAssumption`, `AmountAssumption`, …): any
numbers of rounds, bets, users and messages, any crash points, any amounts, all
failure switches on or off. `POST /games/rounds` is allowed, but for the
theorems about one driver, which assume `~ ManualRounds` where they say so.

*Games.* `TypeCorrect` needs `Unborn`: while the process is down at the start
there is no current round. `BetsSettle` rests on `GameInv`: bet and round agree
only because a round has a crash point exactly from its start on
(`RoundsInOrder`) and no bet belongs to a round that is still to come
(`BetsInRounds`). `GameSteps` reduces the thirty actions to the five that touch
rounds or bets; `Refinement` maps these five to steps of `RoundContract`,
everything else stutters. `Nonces` needs that rounds of this process used nonces
below the counter. `ReplacedRoundsRest` and `MultipliersRise` follow step by
step. `PaymentEvents` needs that a cash-out waiting to be published is for a
cashed-out bet of the round it will name.

*One driver.* The second half of `RoundLifecycle_proof` proves what holds while
only the service opens rounds. Its invariant `Relay` follows the baton: an armed timeout, a running
interval, a step waiting for its save and a loop publishing losses each say in
which state the current round is (a betting timer: BETTING; a loop: RUNNING,
with the loop's value; a pause timer: CRASHED), and there is at most one of them
(`SingleDriver`). Only with all of these is the invariant inductive: that a timer finds
the round in BETTING, say, is needed to see that it does not start a second
loop. `RoundsStopOnTheirPoint` follows because the one loop carries the round's
own multiplier, `NoBetIsLeftBehind` because a round is replaced only from the
pause, when it is crashed and has no pending bet, `NoticesAreTrue` because
the round a continuation reads after its await is still the one it was called
for, and `EventsAreTrue` because the loss loop never has a bet to publish.

*Wallets.* `TypeCorrect` contains that no balance becomes negative: a debit that
waits for its save was covered by the balance it found (`Covered`). `AtMostOnce`
and `ClaimFirst` rest on `ClaimInv`: whoever is past the claim works on a
claimed event that is not applied, and is alone. `DeadLettersAreMalformed`
rests on `RetryInv`: a copy with a retry count is one of a claimed event, so its
handler stops at the claim. `LedgerKept` rests on `LedgerInv`: a handler whose
version is still current has the current balance. `OnlyPublishedMoves` rests on
`SourceInv`: nothing in a queue, a handler or the claims was not published.

*Repository.* `RoundRowNeverAhead` and `BetRowsTellSettlement` say that
overlapping saves, harmful as they are, only ever take rows back to something
that was true before. They rest on `PastInv`: every entity in hand, every row
found and every row in the tables is one the round or the bet has or had
(`PastRound`, `PastBet`). `UpdateIsPast` is the heart of it: an UPDATE builds a
row from the columns of three such rows, and the result is one again, because a
crash point is never unset and winnings change only together with the state.
`PastStays` is the other half: what was past stays past when the round moves on.
`RowsTellTheTruth` is their conjunction, the invariant the run checks.
`CallerKeepsInv` and `SaveKeepsInv` reduce each action to the part it changes.
`PlacedBetsAreStored` rests on `OnceInv`: a save that was called for a bet finds
the bet in the round when it maps the bets (`CallDone`), and a bet of the round
has an entity (`OwnBetIsSaved`); rows do not vanish (`WrittenBetsFacts`).
`SerialSavesArePersisted` rests on `SerialInv`: while no two saves have been
under way together, what the one save has found is what the tables hold, so an
UPDATE of the differing columns leaves the whole entity (`UpdateWhole`), and a
bet without an entity has no row that could be left behind (`NoEntityNoRow`).

*Provably fair.* `TypeCorrect` counts: nonce and armed timers never overtake the
rounds (`Counting`). `NoncesOnce` needs that points drawn with the current seed
have nonces below the next one and that seeds only come new (`PointInv`,
`SeedBelow`). `DrawnRoundsVerify` rests on `FormulasAgree`: the generator's
min-of-max and the verification's max-of-min are the same in a range that is in
order. It and `VerdictsAreExact` assume such a range (`ConfigInRange`).
`AlwaysDriven` holds in any configuration: only a failed draw of the round
itself (`failed`) leaves it alone. `DrawsAreCommitted` needs that the current
seed is neither revealed nor other than the one announced last.

*The two services.* `CrashGame_proof` takes what is proved of each service and
adds the link. `GamesGoOn` and `WalletsGoOn` show that a step of the composition
is one of `RoundLifecycle` and one of `WalletService` (instantiated with the
events as messages, whose assumptions `EventsAreMessages` proves), so that both
sides' invariants hold. The link is that only events of the game are published
(`LinkInv`), that they are well formed (`ShapeInv`), and that a bet has one of a
kind (`OnceInv`: the request that publishes it comes once and is over). Together
they make `GamePays`: a save of a wallet is a `Debit` or `Credit` of
`PaymentContract`, every other step is one of the game or stutters.
`NobodyForgotten` says that the windows `EndsUnpublished` and `Struck` name are
all there are. Its invariant follows a payment from hand to hand: once the
request is over the event is published (`RequestInv`), and a published one has
been applied, or waits unclaimed in a queue or for the answer of its claim, or is
worked on after it (`KeptInv`, `Alive`). `KeptByClaim`, `KeptByHandler` and
`KeptByProcess` show that a step keeps it so or is one of the windows.

*The demo.* `DemoPlaysTheGame` lets it inherit the theorems of `RoundLifecycle`.
`SecondWallets` rests on `OpeningInv`: of two calls of one user past the look-up
one looked before the other inserted. `DemoPays` rests on `UnpaidInv` (a bet whose
transfer is still under way has not been saved, since its answer ends the
request). `DemoMoney` rests on `LedgerInv` (the sums are over finitely
many wallets and bets, and a transfer saves to a wallet of the user it is for):
every step keeps the equation `AddsUp` of every user who is not `raced`, over all
his wallets. A new wallet adds its opening balance to both sides
(`OpeningStaysEven`), a save moves as much as it adds to the bets that are paid or
credited (`SavingStaysEven`), every other step leaves both sides alone
(`OthersStayEven`). The sums are folds over sets; `TotalIsInt`, `TotalTakes`,
`TotalsAgree` and `TotalGrows` say of them what a step needs. Each is proved for
any finite set from facts about one element (`FoldExists`, `TotalStep`), the induction
over finite sets being that of a least counterexample (`LeastSet`); the theorem
assumes no bound on the bets, for only bets that have been placed count
(`SumsAreFinite`).

*The page.* The state of the page says little about what is still under way to
it, so the invariant has to. `StreamInv` speaks of *views*, a round with its
state and its multiplier, ordered by `Precedes`: there is a sequence of views,
one more than there are events under way, which each event takes one further
(`Fits`, `After`), from what the page has been told to what the service has
announced last (`Told`). The service only moves to later views (`ActualMoves`),
what it sends fits what it has said (`SentMoves`), an answer that is not
overtaken is no older than any view the page will have seen when it comes
(`AnswersFollow`), and the page, unless it has been set back, shows the first view
of the sequence or something newer, never more than the service has
(`PageFollows`). There is a lemma for each way in which the sequence changes: the
service moves in silence (`StreamSilent`), sends (`StreamGrows`) or sends to
nobody (`StreamLoses`), the connection breaks (`StreamBreaks`), answers come
(`StreamAnswers`), an event is handled (`StreamAdvances`, `StreamHandles`). When
nothing is under way the sequence is one view, the service's own:
`QuietPagesAreInSync` and `AsksForWhatIsThere` follow.
The bet hook needs `RequestInv`: a cashed-out bet is shown as one, or its request
is still out, or ended without saying so (`PayoutsAreTold`), and a request names
the bet of the position unless that was reset (`RequestsAreServed`). With
`RoundInv`, that bets settle with their round, it gives `OpenPositionsAreOpen` and
the first two parts of `OutcomesAreTrue`. The third, the green rounds of the
history, needs `RowsFollow`: the rows are of the round the page has been told of.
That is so on one connection only. Rows and the player's bet survive a
reconnect, and a page that missed the next round's start marks it green for a
win of an earlier one; hence the form of the property.

Only model-checked: all liveness, which is out of the prover's reach (fairness
and ENABLED).

## 7. Where code and documents disagree

`wallet_lost` is a run that finds its property violated: the smoke test expects
a final balance of initial − bet + winnings, and two overlapping saves of one
wallet lose an update.

The models have these behaviours too, and a property that excuses or excludes
each says how far it can go:

* README: "`cashOut` → event → wallet credit". The bet is looked up in the round
  that is current after the save; if the next round is open by then no event is
  sent (`EndsUnpublished`).
* README: "`placeBet` → event → wallet debit". Two players bet at once, one save
  fails on a row the other inserted; its bet plays without a debit
  (`DuplicateBet` in `RoundRepository`).
* README: players verify every round's outcome. Rounds drawn before a reveal or
  a restart are INVALID to the endpoint (`VerdictsTellTheSeed` says exactly when).
* README: ACK only after success. A crash after the claim makes the redelivered
  event a duplicate, acked unapplied (`Struck`).
* README: at-least-once delivery. Messages are sent without persistence or
  confirm; a broker restart or a connection that closes loses them (`SendLost`,
  `BrokerRestarts`), and after a lost connection every publish throws and the
  consumer stays deaf until the processes are restarted.
* A slower save writes an older state of a round over a newer one, so that the
  row goes back (`RoundRowIsTrue` says how far).
* `POST /games/rounds` during the pause: the pause timer replaces the round the
  client opened, its bets keep `PENDING`; and `bet.lost` may be published for
  live bets of a round opened while the crash was saved.
* A rejected save of `transitionToRunning` is only logged, and the round runs
  for good. A client seed longer than its column makes it reject (`failed`).
* The first retry of a failed event is skipped as a duplicate, so a well-formed
  event never reaches the dead letter queue (`OnlyMalformedDeadLetters`).
* The page: an answer of `GET /games/current` overtaken by events sets it back;
  a disconnect during the round resets the position, and the bet cannot be
  cashed out after reconnecting; a cash-out whose publish fails is shown as
  LOST; a cash-out announced after the crash leaves a red mark in the history.
* The demo: a debit that fails is swallowed and the bet plays unpaid; two logins
  at once create two wallets.

The README also promises an exponential backoff between retries; the consumer
has none (it republishes at once).

## 8. Not modelled

* History pages and statistics: read-only queries nothing else reads. The history endpoint
  passes its page number as the number of rows to skip, so that pages overlap
  and, with pages counted from 1, the newest round is on none of them; no
  sequence of steps is needed to see it.
* The double arithmetic of `Number(x) / 100` and `Math.floor(x * 100)`: TLA+ has
  integers; the possible loss of a centavo is a constant of the models.
* Canvas, pages and widgets: they read the stores and change none of them. Mock
  bets, seed panel, login form and the balance query of the page.
* Kong, Keycloak, Compose: configuration of third-party services. The other
  migrations; the one of the wallets leaves the unique user column beside the
  new index over user and session, while the demo's synchronized table has the
  index only.
* Demo sessions, and the direct debits and credits over HTTP in the demo (those of
  `WalletService`).

What could come next: the queries of the history pages, and a page of two
players.
