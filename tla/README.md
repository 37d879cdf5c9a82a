# Kurrent in TLA+

Kurrent is a latest-state channel for Kaspa: participants keep signing newer
states off-chain, anyone may publish a signed state on the channel's lane, a
newer state displaces an older one within a response window, and what is left
undisplaced when its window has passed may be settled. The repository holds a
verifier library (`src/lib.rs`), a driver that runs the protocol against a local
Kaspa devnet (`drivers/kaspa-devnet/src/main.rs`), and tools that turn the
recorded evidence into gates (`src/bin/kurrentctl.rs`,
`src/bin/run_devnet_tests.rs`, `src/client.rs`).

This directory models the verifier's state machines and judgements, checks them
with TLC on small instances and proves their central properties with TLAPS for
every value of the constants.

## 1. Inventory

| Component | State it keeps | Operations | Talks to |
| --- | --- | --- | --- |
| **Settlement registry** (`SettlementRegistry`, lib.rs 969–1149) | latest header and seen commitments per channel, settled channels, registered receipts | `accept_update`, `accept_update_with_rule`, `validate_and_accept_update`, `settle`, `register_receipt` | called by driver and tools in any order; first calls the update validator in one entry point |
| **Claims** (same struct, lib.rs 1151–1210) | settled claims, refunded claims | `settle_claim`, `refund_claim`, their scoped and template forms | refund maturity comes from a settlement template |
| **Channel update validation** (lib.rs 1237–1478) | none | `validate_channel_update`: domain, lane binding, participant set, quorum, three sums against the funding total, signatures | guards the registry, the eligibility evaluation and the driver |
| **Settlement eligibility** (lib.rs 432–508, 1481–1671, 1892–1968) | none in the library; a lane of markers on the chain | `evaluate_settlement_eligibility`, `dedup_candidates_prefer_later` | reads the lane at a proof block; its decisions outlive it |
| **Fee-sponsored eligibility** (lib.rs 511–546, 1673–1890) | none | the above plus sponsor accounting per candidate | wraps settlement eligibility |
| **Channel factory** (lib.rs 727–790, 1999–2206) | principal, fee reserve, virtual channels, materialised receipts | `validate_materialisation(before, after, plan)` | issues a channel receipt |
| **LN swap** (lib.rs 2208–2299) | none | `validate_preimage`, `validate_ln_swap` | binds a receipt to an LN payment |
| **Normative construction helpers** (lib.rs 2340–3236) | none | encodings, MuSig2, settlement mask, policy, sponsor invariant, conservation | used by tests |
| **Devnet driver** (main.rs 120–3202) | coins of the devnet, place in its plan, live and raw evidence files | state-channel, lane-monitor, eligibility, sponsored, factory, hashlock and refund flows | Kaspa node over gRPC, the library |
| **Semantic verifier** (main.rs 3204–4836) | none | re-reads recorded transactions and compares them | the driver's evidence files |
| **Gates** (kurrentctl.rs) | flow files, acceptance report, verifier and soak results, profile, review package, readiness report | one command per file; `check` chains them | evidence files, driver, git, tools |
| **Devnet test runner** (run_devnet_tests.rs) | place in its steps, freshness cut-off of what it shows | ordered steps, `--strict-production` | kurrentctl |
| **Process client** (client.rs) | none | finds and runs binaries | OS |

The behaviours that are hard, and what correctness means for each part:

* *Registry.* Calls arrive late, twice, out of order, or from two branches of
  one channel. Two maps written one after the other must tell one story; a
  channel must be a chain that never forks; a settlement must be the last thing
  that happens to it and must survive a receipt registered beforehand.
* *Eligibility.* Each evaluation is a snapshot of a lane that goes on growing,
  ageing and being reorganised while a caller acts on the answer. A decision out
  of reach of a reorganisation must stay; one window at most may be open; a lane
  must not stay undecided; and while somebody answers stale states in time no
  stale state may become eligible. Replacements exactly at the end of a window
  and scores close to `u64::MAX` are the edges.
* *Factory.* The next state is proposed, not computed; anything the validator
  lets pass is what the factory becomes. Over a whole sequence of
  materialisations value is conserved, no channel is altered, leaves twice or
  comes back, and a channel that is still inside can get out.
* *Update validation and sponsors.* Participants sign whatever they like, a quorum
  need not be a majority, a reporter may come late to the lane and says itself
  what a sponsor's coin paid. When two states of one number are both provable,
  nobody but faulty participants may have signed both; and a report once given
  must stay true.
* *Driver and node.* The covenant outputs need no key: between two steps of the
  driver anybody may spend them, in any branch the scripts leave open; foreign
  blocks come in; calls get lost, and any error counts as a rejection. Value must
  reach the parties whatever happens, and a run that passes must have shown what
  it says it showed.
* *Gates.* Every command starts from the files earlier ones left, of this run or
  another, complete or torn. What a gate accepts must be the evidence of one run,
  and a script that passes must have made what it passes on.

## 2. Modules

### `LatestStateChannel`, the abstract channel

A sequence of commitments that grows at its end and is closed once, on its last
element. It knows nothing of maps, receipts, rules or errors.

### `SettlementRegistry`

| Model | Code |
| --- | --- |
| `latest`, `seen`, `settled`, `receipts` | `latest_by_channel`, `seen_commitments`, `settled_channels`, `receipts` |
| `Accept` / `RefuseUpdate` | `accept_update` (rule `RejectConflict`) and `accept_update_with_rule` |
| `Settle` / `RefuseSettlement` | `settle` |
| `RegisterReceipt` | `register_receipt` |
| `AcceptOutcome`, `SettleOutcome`, `RegisterOutcome` | the early returns of each, in their order, each with its error |
| `issued`, `reply` | history only: receipts returned by `settle`, the last call's result |

Hashes are injective, so a commitment, a template hash or a receipt key *is* the
value hashed. Header fields that no condition tells apart are grouped: `terms`
(repeated in a receipt) and `covenant` (not repeated). `StateNumbers` is
`0 .. MaxState`: `checked_add(1)` fails at the top, as at `u64::MAX`.
`validate_and_accept_update` is an `Accept` under the rule of the channel's policy
when the validator (`ChannelUpdates`) takes the update, and `RefuseInvalidUpdate`
when it does not.

### `EligibilityRules`, the judgement as operators

`Status(c, Ranked(lane), daa)` is the decision `evaluate_settlement_eligibility`
returns for a candidate and `Evaluates(lane)` says that it returns decisions and
not an error. `Evaluates` has the code's conditions: every candidate passes the
update validator (`Signed`), accepted-order indices are unique, neighbours in
accepted order are in order of score and number and linked when their numbers
are consecutive, and every finalisation score fits. Neighbours only, as in the
`windows(2)` loop; that this is enough for all pairs is the theorem
`NeighboursSuffice`. Under `PreferLater`, `Ranked` is the result of
`dedup_candidates_prefer_later`. Errors are not told apart. A candidate's order
index stands for its txid: a transaction is accepted once. All candidates belong
to one channel and carry the lane the evaluation is asked about; a marker that
does not is part of "not `Signed`", because every such mismatch makes the
validator refuse. The evaluation is handed one settlement template and
validates every candidate against it, so the states of `Signed` are those that
commit to one template; a state that commits to another distribution is "not
`Signed`" in an evaluation and makes it refuse, which is what the code does.

### `SettlementEligibility`, the lane

| Action | Meaning |
| --- | --- |
| `Tick` | a block raises the DAA score (external: Kaspa) |
| `AcceptMarker(s)` | a block accepts a marker carrying any state, signed or not, old or new |
| `Reorganise(fork)` | the chain drops what it accepted above a score, at most `ReorgDepth` below the highest score it has had |
| `Evaluate` | the monitor evaluates the lane and records the decisions that got out of reach of a reorganisation (`Buried`: the decisions are the code's, the depth below which a caller may rely on them is the model's notion, for the code has none) |

`Init` leaves the opening score free, so that lanes close to the top of the
64-bit range (where finalisation overflows) are among the behaviours.

### `WatchedChannel`

The same lane with one participant who answers a stale marker with `Top`, the
highest state ever signed. `TimelyTick` is the inclusion assumption: the clock
does not reach the finalisation score of a stale candidate before an answer is
accepted. The crate's documentation names that assumption (bounded inclusion)
as one it does not discharge; the model makes it explicit. The last accepted
order index is kept for the watcher, so that the bound on the lane's length is
not what silences it.

### `Factory`

State before a materialisation is the variables, and what is proposed for the
state after is a parameter: `Validates(plan, nextSpent, ...)` holds exactly where
`validate_materialisation` returns a receipt. `Materialise(plan)` is that of the
primed variables. Nothing in the action assigns the next state: it is any state
that satisfies the conditions, as in the code. Balances and outputs occur in the
code only inside `checked_sum`, so a virtual channel has a principal and a plan
the sum it pays. `network'` is free because the code compares it with nothing.
`PlanFits`, `ReceiptsFit`, `LeavesFit` and `AmountsFit` group the code's
conditions by what they protect; errors are not told apart, so their order does
not matter.

### `ChannelUpdates`, the validator

`Fits(u, template)` is `validate_channel_update` up to the signatures, in the
parts the code has (`LaneBound`, `ManifestFits`, `Conserved`); `Quorum(u, signers,
signed)` is the signature loop, in which one signature that does not verify spoils
the rest. The fields compared one by one with the channel's own are one value,
`scope`. `checked_sum` is `CheckedSumIs`: a total in `0 .. MaxValue` or an error.
`EvidenceFits` is the part of `validate_settlement_candidate_evidence` that compares
lanes; its other comparisons say that a candidate's evidence is of that candidate's
transaction and update, which here is one record. Nothing in the code asks
that the quorum be a majority (`MinRequired` is two), so `Required` is free.

### `SponsoredLane`, participants, sponsors and a reporter

| Action | Meaning |
| --- | --- |
| `Sign(p, u)` | a participant signs; one who is not `Faulty` commits to one new state per number and may sign it again with a fee policy (the code signs what it is given: this is an assumption about people), a faulty one has signed everything |
| `AcceptMarker(u)`, `Tick` | the chain, as in `SettlementEligibility` but without reorganisations |
| `Report(start)` | `evaluate_fee_sponsored_settlement_eligibility` of the lane from a block on, with any account of each sponsor's coin (`SponsorValidates` is `validate_sponsor_evidence`) |

The judgement is `EligibilityRules` instantiated with the updates that can be
shown to be signed. One account that does not validate refuses the evaluation, as
in the code. What a marker's transaction really spends and keeps is `Witness`; no
condition of the library reads it, which is what the fifth finding is about.

### `CovenantOutputs`, `Escrow`, `DevnetDriver`, `SemanticVerifier`

`CovenantOutputs` has the driver's transactions (`DriverTx(step)`, one per step) and
its scripts: `State1Unlocks`, `State2Unlocks`, `FactoryUnlocks`, `HashlockUnlocks`,
`RefundUnlocks` are the redeem scripts built in main.rs 2255–2356 and 3043–3111.
An output is the script or party it pays (`to`), its value, the covenant it carries
(`cov`: none, the contest's, or some other) and the input whose covenant it continues
(`by`). A transaction has any number of inputs; the driver's have one. A script runs
for one input: `State1Unlocks` asks for the outputs authorised by input 0 of the
code (1 here) whichever input it runs for, as the redeem script does
(main.rs:2272–2280), and the other scripts look at all outputs. `WalletCoin` stands
for any coin that a key unlocks. `DevnetDriver` runs them against a node:

| Model | Code |
| --- | --- |
| `ledger`, `minedAt`, `daa` | the node (external): transactions in the order it took them, the score of their blocks, the tip's |
| `Refusal(tx)` | why a node refuses: known id, missing or doubled coin (`CoinsFound`), values and covenants (`ValuesFit`), sequence lock of an input, script of an input, in that order |
| `Plan`, `pc`, `phase`, `waited` | the order of calls in `run` and the flows: submit, attempt, mine, read balances, read the lane |
| `SubmitTx`, `WaitForMempool`, `MineSubmitted` | `submit_and_mine` and `wait_for_mempool`, with what comes between |
| `AttemptTx` | a submission that has to be refused; any error will do |
| `MineOne` | `mine_block`, alone or in a loop |
| `CheckBalances`, `MonitorLane` | the two balances; `run_lane_monitor_evidence` |
| `Stranger`, `ForeignBlock`, `LoseCall` | somebody spends covenant outputs, one or several, with or without coins of a wallet (`StrangerTxs`), somebody mines, a call returns a transport error before or after the node handled it |
| `attempts`, `foreign`, `disturbed` | history only |

`SemanticVerifier!Verifies` is what `run_semantic_evidence_verifier` asks of the
recorded transactions and lane events. Hash checks of a record against its own
file hold for any record and are left out. The two marker flows are not steps of
`Plan`: their subject is the evaluation, modelled in `SettlementEligibility` and
`SponsoredLane`. The driver starts and stops its own node, so a crash of either
ends the run.

`Escrow` is the abstract specification: a contract is funded, the contest is
replaced by its latest state, and it is paid out. `ImplementsEscrow` maps the
ledger to it by looking who spent the coin of each funding and whom that paid;
a contract whose value went elsewhere would stand at `"lost"`, which `Escrow`
does not have.

### `EvidenceGates`, `EvidencePipeline`

A file is modelled by the run that wrote it and by what a gate reads in it. Each
command of kurrentctl.rs that reads or writes evidence is an operator of
`EvidenceGates` with the outcomes it can have (`ok`, `blocked`, an error before
anything was written); `RunStateChannelFlow` lets the driver stop after any of its
eleven writes and leaves the files torn. Five of the eight flow files have a command
of their own (`Flows`); the three about the markers are written by the driver one
right after the other and stand for one live file, `"markers"`, whose own torn states
are not told apart. The presentation gate asks that the tools are there and that no
flow of the report is missing, the markers' included. `EvidencePipeline` runs the
commands:

| Action | Meaning |
| --- | --- |
| `Start(name)` | `kurrentctl check` (scripts/check.sh), the devnet test suite, the suite with `--strict-production`, or one command by hand |
| `Step(outcome)` | the next command of the script and where the script goes after it (`AfterCheckStep`, `AfterSuiteStep`) |
| `CheckWithoutTools` | the early exit of `check` |
| `Kill`, `Edit`, `Commit`, `ChangeTools`, `DeliverReview` | what happens between two commands |

`Init` is either a tree without evidence or a checkout that carries the evidence
of another machine's run (run 1), whose report names the commit before the one
that holds it. What the models show about the tools beyond their properties: the
semantic file records counts and a time only, so the presentation gate cannot tell
whose run it is of; the factory's live file is not read by that gate; the suite
fails on a tree without verifier and soak results, because `verify-evidence` asks
for them three steps before they are written; and as the suite rewrites its report,
a review made for an earlier suite never suffices.

### Proof modules

`SettlementRegistryProofs`, `SettlementEligibilityProofs`,
`WatchedChannelProofs`, `FactoryProofs`, `EvidencePipelineProofs`,
`SponsoredLaneProofs`, `DevnetDriverProofs`, and `NaturalFacts`, which holds what
several of them need: the least-number principle, neighbours in a sequence, and
sums over finite sets.

## 3. What the runs show

Every model is kept small by bounds named as constants in its `.cfg`.

| Run | Question | Bounds and why they are enough |
| --- | --- | --- |
| `registry` | do the two maps agree, is a channel settled once on its latest state, is each channel an abstract channel, whatever the order of calls | one channel (no operation reads another channel's entry except through `receipts`, whose keys contain the channel), state numbers 0–2 so that there is a first, a middle and a top number without successor, two commitments (a rival), two templates and terms, two receipts registered by outsiders |
| `registry_docs` | does `PreferLater` overwrite as documented | violated, see findings |
| `eligibility` | are buried decisions final, is one candidate open at most, does a lane get decided | up to three markers: one displaced, its displacer, and a late one; window 2, tolerance 1, DAA 0–8, forks of up to two scores; signed rivals at one number, an unsigned state, a state that extends only one rival |
| `eligibility_prefer_later` | is a marker after the window outside it under `PreferLater` | violated, see findings |
| `watched` | can a stale state become eligible under a watcher, and does the latest one | up to four markers, forks of up to two scores, so that an answer can be dropped and given again |
| `factory` | value, channels, exits over whole sequences | three channels (one leaves, one has left, one waits), principals 0 and 1, a reserve of 1, `MaxAmount` 3 so that principal and reserve together fill the width, two networks, two factory ids |
| `evidence` | what do the gates accept, whose files does a passed script pass on, why does a script fail | `MaxRun` 3: evidence of another run, an interrupted run, and a third that finds both; one commit and one edit (`MaxHead`, `MaxTree`), each enough to make a recorded revision differ; the driver stops after none, one, two, seven or all of its writes (`Stops`): nothing, the raw files of a flow without its live file, a channel without its markers, some flows new and some old, all; `ByHand` leaves out commands whose file no other command reads |
| `evidence_check` | does `check` regenerate evidence | violated, see findings |
| `driver` | does value reach the parties, does a passed run show what it says, does the verifier accept it and nothing mixed up | one run, one foreign block, one lost call; a refund after three scores and one spare block; strangers try right spends of every contract, spends with one thing wrong (lane, branch, preimage, sequence, an extra covenant output, the payee) and joint spends (two contracts at once, the contest behind a coin with another covenant or a wallet's coin, with one continuation or two) |
| `driver_docs` | is the early refund refused by the script | violated, see findings |
| `sponsored` | who signed when two states of one number can be proved, do reports stay true, does the verifier agree | three participants, one faulty, and the code's minimum of two signatures, so that rivals do become provable; a first state with and without a fee policy and two rival second ones; two markers, the fewest that displace; five accounts of the sponsor's coin, some that do not add up; window 1, tolerance 0; the two honest participants are interchangeable (`SYMMETRY`; no constant or property tells them apart, and no liveness is checked) |
| `sponsored_docs` | is a contradicting witness rejected | violated, see findings |

Deadlock is checked except where the modelled system stops: a factory whose
channels have left, a lane without forks at its last DAA score, a driver run that
has ended, and the sponsored lane at its last score.

**Fairness.** `SettlementEligibility!Fairness` has two parts: blocks keep being
produced (`WF Tick`), and a chain that returns to its highest score again and
again eventually passes it (`SF` of a tick at the peak); without the second a
chain could be reorganised at one height for ever. Nobody is obliged to publish
or to look. `WatchedFairness` adds that the watcher's answer is eventually
included (`WF Answer`), which the inclusion assumption already implies.

**Liveness exceptions.** `EventuallyDecided` and `LatestPrevails` except lanes
the evaluation refuses. This is not a technicality: one marker accepted after
the latest one with a lower or equal number, or one that fails validation, makes
every later evaluation of the lane an error. The code documents the refusal;
filtering markers is left to whoever assembles the candidates.

## 4. What is proved

For every value of the constants, from the named assumptions
(`RegistryAssumption`, `EligibilityAssumption`, `ReorgAssumption`,
`TopAssumption`, `FactoryAssumption`, `ChannelAssumption`, `SponsoredAssumption`,
`BoundsAssumption`, `CovenantAssumption`, `DriverAssumption`, each of which TLC evaluates as well):

* **Registry.** `TypeCorrect`, `MapsNeverDisagree`, `SettledOnce` and
  `Refinement`. The inductive invariant is the conjunction of the three
  invariants: the settlement part needs the maps to agree (an update of a
  settled channel would otherwise move the header its receipt describes), the
  refinement needs both. `Refinement` maps the commitments seen for a channel to
  the chain and its settlement to the closing; every call is an `Extend`, a
  `Close` or a stutter.
* **Eligibility.** `NeighboursSuffice`: the neighbour checks order all pairs. It
  needs that there is a *next* candidate between two others: `NeighboursReach` in
  `NaturalFacts`, for any transitive relation. `TypeCorrect` and `OneOpen` hold under either rule,
  and so does `NeverStuck`, the part of `EventuallyDecided` that is not temporal: a lane
  without an eligible candidate waits for its last one only, and for a window and its
  tolerance at most.
  `VerdictsFinal` holds under `RejectConflict`. Its property only speaks of lanes
  that evaluate, while a lane may pass through refused states and come back by a
  reorganisation; so the invariant (`LaneInv`, `VerdictInv`) says what a recorded
  verdict means whether or not the lane evaluates: the candidate is still there
  and is buried below every possible fork, and no marker can have been accepted
  since that would change its status.
* **Watcher.** `StaleStatesNeverSettle` under `RejectConflict`. The invariant is
  that every stale candidate on the lane is *covered*: either its window is open
  or a marker for `Top` was accepted before it matured. It says nothing about
  order; that the covering marker comes after the stale one follows from
  `NeighboursSuffice` on an evaluated lane.
* **Sums.** `SumTakesOut`: the fold of the community modules with which the models
  add up gives a sum from which any element can be taken out. The library's
  induction on finite sets takes an operator and is out of reach, but its
  well-foundedness theorem takes a set: a least counterexample is taken of the
  *set* of subsets that have no sum (`SumsExist`) or on which the fold differs from
  it (`SumIsTheSum`).
* **Factory.** `FactoryTyped`, `NothingCreatedOrLost`, `ChannelsLeaveOnce`, each
  inductive given the type invariant, and `ExitsStayOpen` from the three and
  `TotalIsTheSum`: the recorded total is the sum of the principals, so a channel's
  principal can be taken out of it, and what the factory holds never exceeds what
  it opened with, so nothing overflows.
* **Sponsored lane.** `RivalsAreOfTheFaulty`, for any participants and any number
  of required signatures: an honest participant commits to one state per number
  (`HonestSignOnce`, the invariant), so whoever is in two quorums for rivals is
  faulty, and two quorums have at least `2 * Required` less the participants in
  common (`QuorumsMeet`). Where that exceeds the faulty ones there are no rivals
  (the corollary `NoRivalsAmongMajorities`); with three participants, one faulty,
  and two signatures it does not, and the run reaches such rivals. `ReportsAreFinal`: under
  `RejectConflict` what a report calls eligible or displaced every later evaluation
  of the whole lane calls so too, wherever the reporter began: a marker accepted
  after a report scores no lower than the report did, so it changes no status
  that was settled by then (`ReportIsSettled`, `MarkerLeavesSettled`).
  `VerifierAgrees`: the driver's
  verifier compares the scores of a report with a window that knows no tolerance,
  and agrees with the evaluation for a tolerance of at most one DAA score (`Displaces`
  is strict, the verifier's window is closed). The driver's policy has none
  (main.rs:533). From a tolerance of two on it does not hold, which TLC shows when
  `Tolerance` is set to 2 in `SponsoredLane.cfg`.
* **Pipeline.** `FlowVouches` and `VerifiedIsOfOneRun`, for any number of runs,
  commits and edits and wherever the driver may stop. The invariant,
  `Vouching`, says that a passed state-channel flow file is of the driver run whose
  raw and live files, the markers' included, are on disk, unless a driver was interrupted since. The scripts
  are followed from command to command, for any bounds and any set of commands by
  hand: `Typed` (`TypeCorrect`) says what a running script's place and the files can
  be; `FreshSoFar` says which files are of the present run when a script stands at a
  given command, which at its end is `PassedIsItsOwn` and, at the review gate,
  `StrictOnItsOwnReview`; `SmoothSoFar` says that an undisturbed script finds at every
  command what that command asks for (`FailsForAReason`), the exceptions being those
  the property names.
* **Driver.** `TypeCorrect`, `RefundIsTimelocked`, `ContestIsNotSplit` and
  `DriverImplementsEscrow`, for any values, fees and sequence (`CovenantAssumption`),
  any plan margin, any foreign blocks and any set of transactions strangers try, each
  with any number of inputs (`DriverAssumption`). `NodeSteps` reduces every action to one of three things: the
  node stays, mines, or takes one genuine transaction that it did not refuse.
  `LedgerSound` is the ledger as a ledger (unique ids, every coin exists, no coin
  spent twice, the driver's ids only for the driver's transactions). On top of it
  `ContestCoins` says where outputs of the contest can be, and `EscrowKept` what the
  node made sure of when the coins of the contracts were spent; `StandingByCoins`
  turns that into the refinement mapping. A transaction that spends several
  contracts would have to satisfy all their scripts at once, and these ask for
  different outputs, with one exception: the first swap and the refund pay the same
  value to the same party. That no transaction is taken for both is the plan's doing,
  which settles the swap before it funds the refund (`SettledFirst`), so each accepted
  transaction moves one contract or none (`AcceptMovesOne`). `ContestIsNotSplit` has
  a condition: the contest's outputs were spent at the first input, as the driver
  spends them, and no party holds a coin with the covenant. Without it the theorem
  would be false, because the script of state 1 counts the outputs authorised by
  input 0 only: at another input, behind a coin with a covenant of its own, nothing
  counts how the contest is continued. `DriverImplementsEscrow` needs no such
  condition: wherever the contest is spent, the first output has the script of
  state 2 and the whole value, and it is that output the escrow follows.
* **Driver, its plan.** What a run that ends says is proved by induction along
  `Plan`. `Monitored` says that once the lane has been read its report verifies; with
  the outputs and spenders of the recorded transactions computed once (`WhoSpends`,
  `PayoutIs`) it gives `PassedVerifies`, and `MixUpsAreRefused` compares every pair of
  steps. `PlanTaken` says of a run that has not failed and lost no call that the node
  has exactly those of the driver's transactions it has come past, and `AttemptsTold`
  what each attempt was told: a script refused it, or the sequence lock of the early
  refund, or its coin was gone; had it gone to another, the driver's own spend of it
  would have failed (`RejectionsWereScripts`). `OnPlan` is the invariant of an
  undisturbed run: the ledger is the first `Done` of the driver's own transactions
  and nothing else, in blocks as old as those the plan mined for that make them
  (`Age`). From it, at each of the plan's entries, the node takes what is submitted,
  refuses what is attempted, and the balances and the lane are as the driver expects
  (`FailsOnlyForAReason`). Values are added up with `SumTakesOut`.

The verdict and watcher theorems need `RejectConflict`. Under `PreferLater`
re-publishing a state restarts its window and withdraws the displacements its
first copy made (second finding), so neither property is claimed there.

**Only model-checked.** The two liveness properties (`EventuallyDecided`,
`LatestPrevails`), which are outside the proof system (`NeverStuck` is the
non-temporal part of the first), and everything the
documentation findings refute. Every other property that a run checks is a theorem.

## 5. Findings

1. `accept_update_with_rule` with `PreferLater`: the function's documentation
   (src/lib.rs:991–995) says a second commitment at a state number overwrites the
   stored one. The code then requires the successor of the latest number, so the
   second commitment is always refused with `NonMonotonicState`. Run
   `registry_docs`.
2. `evaluate_settlement_eligibility` with `PreferLater`: the documentation of a
   decision's `eligible_after_daa` (src/lib.rs:502–505) says that replacement evidence
   must be accepted at a score strictly below it. `dedup_candidates_prefer_later` drops the earlier candidate of a
   number without looking at scores, so a marker accepted after maturity removes
   a mature candidate from the evaluation. Run `eligibility_prefer_later`.
3. `check` (src/bin/kurrentctl.rs:6015) writes the target profile inside its loop and
   the acceptance report after it, but the profile needs a passed report on disk.
   On a tree without one, or after one that is not clean, `check` ends there on
   every attempt; docs/KURRENT_PRODUCTION_ACCEPTANCE.md:19–20 says it regenerates the
   evidence. Run `evidence_check`.
4. The driver's early refund is refused by the node for its sequence lock before a
   script runs, so that its rejection and the matured refund together do not show
   the script's timelock, which the acceptance report says they do
   (src/bin/kurrentctl.rs:975). Run `driver_docs`.
5. `validate_sponsor_evidence` compares an account of the sponsor's coins with
   itself and with the policy; no transaction and no accounting of the header is
   read. Its documentation (src/lib.rs:1753–1758) and the crate's (src/lib.rs:39) say
   that a marker whose witness contradicts its accounting is rejected. Run
   `sponsored_docs`.

## 6. Plan

Done, in this order: registry, eligibility, watcher, factory, the evidence
pipeline, the driver with its outputs and verifier, update validation and sponsored
lanes, each with its proofs. What could follow:

1. The two marker flows as steps of the driver, so that the lane of
   `SponsoredLane` is the one the driver's ledger carries.
2. Lane proofs: the activity blocks and the sequencing commitments between them.
3. The same for the watcher as `NeverStuck` for the lane: how far an answered lane
   is from naming the latest state.

## 7. Not modelled, and why

* Byte encodings, hash functions and MuSig2 are cryptography: the models take
  hashes as injective and signatures as unforgeable.
* Node discovery, process spawning, JSON layout and terminal output are I/O
  without state of their own; so is the freshness cut-off of the test runner, which
  only chooses what is displayed.
* The claims of the registry are a set with one insertion per id. Id, current
  score and maturity are the caller's, nothing else reads the set, and what could be
  stated of it holds by the shape of a set.
* `validate_ln_swap` and the normative helpers compare or compute values without
  state or sequence; the hashlock outputs are in `CovenantOutputs`.
* The semantic verifier's checks of proof headers and marker records; it never
  compares the lane's events with its activity blocks, nor the candidates of a report
  with the events, so nothing is claimed about these.
* A funding coin so small that the driver's subtractions underflow: the size check
  leaves out `STATE_UPDATE_FEE`, and `CovenantAssumption` excludes such coins.
* `network_profile` of a factory's next state and the relation between balances and
  outputs, of a plan as of a signed update, are as free in the models as the code
  leaves them; no text of the repository says what should hold, so no property is
  stated.
* Two candidates with one accepted-order index trip a `debug_assert` in debug builds
  and return an error in release builds; both are a refusal here.
* The depth of a reorganisation and when a caller may act on a decision are not in the
  code; `ReorgDepth` and `Buried` are the model's, on top of the code's decisions.
* Coins that a key unlocks are one `WalletCoin`, of which there are always more and
  whose amount is not compared with the outputs. A spend of a coin the chain paid to a
  party counts as one of it. Covenants other than the contest's are one value.
* Which covenant the output with the latest state carries when the contest was spent
  behind another coin is not asked by `ImplementsEscrow`, nor by the script of state 2;
  it follows the value.
* The driver's retries while it waits for the mempool (main.rs:3165–3171): a lost query
  changes nothing there, so `LoseCall` has none. An error on disconnecting after the
  refund (main.rs:843–845) ends the run as the loss of its last answer does.
* That an accepted account of a sponsor's coin, or an accepted update, adds up is what
  `SponsorValidates` and `Conserved` ask; no property says it again.
* Materialisation ids that a next state records without a plan having used them:
  `HonestExitAccepted` excepts them.
