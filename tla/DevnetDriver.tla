---------------------------- MODULE DevnetDriver ----------------------------
(***************************************************************************)
(* One run of the devnet driver against its node: it funds the contracts,  *)
(* attempts spends the scripts must refuse, submits the ones they must     *)
(* take, mines, reads balances and the lane, and passes or fails.  Anyone  *)
(* who reaches the node may meanwhile spend covenant outputs, which needs  *)
(* no key, several of them and coins of a wallet in one transaction too; a *)
(* foreign block may be mined, and an RPC call may be lost before or after *)
(* the node handled it.                                                    *)
(*                                                                         *)
(* ledger is the order in which the node took transactions; those up to    *)
(* Len(minedAt) are in blocks, the rest is the mempool.  The flows on the  *)
(* marker transactions, between the lane monitor and the factory, are the  *)
(* subject of SettlementEligibility and SponsoredLane.                     *)
(***************************************************************************)
EXTENDS SemanticVerifier

CONSTANTS
    RefundMargin,   \* blocks mined beyond RefundSequence before the refund
    MaxForeign,     \* bound on the blocks others mine
    Tries           \* what others try to spend coins with

ASSUME DriverAssumption ==
    /\ RefundMargin \in Nat
    /\ MaxForeign \in Nat
    /\ Tries \subseteq [lane : Lanes, outs : Seq(Output),
                        ins : Seq([wallet : BOOLEAN, settle : BOOLEAN,
                                   preimage : Swaps \cup {"none"}, seq : Nat])]
    /\ \A try \in Tries : try.ins # <<>>

VARIABLES
    ledger, minedAt, daa,   \* the node
    pc, phase, waited,      \* the driver: entry of Plan, where in it, blocks mined
    outcome,                \* "running", "failed" or "passed"
    events, absent,         \* the lane monitor's report
    attempts,               \* history: why the node refused each attempt
    foreign, disturbed      \* history: foreign blocks; spends by others, lost calls

node == <<ledger, minedAt, daa>>
control == <<pc, phase, waited, outcome>>
monitor == <<events, absent>>
vars == <<node, control, monitor, attempts, foreign, disturbed>>

-----------------------------------------------------------------------------
(* The node                                                                *)

Positions(id) == {i \in DOMAIN ledger : ledger[i].id = id}
Known(id) == Positions(id) # {}
TxOf(id) == ledger[CHOOSE i \in Positions(id) : TRUE]

Exists(coin) == Known(coin.tx) /\ coin.ix \in DOMAIN TxOf(coin.tx).outs
SpentAt(coin) == {i \in DOMAIN ledger : coin \in Coins(ledger[i])}
Unspent(coin) == Exists(coin) /\ SpentAt(coin) = {}
SpenderOf(coin) == ledger[CHOOSE i \in SpentAt(coin) : TRUE]
OutputAt(coin) == TxOf(coin.tx).outs[coin.ix]

\* The inputs that spend a coin of the chain; a wallet can pay for anything.
ChainInputs(tx) == {n \in DOMAIN tx.ins : tx.ins[n].coin # WalletCoin}

\* Every coin is there to be spent, and none is spent twice.
CoinsFound(tx) ==
    /\ \A n \in ChainInputs(tx) : Unspent(tx.ins[n].coin)
    /\ \A n \in ChainInputs(tx), m \in DOMAIN tx.ins :
          tx.ins[m].coin = tx.ins[n].coin => m = n

\* A wallet holds coins that carry other covenants, and such as carry the
\* contest's once somebody was paid one.
WalletCarries(cov) ==
    \/ cov = "other"
    \/ \E i \in DOMAIN ledger : \E k \in DOMAIN ledger[i].outs :
          ledger[i].outs[k].cov = cov /\ ledger[i].outs[k].to \in Parties

\* An output continues a covenant that its input carries.  Nothing but the
\* driver's funding starts the contest's: its id is a hash of that input.
CovenantFits(tx, output) ==
    IF output.by = 0
    THEN output.cov = "contest" => tx = GenesisTx
    ELSE /\ output.by \in DOMAIN tx.ins
         /\ output.cov # "none"
         /\ IF output.by \in ChainInputs(tx)
            THEN OutputAt(tx.ins[output.by].coin).cov = output.cov
            ELSE WalletCarries(output.cov)

ValuesFit(tx) ==
    /\ ChainInputs(tx) = DOMAIN tx.ins =>
          Total(tx.outs) <= Total([n \in DOMAIN tx.ins |-> OutputAt(tx.ins[n].coin)])
    /\ \A k \in DOMAIN tx.outs : CovenantFits(tx, tx.outs[k])

(* The relative lock of an input: its coin is that many DAA scores old.    *)
SequenceMet(input) ==
    input.seq > 0 => \E i \in Positions(input.coin.tx) :
                         i <= Len(minedAt) /\ minedAt[i] + input.seq <= daa

(* Why the node refuses a transaction, in the order it looks.  A funding   *)
(* transaction submitted again would find its coin spent.                  *)
Refusal(tx) ==
    IF Known(tx.id)            THEN "known"
    ELSE IF ~CoinsFound(tx)    THEN "missing"
    ELSE IF ~ValuesFit(tx)     THEN "value"
    ELSE IF \E n \in ChainInputs(tx) : ~SequenceMet(tx.ins[n])
                               THEN "sequence"
    ELSE IF \E n \in ChainInputs(tx) : ~Unlocks(OutputAt(tx.ins[n].coin).to, tx, n)
                               THEN "script"
    ELSE "none"

Accept(tx) == ledger' = Append(ledger, tx) /\ UNCHANGED <<minedAt, daa>>

Block ==
    /\ minedAt' = [i \in DOMAIN ledger |-> IF i <= Len(minedAt) THEN minedAt[i] ELSE daa]
    /\ daa' = daa + 1
    /\ UNCHANGED ledger

-----------------------------------------------------------------------------
(* The driver                                                              *)

Do(what, step, blocks) == [do |-> what, step |-> step, blocks |-> blocks]
Submit(step) == Do("submit", step, 0)
Attempt(step) == Do("attempt", step, 0)
MineBlocks(n) == Do("mine", "none", n)
ReadBalances == Do("balances", "none", 0)
ReadLane == Do("lane", "none", 0)

(* Mutants: the lane is read without one more block; the attempts on the   *)
(* second output are made when the settlement is in.                       *)
ContestPlanWithoutExtraBlock ==
    <<Submit("fundContest"), Attempt("nativeUpdate"), Attempt("wrongUpdate"),
      Submit("update"), Attempt("staleUpdate"), Attempt("nativeSettlement"),
      Attempt("wrongSettlement"), Submit("settlement"), ReadBalances, ReadLane>>

ContestPlanAttemptsLate ==
    <<Submit("fundContest"), Attempt("nativeUpdate"), Attempt("wrongUpdate"),
      Submit("update"), Submit("settlement"), Attempt("staleUpdate"),
      Attempt("nativeSettlement"), Attempt("wrongSettlement"),
      MineBlocks(1), ReadBalances, ReadLane>>

ContestPlan ==
    <<Submit("fundContest"), Attempt("nativeUpdate"), Attempt("wrongUpdate"),
      Submit("update"), Attempt("staleUpdate"), Attempt("nativeSettlement"),
      Attempt("wrongSettlement"), Submit("settlement"),
      MineBlocks(1), ReadBalances, ReadLane>>

(* run_live_factory_flow, run_live_hashlock_flow, run_live_refund_flow     *)
FlowsPlan ==
    <<Submit("fundFactory"), Submit("materialise"),
      Submit("fundLnToKaspa"), Submit("settleLnToKaspa"),
      Submit("fundKaspaToLn"), Submit("settleKaspaToLn"),
      Submit("fundRefund"), Attempt("earlyRefund"),
      MineBlocks(RefundSequence + RefundMargin), Submit("refund")>>

Plan == ContestPlan \o FlowsPlan

Init ==
    /\ ledger = <<>> /\ minedAt = <<>> /\ daa = 0
    /\ pc = 1 /\ phase = "call" /\ waited = 0 /\ outcome = "running"
    /\ events = {} /\ absent = {}
    /\ attempts = {}
    /\ foreign = 0 /\ disturbed = {}

Running == outcome = "running"
At(what, where) == Running /\ Plan[pc].do = what /\ phase = where
TheTx == DriverTx(Plan[pc].step)

(* Mutant: the driver goes on behind the end of its plan.                  *)
AdvancePastEnd ==
    /\ pc' = pc + 1
    /\ outcome' = IF pc = Len(Plan) THEN "passed" ELSE "running"
    /\ phase' = "call"
    /\ waited' = 0

(* On to the next entry of the plan; after the last the run has passed.    *)
Advance ==
    /\ pc' = IF pc = Len(Plan) THEN pc ELSE pc + 1
    /\ outcome' = IF pc = Len(Plan) THEN "passed" ELSE "running"
    /\ phase' = "call"
    /\ waited' = 0

Fail == outcome' = "failed" /\ UNCHANGED <<pc, phase, waited>>

(* submit_and_mine, in three steps: the submission, the wait for the       *)
(* mempool, which times out when a block took the transaction already, and *)
(* the block.                                                              *)
SubmitTx ==
    /\ At("submit", "call")
    /\ \/ /\ Refusal(TheTx) = "none"
          /\ Accept(TheTx)
          /\ phase' = "mempool"
          /\ UNCHANGED <<pc, waited, outcome>>
       \/ /\ Refusal(TheTx) # "none"
          /\ Fail
          /\ UNCHANGED node
    /\ UNCHANGED <<monitor, attempts, foreign, disturbed>>

WaitForMempool ==
    /\ At("submit", "mempool")
    /\ \/ /\ \E i \in Positions(TheTx.id) : i > Len(minedAt)
          /\ phase' = "mine"
          /\ UNCHANGED <<pc, waited, outcome>>
       \/ /\ \A i \in Positions(TheTx.id) : i <= Len(minedAt)
          /\ Fail
    /\ UNCHANGED <<node, monitor, attempts, foreign, disturbed>>

MineSubmitted ==
    /\ At("submit", "mine")
    /\ Block
    /\ Advance
    /\ UNCHANGED <<monitor, attempts, foreign, disturbed>>

(* A submission that has to be refused, whatever the error.                *)
AttemptTx ==
    /\ At("attempt", "call")
    /\ IF Refusal(TheTx) = "none"
       THEN Accept(TheTx) /\ Fail /\ UNCHANGED attempts
       ELSE /\ attempts' = attempts \cup {[step |-> Plan[pc].step, why |-> Refusal(TheTx)]}
            /\ Advance
            /\ UNCHANGED node
    /\ UNCHANGED <<monitor, foreign, disturbed>>

(* mine_block in a loop.                                                   *)
MineOne ==
    /\ At("mine", "call")
    /\ Block
    /\ \/ waited + 1 = Plan[pc].blocks /\ Advance
       \/ /\ waited + 1 < Plan[pc].blocks
          /\ waited' = waited + 1
          /\ UNCHANGED <<pc, phase, outcome>>
    /\ UNCHANGED <<monitor, attempts, foreign, disturbed>>

PaidInBlocks(party) ==
    SumFunction([i \in DOMAIN minedAt |->
        SumFunction([k \in DOMAIN ledger[i].outs |->
            IF ledger[i].outs[k].to = party THEN ledger[i].outs[k].value ELSE 0])])

(* The balances of Alice and Bob are exactly what the settlement pays.     *)
CheckBalances ==
    /\ At("balances", "call")
    /\ IF \A k \in {1, 2} : PaidInBlocks(Payout("contest")[k].to) = Payout("contest")[k].value
       THEN Advance
       ELSE Fail
    /\ UNCHANGED <<node, monitor, attempts, foreign, disturbed>>

(* A block's transactions are accepted by the block after it, so those of  *)
(* the last block are not in what get_virtual_chain_from_block returns.    *)
Visible == {i \in DOMAIN minedAt : minedAt[i] + 1 < daa}

LaneEvents ==
    {[tx |-> ledger[i].id, order |-> i] : i \in {j \in Visible : ledger[j].lane = "expected"}}

WrongLaneSteps == {"nativeUpdate", "wrongUpdate", "nativeSettlement", "wrongSettlement"}

InLaneOrder(before, after) ==
    \E d, e \in LaneEvents :
        d.tx = DriverId(before) /\ e.tx = DriverId(after) /\ d.order < e.order

NoneAccepted(steps) == \A step \in steps : \A i \in Visible : ledger[i].id # DriverId(step)

(* run_lane_monitor_evidence                                               *)
MonitorLane ==
    /\ At("lane", "call")
    /\ IF /\ InLaneOrder("fundContest", "update")
          /\ InLaneOrder("update", "settlement")
          /\ NoneAccepted(WrongLaneSteps)
       THEN /\ events' = LaneEvents
            /\ absent' = {DriverId(step) : step \in WrongLaneSteps}
            /\ Advance
       ELSE Fail /\ UNCHANGED monitor
    /\ UNCHANGED <<node, attempts, foreign, disturbed>>

-----------------------------------------------------------------------------
(* Everybody else, and the connection                                      *)

(* Somebody spends outputs of the chain, or coins of a wallet with them.   *)
Stranger(tx) ==
    /\ Running
    /\ Refusal(tx) = "none"
    /\ Accept(tx)
    /\ disturbed' = disturbed \cup {"spend"}
    /\ UNCHANGED <<control, monitor, attempts, foreign>>

\* The coins under a script; those of a party are in its wallet.
OpenCoins ==
    {coin \in UNION {[tx : {ledger[i].id}, ix : DOMAIN ledger[i].outs] : i \in DOMAIN ledger} :
        Unspent(coin) /\ OutputAt(coin).to \in Scripts}

StrangerTx(coins, try) ==
    [id |-> <<"stranger", Len(ledger) + 1>>, lane |-> try.lane, outs |-> try.outs,
     ins |-> [n \in DOMAIN try.ins |->
                 [coin |-> coins[n], settle |-> try.ins[n].settle,
                  preimage |-> try.ins[n].preimage, seq |-> try.ins[n].seq]]]

StrangerTxs ==
    LET coins == OpenCoins \cup {WalletCoin}
        Fits(try, c) == \A n \in DOMAIN c : c[n] = WalletCoin <=> try.ins[n].wallet
    IN  UNION {{StrangerTx(c, try) : c \in {d \in [DOMAIN try.ins -> coins] : Fits(try, d)}} :
               try \in Tries}

ForeignBlock ==
    /\ Running
    /\ foreign < MaxForeign
    /\ foreign' = foreign + 1
    /\ Block
    /\ UNCHANGED <<control, monitor, attempts, disturbed>>

(* A call returns an error of the transport, before or after the node      *)
(* handled it.  For an attempt that is a rejection like any other.  One    *)
(* call is lost at most; for all but an attempt that ends the run anyway.  *)
(* The mempool is asked again and again whatever the answer, so a query    *)
(* that is lost there changes nothing.  That the driver cannot disconnect  *)
(* after the refund ends the run as the loss of its last answer does.      *)
LoseCall ==
    /\ Running
    /\ "lost" \notin disturbed
    /\ phase # "mempool"
    /\ disturbed' = disturbed \cup {"lost"}
    /\ IF Plan[pc].do = "attempt"
       THEN /\ attempts' = attempts \cup {[step |-> Plan[pc].step, why |-> "lost"]}
            /\ Advance
       ELSE Fail /\ UNCHANGED attempts
    /\ \/ UNCHANGED node
       \/ phase = "call" /\ Plan[pc].do \in {"submit", "attempt"} /\ Refusal(TheTx) = "none"
            /\ Accept(TheTx)
       \/ (phase = "mine" \/ Plan[pc].do = "mine") /\ Block
    /\ UNCHANGED <<monitor, foreign>>

Next ==
    \/ SubmitTx \/ WaitForMempool \/ MineSubmitted \/ AttemptTx
    \/ MineOne \/ CheckBalances \/ MonitorLane
    \/ \E tx \in StrangerTxs : Stranger(tx)
    \/ ForeignBlock
    \/ LoseCall

Spec == Init /\ [][Next]_vars

-----------------------------------------------------------------------------
(* Type invariant.                                                         *)
TypeOK ==
    /\ ledger \in Seq(Tx)
    /\ minedAt \in Seq(Nat) /\ Len(minedAt) <= Len(ledger)
    /\ daa \in Nat
    /\ pc \in 1 .. Len(Plan)
    /\ phase \in {"call", "mempool", "mine"} /\ waited \in Nat
    /\ outcome \in {"running", "failed", "passed"}
    /\ events \subseteq [tx : Id, order : Nat] /\ absent \subseteq Id
    /\ attempts \subseteq [step : Steps,
                           why : {"known", "missing", "value", "sequence", "script", "lost"}]
    /\ foreign \in 0 .. MaxForeign /\ disturbed \subseteq {"spend", "lost"}

FundingStep(contract) ==
    CASE contract = "contest"   -> "fundContest"
      [] contract = "factory"   -> "fundFactory"
      [] contract = "lnToKaspa" -> "fundLnToKaspa"
      [] contract = "kaspaToLn" -> "fundKaspaToLn"
      [] contract = "refund"    -> "fundRefund"

WhoGetsWhat(outs) == [k \in DOMAIN outs |-> <<outs[k].to, outs[k].value>>]

PaidOutBy(tx, contract) ==
    IF WhoGetsWhat(tx.outs) = WhoGetsWhat(Payout(contract)) THEN "paid" ELSE "lost"

(* Where the value of the contest output is once the output is spent: with *)
(* the script of state 2, whatever covenant that output carries.           *)
Replaced(tx) ==
    IF Len(tx.outs) = 0 \/ WhoGetsWhat(tx.outs)[1] # <<"state2", State2Value>> THEN "lost"
    ELSE IF Unspent(FirstOutput(tx)) THEN "latest"
    ELSE PaidOutBy(SpenderOf(FirstOutput(tx)), "contest")

(* Where the value the driver put into a contract is.                      *)
Standing(contract) ==
    LET coin == OutputOf(FundingStep(contract)) IN
    IF ~Known(coin.tx)           THEN "none"
    ELSE IF Unspent(coin)        THEN "open"
    ELSE IF contract = "contest" THEN Replaced(SpenderOf(coin))
    ELSE PaidOutBy(SpenderOf(coin), contract)

E == INSTANCE Escrow WITH
        Replaceable <- {"contest"},
        standing <- [contract \in Contracts |-> Standing(contract)]

(* Scripts, values and the node's rules together keep the promise of the   *)
(* contracts against whoever spends them first: every contract is paid out *)
(* to its parties in full and to nobody else, the contest only from its    *)
(* latest state, and no step but those of Escrow moves its value.          *)
ImplementsEscrow == E!Spec

OfContest(output) == output.cov = "contest" /\ output.to \in Scripts

\* Some transaction spent an output of the contest at another input than its
\* first, the one the script of state 1 asks about.
LedByAnotherInput ==
    \E i \in DOMAIN ledger : \E n \in ChainInputs(ledger[i]) :
        n # 1 /\ OfContest(OutputAt(ledger[i].ins[n].coin))

\* A party holds a coin with the contest's covenant: state 2 does not ask.
ContestPaidOnward == WalletCarries("contest")

(* The contest is not split: one unspent output at most is under a script  *)
(* and carries its covenant, as long as its outputs were spent as the      *)
(* driver spends them, at the first input, and no party holds one.  The    *)
(* script of state 1 gives no more: at another input, behind a coin with a *)
(* covenant of its own, nothing counts how the contest is continued.       *)
OneContestOutput ==
    LedByAnotherInput \/ ContestPaidOnward
    \/ \A c, d \in OpenCoins :
          OfContest(OutputAt(c)) /\ OfContest(OutputAt(d)) => c = d

(* A refund is in the ledger only with a coin RefundSequence scores old by *)
(* the time it got there, although the sequence a spender chooses is only  *)
(* compared by the script and the age only by the node.                    *)
RefundWaits ==
    \A i \in DOMAIN ledger :
        OutputOf("fundRefund") \in Coins(ledger[i]) =>
            \E f \in Positions(DriverId("fundRefund")) :
                f <= Len(minedAt) /\ minedAt[f] + RefundSequence <= daa

(* A passed run in which no call was lost shows what its rejections are    *)
(* said to show: each came from the script, of a coin that was there to be *)
(* spent, although the driver takes any error for a rejection and others   *)
(* spend the same coins.  The exception is the early refund, which the     *)
(* node refuses for its sequence lock, before it runs the script, unless   *)
(* others mine enough blocks first.                                        *)
PassedRejectionsWereScripts ==
    outcome = "passed" /\ "lost" \notin disturbed =>
        /\ {a.step : a \in attempts} =
              WrongLaneSteps \cup {"staleUpdate", "earlyRefund"}
        /\ \A a \in attempts :
              a.why = "script" \/ (a.step = "earlyRefund" /\ a.why = "sequence")

(* Undisturbed the driver passes: its plan, the fees, the extra block and  *)
(* the refund's margin fit the scripts, the node and the lane monitor.     *)
FailsForAReason ==
    outcome = "failed" => disturbed # {} \/ foreign > 0

Recorded == [step \in Steps |-> DriverTx(step)]

(* A passed run leaves a report that the semantic verifier accepts,        *)
(* whatever else was on the lane.                                          *)
PassedRunVerifies ==
    outcome = "passed" => Verifies(Recorded, events, absent)

(* The verifier refuses a report in which the transaction of one step was  *)
(* recorded for another, except where the two look alike to all it checks: *)
(* two attempts on wrong lanes, and the settlement for the stale attempt.  *)
MixedUpReportRefused ==
    outcome = "passed" =>
        \A a, b \in Steps :
            Verifies([Recorded EXCEPT ![a] = Recorded[b]], events, absent) =>
                \/ a = b
                \/ {a, b} = {"nativeUpdate", "wrongUpdate"}
                \/ {a, b} = {"nativeSettlement", "wrongSettlement"}
                \/ a = "staleUpdate" /\ b = "settlement"

(* The report's own words, src/bin/kurrentctl.rs:975: the timelock refund  *)
(* is "covered by Kurrent live early-refund rejection and matured refund   *)
(* evidence".  So the early refund is refused by the timelock of the       *)
(* script.                                                                 *)
DocEarlyRefundCoversTimelock ==
    outcome = "passed" /\ disturbed = {} =>
        \E a \in attempts : a.step = "earlyRefund" /\ a.why = "script"
=============================================================================
