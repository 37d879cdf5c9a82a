--------------------------- MODULE CovenantOutputs ---------------------------
(***************************************************************************)
(* The transactions and the output scripts of drivers/kaspa-devnet, and    *)
(* what a Kaspa node asks of a transaction before it takes it.             *)
(*                                                                         *)
(* A transaction has any number of inputs; the driver's have one.  Its id  *)
(* is its author and a name: the payload of a driver's transaction is      *)
(* unique, so its id never changes from what the driver computed           *)
(* beforehand.  WalletCoin stands for every coin that a key unlocks, the   *)
(* miner's that fund the contracts and anybody's own: there are always     *)
(* more of those.  Every funding pays the same value.                      *)
(*                                                                         *)
(* An output may carry a covenant: the contest's, or another of which all  *)
(* that matters is that it is another.  It continues the covenant of the   *)
(* input it names, or starts a new one and names none.                     *)
(***************************************************************************)
EXTENDS Naturals, Sequences, Functions

CONSTANTS
    FundingValue,              \* a coin of the miner less FUNDING_FEE
    UpdateFee, SettlementFee,  \* STATE_UPDATE_FEE, SETTLEMENT_FEE
    RefundSequence             \* REFUND_SEQUENCE, in DAA scores

ASSUME CovenantAssumption ==
    /\ UpdateFee \in Nat \ {0} /\ SettlementFee \in Nat \ {0}
    /\ FundingValue \in Nat
    /\ FundingValue > UpdateFee + SettlementFee /\ FundingValue >= 2 * UpdateFee
    /\ RefundSequence \in Nat \ {0}

Swaps == {"lnToKaspa", "kaspaToLn"}
Contracts == {"contest", "factory", "refund"} \cup Swaps
Lanes == {"expected", "wrong", "native"}

\* A contest output carries script state1 first and state2 after the update.
Scripts == {"state1", "state2", "factory", "refund"} \cup Swaps
Parties == {"alice", "bob", "stranger"}

Steps == {"fundContest", "nativeUpdate", "wrongUpdate", "update", "staleUpdate",
          "nativeSettlement", "wrongSettlement", "settlement", "fundFactory",
          "materialise", "fundLnToKaspa", "settleLnToKaspa", "fundKaspaToLn",
          "settleKaspaToLn", "fundRefund", "earlyRefund", "refund"}

Id == ({"driver", "miner"} \X (Steps \cup {"coinbase"})) \cup ({"stranger"} \X Nat)
Coin == [tx : Id, ix : Nat]
Covenants == {"none", "contest", "other"}

\* by is the number of the input whose covenant the output continues, or 0.
Output == [to : Scripts \cup Parties, value : Nat, cov : Covenants, by : Nat]

\* settle and preimage are what the witness of the input hands to the script.
Input == [coin : Coin, settle : BOOLEAN, preimage : Swaps \cup {"none"}, seq : Nat]

Tx == [id : Id, ins : Seq(Input), lane : Lanes, outs : Seq(Output)]

WalletCoin == [tx |-> <<"miner", "coinbase">>, ix |-> 0]

Coins(tx) == {tx.ins[n].coin : n \in DOMAIN tx.ins}
FirstCoin(tx) == tx.ins[1].coin

-----------------------------------------------------------------------------
(* Values and payouts                                                      *)

State2Value == FundingValue - UpdateFee
SettlementValue == State2Value - SettlementFee
SwapValue == FundingValue - SettlementFee

Pay(to, value) == [to |-> to, value |-> value, cov |-> "none", by |-> 0]

\* The output that starts the contest's covenant, and one that continues it
\* from the first input.
Start(to, value) == [to |-> to, value |-> value, cov |-> "contest", by |-> 0]
Bind(to, value) == [Start(to, value) EXCEPT !.by = 1]

Split(value, percent) ==
    LET alice == (value * percent) \div 100
    IN  <<Pay("alice", alice), Pay("bob", value - alice)>>

Recipient(swap) == IF swap = "lnToKaspa" THEN "alice" ELSE "bob"

Payout(contract) ==
    CASE contract = "contest" -> Split(SettlementValue, 60)
      [] contract = "factory" -> Split(State2Value, 55)
      [] contract = "refund"  -> <<Pay("alice", SwapValue)>>
      [] contract \in Swaps   -> <<Pay(Recipient(contract), SwapValue)>>

Total(outs) == SumFunction([k \in DOMAIN outs |-> outs[k].value])

-----------------------------------------------------------------------------
(* Scripts                                                                 *)

(* Mutant: the values are checked and the scripts are not.                 *)
PaysValues(outs, payout) ==
    /\ Len(outs) = Len(payout)
    /\ \A k \in DOMAIN payout : outs[k].value = payout[k].value

(* append_exact_outputs_script and the settle branch of state 2: number of *)
(* outputs, and value and script of each.                                  *)
PaysExactly(outs, payout) ==
    /\ Len(outs) = Len(payout)
    /\ \A k \in DOMAIN payout : /\ outs[k].to = payout[k].to
                                /\ outs[k].value = payout[k].value

\* The outputs that continue the covenant of one input.
Authorised(tx, n) == {k \in DOMAIN tx.outs : tx.outs[k].by = n}

(* Mutant: the outputs that continue the covenant are not counted.         *)
State1UnlocksUncounted(tx, n) ==
    /\ tx.lane = "expected"
    /\ ~tx.ins[n].settle
    /\ 1 \in Authorised(tx, 1)
    /\ tx.outs[1].to = "state2"
    /\ tx.outs[1].value = State2Value

(* Only an update: one output continues the covenant, the first, with the  *)
(* whole value less the fee and the script of state 2.  The script asks    *)
(* for the outputs of the first input (the 0 it pushes), whichever input   *)
(* it runs for.                                                            *)
State1Unlocks(tx, n) ==
    /\ tx.lane = "expected"
    /\ ~tx.ins[n].settle
    /\ Authorised(tx, 1) = {1}
    /\ tx.outs[1].to = "state2"
    /\ tx.outs[1].value = State2Value

(* Only a settlement, to the two participants.                             *)
State2Unlocks(tx, n) ==
    /\ tx.lane = "expected"
    /\ tx.ins[n].settle
    /\ PaysExactly(tx.outs, Payout("contest"))

FactoryUnlocks(tx) == PaysExactly(tx.outs, Payout("factory"))

HashlockUnlocks(swap, tx, n) ==
    /\ tx.ins[n].preimage = swap
    /\ PaysExactly(tx.outs, Payout(swap))

(* Mutant: the timelock opcode is left out of the script.                  *)
RefundUnlocksAnytime(tx, n) == PaysExactly(tx.outs, Payout("refund"))

RefundUnlocks(tx, n) ==
    /\ tx.ins[n].seq >= RefundSequence
    /\ PaysExactly(tx.outs, Payout("refund"))

(* Whether input n of tx unlocks a script.  A key of a party unlocks what  *)
(* was paid to it; a spend of that counts as one of WalletCoin.            *)
Unlocks(script, tx, n) ==
    \/ script = "state1" /\ State1Unlocks(tx, n)
    \/ script = "state2" /\ State2Unlocks(tx, n)
    \/ script = "factory" /\ FactoryUnlocks(tx)
    \/ script = "refund" /\ RefundUnlocks(tx, n)
    \/ script \in Swaps /\ HashlockUnlocks(script, tx, n)

-----------------------------------------------------------------------------
(* The driver's transactions                                               *)

DriverId(step) == <<"driver", step>>
OutputOf(step) == [tx |-> DriverId(step), ix |-> 1]

Spend(step, coin, lane, outs) ==
    [id |-> DriverId(step), lane |-> lane, outs |-> outs,
     ins |-> <<[coin |-> coin, settle |-> FALSE, preimage |-> "none", seq |-> 0]>>]

(* signed_genesis_covenant_tx: the contest output gets a covenant id.      *)
GenesisTx == Spend("fundContest", WalletCoin, "expected", <<Start("state1", FundingValue)>>)

(* fund_plain_p2sh: a coin of the miner pays a script on the native lane.         *)
FundTx(step, script) == Spend(step, WalletCoin, "native", <<Pay(script, FundingValue)>>)

UpdateTx(step, lane) ==
    Spend(step, OutputOf("fundContest"), lane, <<Bind("state2", State2Value)>>)

(* Mutant: the stale attempt is built on the funding output.               *)
StaleTxOfFunding ==
    Spend("staleUpdate", OutputOf("fundContest"), "expected",
          <<Bind("state2", State2Value - UpdateFee)>>)

StaleTx ==
    Spend("staleUpdate", OutputOf("update"), "expected",
          <<Bind("state2", State2Value - UpdateFee)>>)

SettlementTx(step, lane) ==
    [Spend(step, OutputOf("update"), lane, Payout("contest")) EXCEPT !.ins[1].settle = TRUE]

MaterialiseTx == Spend("materialise", OutputOf("fundFactory"), "native", Payout("factory"))

ClaimTx(step, fund, swap) ==
    [Spend(step, OutputOf(fund), "native", Payout(swap)) EXCEPT !.ins[1].preimage = swap]

RefundTx(step, sequence) ==
    [Spend(step, OutputOf("fundRefund"), "native", Payout("refund")) EXCEPT !.ins[1].seq = sequence]

DriverTx(step) ==
    CASE step = "fundContest"      -> GenesisTx
      [] step = "nativeUpdate"     -> UpdateTx(step, "native")
      [] step = "wrongUpdate"      -> UpdateTx(step, "wrong")
      [] step = "update"           -> UpdateTx(step, "expected")
      [] step = "staleUpdate"      -> StaleTx
      [] step = "nativeSettlement" -> SettlementTx(step, "native")
      [] step = "wrongSettlement"  -> SettlementTx(step, "wrong")
      [] step = "settlement"       -> SettlementTx(step, "expected")
      [] step = "fundFactory"      -> FundTx(step, "factory")
      [] step = "materialise"      -> MaterialiseTx
      [] step = "fundLnToKaspa"    -> FundTx(step, "lnToKaspa")
      [] step = "settleLnToKaspa"  -> ClaimTx(step, "fundLnToKaspa", "lnToKaspa")
      [] step = "fundKaspaToLn"    -> FundTx(step, "kaspaToLn")
      [] step = "settleKaspaToLn"  -> ClaimTx(step, "fundKaspaToLn", "kaspaToLn")
      [] step = "fundRefund"       -> FundTx(step, "refund")
      [] step = "earlyRefund"      -> RefundTx(step, RefundSequence - 1)
      [] step = "refund"           -> RefundTx(step, RefundSequence)
=============================================================================
