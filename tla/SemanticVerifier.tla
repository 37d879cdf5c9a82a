-------------------------- MODULE SemanticVerifier --------------------------
(***************************************************************************)
(* run_semantic_evidence_verifier of drivers/kaspa-devnet: what it asks of *)
(* the transactions a report records, one under the name of each step, and *)
(* of the lane events.  txs[step] is the transaction recorded for a step;  *)
(* its txid and lane are recorded from that transaction.  Amounts and      *)
(* recipients are recorded from the driver's own plan.  Hash checks of a   *)
(* record against its own file are left out: they hold for any record.     *)
(***************************************************************************)
EXTENDS CovenantOutputs

(* The coin that .../outpoint of a recorded transaction names.             *)
FirstOutput(tx) == [tx |-> tx.id, ix |-> 1]

(* require_output_value: value of one output, whoever it pays.             *)
HasValue(tx, k, value) == k \in DOMAIN tx.outs /\ tx.outs[k].value = value

HasValues(tx, payout) == \A k \in DOMAIN payout : HasValue(tx, k, payout[k].value)

(* Mutant: the lane of the stale attempt is not asked for.                 *)
StaleVerifiesOnAnyLane(txs) == FirstCoin(txs["staleUpdate"]) = FirstOutput(txs["update"])

StaleVerifies(txs) ==
    /\ FirstCoin(txs["staleUpdate"]) = FirstOutput(txs["update"])
    /\ txs["staleUpdate"].lane = "expected"

(* The funding, the update, and the two attempts at it on other lanes.     *)
UpdatesVerify(txs) ==
    LET funded == FirstOutput(txs["fundContest"])
    IN  /\ txs["fundContest"].lane = "expected"
        /\ HasValue(txs["fundContest"], 1, FundingValue)
        /\ FirstCoin(txs["update"]) = funded
        /\ txs["update"].lane = "expected"
        /\ HasValue(txs["update"], 1, State2Value)
        /\ \A step \in {"nativeUpdate", "wrongUpdate"} :
              FirstCoin(txs[step]) = funded /\ txs[step].lane # "expected"

(* The settlement and the two attempts at it on other lanes.               *)
SettlementsVerify(txs) ==
    \A step \in {"nativeSettlement", "wrongSettlement", "settlement"} :
        /\ FirstCoin(txs[step]) = FirstOutput(txs["update"])
        /\ HasValues(txs[step], Payout("contest"))
        /\ txs[step].lane = "expected" <=> step = "settlement"

(* verify_state_channel_semantics                                          *)
ContestVerifies(txs) ==
    /\ UpdatesVerify(txs)
    /\ StaleVerifies(txs)
    /\ SettlementsVerify(txs)

(* verify_lane_monitor_semantics: the three transactions of the channel in *)
(* increasing order, and none that was reported absent among the events.   *)
MonitorVerifies(txs, events, absent) ==
    /\ \A step \in {"fundContest", "update", "settlement"} :
          \E e \in events : e.tx = txs[step].id
    /\ \A d, e \in events :
          \/ d.tx = txs["fundContest"].id /\ e.tx = txs["update"].id
          \/ d.tx = txs["update"].id /\ e.tx = txs["settlement"].id
          => d.order < e.order
    /\ \A e \in events : e.tx \notin absent

(* verify_factory_semantics                                                *)
FactoryVerifies(txs) ==
    /\ FirstCoin(txs["materialise"]) = FirstOutput(txs["fundFactory"])
    /\ Len(txs["materialise"].outs) = 2
    /\ HasValues(txs["materialise"], Payout("factory"))

(* verify_hashlock_semantics of one direction: one output with the value   *)
(* and the script of the recipient.                                        *)
SwapVerifies(fund, settle, swap, txs) ==
    /\ FirstCoin(txs[settle]) = FirstOutput(txs[fund])
    /\ PaysExactly(txs[settle].outs, Payout(swap))

(* verify_refund_semantics                                                 *)
RefundVerifies(txs) ==
    /\ FirstCoin(txs["earlyRefund"]) = FirstOutput(txs["fundRefund"])
    /\ txs["earlyRefund"].ins[1].seq = RefundSequence - 1
    /\ FirstCoin(txs["refund"]) = FirstOutput(txs["fundRefund"])
    /\ txs["refund"].ins[1].seq = RefundSequence
    /\ Len(txs["refund"].outs) = 1
    /\ HasValues(txs["refund"], Payout("refund"))

Verifies(txs, events, absent) ==
    /\ ContestVerifies(txs)
    /\ MonitorVerifies(txs, events, absent)
    /\ FactoryVerifies(txs)
    /\ SwapVerifies("fundLnToKaspa", "settleLnToKaspa", "lnToKaspa", txs)
    /\ SwapVerifies("fundKaspaToLn", "settleKaspaToLn", "kaspaToLn", txs)
    /\ RefundVerifies(txs)
=============================================================================
