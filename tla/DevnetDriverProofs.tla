------------------------- MODULE DevnetDriverProofs -------------------------
(***************************************************************************)
(* Proofs about DevnetDriver, for any values and fees, any refund sequence *)
(* and whatever others try to spend.                                       *)
(***************************************************************************)
EXTENDS DevnetDriver, SequenceTheorems, NaturalFacts

FundSteps == {"fundContest", "fundFactory", "fundLnToKaspa", "fundKaspaToLn", "fundRefund"}

-----------------------------------------------------------------------------
(* The driver's transactions and its plan                                  *)

LEMMA ValuesAreNumbers ==
    /\ State2Value \in Nat /\ SettlementValue \in Nat /\ SwapValue \in Nat
    /\ \A value \in Nat, percent \in 0 .. 100 :
          /\ (value * percent) \div 100 \in Nat
          /\ value - (value * percent) \div 100 \in Nat
<1>1. State2Value \in Nat /\ SettlementValue \in Nat /\ SwapValue \in Nat
  BY CovenantAssumption DEF State2Value, SettlementValue, SwapValue
<1>2. ASSUME NEW value \in Nat, NEW percent \in 0 .. 100
      PROVE  /\ (value * percent) \div 100 \in Nat
             /\ value - (value * percent) \div 100 \in Nat
  <2>1. value * percent \in Nat /\ value * percent <= value * 100
    BY <1>2
  <2> QED  BY <2>1
<1> QED  BY <1>1, <1>2

LEMMA PayoutsAreOutputs ==
    \A c \in Contracts : Payout(c) \in Seq(Output)
<1> SUFFICES ASSUME NEW c \in Contracts PROVE Payout(c) \in Seq(Output)
  OBVIOUS
<1>1. ASSUME NEW to \in Parties, NEW value \in Nat PROVE Pay(to, value) \in Output
  BY <1>1 DEF Pay, Output, Covenants
<1>2. ASSUME NEW value \in Nat, NEW percent \in 0 .. 100
      PROVE  Split(value, percent) \in Seq(Output)
  BY <1>1, <1>2, ValuesAreNumbers DEF Split, Parties
<1>3. 55 \in 0 .. 100 /\ 60 \in 0 .. 100
  OBVIOUS
<1>4. "alice" \in Parties /\ Recipient(c) \in Parties
  BY DEF Parties, Recipient
<1>5. Payout(c) \in {Split(SettlementValue, 60), Split(State2Value, 55),
                     <<Pay("alice", SwapValue)>>, <<Pay(Recipient(c), SwapValue)>>}
  BY DEF Payout, Contracts
<1>6. SettlementValue \in Nat /\ State2Value \in Nat /\ SwapValue \in Nat
  BY ValuesAreNumbers
<1>7. /\ Split(SettlementValue, 60) \in Seq(Output) /\ Split(State2Value, 55) \in Seq(Output)
  BY <1>2, <1>3, <1>6
<1>8. Pay("alice", SwapValue) \in Output /\ Pay(Recipient(c), SwapValue) \in Output
  BY <1>1, <1>4, <1>6
<1>9. <<Pay("alice", SwapValue)>> \in Seq(Output) /\ <<Pay(Recipient(c), SwapValue)>> \in Seq(Output)
  BY <1>8
<1> QED  BY <1>5, <1>7, <1>9

LEMMA InputsTyped ==
    ASSUME NEW tx \in Tx, NEW n \in DOMAIN tx.ins
    PROVE  /\ tx.ins[n] \in Input
           /\ tx.ins[n].coin \in Coin /\ tx.ins[n].seq \in Nat
<1>1. tx.ins \in Seq(Input)
  BY DEF Tx
<1>2. n \in 1 .. Len(tx.ins)
  BY <1>1
<1> HIDE DEF Input
<1>3. tx.ins[n] \in Input
  BY <1>1, <1>2, ElementOfSeq
<1> QED  BY <1>3 DEF Input

LEMMA DriverTxTyped ==
    ASSUME NEW s \in Steps
    PROVE  DriverTx(s) \in Tx /\ DriverTx(s).id = DriverId(s)
<1>1. \A step \in Steps : DriverId(step) \in Id
  BY DEF DriverId, Id
<1>2. \A step \in Steps : OutputOf(step) \in Coin
  BY <1>1 DEF OutputOf, Coin
<1>3. WalletCoin \in Coin
  BY DEF WalletCoin, Coin, Id
<1>4. ASSUME NEW step \in Steps, NEW coin \in Coin, NEW lane \in Lanes, NEW outs \in Seq(Output)
      PROVE  Spend(step, coin, lane, outs) \in Tx
  <2>1. [coin |-> coin, settle |-> FALSE, preimage |-> "none", seq |-> 0] \in Input
    BY DEF Input
  <2>2. <<[coin |-> coin, settle |-> FALSE, preimage |-> "none", seq |-> 0]>> \in Seq(Input)
    BY <2>1
  <2> QED  BY <1>1, <2>2 DEF Spend, Tx
<1>5. ASSUME NEW tx \in Tx, 1 \in DOMAIN tx.ins
      PROVE  /\ [tx EXCEPT !.ins[1].settle = TRUE] \in Tx
             /\ \A swap \in Swaps : [tx EXCEPT !.ins[1].preimage = swap] \in Tx
             /\ \A seq \in Nat : [tx EXCEPT !.ins[1].seq = seq] \in Tx
  <2>1. tx.ins \in Seq(Input) /\ tx.ins[1] \in Input
    BY <1>5 DEF Tx
  <2>2. /\ [tx.ins[1] EXCEPT !.settle = TRUE] \in Input
        /\ \A swap \in Swaps : [tx.ins[1] EXCEPT !.preimage = swap] \in Input
        /\ \A seq \in Nat : [tx.ins[1] EXCEPT !.seq = seq] \in Input
    BY <2>1 DEF Input
  <2>3. \A in \in Input : [tx.ins EXCEPT ![1] = in] \in Seq(Input)
    <3>1. 1 \in 1 .. Len(tx.ins)
      BY <1>5, <2>1
    <3> QED  BY <2>1, <3>1, ExceptSeq
  <2>4. \A in \in Input : [tx EXCEPT !.ins = [tx.ins EXCEPT ![1] = in]] \in Tx
    BY <2>3 DEF Tx
  <2> QED  BY <2>2, <2>4
<1>22. ASSUME NEW step, NEW coin, NEW lane, NEW outs
       PROVE  1 \in DOMAIN Spend(step, coin, lane, outs).ins
  BY DEF Spend
<1>6. ASSUME NEW script \in Scripts, NEW value \in Nat
      PROVE  /\ <<Bind(script, value)>> \in Seq(Output) /\ <<Pay(script, value)>> \in Seq(Output)
             /\ <<Start(script, value)>> \in Seq(Output)
  BY DEF Bind, Start, Pay, Output, Covenants
<1>7. /\ FundingValue \in Nat /\ State2Value \in Nat /\ State2Value - UpdateFee \in Nat
      /\ RefundSequence \in Nat /\ RefundSequence - 1 \in Nat
  BY CovenantAssumption, ValuesAreNumbers DEF State2Value
<1>8. /\ {"contest", "factory", "refund", "lnToKaspa", "kaspaToLn"} \subseteq Contracts
      /\ {"state1", "state2", "factory", "refund", "lnToKaspa", "kaspaToLn"} \subseteq Scripts
      /\ {"lnToKaspa", "kaspaToLn"} \subseteq Swaps
      /\ {"native", "wrong", "expected"} \subseteq Lanes
  BY DEF Contracts, Scripts, Swaps, Lanes
<1>9. ASSUME NEW step \in Steps, NEW script \in Scripts
      PROVE  FundTx(step, script) \in Tx /\ FundTx(step, script).id = DriverId(step)
  BY <1>3, <1>4, <1>6, <1>7, <1>8, <1>9 DEF FundTx, Spend
<1>10. GenesisTx \in Tx /\ GenesisTx.id = DriverId("fundContest")
  BY <1>3, <1>4, <1>6, <1>7, <1>8 DEF GenesisTx, Spend, Steps
<1>11. ASSUME NEW step \in Steps, NEW lane \in Lanes
       PROVE  UpdateTx(step, lane) \in Tx /\ UpdateTx(step, lane).id = DriverId(step)
  BY <1>2, <1>4, <1>6, <1>7, <1>8, <1>11 DEF UpdateTx, Spend, Steps
<1>12. StaleTx \in Tx /\ StaleTx.id = DriverId("staleUpdate")
  BY <1>2, <1>4, <1>6, <1>7, <1>8 DEF StaleTx, Spend, Steps
<1>13. ASSUME NEW step \in Steps, NEW lane \in Lanes
       PROVE  SettlementTx(step, lane) \in Tx /\ SettlementTx(step, lane).id = DriverId(step)
  <2>1. Spend(step, OutputOf("update"), lane, Payout("contest")) \in Tx
    BY <1>2, <1>4, <1>8, PayoutsAreOutputs DEF Steps
  <2>2. SettlementTx(step, lane) \in Tx
    BY <1>5, <1>22, <2>1 DEF SettlementTx
  <2> QED  BY <2>2 DEF SettlementTx, Spend
<1>14. MaterialiseTx \in Tx /\ MaterialiseTx.id = DriverId("materialise")
  BY <1>2, <1>4, <1>8, PayoutsAreOutputs DEF MaterialiseTx, Spend, Steps
<1>15. ASSUME NEW step \in Steps, NEW fund \in Steps, NEW swap \in Swaps
       PROVE  ClaimTx(step, fund, swap) \in Tx /\ ClaimTx(step, fund, swap).id = DriverId(step)
  <2>1. swap \in Contracts
    BY DEF Contracts
  <2>2. Spend(step, OutputOf(fund), "native", Payout(swap)) \in Tx
    BY <1>2, <1>4, <1>8, <2>1, PayoutsAreOutputs
  <2>3. ClaimTx(step, fund, swap) \in Tx
    BY <1>5, <1>22, <2>2 DEF ClaimTx
  <2> QED  BY <2>3 DEF ClaimTx, Spend
<1>16. ASSUME NEW step \in Steps, NEW seq \in Nat
       PROVE  RefundTx(step, seq) \in Tx /\ RefundTx(step, seq).id = DriverId(step)
  <2>1. Spend(step, OutputOf("fundRefund"), "native", Payout("refund")) \in Tx
    BY <1>2, <1>4, <1>8, PayoutsAreOutputs DEF Steps
  <2>2. RefundTx(step, seq) \in Tx
    BY <1>5, <1>16, <1>22, <2>1 DEF RefundTx
  <2> QED  BY <2>2 DEF RefundTx, Spend
<1>17. CASE s \in {"fundContest", "nativeUpdate", "wrongUpdate", "update", "staleUpdate"}
  BY <1>8, <1>10, <1>11, <1>12, <1>17 DEF DriverTx
<1>18. CASE s \in {"nativeSettlement", "wrongSettlement", "settlement", "materialise"}
  BY <1>8, <1>13, <1>14, <1>18 DEF DriverTx
<1>19. CASE s \in {"fundFactory", "fundLnToKaspa", "fundKaspaToLn", "fundRefund"}
  BY <1>8, <1>9, <1>19 DEF DriverTx
<1>20. CASE s \in {"settleLnToKaspa", "settleKaspaToLn"}
  <2>1. "fundLnToKaspa" \in Steps /\ "fundKaspaToLn" \in Steps
    BY DEF Steps
  <2> QED  BY <1>8, <1>15, <1>20, <2>1 DEF DriverTx
<1>21. CASE s \in {"earlyRefund", "refund"}
  BY <1>7, <1>16, <1>21 DEF DriverTx
<1> QED  BY <1>17, <1>18, <1>19, <1>20, <1>21 DEF Steps

Entries ==
    {Submit(s) : s \in Steps} \cup {Attempt(s) : s \in Steps}
        \cup {MineBlocks(n) : n \in Nat} \cup {ReadBalances, ReadLane}

LEMMA PlanFacts ==
    /\ Len(Plan) = 21
    /\ \A i \in 1 .. 21 : Plan[i].do \in {"submit", "attempt"} => Plan[i].step \in Steps
<1>1. /\ Submit("fundContest") \in Entries /\ Attempt("nativeUpdate") \in Entries
      /\ Attempt("wrongUpdate") \in Entries /\ Submit("update") \in Entries
      /\ Attempt("staleUpdate") \in Entries /\ Attempt("nativeSettlement") \in Entries
      /\ Attempt("wrongSettlement") \in Entries /\ Submit("settlement") \in Entries
      /\ MineBlocks(1) \in Entries /\ ReadBalances \in Entries /\ ReadLane \in Entries
  BY DEF Entries, Steps
<1>2. /\ Submit("fundFactory") \in Entries /\ Submit("materialise") \in Entries
      /\ Submit("fundLnToKaspa") \in Entries /\ Submit("settleLnToKaspa") \in Entries
      /\ Submit("fundKaspaToLn") \in Entries /\ Submit("settleKaspaToLn") \in Entries
      /\ Submit("fundRefund") \in Entries /\ Attempt("earlyRefund") \in Entries
      /\ Submit("refund") \in Entries
  BY DEF Entries, Steps
<1>3. MineBlocks(RefundSequence + RefundMargin) \in Entries
  <2>1. RefundSequence + RefundMargin \in Nat
    BY CovenantAssumption, DriverAssumption
  <2> QED  BY <2>1 DEF Entries
<1>4. ContestPlan \in Seq(Entries) /\ Len(ContestPlan) = 11
  <2>1. <<Submit("fundContest"), Attempt("nativeUpdate"), Attempt("wrongUpdate"),
          Submit("update")>> \in Seq(Entries)
    BY <1>1
  <2>2. <<Attempt("staleUpdate"), Attempt("nativeSettlement"), Attempt("wrongSettlement"),
          Submit("settlement"), MineBlocks(1), ReadBalances, ReadLane>> \in Seq(Entries)
    BY <1>1
  <2>3. Len(ContestPlan) = 11 /\ \A i \in 1 .. 11 : ContestPlan[i] \in Entries
    BY <1>1 DEF ContestPlan
  <2>4. ContestPlan \in Seq(Entries)
    BY <1>1 DEF ContestPlan
  <2> QED  BY <2>3, <2>4
<1>5. FlowsPlan \in Seq(Entries) /\ Len(FlowsPlan) = 10
  BY <1>2, <1>3 DEF FlowsPlan
<1>6. Plan \in Seq(Entries) /\ Len(Plan) = 21
  <2>1. /\ ContestPlan \o FlowsPlan \in Seq(Entries)
        /\ Len(ContestPlan \o FlowsPlan) = Len(ContestPlan) + Len(FlowsPlan)
    <3> HIDE DEF Entries
    <3> QED  BY <1>4, <1>5, ConcatProperties, ZenonT(30)
  <2> QED  BY <1>4, <1>5, <2>1 DEF Plan
<1>7. ASSUME NEW e \in Entries, e.do \in {"submit", "attempt"} PROVE e.step \in Steps
  <2>1. CASE \E s \in Steps : e = Do("submit", s, 0) \/ e = Do("attempt", s, 0)
    BY <2>1 DEF Do
  <2>2. CASE \E n \in Nat : e = Do("mine", "none", n)
    BY <1>7, <2>2 DEF Do
  <2>3. CASE e = Do("balances", "none", 0) \/ e = Do("lane", "none", 0)
    BY <1>7, <2>3 DEF Do
  <2> QED  BY <2>1, <2>2, <2>3 DEF Entries, Submit, Attempt, MineBlocks, ReadBalances, ReadLane
<1>8. \A i \in 1 .. 21 : Plan[i] \in Entries
  BY <1>6, ElementOfSeq
<1> QED  BY <1>6, <1>7, <1>8

-----------------------------------------------------------------------------
(* The ledger                                                              *)

(* A transaction of the driver spends one coin, and its inputs are one.    *)
LEMMA DriverIns ==
    ASSUME NEW s \in Steps
    PROVE  /\ DOMAIN DriverTx(s).ins = {1} /\ Len(DriverTx(s).ins) = 1
           /\ Coins(DriverTx(s)) = {FirstCoin(DriverTx(s))}
<1>1. \A step, coin, lane, outs :
          LET in == Spend(step, coin, lane, outs).ins IN DOMAIN in = {1} /\ Len(in) = 1
  BY DEF Spend
<1>2. DOMAIN DriverTx(s).ins = {1} /\ Len(DriverTx(s).ins) = 1
  BY <1>1 DEF DriverTx, Steps, GenesisTx, FundTx, UpdateTx, StaleTx, SettlementTx,
              MaterialiseTx, ClaimTx, RefundTx, Spend
<1> QED  BY <1>2 DEF Coins, FirstCoin

(* A transaction that can be in the ledger: one under an id of the driver  *)
(* is the driver's.                                                        *)
Genuine(tx) ==
    /\ tx \in Tx
    /\ tx.id # WalletCoin.tx
    /\ \A s \in Steps : tx.id = DriverId(s) => tx = DriverTx(s)

(* Ids are unique, and every coin but a wallet's is an output of an        *)
(* earlier transaction and spent once.                                     *)
LedgerSound ==
    /\ ledger \in Seq(Tx) /\ minedAt \in Seq(Nat) /\ Len(minedAt) <= Len(ledger)
    /\ daa \in Nat
    /\ pc \in 1 .. 21
    /\ \A i \in DOMAIN ledger :
          /\ Genuine(ledger[i])
          /\ \A coin \in Coins(ledger[i]) : coin # WalletCoin => Exists(coin)
    /\ \A i, j \in DOMAIN ledger :
          /\ ledger[i].id = ledger[j].id => i = j
          /\ \A coin \in Coins(ledger[i]) \cap Coins(ledger[j]) : coin # WalletCoin => i = j

LEMMA DriverTxGenuine ==
    ASSUME NEW s \in Steps PROVE Genuine(DriverTx(s))
<1>1. DriverTx(s) \in Tx /\ DriverTx(s).id = DriverId(s)
  BY DriverTxTyped
<1>2. DriverId(s) # WalletCoin.tx /\ \A t \in Steps : DriverId(s) = DriverId(t) => s = t
  BY DEF DriverId, WalletCoin
<1> QED  BY <1>1, <1>2 DEF Genuine

LEMMA StrangerTxGenuine ==
    ASSUME LedgerSound, NEW tx \in StrangerTxs
    PROVE  Genuine(tx) /\ tx.id = <<"stranger", Len(ledger) + 1>>
<1>0. PICK try \in Tries : \E c \in [DOMAIN try.ins -> OpenCoins \cup {WalletCoin}] :
          tx = StrangerTx(c, try)
  BY DEF StrangerTxs
<1>1. PICK c \in [DOMAIN try.ins -> OpenCoins \cup {WalletCoin}] : tx = StrangerTx(c, try)
  BY <1>0
<1>2. ASSUME NEW coin \in OpenCoins PROVE coin \in Coin
  <2>1. PICK i \in DOMAIN ledger : coin \in [tx : {ledger[i].id}, ix : DOMAIN ledger[i].outs]
    BY DEF OpenCoins
  <2>2. ledger[i] \in Tx
    BY DEF LedgerSound, Genuine
  <2>3. ledger[i].id \in Id /\ DOMAIN ledger[i].outs \subseteq Nat
    BY <2>2 DEF Tx
  <2> QED  BY <2>1, <2>3 DEF Coin
<1>3. WalletCoin \in Coin
  BY DEF WalletCoin, Coin, Id
<1>4. \A n \in DOMAIN try.ins : c[n] \in Coin
  BY <1>1, <1>2, <1>3
<1>5. <<"stranger", Len(ledger) + 1>> \in Id
  <2>1. Len(ledger) + 1 \in Nat
    BY DEF LedgerSound
  <2> QED  BY <2>1 DEF Id
<1>6. /\ try.lane \in Lanes /\ try.outs \in Seq(Output)
      /\ try.ins \in Seq([wallet : BOOLEAN, settle : BOOLEAN,
                          preimage : Swaps \cup {"none"}, seq : Nat])
  BY DriverAssumption
<1>7. tx.ins \in Seq(Input)
  <2> DEFINE In(n) == [coin |-> c[n], settle |-> try.ins[n].settle,
                       preimage |-> try.ins[n].preimage, seq |-> try.ins[n].seq]
  <2>1. Len(try.ins) \in Nat /\ DOMAIN try.ins = 1 .. Len(try.ins)
    BY <1>6
  <2>2. ASSUME NEW n \in 1 .. Len(try.ins) PROVE In(n) \in Input
    <3> DEFINE Given == [wallet : BOOLEAN, settle : BOOLEAN,
                         preimage : Swaps \cup {"none"}, seq : Nat]
    <3>1. try.ins[n] \in Given
      <4>1. try.ins \in Seq(Given)
        BY <1>6
      <4> HIDE DEF Given
      <4> QED  BY <2>2, <4>1, ElementOfSeq
    <3>2. c[n] \in Coin
      BY <1>4, <2>1, <2>2
    <3> QED  BY <3>1, <3>2 DEF Input
  <2>3. tx.ins = [n \in 1 .. Len(try.ins) |-> In(n)]
    BY <1>1, <2>1 DEF StrangerTx
  <2> HIDE DEF In
  <2> QED  BY <2>1, <2>2, <2>3
<1>8. tx = [id |-> <<"stranger", Len(ledger) + 1>>, lane |-> try.lane, outs |-> try.outs,
            ins |-> tx.ins]
  BY <1>1 DEF StrangerTx
<1>9. tx \in Tx /\ tx.id = <<"stranger", Len(ledger) + 1>>
  <2>1. PICK ins, id : ins = tx.ins /\ id = <<"stranger", Len(ledger) + 1>>
    OBVIOUS
  <2>2. tx = [id |-> id, lane |-> try.lane, outs |-> try.outs, ins |-> ins]
    BY <1>8, <2>1
  <2>3. id \in Id /\ ins \in Seq(Input)
    BY <1>5, <1>7, <2>1
  <2>4. tx \in Tx
    <3> HIDE DEF Input, Output, Id
    <3> QED  BY <1>6, <2>2, <2>3 DEF Tx
  <2> QED  BY <2>1, <2>2, <2>4
<1>10. tx.id # WalletCoin.tx /\ \A s \in Steps : tx.id # DriverId(s)
  BY <1>9 DEF WalletCoin, DriverId
<1> QED  BY <1>9, <1>10 DEF Genuine

(* What a step does to the node.                                           *)
LEMMA NodeSteps ==
    ASSUME LedgerSound, [Next]_vars
    PROVE  \/ UNCHANGED node
           \/ Block
           \/ \E tx : Genuine(tx) /\ Refusal(tx) = "none" /\ Accept(tx)
<1>1. ASSUME Plan[pc].do \in {"submit", "attempt"} PROVE Genuine(TheTx)
  BY <1>1, PlanFacts, DriverTxGenuine DEF LedgerSound, TheTx
<1>2. CASE SubmitTx
  BY <1>1, <1>2 DEF SubmitTx, At
<1>3. CASE AttemptTx
  BY <1>1, <1>3 DEF AttemptTx, At
<1>4. CASE LoseCall
  BY <1>1, <1>4 DEF LoseCall
<1>5. ASSUME NEW tx \in StrangerTxs, Stranger(tx)
      PROVE  Genuine(tx) /\ Refusal(tx) = "none" /\ Accept(tx)
  BY <1>5, StrangerTxGenuine DEF Stranger
<1>6. CASE MineSubmitted \/ MineOne \/ ForeignBlock
  BY <1>6 DEF MineSubmitted, MineOne, ForeignBlock
<1>7. CASE WaitForMempool \/ CheckBalances \/ MonitorLane
  BY <1>7 DEF WaitForMempool, CheckBalances, MonitorLane
<1>8. CASE UNCHANGED vars
  BY <1>8 DEF vars
<1> QED  BY <1>2, <1>3, <1>4, <1>5, <1>6, <1>7, <1>8 DEF Next

(* An id stands for one transaction.                                       *)
LEMMA OneTransaction ==
    LedgerSound =>
        \A i \in DOMAIN ledger :
            Known(ledger[i].id) /\ TxOf(ledger[i].id) = ledger[i] /\ Positions(ledger[i].id) = {i}
  BY DEF LedgerSound, Known, TxOf, Positions

(* What the node found of a coin of the chain before it took a transaction *)
(* that spends it.                                                         *)
LEMMA AcceptedSpend ==
    ASSUME LedgerSound, NEW tx, Genuine(tx), Refusal(tx) = "none",
           NEW n \in DOMAIN tx.ins, tx.ins[n].coin # WalletCoin
    PROVE  \E i \in DOMAIN ledger :
              LET coin == tx.ins[n].coin IN
              /\ coin.tx = ledger[i].id /\ coin.ix \in DOMAIN ledger[i].outs
              /\ OutputAt(coin) = ledger[i].outs[coin.ix]
              /\ Unlocks(ledger[i].outs[coin.ix].to, tx, n)
              /\ SequenceMet(tx.ins[n])
              /\ \A j \in DOMAIN ledger : coin \notin Coins(ledger[j])
<1> DEFINE coin == tx.ins[n].coin
<1>1. /\ Exists(coin) /\ SpentAt(coin) = {}
      /\ SequenceMet(tx.ins[n]) /\ Unlocks(OutputAt(coin).to, tx, n)
  BY DEF Refusal, CoinsFound, ChainInputs, Unspent
<1>2. PICK i \in DOMAIN ledger : ledger[i].id = coin.tx
  BY <1>1 DEF Exists, Known, Positions
<1>3. TxOf(coin.tx) = ledger[i]
  BY <1>2, OneTransaction
<1>4. coin.ix \in DOMAIN ledger[i].outs /\ OutputAt(coin) = ledger[i].outs[coin.ix]
  BY <1>1, <1>3 DEF Exists, OutputAt
<1>5. \A j \in DOMAIN ledger : coin \notin Coins(ledger[j])
  BY <1>1 DEF SpentAt
<1> QED  BY <1>1, <1>2, <1>4, <1>5

LEMMA LongerLedger ==
    ASSUME LedgerSound, NEW tx \in Tx, Accept(tx)
    PROVE  /\ ledger' \in Seq(Tx)
           /\ Len(ledger') = Len(ledger) + 1
           /\ DOMAIN ledger' = DOMAIN ledger \cup {Len(ledger) + 1}
           /\ Len(ledger) + 1 \notin DOMAIN ledger
           /\ \A i \in DOMAIN ledger : ledger'[i] = ledger[i]
           /\ ledger'[Len(ledger) + 1] = tx
           /\ Len(ledger) \in Nat
<1>1. ledger \in Seq(Tx) /\ ledger' = Append(ledger, tx)
  BY DEF LedgerSound, Accept
<1>2. Len(ledger) \in Nat /\ DOMAIN ledger = 1 .. Len(ledger)
  BY <1>1
<1>3. /\ Append(ledger, tx) \in Seq(Tx)
      /\ Len(Append(ledger, tx)) = Len(ledger) + 1
      /\ \A i \in 1 .. Len(ledger) : Append(ledger, tx)[i] = ledger[i]
      /\ Append(ledger, tx)[Len(ledger) + 1] = tx
  BY <1>1, AppendProperties
<1>4. DOMAIN Append(ledger, tx) = 1 .. Len(ledger) + 1
  BY <1>2, <1>3
<1>5. /\ 1 .. Len(ledger) + 1 = 1 .. Len(ledger) \cup {Len(ledger) + 1}
      /\ Len(ledger) + 1 \notin 1 .. Len(ledger)
  BY <1>2
<1> QED  BY <1>1, <1>2, <1>3, <1>4, <1>5

LEMMA AcceptKeepsLedgerSound ==
    ASSUME LedgerSound, pc' \in 1 .. 21,
           NEW tx, Genuine(tx), Refusal(tx) = "none", Accept(tx)
    PROVE  LedgerSound'
<1> DEFINE n == Len(ledger) + 1
<1>1. tx \in Tx /\ tx.id # WalletCoin.tx
  BY DEF Genuine
<1>2. /\ ledger' \in Seq(Tx) /\ Len(ledger') = n /\ n \in Nat /\ Len(ledger) \in Nat
      /\ DOMAIN ledger' = DOMAIN ledger \cup {n} /\ n \notin DOMAIN ledger
      /\ \A i \in DOMAIN ledger : ledger'[i] = ledger[i]
      /\ ledger'[n] = tx
  <2>1. Len(ledger) \in Nat
    BY <1>1, LongerLedger
  <2>2. n \in Nat
    BY <2>1
  <2> QED  BY <1>1, <2>1, <2>2, LongerLedger, Zenon
<1>3. UNCHANGED <<minedAt, daa>>
  BY DEF Accept
<1>4. \A i \in DOMAIN ledger : ledger[i].id # tx.id
  BY DEF Refusal, Known, Positions
<1>5. ASSUME NEW coin \in Coins(tx), coin # WalletCoin
      PROVE  Exists(coin) /\ \A i \in DOMAIN ledger : coin \notin Coins(ledger[i])
  BY <1>5 DEF Refusal, CoinsFound, ChainInputs, Unspent, SpentAt, Coins
<1>6. \A i, j \in DOMAIN ledger' : ledger'[i].id = ledger'[j].id => i = j
  BY <1>2, <1>4 DEF LedgerSound
<1>7. ASSUME NEW i \in DOMAIN ledger', NEW j \in DOMAIN ledger',
             NEW coin \in Coins(ledger'[i]) \cap Coins(ledger'[j]), coin # WalletCoin
      PROVE  i = j
  BY <1>2, <1>5, <1>7 DEF LedgerSound
<1>8. \A i \in DOMAIN ledger' : Genuine(ledger'[i])
  BY <1>2 DEF LedgerSound
<1>9. ASSUME NEW i \in DOMAIN ledger, NEW coin, coin.tx = ledger[i].id,
             coin.ix \in DOMAIN ledger[i].outs
      PROVE  Exists(coin)'
  <2>1. i \in Positions(coin.tx)' /\ \A j \in Positions(coin.tx)' : j = i
    BY <1>2, <1>6, <1>9 DEF Positions
  <2>2. TxOf(coin.tx)' = ledger[i]
    BY <1>2, <2>1 DEF TxOf
  <2> QED  BY <1>9, <2>1, <2>2 DEF Exists, Known
<1>10. ASSUME NEW coin, Exists(coin) PROVE Exists(coin)'
  <2>1. PICK i \in DOMAIN ledger : ledger[i].id = coin.tx
    BY <1>10 DEF Exists, Known, Positions
  <2>2. TxOf(coin.tx) = ledger[i]
    BY <2>1, OneTransaction
  <2> QED  BY <1>9, <1>10, <2>1, <2>2 DEF Exists
<1>11. ASSUME NEW i \in DOMAIN ledger', NEW coin \in Coins(ledger'[i]), coin # WalletCoin
       PROVE  Exists(coin)'
  <2>1. Exists(coin)
    BY <1>2, <1>5, <1>11 DEF LedgerSound
  <2> QED  BY <1>10, <2>1
<1>12. /\ minedAt' \in Seq(Nat) /\ Len(minedAt') <= Len(ledger') /\ daa' \in Nat
  <2>1. minedAt \in Seq(Nat) /\ Len(minedAt) \in Nat /\ Len(minedAt) <= Len(ledger) /\ daa \in Nat
    BY DEF LedgerSound
  <2> QED  BY <1>2, <1>3, <2>1
<1> QED  BY <1>2, <1>6, <1>7, <1>8, <1>11, <1>12 DEF LedgerSound

(* What a coin is stays as it is.                                          *)
LEMMA CoinsStay ==
    ASSUME LedgerSound, NEW tx, Genuine(tx), Refusal(tx) = "none", Accept(tx),
           NEW coin, Exists(coin)
    PROVE  OutputAt(coin)' = OutputAt(coin)
<1>1. /\ DOMAIN ledger' = DOMAIN ledger \cup {Len(ledger) + 1}
      /\ \A i \in DOMAIN ledger : ledger'[i] = ledger[i]
      /\ ledger'[Len(ledger) + 1] = tx
  BY LongerLedger DEF Genuine
<1>2. PICK i \in DOMAIN ledger : ledger[i].id = coin.tx
  BY DEF Exists, Known, Positions
<1>3. TxOf(coin.tx) = ledger[i] /\ Positions(coin.tx) = {i}
  BY <1>2, OneTransaction
<1>4. tx.id # coin.tx
  BY <1>2 DEF Refusal, Known, Positions
<1>5. Positions(coin.tx)' = {i}
  BY <1>1, <1>3, <1>4 DEF Positions
<1>6. TxOf(coin.tx)' = TxOf(coin.tx)
  BY <1>1, <1>3, <1>5 DEF TxOf
<1> QED  BY <1>6 DEF OutputAt

LEMMA BlockFacts ==
    ASSUME LedgerSound, Block
    PROVE  /\ UNCHANGED ledger /\ daa' = daa + 1
           /\ minedAt' \in Seq(Nat) /\ Len(minedAt') = Len(ledger)
           /\ \A i \in 1 .. Len(minedAt) : minedAt'[i] = minedAt[i]
<1>1. /\ ledger \in Seq(Tx) /\ minedAt \in Seq(Nat) /\ Len(minedAt) <= Len(ledger)
      /\ daa \in Nat /\ Len(ledger) \in Nat /\ Len(minedAt) \in Nat
      /\ DOMAIN ledger = 1 .. Len(ledger)
  BY DEF LedgerSound
<1>2. minedAt' = [i \in 1 .. Len(ledger) |-> IF i <= Len(minedAt) THEN minedAt[i] ELSE daa]
  BY <1>1 DEF Block
<1>3. \A i \in 1 .. Len(ledger) :
          (IF i <= Len(minedAt) THEN minedAt[i] ELSE daa) \in Nat
  BY <1>1
<1>4. minedAt' \in Seq(Nat) /\ Len(minedAt') = Len(ledger)
  BY <1>1, <1>2, <1>3
<1> QED  BY <1>1, <1>2, <1>4 DEF Block

LEMMA BlockKeepsLedgerSound ==
    ASSUME LedgerSound, pc' \in 1 .. 21, Block
    PROVE  LedgerSound'
<1>1. /\ minedAt' \in Seq(Nat) /\ Len(minedAt') <= Len(ledger') /\ daa' \in Nat
  BY BlockFacts DEF LedgerSound
<1>2. UNCHANGED ledger
  BY BlockFacts
<1> QED  BY <1>1, <1>2 DEF LedgerSound, Exists, Known, Positions, TxOf

LEMMA PlanPosition ==
    ASSUME LedgerSound, [Next]_vars
    PROVE  pc' \in 1 .. 21
<1>1. pc \in 1 .. 21
  BY DEF LedgerSound
<1>2. ASSUME Advance PROVE pc' \in 1 .. 21
  BY <1>1, <1>2, PlanFacts DEF Advance
<1>3. ASSUME Fail PROVE pc' \in 1 .. 21
  BY <1>1, <1>3 DEF Fail
<1>4. CASE SubmitTx \/ WaitForMempool \/ MineSubmitted
  BY <1>1, <1>2, <1>3, <1>4 DEF SubmitTx, WaitForMempool, MineSubmitted
<1>5. CASE AttemptTx \/ MineOne
  BY <1>1, <1>2, <1>3, <1>5 DEF AttemptTx, MineOne
<1>6. CASE CheckBalances \/ MonitorLane \/ LoseCall
  BY <1>1, <1>2, <1>3, <1>6 DEF CheckBalances, MonitorLane, LoseCall
<1>7. CASE \E tx \in StrangerTxs : Stranger(tx)
  BY <1>1, <1>7 DEF Stranger, control
<1>8. CASE ForeignBlock \/ UNCHANGED vars
  BY <1>1, <1>8 DEF ForeignBlock, control, vars
<1> QED  BY <1>4, <1>5, <1>6, <1>7, <1>8 DEF Next

LEMMA LedgerStaysSound == Spec => []LedgerSound
<1>1. Init => LedgerSound
  BY DEF Init, LedgerSound
<1>2. LedgerSound /\ [Next]_vars => LedgerSound'
  <2> SUFFICES ASSUME LedgerSound, [Next]_vars PROVE LedgerSound'
    OBVIOUS
  <2>1. pc' \in 1 .. 21
    BY PlanPosition
  <2>2. CASE UNCHANGED node
    BY <2>1, <2>2 DEF LedgerSound, Exists, Known, Positions, TxOf, node
  <2> QED  BY <2>1, <2>2, NodeSteps, AcceptKeepsLedgerSound, BlockKeepsLedgerSound
<1> QED  BY <1>1, <1>2, PTL DEF Spec

(* What TypeOK adds to LedgerSound.                                        *)
RestTyped ==
    /\ phase \in {"call", "mempool", "mine"} /\ waited \in Nat
    /\ outcome \in {"running", "failed", "passed"}
    /\ events \subseteq [tx : Id, order : Nat] /\ absent \subseteq Id
    /\ attempts \subseteq [step : Steps,
                           why : {"known", "missing", "value", "sequence", "script", "lost"}]
    /\ foreign \in 0 .. MaxForeign /\ disturbed \subseteq {"spend", "lost"}

LEMMA RestStaysTyped ==
    ASSUME LedgerSound, RestTyped, [Next]_vars
    PROVE  RestTyped'
<1>1. Advance => phase' = "call" /\ waited' = 0 /\ outcome' \in {"running", "passed"}
  BY DEF Advance
<1>2. Fail => outcome' = "failed" /\ UNCHANGED <<phase, waited>>
  BY DEF Fail
<1>3. Plan[pc].do \in {"submit", "attempt"} => Plan[pc].step \in Steps
  BY PlanFacts DEF LedgerSound
<1>4. Refusal(TheTx) # "none" =>
          Refusal(TheTx) \in {"known", "missing", "value", "sequence", "script", "lost"}
  BY DEF Refusal
<1>5. CASE SubmitTx
  BY <1>2, <1>5 DEF SubmitTx, RestTyped, monitor
<1>6. CASE WaitForMempool
  BY <1>2, <1>6 DEF WaitForMempool, RestTyped, monitor
<1>7. CASE MineSubmitted
  BY <1>1, <1>7 DEF MineSubmitted, RestTyped, monitor
<1>8. CASE AttemptTx
  BY <1>1, <1>2, <1>3, <1>4, <1>8 DEF AttemptTx, At, RestTyped, monitor
<1>9. CASE MineOne
  BY <1>1, <1>9 DEF MineOne, RestTyped, monitor
<1>10. CASE CheckBalances
  BY <1>1, <1>2, <1>10 DEF CheckBalances, RestTyped, monitor
<1>11. CASE MonitorLane
  <2>1. LaneEvents \subseteq [tx : Id, order : Nat]
    BY DEF LaneEvents, Visible, LedgerSound, Genuine, Tx
  <2>2. {DriverId(step) : step \in WrongLaneSteps} \subseteq Id
    BY DEF WrongLaneSteps, DriverId, Id, Steps
  <2>3. CASE Advance /\ events' = LaneEvents /\ absent' = {DriverId(step) : step \in WrongLaneSteps}
    BY <1>1, <1>11, <2>1, <2>2, <2>3 DEF MonitorLane, RestTyped
  <2>4. CASE Fail /\ UNCHANGED monitor
    BY <1>2, <1>11, <2>4 DEF MonitorLane, RestTyped, monitor
  <2> QED  BY <1>11, <2>3, <2>4 DEF MonitorLane
<1>12. CASE \E tx \in StrangerTxs : Stranger(tx)
  BY <1>12 DEF Stranger, RestTyped, monitor, control
<1>13. CASE ForeignBlock
  BY <1>13, DriverAssumption DEF ForeignBlock, RestTyped, monitor, control
<1>14. CASE LoseCall
  <2>1. UNCHANGED <<monitor, foreign>> /\ disturbed' \subseteq {"spend", "lost"}
    BY <1>14 DEF LoseCall, RestTyped
  <2>2. CASE Advance /\ Plan[pc].do = "attempt"
    BY <1>1, <1>3, <1>14, <2>1, <2>2 DEF LoseCall, RestTyped, monitor
  <2>3. CASE Fail /\ UNCHANGED attempts
    BY <1>2, <2>1, <2>3 DEF RestTyped, monitor
  <2> QED  BY <1>14, <2>2, <2>3 DEF LoseCall
<1>15. CASE UNCHANGED vars
  BY <1>15 DEF vars, control, monitor, RestTyped
<1> QED  BY <1>5, <1>6, <1>7, <1>8, <1>9, <1>10, <1>11, <1>12, <1>13, <1>14, <1>15 DEF Next

(* Every variable of the node and of the driver keeps its type.            *)
THEOREM TypeCorrect == Spec => []TypeOK
<1>1. Init => RestTyped
  BY DriverAssumption DEF Init, RestTyped
<1>2. LedgerSound /\ RestTyped => TypeOK
  BY PlanFacts DEF LedgerSound, RestTyped, TypeOK
<1> QED  BY <1>1, <1>2, RestStaysTyped, LedgerStaysSound, PTL DEF Spec

-----------------------------------------------------------------------------
(* The refund                                                              *)

LEMMA RefundScript ==
    ASSUME LedgerSound, NEW i \in DOMAIN ledger, ledger[i].id = DriverId("fundRefund"),
           NEW k \in DOMAIN ledger[i].outs
    PROVE  ledger[i].outs[k].to = "refund"
<1>1. ledger[i] = DriverTx("fundRefund")
  BY DEF LedgerSound, Genuine, Steps
<1>2. ledger[i].outs = <<Pay("refund", FundingValue)>>
  BY <1>1 DEF DriverTx, FundTx, Spend
<1> QED  BY <1>2 DEF Pay

(* Nobody takes the refund before its time: for any fees, any refund       *)
(* sequence, any transactions of others and any moment at which they or    *)
(* foreign blocks come in.                                                 *)
THEOREM RefundIsTimelocked == Spec => []RefundWaits
<1>1. Init => RefundWaits
  BY DEF Init, RefundWaits
<1>2. LedgerSound /\ RefundWaits /\ [Next]_vars => RefundWaits'
  <2> SUFFICES ASSUME LedgerSound, RefundWaits, [Next]_vars PROVE RefundWaits'
    OBVIOUS
  <2>1. CASE UNCHANGED node
    BY <2>1 DEF RefundWaits, Positions, node
  <2>2. CASE Block
    <3>1. /\ UNCHANGED ledger /\ daa' = daa + 1 /\ Len(minedAt') = Len(ledger)
          /\ \A f \in 1 .. Len(minedAt) : minedAt'[f] = minedAt[f]
      BY <2>2, BlockFacts
    <3>2. ASSUME NEW f \in Positions(DriverId("fundRefund")), f <= Len(minedAt),
                 minedAt[f] + RefundSequence <= daa
          PROVE  /\ f \in Positions(DriverId("fundRefund"))'
                 /\ f <= Len(minedAt') /\ minedAt'[f] + RefundSequence <= daa'
      <4>1. /\ f \in 1 .. Len(ledger) /\ f \in 1 .. Len(minedAt)
            /\ minedAt[f] \in Nat /\ daa \in Nat /\ Len(ledger) \in Nat
        BY <3>2 DEF Positions, LedgerSound
      <4>2. f \in Positions(DriverId("fundRefund"))'
        BY <3>1, <3>2 DEF Positions
      <4> QED  BY <3>1, <3>2, <4>1, <4>2, CovenantAssumption
    <3> QED  BY <3>1, <3>2 DEF RefundWaits
  <2>3. ASSUME NEW tx, Genuine(tx), Refusal(tx) = "none", Accept(tx)
        PROVE  RefundWaits'
    <3>1. /\ DOMAIN ledger' = DOMAIN ledger \cup {Len(ledger) + 1}
          /\ \A i \in DOMAIN ledger : ledger'[i] = ledger[i]
          /\ ledger'[Len(ledger) + 1] = tx
      BY <2>3, LongerLedger DEF Genuine
    <3>2. UNCHANGED <<minedAt, daa>>
      BY <2>3 DEF Accept
    <3>3. ASSUME NEW f \in Positions(DriverId("fundRefund"))
          PROVE  f \in Positions(DriverId("fundRefund"))'
      BY <3>1, <3>3 DEF Positions
    <3>4. ASSUME OutputOf("fundRefund") \in Coins(tx)
          PROVE  \E f \in Positions(DriverId("fundRefund")) :
                    f <= Len(minedAt) /\ minedAt[f] + RefundSequence <= daa
      <4> PICK n \in DOMAIN tx.ins : tx.ins[n].coin = OutputOf("fundRefund")
        BY <3>4 DEF Coins
      <4> DEFINE in == tx.ins[n]
      <4>1. /\ in.coin # WalletCoin
            /\ in.coin.tx = DriverId("fundRefund") /\ in.coin.ix = 1
        BY DEF OutputOf, WalletCoin, DriverId
      <4>2. PICK i \in DOMAIN ledger :
                /\ in.coin.tx = ledger[i].id /\ in.coin.ix \in DOMAIN ledger[i].outs
                /\ Unlocks(ledger[i].outs[in.coin.ix].to, tx, n)
                /\ SequenceMet(in)
        BY <2>3, <4>1, AcceptedSpend
      <4>3. Unlocks("refund", tx, n)
        BY <4>1, <4>2, RefundScript
      <4>4. in.seq >= RefundSequence
        BY <4>3 DEF Unlocks, RefundUnlocks, Swaps
      <4>5. in.seq \in Nat
        BY <2>3, InputsTyped DEF Genuine
      <4>6. PICK f \in Positions(DriverId("fundRefund")) :
                f <= Len(minedAt) /\ minedAt[f] + in.seq <= daa
        BY <4>1, <4>2, <4>4, <4>5, CovenantAssumption DEF SequenceMet
      <4>7. minedAt[f] \in Nat /\ daa \in Nat
        BY <4>6 DEF Positions, LedgerSound
      <4> QED  BY <4>4, <4>5, <4>6, <4>7, CovenantAssumption
    <3> QED  BY <3>1, <3>2, <3>3, <3>4 DEF RefundWaits
  <2> QED  BY <2>1, <2>2, <2>3, NodeSteps
<1> QED  BY <1>1, <1>2, LedgerStaysSound, PTL DEF Spec

-----------------------------------------------------------------------------
(* The contest                                                             *)

(* Where outputs with the contest's covenant are as long as they are spent *)
(* at a first input and no party holds one: the first of the funding,      *)
(* under state 1, and the first of whatever spends that, under state 2.    *)
ContestCoins ==
    \/ LedByAnotherInput \/ ContestPaidOnward
    \/ \A i \in DOMAIN ledger : \A k \in DOMAIN ledger[i].outs :
          ledger[i].outs[k].cov = "contest" =>
              /\ k = 1
              /\ \/ /\ ledger[i].id = DriverId("fundContest")
                    /\ ledger[i].outs[k].to = "state1"
                 \/ /\ OutputOf("fundContest") \in Coins(ledger[i])
                    /\ ledger[i].outs[k].to = "state2"

(* What a script that unlocks says of the outputs.                         *)
LEMMA UnlocksPays ==
    ASSUME NEW script, NEW tx \in Tx, NEW n, Unlocks(script, tx, n)
    PROVE  \/ script = "state1" /\ State1Unlocks(tx, n)
           \/ script = "state2" /\ PaysExactly(tx.outs, Payout("contest"))
           \/ /\ script \in Contracts \ {"contest"}
              /\ PaysExactly(tx.outs, Payout(script))
  BY DEF Unlocks, State2Unlocks, FactoryUnlocks, RefundUnlocks, HashlockUnlocks, Contracts,
         Swaps

LEMMA PayoutParties ==
    ASSUME NEW c \in Contracts, NEW k \in DOMAIN Payout(c)
    PROVE  Payout(c)[k].to \in Parties
<1>1. ASSUME NEW value, NEW percent, NEW i \in DOMAIN Split(value, percent)
      PROVE  Split(value, percent)[i].to \in Parties
  BY <1>1 DEF Split, Pay, Parties
<1>2. ASSUME NEW to \in Parties, NEW value, NEW i \in DOMAIN <<Pay(to, value)>>
      PROVE  <<Pay(to, value)>>[i].to \in Parties
  BY <1>2 DEF Pay
<1>3. "alice" \in Parties /\ Recipient(c) \in Parties
  BY DEF Parties, Recipient
<1>4. Payout(c) \in {Split(SettlementValue, 60), Split(State2Value, 55),
                     <<Pay("alice", SwapValue)>>, <<Pay(Recipient(c), SwapValue)>>}
  BY DEF Payout, Contracts
<1> QED  BY <1>1, <1>2, <1>3, <1>4

LEMMA PaysParties ==
    ASSUME NEW c \in Contracts, NEW outs \in Seq(Output), PaysExactly(outs, Payout(c)),
           NEW k \in DOMAIN outs
    PROVE  outs[k].to \in Parties
<1>1. DOMAIN outs = DOMAIN Payout(c)
  BY PayoutsAreOutputs DEF PaysExactly
<1> QED  BY <1>1, PayoutParties DEF PaysExactly

(* What happened to the contest's outputs has happened.                    *)
LEMMA StrayingStays ==
    ASSUME LedgerSound, NEW tx, Genuine(tx), Refusal(tx) = "none", Accept(tx)
    PROVE  /\ LedByAnotherInput => LedByAnotherInput'
           /\ ContestPaidOnward => ContestPaidOnward'
<1>1. /\ DOMAIN ledger' = DOMAIN ledger \cup {Len(ledger) + 1}
      /\ \A i \in DOMAIN ledger : ledger'[i] = ledger[i]
  BY LongerLedger DEF Genuine
<1>2. ASSUME LedByAnotherInput PROVE LedByAnotherInput'
  <2>1. PICK i \in DOMAIN ledger : \E n \in ChainInputs(ledger[i]) :
            n # 1 /\ OfContest(OutputAt(ledger[i].ins[n].coin))
    BY <1>2 DEF LedByAnotherInput
  <2>2. PICK n \in ChainInputs(ledger[i]) :
            n # 1 /\ OfContest(OutputAt(ledger[i].ins[n].coin))
    BY <2>1
  <2>3. PICK coin : coin = ledger[i].ins[n].coin
    OBVIOUS
  <2>4. Exists(coin)
    BY <2>2, <2>3 DEF LedgerSound, ChainInputs, Coins
  <2>5. OutputAt(coin)' = OutputAt(coin)
    BY <2>4, CoinsStay
  <2>6. OfContest(OutputAt(coin)')
    BY <2>2, <2>3, <2>5
  <2> QED  BY <1>1, <2>2, <2>3, <2>6 DEF LedByAnotherInput
<1>3. ContestPaidOnward => ContestPaidOnward'
  BY <1>1 DEF ContestPaidOnward, WalletCarries
<1> QED  BY <1>2, <1>3

LEMMA ContestStaysInPlace == Spec => []ContestCoins
<1>1. Init => ContestCoins
  BY DEF Init, ContestCoins
<1>2. LedgerSound /\ ContestCoins /\ [Next]_vars => ContestCoins'
  <2> SUFFICES ASSUME LedgerSound, ContestCoins, [Next]_vars PROVE ContestCoins'
    OBVIOUS
  <2>1. CASE UNCHANGED ledger
    <3>1. LedByAnotherInput' <=> LedByAnotherInput
      BY <2>1 DEF LedByAnotherInput, OutputAt, TxOf, Positions
    <3>2. ContestPaidOnward' <=> ContestPaidOnward
      BY <2>1 DEF ContestPaidOnward, WalletCarries
    <3> QED  BY <2>1, <3>1, <3>2 DEF ContestCoins
  <2>2. ASSUME NEW tx, Genuine(tx), Refusal(tx) = "none", Accept(tx)
        PROVE  ContestCoins'
    <3>1. /\ DOMAIN ledger' = DOMAIN ledger \cup {Len(ledger) + 1}
          /\ \A i \in DOMAIN ledger : ledger'[i] = ledger[i]
          /\ ledger'[Len(ledger) + 1] = tx
      BY <2>2, LongerLedger DEF Genuine
    <3>2. tx \in Tx /\ tx.outs \in Seq(Output)
      BY <2>2 DEF Genuine, Tx
    <3>3. CASE LedByAnotherInput' \/ ContestPaidOnward'
      BY <3>3 DEF ContestCoins
    <3>4. CASE ~LedByAnotherInput' /\ ~ContestPaidOnward'
      <4>1. ~LedByAnotherInput /\ ~ContestPaidOnward
        BY <2>2, <3>4, StrayingStays
      <4> SUFFICES ASSUME NEW k \in DOMAIN tx.outs, tx.outs[k].cov = "contest"
                   PROVE  /\ k = 1
                          /\ \/ tx.id = DriverId("fundContest") /\ tx.outs[k].to = "state1"
                             \/ /\ OutputOf("fundContest") \in Coins(tx)
                                /\ tx.outs[k].to = "state2"
        BY <3>1, <4>1 DEF ContestCoins
      <4> DEFINE out == tx.outs[k]
                 n == out.by
      <4>2. CovenantFits(tx, out)
        BY <2>2 DEF Refusal, ValuesFit
      <4>3. CASE n = 0
        <5>1. tx = GenesisTx
          BY <4>2, <4>3 DEF CovenantFits
        <5> QED  BY <5>1 DEF GenesisTx, Spend, Start
      <4>4. CASE n # 0 /\ n \notin ChainInputs(tx)
        BY <4>1, <4>2, <4>4 DEF CovenantFits, ContestPaidOnward
      <4>5. CASE n # 0 /\ n \in ChainInputs(tx)
        <5> DEFINE coin == tx.ins[n].coin
        <5>1. n \in DOMAIN tx.ins /\ coin # WalletCoin
          BY <4>5 DEF ChainInputs
        <5>2. OutputAt(coin).cov = "contest"
          BY <4>2, <4>5 DEF CovenantFits
        <5>3. PICK i \in DOMAIN ledger :
                  /\ coin.tx = ledger[i].id /\ coin.ix \in DOMAIN ledger[i].outs
                  /\ OutputAt(coin) = ledger[i].outs[coin.ix]
                  /\ Unlocks(ledger[i].outs[coin.ix].to, tx, n)
          BY <2>2, <5>1, AcceptedSpend
        <5>4. /\ coin.ix = 1
              /\ \/ /\ ledger[i].id = DriverId("fundContest")
                    /\ OutputAt(coin).to = "state1"
                 \/ OutputAt(coin).to = "state2"
          BY <4>1, <5>2, <5>3 DEF ContestCoins
        <5>5. n = 1
          <6>1. OfContest(OutputAt(coin))
            BY <5>2, <5>4 DEF OfContest, Scripts
          <6>2. PICK spent : spent = coin
            OBVIOUS
          <6>3. Exists(spent)
            BY <2>2, <4>5, <6>2 DEF Refusal, CoinsFound, Unspent
          <6>4. OutputAt(spent)' = OutputAt(spent)
            BY <2>2, <6>3, CoinsStay
          <6>5. OfContest(OutputAt(spent)')
            BY <6>1, <6>2, <6>4
          <6> QED  BY <3>1, <3>4, <4>5, <6>2, <6>5 DEF LedByAnotherInput
        <5>6. CASE OutputAt(coin).to = "state1" /\ ledger[i].id = DriverId("fundContest")
          <6>1. State1Unlocks(tx, n)
            BY <3>2, <5>3, <5>6, UnlocksPays DEF Contracts, Swaps
          <6>2. k \in Authorised(tx, 1)
            BY <5>5 DEF Authorised
          <6>3. k = 1 /\ out.to = "state2"
            BY <6>1, <6>2 DEF State1Unlocks
          <6>4. coin \in Coin
            BY <3>2, <5>1, InputsTyped
          <6>5. coin = OutputOf("fundContest")
            BY <5>3, <5>4, <5>6, <6>4 DEF OutputOf, Coin
          <6> QED  BY <5>1, <6>3, <6>5 DEF Coins
        <5>7. CASE OutputAt(coin).to = "state2"
          <6>1. PaysExactly(tx.outs, Payout("contest"))
            BY <3>2, <5>3, <5>7, UnlocksPays DEF Contracts, Swaps
          <6>2. out.to \in Parties
            BY <3>2, <6>1, PaysParties DEF Contracts
          <6>3. ContestPaidOnward'
            BY <3>1, <6>2 DEF ContestPaidOnward, WalletCarries
          <6> QED  BY <3>4, <6>3
        <5> QED  BY <5>4, <5>6, <5>7
      <4> QED  BY <4>3, <4>4, <4>5
    <3> QED  BY <3>3, <3>4
  <2>3. Block => UNCHANGED ledger
    BY BlockFacts
  <2> QED  BY <2>1, <2>2, <2>3, NodeSteps DEF node
<1> QED  BY <1>1, <1>2, LedgerStaysSound, PTL DEF Spec

LEMMA OneOfItsCoins ==
    LedgerSound /\ ContestCoins => OneContestOutput
<1> SUFFICES ASSUME LedgerSound, ContestCoins, ~LedByAnotherInput, ~ContestPaidOnward,
                    NEW c \in OpenCoins, NEW d \in OpenCoins,
                    OfContest(OutputAt(c)), OfContest(OutputAt(d))
             PROVE  c = d
  BY DEF OneContestOutput
<1>1. ASSUME NEW e \in OpenCoins, OfContest(OutputAt(e))
      PROVE  \E i \in DOMAIN ledger :
                /\ e = [tx |-> ledger[i].id, ix |-> 1]
                /\ \A j \in DOMAIN ledger : e \notin Coins(ledger[j])
                /\ \/ ledger[i].id = DriverId("fundContest")
                   \/ OutputOf("fundContest") \in Coins(ledger[i])
  <2>1. PICK i \in DOMAIN ledger : e \in [tx : {ledger[i].id}, ix : DOMAIN ledger[i].outs]
    BY DEF OpenCoins
  <2>2. /\ e = [tx |-> ledger[i].id, ix |-> e.ix] /\ e.tx = ledger[i].id
        /\ e.ix \in DOMAIN ledger[i].outs
    BY <2>1
  <2>3. TxOf(e.tx) = ledger[i]
    BY <2>2, OneTransaction
  <2>4. OutputAt(e) = ledger[i].outs[e.ix]
    BY <2>3 DEF OutputAt
  <2>5. \A j \in DOMAIN ledger : e \notin Coins(ledger[j])
    BY DEF OpenCoins, Unspent, SpentAt
  <2> QED  BY <1>1, <2>2, <2>4, <2>5 DEF ContestCoins, OfContest
<1>2. PICK i \in DOMAIN ledger :
          /\ c = [tx |-> ledger[i].id, ix |-> 1]
          /\ \A j \in DOMAIN ledger : c \notin Coins(ledger[j])
          /\ \/ ledger[i].id = DriverId("fundContest")
             \/ OutputOf("fundContest") \in Coins(ledger[i])
  BY <1>1
<1>3. PICK h \in DOMAIN ledger :
          /\ d = [tx |-> ledger[h].id, ix |-> 1]
          /\ \A j \in DOMAIN ledger : d \notin Coins(ledger[j])
          /\ \/ ledger[h].id = DriverId("fundContest")
             \/ OutputOf("fundContest") \in Coins(ledger[h])
  BY <1>1
<1>4. OutputOf("fundContest") # WalletCoin
  BY DEF OutputOf, WalletCoin, DriverId
<1>5. OutputOf("fundContest") \in Coins(ledger[i]) /\ OutputOf("fundContest") \in Coins(ledger[h])
          => i = h
  BY <1>4 DEF LedgerSound
<1> QED  BY <1>2, <1>3, <1>5 DEF OutputOf

(* As long as the contest is spent at a first input and no party holds its *)
(* covenant it is not split in two, whatever others spend with it, with    *)
(* any number of inputs and outputs and coins of any covenant.             *)
THEOREM ContestIsNotSplit == Spec => []OneContestOutput
  BY LedgerStaysSound, ContestStaysInPlace, OneOfItsCoins, PTL

-----------------------------------------------------------------------------
(* The escrow                                                              *)

(* What an update pays, whatever else it does.                             *)
IsUpdate(tx) ==
    1 \in DOMAIN tx.outs /\ tx.outs[1].to = "state2" /\ tx.outs[1].value = State2Value

(* What the node made sure of when the coins of the contracts were spent.  *)
EscrowKept ==
    \A i \in DOMAIN ledger :
        /\ \A c \in Contracts \ {"contest"} :
              OutputOf(FundingStep(c)) \in Coins(ledger[i]) =>
                  PaysExactly(ledger[i].outs, Payout(c))
        /\ OutputOf("fundContest") \in Coins(ledger[i]) => IsUpdate(ledger[i])
        /\ \A h \in DOMAIN ledger :
              /\ OutputOf("fundContest") \in Coins(ledger[h])
              /\ FirstOutput(ledger[h]) \in Coins(ledger[i])
              => PaysExactly(ledger[i].outs, Payout("contest"))

LEMMA FundingFacts ==
    /\ FundingStep("contest") = "fundContest"
    /\ \A s \in FundSteps : s \in Steps /\ \E c \in Contracts : s = FundingStep(c)
    /\ \A c \in Contracts : FundingStep(c) \in FundSteps
    /\ \A c, d \in Contracts : FundingStep(c) = FundingStep(d) => c = d
    /\ \A s \in FundSteps : FirstCoin(DriverTx(s)) = WalletCoin /\ DOMAIN DriverTx(s).outs = {1}
    /\ \A c \in Contracts \ {"contest"} : DriverTx(FundingStep(c)).outs[1].to = c
    /\ DriverTx("fundContest").outs[1].to = "state1"
<1>1. /\ FundingStep("contest") = "fundContest"
      /\ \A s \in FundSteps : s \in Steps /\ \E c \in Contracts : s = FundingStep(c)
      /\ \A c \in Contracts : FundingStep(c) \in FundSteps
      /\ \A c, d \in Contracts : FundingStep(c) = FundingStep(d) => c = d
  BY DEF FundingStep, FundSteps, Steps, Contracts, Swaps
<1>2. /\ FirstCoin(DriverTx("fundContest")) = WalletCoin
      /\ DriverTx("fundContest").outs = <<Start("state1", FundingValue)>>
  BY DEF DriverTx, GenesisTx, Spend, FirstCoin
<1>3. \A c \in Contracts \ {"contest"} :
          /\ FirstCoin(DriverTx(FundingStep(c))) = WalletCoin
          /\ DriverTx(FundingStep(c)).outs = <<Pay(c, FundingValue)>>
  BY DEF DriverTx, FundTx, Spend, FundingStep, Contracts, Swaps, FirstCoin
<1>4. \A s \in FundSteps : FirstCoin(DriverTx(s)) = WalletCoin /\ DOMAIN DriverTx(s).outs = {1}
  <2>1. ASSUME NEW s \in FundSteps
        PROVE  FirstCoin(DriverTx(s)) = WalletCoin /\ \E o : DriverTx(s).outs = <<o>>
    BY <1>1, <1>2, <1>3
  <2> QED  BY <2>1
<1>5. /\ \A c \in Contracts \ {"contest"} : DriverTx(FundingStep(c)).outs[1].to = c
      /\ DriverTx("fundContest").outs[1].to = "state1"
  <2>1. ASSUME NEW o PROVE <<o>>[1] = o
    OBVIOUS
  <2>2. Start("state1", FundingValue).to = "state1"
    BY DEF Start
  <2>3. \A c : Pay(c, FundingValue).to = c
    BY DEF Pay
  <2> QED  BY <1>2, <1>3, <2>1, <2>2, <2>3
<1> QED  BY <1>1, <1>4, <1>5

LEMMA NotAWalletCoin ==
    \A s \in Steps : OutputOf(s) # WalletCoin
  BY DEF OutputOf, WalletCoin, DriverId

(* A spend of a contract's coin was unlocked by the contract's script.     *)
LEMMA ContractUnlocked ==
    ASSUME LedgerSound, NEW tx, Genuine(tx), Refusal(tx) = "none",
           NEW c \in Contracts, OutputOf(FundingStep(c)) \in Coins(tx)
    PROVE  /\ c # "contest" => PaysExactly(tx.outs, Payout(c))
           /\ c = "contest" => IsUpdate(tx)
           /\ Known(DriverId(FundingStep(c))) /\ SpentAt(OutputOf(FundingStep(c))) = {}
<1>1. FundingStep(c) \in FundSteps /\ FundingStep(c) \in Steps
  BY FundingFacts
<1> PICK n \in DOMAIN tx.ins : tx.ins[n].coin = OutputOf(FundingStep(c))
  BY DEF Coins
<1> DEFINE coin == tx.ins[n].coin
<1>2. /\ coin # WalletCoin /\ tx \in Tx
      /\ coin.tx = DriverId(FundingStep(c)) /\ coin.ix = 1
  BY <1>1, NotAWalletCoin DEF OutputOf, Genuine
<1>3. PICK i \in DOMAIN ledger :
          /\ coin.tx = ledger[i].id
          /\ Unlocks(ledger[i].outs[coin.ix].to, tx, n)
          /\ \A j \in DOMAIN ledger : coin \notin Coins(ledger[j])
  BY <1>2, AcceptedSpend
<1>4. ledger[i] = DriverTx(FundingStep(c))
  BY <1>1, <1>2, <1>3 DEF LedgerSound, Genuine
<1>5. ASSUME c = "contest" PROVE IsUpdate(tx)
  <2>1. Unlocks("state1", tx, n)
    BY <1>2, <1>3, <1>4, <1>5, FundingFacts
  <2>2. State1Unlocks(tx, n)
    BY <2>1 DEF Unlocks, Swaps
  <2>3. 1 \in Authorised(tx, 1) /\ tx.outs[1].to = "state2" /\ tx.outs[1].value = State2Value
    BY <2>2 DEF State1Unlocks
  <2> QED  BY <2>3 DEF Authorised, IsUpdate
<1>6. ASSUME c # "contest" PROVE PaysExactly(tx.outs, Payout(c))
  <2>1. Unlocks(c, tx, n)
    BY <1>2, <1>3, <1>4, <1>6, FundingFacts
  <2> QED  BY <1>6, <2>1 DEF Unlocks, FactoryUnlocks, RefundUnlocks, HashlockUnlocks, Contracts, Swaps
<1>7. Known(DriverId(FundingStep(c))) /\ SpentAt(OutputOf(FundingStep(c))) = {}
  BY <1>2, <1>3 DEF Known, Positions, SpentAt
<1> QED  BY <1>5, <1>6, <1>7

LEMMA LatestUnlocked ==
    ASSUME LedgerSound, EscrowKept, NEW tx, Genuine(tx), Refusal(tx) = "none",
           NEW h \in DOMAIN ledger, OutputOf("fundContest") \in Coins(ledger[h]),
           FirstOutput(ledger[h]) \in Coins(tx)
    PROVE  PaysExactly(tx.outs, Payout("contest")) /\ SpentAt(FirstOutput(ledger[h])) = {}
<1>1. ledger[h].id # WalletCoin.tx
  BY DEF LedgerSound, Genuine
<1> PICK n \in DOMAIN tx.ins : tx.ins[n].coin = FirstOutput(ledger[h])
  BY DEF Coins
<1> DEFINE coin == tx.ins[n].coin
<1>2. coin # WalletCoin /\ coin.tx = ledger[h].id /\ coin.ix = 1
  BY <1>1 DEF FirstOutput
<1>3. PICK i \in DOMAIN ledger :
          /\ coin.tx = ledger[i].id
          /\ Unlocks(ledger[i].outs[coin.ix].to, tx, n)
          /\ \A j \in DOMAIN ledger : coin \notin Coins(ledger[j])
  BY <1>2, AcceptedSpend
<1>4. i = h
  BY <1>2, <1>3 DEF LedgerSound
<1>5. ledger[h].outs[1].to = "state2"
  BY DEF EscrowKept, IsUpdate
<1>6. Unlocks("state2", tx, n)
  BY <1>2, <1>3, <1>4, <1>5
<1>7. SpentAt(FirstOutput(ledger[h])) = {}
  BY <1>3 DEF SpentAt
<1> QED  BY <1>6, <1>7 DEF Unlocks, State2Unlocks, Swaps

LEMMA EscrowStaysKept == Spec => []EscrowKept
<1>1. Init => EscrowKept
  BY DEF Init, EscrowKept
<1>2. LedgerSound /\ EscrowKept /\ [Next]_vars => EscrowKept'
  <2> SUFFICES ASSUME LedgerSound, EscrowKept, [Next]_vars PROVE EscrowKept'
    OBVIOUS
  <2>1. CASE UNCHANGED ledger
    BY <2>1 DEF EscrowKept
  <2>2. ASSUME NEW tx, Genuine(tx), Refusal(tx) = "none", Accept(tx)
        PROVE  EscrowKept'
    <3>1. /\ DOMAIN ledger' = DOMAIN ledger \cup {Len(ledger) + 1}
          /\ \A i \in DOMAIN ledger : ledger'[i] = ledger[i]
          /\ ledger'[Len(ledger) + 1] = tx
      BY <2>2, LongerLedger DEF Genuine
    <3>2. \A c \in Contracts \ {"contest"} :
              OutputOf(FundingStep(c)) \in Coins(tx) => PaysExactly(tx.outs, Payout(c))
      BY <2>2, ContractUnlocked
    <3>3. OutputOf("fundContest") \in Coins(tx) => IsUpdate(tx)
      <4>1. "contest" \in Contracts
        BY DEF Contracts
      <4> QED  BY <2>2, <4>1, ContractUnlocked, FundingFacts
    <3>4. \A h \in DOMAIN ledger :
              OutputOf("fundContest") \in Coins(ledger[h]) /\ FirstOutput(ledger[h]) \in Coins(tx)
              => PaysExactly(tx.outs, Payout("contest"))
      BY <2>2, LatestUnlocked
    <3>5. ASSUME NEW i \in DOMAIN ledger' PROVE FirstOutput(tx) \notin Coins(ledger'[i])
      <4>1. ~Known(tx.id)
        BY <2>2 DEF Refusal
      <4>2. tx.id # WalletCoin.tx
        BY <2>2 DEF Genuine
      <4>3. ~Exists(FirstOutput(tx)) /\ FirstOutput(tx) # WalletCoin
        BY <4>1, <4>2 DEF Exists, FirstOutput
      <4>4. CASE i \in DOMAIN ledger
        BY <3>1, <4>3, <4>4 DEF LedgerSound
      <4>5. CASE i = Len(ledger) + 1
        BY <2>2, <3>1, <4>3, <4>5 DEF Refusal, CoinsFound, ChainInputs, Unspent, Coins
      <4> QED  BY <3>1, <4>4, <4>5
    <3> QED  BY <3>1, <3>2, <3>3, <3>4, <3>5 DEF EscrowKept
  <2>3. Block => UNCHANGED ledger
    BY BlockFacts
  <2> QED  BY <2>1, <2>2, <2>3, NodeSteps DEF node
<1> QED  BY <1>1, <1>2, LedgerStaysSound, PTL DEF Spec

LEMMA PaidIsPaid ==
    ASSUME NEW c \in Contracts, NEW tx \in Tx, PaysExactly(tx.outs, Payout(c))
    PROVE  PaidOutBy(tx, c) = "paid"
<1>1. tx.outs \in Seq(Output) /\ Payout(c) \in Seq(Output)
  BY PayoutsAreOutputs DEF Tx
<1>2. DOMAIN tx.outs = DOMAIN Payout(c)
  BY <1>1 DEF PaysExactly
<1>3. \A k \in DOMAIN tx.outs :
          tx.outs[k].to = Payout(c)[k].to /\ tx.outs[k].value = Payout(c)[k].value
  BY <1>2 DEF PaysExactly
<1>4. WhoGetsWhat(tx.outs) = WhoGetsWhat(Payout(c))
  BY <1>2, <1>3 DEF WhoGetsWhat
<1> QED  BY <1>4 DEF PaidOutBy

(* Where a contract stands, by what was funded and spent.                  *)
StandingByCoins ==
    \A c \in Contracts :
        /\ ~Known(DriverId(FundingStep(c))) => Standing(c) = "none"
        /\ Known(DriverId(FundingStep(c))) /\ SpentAt(OutputOf(FundingStep(c))) = {} =>
              Standing(c) = "open"
        /\ c # "contest" /\ SpentAt(OutputOf(FundingStep(c))) # {} =>
              Standing(c) = "paid"
        /\ c = "contest" =>
              \A i \in SpentAt(OutputOf("fundContest")) :
                  /\ SpentAt(FirstOutput(ledger[i])) = {} => Standing(c) = "latest"
                  /\ SpentAt(FirstOutput(ledger[i])) # {} => Standing(c) = "paid"

LEMMA StandingIs == LedgerSound /\ EscrowKept => StandingByCoins
<1> SUFFICES ASSUME LedgerSound, EscrowKept, NEW c \in Contracts
             PROVE  /\ ~Known(DriverId(FundingStep(c))) => Standing(c) = "none"
                    /\ Known(DriverId(FundingStep(c))) /\ SpentAt(OutputOf(FundingStep(c))) = {} =>
                          Standing(c) = "open"
                    /\ c # "contest" /\ SpentAt(OutputOf(FundingStep(c))) # {} =>
                          Standing(c) = "paid"
                    /\ c = "contest" =>
                          \A i \in SpentAt(OutputOf("fundContest")) :
                              /\ SpentAt(FirstOutput(ledger[i])) = {} => Standing(c) = "latest"
                              /\ SpentAt(FirstOutput(ledger[i])) # {} => Standing(c) = "paid"
  BY DEF StandingByCoins
<1> DEFINE coin == OutputOf(FundingStep(c))
<1>1. /\ FundingStep(c) \in FundSteps /\ FundingStep(c) \in Steps
      /\ coin.tx = DriverId(FundingStep(c)) /\ coin.ix = 1 /\ coin # WalletCoin
  BY FundingFacts, NotAWalletCoin DEF OutputOf
<1>2. ~Known(coin.tx) => Standing(c) = "none"
  BY DEF Standing
<1>3. ASSUME Known(coin.tx) PROVE Exists(coin)
  <2>1. PICK i \in DOMAIN ledger : ledger[i].id = coin.tx
    BY <1>3 DEF Known, Positions
  <2>2. ledger[i] = DriverTx(FundingStep(c)) /\ TxOf(coin.tx) = ledger[i]
    BY <1>1, <2>1, OneTransaction DEF LedgerSound, Genuine
  <2> QED  BY <1>1, <1>3, <2>2, FundingFacts DEF Exists
<1>4. Known(coin.tx) /\ SpentAt(coin) = {} => Standing(c) = "open"
  BY <1>3 DEF Standing, Unspent
<1>5. ASSUME NEW i \in SpentAt(coin)
      PROVE  Known(coin.tx) /\ ~Unspent(coin) /\ SpenderOf(coin) = ledger[i]
             /\ i \in DOMAIN ledger /\ coin \in Coins(ledger[i]) /\ ledger[i] \in Tx
  <2>1. i \in DOMAIN ledger /\ coin \in Coins(ledger[i])
    BY <1>5 DEF SpentAt
  <2>2. Exists(coin) /\ ledger[i] \in Tx
    BY <1>1, <2>1 DEF LedgerSound, Genuine
  <2>3. \A j \in SpentAt(coin) : j = i
    BY <1>1, <2>1 DEF SpentAt, LedgerSound
  <2>4. SpenderOf(coin) = ledger[i]
    BY <1>5, <2>3 DEF SpenderOf
  <2> QED  BY <1>5, <2>1, <2>2, <2>4 DEF Exists, Unspent
<1>6. ASSUME c # "contest", NEW i \in SpentAt(coin) PROVE Standing(c) = "paid"
  <2>1. PaysExactly(ledger[i].outs, Payout(c))
    BY <1>5, <1>6 DEF EscrowKept
  <2>2. PaidOutBy(ledger[i], c) = "paid"
    BY <1>5, <1>6, <2>1, PaidIsPaid
  <2> QED  BY <1>1, <1>5, <1>6, <2>2 DEF Standing
<1>7. ASSUME c = "contest", NEW i \in SpentAt(coin)
      PROVE  /\ SpentAt(FirstOutput(ledger[i])) = {} => Standing(c) = "latest"
             /\ SpentAt(FirstOutput(ledger[i])) # {} => Standing(c) = "paid"
  <2> DEFINE second == FirstOutput(ledger[i])
  <2>1. coin = OutputOf("fundContest")
    BY <1>7, FundingFacts
  <2>2. Standing(c) = Replaced(ledger[i])
    BY <1>1, <1>5, <1>7 DEF Standing
  <2>3. /\ 1 \in DOMAIN ledger[i].outs /\ Len(ledger[i].outs) # 0
        /\ WhoGetsWhat(ledger[i].outs)[1] = <<"state2", State2Value>>
    <3>1. IsUpdate(ledger[i])
      BY <1>5, <1>7, <2>1 DEF EscrowKept
    <3>2. ledger[i].outs \in Seq(Output)
      BY <1>5, <1>7 DEF Tx
    <3> QED  BY <3>1, <3>2 DEF IsUpdate, WhoGetsWhat
  <2>4. Standing(c) = IF Unspent(second) THEN "latest"
                      ELSE PaidOutBy(SpenderOf(second), "contest")
    BY <2>2, <2>3 DEF Replaced
  <2>5. second # WalletCoin /\ second.tx = ledger[i].id /\ second.ix = 1
    BY <1>5, <1>7 DEF LedgerSound, Genuine, FirstOutput
  <2>6. Exists(second)
    <3>1. Known(second.tx) /\ TxOf(second.tx) = ledger[i]
      BY <1>5, <1>7, <2>5, OneTransaction
    <3> QED  BY <2>3, <2>5, <3>1 DEF Exists
  <2>7. ASSUME NEW j \in SpentAt(second)
        PROVE  PaidOutBy(SpenderOf(second), "contest") = "paid" /\ ~Unspent(second)
    <3>1. j \in DOMAIN ledger /\ second \in Coins(ledger[j]) /\ ledger[j] \in Tx
      BY <2>7 DEF SpentAt, LedgerSound, Genuine
    <3>2. \A k \in SpentAt(second) : k = j
      BY <2>5, <3>1 DEF SpentAt, LedgerSound
    <3>3. SpenderOf(second) = ledger[j]
      BY <2>7, <3>2 DEF SpenderOf
    <3>4. PaysExactly(ledger[j].outs, Payout("contest"))
      BY <1>5, <1>7, <2>1, <3>1 DEF EscrowKept
    <3>5. PaidOutBy(ledger[j], "contest") = "paid"
      BY <1>7, <3>1, <3>4, PaidIsPaid
    <3> QED  BY <2>7, <3>3, <3>5 DEF Unspent
  <2>8. SpentAt(second) = {} => Unspent(second)
    BY <2>6 DEF Unspent
  <2> QED  BY <2>4, <2>7, <2>8
<1>8. c = "contest" => coin = OutputOf("fundContest")
  BY FundingFacts
<1> QED  BY <1>1, <1>2, <1>4, <1>6, <1>7, <1>8

LEMMA StandingIsAfter == LedgerSound' /\ EscrowKept' => StandingByCoins'
  BY StandingIs, PTL

-----------------------------------------------------------------------------
(* The report                                                              *)

(* The plan, entry by entry.                                               *)
LEMMA PlanPlaces ==
    /\ Len(Plan) = 21
    /\ Plan[1] = Submit("fundContest") /\ Plan[2] = Attempt("nativeUpdate")
    /\ Plan[3] = Attempt("wrongUpdate") /\ Plan[4] = Submit("update")
    /\ Plan[5] = Attempt("staleUpdate") /\ Plan[6] = Attempt("nativeSettlement")
    /\ Plan[7] = Attempt("wrongSettlement") /\ Plan[8] = Submit("settlement")
    /\ Plan[9] = MineBlocks(1) /\ Plan[10] = ReadBalances /\ Plan[11] = ReadLane
    /\ Plan[12] = Submit("fundFactory") /\ Plan[13] = Submit("materialise")
    /\ Plan[14] = Submit("fundLnToKaspa") /\ Plan[15] = Submit("settleLnToKaspa")
    /\ Plan[16] = Submit("fundKaspaToLn") /\ Plan[17] = Submit("settleKaspaToLn")
    /\ Plan[18] = Submit("fundRefund") /\ Plan[19] = Attempt("earlyRefund")
    /\ Plan[20] = MineBlocks(RefundSequence + RefundMargin) /\ Plan[21] = Submit("refund")
BY DEF Plan, ContestPlan, FlowsPlan

(* What the verifier reads of the driver's transactions.                   *)
LEMMA WhatIsSpent ==
    /\ \A s \in FundSteps : FirstCoin(DriverTx(s)) = WalletCoin
    /\ \A s \in {"nativeUpdate", "wrongUpdate", "update"} :
          FirstCoin(DriverTx(s)) = OutputOf("fundContest")
    /\ \A s \in {"staleUpdate", "nativeSettlement", "wrongSettlement", "settlement"} :
          FirstCoin(DriverTx(s)) = OutputOf("update")
    /\ FirstCoin(DriverTx("materialise")) = OutputOf("fundFactory")
    /\ FirstCoin(DriverTx("settleLnToKaspa")) = OutputOf("fundLnToKaspa")
    /\ FirstCoin(DriverTx("settleKaspaToLn")) = OutputOf("fundKaspaToLn")
    /\ \A s \in {"earlyRefund", "refund"} : FirstCoin(DriverTx(s)) = OutputOf("fundRefund")
<1>1. \A s \in FundSteps : FirstCoin(DriverTx(s)) = WalletCoin
  BY FundingFacts
<1>2. \A s \in {"nativeUpdate", "wrongUpdate", "update"} :
          FirstCoin(DriverTx(s)) = OutputOf("fundContest")
  <2>1. \A step, lane : FirstCoin(UpdateTx(step, lane)) = OutputOf("fundContest")
    BY DEF UpdateTx, Spend, FirstCoin
  <2>2. /\ DriverTx("nativeUpdate") = UpdateTx("nativeUpdate", "native")
        /\ DriverTx("wrongUpdate") = UpdateTx("wrongUpdate", "wrong")
        /\ DriverTx("update") = UpdateTx("update", "expected")
    BY DEF DriverTx
  <2> QED  BY <2>1, <2>2
<1>3. \A s \in {"staleUpdate", "nativeSettlement", "wrongSettlement", "settlement"} :
          FirstCoin(DriverTx(s)) = OutputOf("update")
  <2>1. /\ FirstCoin(StaleTx) = OutputOf("update")
        /\ \A step, lane : FirstCoin(SettlementTx(step, lane)) = OutputOf("update")
    BY DEF StaleTx, SettlementTx, Spend, FirstCoin
  <2>2. /\ DriverTx("staleUpdate") = StaleTx
        /\ DriverTx("nativeSettlement") = SettlementTx("nativeSettlement", "native")
        /\ DriverTx("wrongSettlement") = SettlementTx("wrongSettlement", "wrong")
        /\ DriverTx("settlement") = SettlementTx("settlement", "expected")
    BY DEF DriverTx
  <2> QED  BY <2>1, <2>2
<1>4. FirstCoin(DriverTx("materialise")) = OutputOf("fundFactory")
  BY DEF DriverTx, MaterialiseTx, Spend, FirstCoin
<1>5. /\ FirstCoin(DriverTx("settleLnToKaspa")) = OutputOf("fundLnToKaspa")
      /\ FirstCoin(DriverTx("settleKaspaToLn")) = OutputOf("fundKaspaToLn")
  <2>1. \A step, fund, swap : FirstCoin(ClaimTx(step, fund, swap)) = OutputOf(fund)
    BY DEF ClaimTx, Spend, FirstCoin
  <2>2. /\ DriverTx("settleLnToKaspa") =
              ClaimTx("settleLnToKaspa", "fundLnToKaspa", "lnToKaspa")
        /\ DriverTx("settleKaspaToLn") =
              ClaimTx("settleKaspaToLn", "fundKaspaToLn", "kaspaToLn")
    BY DEF DriverTx
  <2> QED  BY <2>1, <2>2
<1>6. \A s \in {"earlyRefund", "refund"} : FirstCoin(DriverTx(s)) = OutputOf("fundRefund")
  <2>1. \A step, seq : FirstCoin(RefundTx(step, seq)) = OutputOf("fundRefund")
    BY DEF RefundTx, Spend, FirstCoin
  <2>2. /\ DriverTx("earlyRefund") = RefundTx("earlyRefund", RefundSequence - 1)
        /\ DriverTx("refund") = RefundTx("refund", RefundSequence)
    BY DEF DriverTx
  <2> QED  BY <2>1, <2>2
<1> QED  BY <1>1, <1>2, <1>3, <1>4, <1>5, <1>6

LEMMA WhichLane ==
    /\ \A s \in {"fundContest", "update", "staleUpdate", "settlement"} :
          DriverTx(s).lane = "expected"
    /\ \A s \in Steps \ {"fundContest", "update", "staleUpdate", "settlement"} :
          DriverTx(s).lane \in {"native", "wrong"}
BY DEF DriverTx, GenesisTx, FundTx, UpdateTx, StaleTx, SettlementTx, MaterialiseTx, ClaimTx, RefundTx,
       Spend, Steps

LEMMA WhichSequence ==
    /\ \A s \in Steps \ {"earlyRefund", "refund"} : DriverTx(s).ins[1].seq = 0
    /\ DriverTx("earlyRefund").ins[1].seq = RefundSequence - 1
    /\ DriverTx("refund").ins[1].seq = RefundSequence
BY DEF DriverTx, GenesisTx, FundTx, UpdateTx, StaleTx, SettlementTx, MaterialiseTx, ClaimTx, RefundTx,
       Spend, Steps

LEMMA WhatIsPaid ==
    /\ DriverTx("fundContest").outs = <<Start("state1", FundingValue)>>
    /\ \A s \in {"nativeUpdate", "wrongUpdate", "update"} :
          DriverTx(s).outs = <<Bind("state2", State2Value)>>
    /\ DriverTx("staleUpdate").outs = <<Bind("state2", State2Value - UpdateFee)>>
    /\ \A s \in {"nativeSettlement", "wrongSettlement", "settlement"} :
          DriverTx(s).outs = Payout("contest")
    /\ DriverTx("materialise").outs = Payout("factory")
    /\ DriverTx("settleLnToKaspa").outs = Payout("lnToKaspa")
    /\ DriverTx("settleKaspaToLn").outs = Payout("kaspaToLn")
    /\ \A s \in {"earlyRefund", "refund"} : DriverTx(s).outs = Payout("refund")
BY DEF DriverTx, GenesisTx, UpdateTx, StaleTx, SettlementTx, MaterialiseTx, ClaimTx, RefundTx, Spend

LEMMA PayoutIs ==
    /\ Payout("contest") = Split(SettlementValue, 60)
    /\ Payout("factory") = Split(State2Value, 55)
    /\ Payout("refund") = <<Pay("alice", SwapValue)>>
    /\ Payout("lnToKaspa") = <<Pay("alice", SwapValue)>>
    /\ Payout("kaspaToLn") = <<Pay("bob", SwapValue)>>
    /\ \A c \in {"contest", "factory"} : Len(Payout(c)) = 2 /\ DOMAIN Payout(c) = {1, 2}
    /\ \A c \in {"refund", "lnToKaspa", "kaspaToLn"} :
          Len(Payout(c)) = 1 /\ DOMAIN Payout(c) = {1}
<1>1. /\ Payout("contest") = Split(SettlementValue, 60)
      /\ Payout("factory") = Split(State2Value, 55)
      /\ Payout("refund") = <<Pay("alice", SwapValue)>>
      /\ Payout("lnToKaspa") = <<Pay("alice", SwapValue)>>
      /\ Payout("kaspaToLn") = <<Pay("bob", SwapValue)>>
  BY DEF Payout, Swaps, Recipient
<1>2. ASSUME NEW value, NEW percent
      PROVE  Len(Split(value, percent)) = 2 /\ DOMAIN Split(value, percent) = {1, 2}
  BY DEF Split
<1>3. ASSUME NEW o PROVE Len(<<o>>) = 1 /\ DOMAIN <<o>> = {1}
  OBVIOUS
<1> QED  BY <1>1, <1>2, <1>3

LEMMA OutputsDiffer ==
    /\ \A s, t \in Steps : OutputOf(s) = OutputOf(t) => s = t
    /\ \A s \in Steps : FirstOutput(DriverTx(s)) = OutputOf(s) /\ OutputOf(s) # WalletCoin
<1>1. \A s, t \in Steps : OutputOf(s) = OutputOf(t) => s = t
  BY DEF OutputOf, DriverId
<1>2. \A s \in Steps : FirstOutput(DriverTx(s)) = OutputOf(s)
  BY DriverTxTyped DEF FirstOutput, OutputOf
<1> QED  BY <1>1, <1>2, NotAWalletCoin

(* Which steps spend the coin that another step makes.                     *)
LEMMA WhoSpends ==
    ASSUME NEW b \in Steps
    PROVE  /\ FirstCoin(DriverTx(b)) = OutputOf("fundContest") =>
                  b \in {"nativeUpdate", "wrongUpdate", "update"}
           /\ FirstCoin(DriverTx(b)) = OutputOf("update") =>
                  b \in {"staleUpdate", "nativeSettlement", "wrongSettlement", "settlement"}
           /\ FirstCoin(DriverTx(b)) = OutputOf("fundFactory") => b = "materialise"
           /\ FirstCoin(DriverTx(b)) = OutputOf("fundLnToKaspa") => b = "settleLnToKaspa"
           /\ FirstCoin(DriverTx(b)) = OutputOf("fundKaspaToLn") => b = "settleKaspaToLn"
           /\ FirstCoin(DriverTx(b)) = OutputOf("fundRefund") => b \in {"earlyRefund", "refund"}
<1>1. /\ OutputOf("fundContest") # OutputOf("update") /\ OutputOf("fundContest") # OutputOf("fundFactory")
      /\ OutputOf("fundContest") # OutputOf("fundLnToKaspa")
      /\ OutputOf("fundContest") # OutputOf("fundKaspaToLn")
      /\ OutputOf("fundContest") # OutputOf("fundRefund") /\ OutputOf("update") # OutputOf("fundFactory")
      /\ OutputOf("update") # OutputOf("fundLnToKaspa") /\ OutputOf("update") # OutputOf("fundKaspaToLn")
      /\ OutputOf("update") # OutputOf("fundRefund")
      /\ OutputOf("fundFactory") # OutputOf("fundLnToKaspa")
      /\ OutputOf("fundFactory") # OutputOf("fundKaspaToLn")
      /\ OutputOf("fundFactory") # OutputOf("fundRefund")
      /\ OutputOf("fundLnToKaspa") # OutputOf("fundKaspaToLn")
      /\ OutputOf("fundLnToKaspa") # OutputOf("fundRefund")
      /\ OutputOf("fundKaspaToLn") # OutputOf("fundRefund")
      /\ WalletCoin \notin {OutputOf("fundContest"), OutputOf("update"), OutputOf("fundFactory"),
                           OutputOf("fundLnToKaspa"), OutputOf("fundKaspaToLn"),
                           OutputOf("fundRefund")}
  BY DEF OutputOf, DriverId, WalletCoin
<1> QED  BY <1>1, WhatIsSpent DEF Steps, FundSteps

(* The verifier refuses a report in which one transaction stands for       *)
(* another, save the pairs it cannot tell apart: every other pair differs  *)
(* in a coin, a lane, a sequence or the number of outputs that it compares.*)
LEMMA MixUps ==
    ASSUME NEW a \in Steps, NEW b \in Steps, a # b,
           Verifies([Recorded EXCEPT ![a] = Recorded[b]], events, absent)
    PROVE  \/ {a, b} = {"nativeUpdate", "wrongUpdate"}
           \/ {a, b} = {"nativeSettlement", "wrongSettlement"}
           \/ a = "staleUpdate" /\ b = "settlement"
<1> DEFINE txs == [Recorded EXCEPT ![a] = Recorded[b]]
<1>1. txs[a] = DriverTx(b) /\ \A s \in Steps \ {a} : txs[s] = DriverTx(s)
  BY DEF Recorded
<1>2. \A s \in Steps \ {a} : FirstOutput(txs[s]) = OutputOf(s)
  BY <1>1, OutputsDiffer
<1>3. FirstOutput(txs[a]) = OutputOf(b) /\ OutputOf(b) # OutputOf(a)
  BY <1>1, OutputsDiffer
<1>4. /\ FirstCoin(txs["update"]) = FirstOutput(txs["fundContest"])
      /\ \A s \in {"nativeUpdate", "wrongUpdate"} :
            FirstCoin(txs[s]) = FirstOutput(txs["fundContest"]) /\ txs[s].lane # "expected"
      /\ \A s \in {"nativeSettlement", "wrongSettlement"} :
            FirstCoin(txs[s]) = FirstOutput(txs["update"]) /\ txs[s].lane # "expected"
      /\ FirstCoin(txs["staleUpdate"]) = FirstOutput(txs["update"])
      /\ FirstCoin(txs["settlement"]) = FirstOutput(txs["update"])
      /\ txs["update"].lane = "expected" /\ txs["staleUpdate"].lane = "expected"
      /\ txs["settlement"].lane = "expected"
      /\ HasValues(txs["settlement"], Payout("contest"))
  BY DEF Verifies, ContestVerifies, UpdatesVerify, StaleVerifies, SettlementsVerify
<1>5. /\ FirstCoin(txs["materialise"]) = FirstOutput(txs["fundFactory"])
      /\ FirstCoin(txs["settleLnToKaspa"]) = FirstOutput(txs["fundLnToKaspa"])
      /\ FirstCoin(txs["settleKaspaToLn"]) = FirstOutput(txs["fundKaspaToLn"])
  BY DEF Verifies, FactoryVerifies, SwapVerifies
<1>6. /\ FirstCoin(txs["earlyRefund"]) = FirstOutput(txs["fundRefund"])
      /\ txs["earlyRefund"].ins[1].seq = RefundSequence - 1
      /\ FirstCoin(txs["refund"]) = FirstOutput(txs["fundRefund"])
      /\ txs["refund"].ins[1].seq = RefundSequence
  BY DEF Verifies, RefundVerifies
<1> HIDE DEF txs
<1>7. CASE a \in FundSteps \cup {"update"}
  BY <1>1, <1>2, <1>3, <1>4, <1>5, <1>6, <1>7, WhatIsSpent DEF FundSteps, Steps
<1>8. CASE a \in {"nativeUpdate", "wrongUpdate"}
  <2>1. b \in {"nativeUpdate", "wrongUpdate", "update"} /\ b # "update"
    BY <1>1, <1>2, <1>4, <1>8, WhoSpends, WhichLane DEF Steps
  <2> QED  BY <1>8, <2>1
<1>9. CASE a \in {"nativeSettlement", "wrongSettlement"}
  <2>1. /\ b \in {"staleUpdate", "nativeSettlement", "wrongSettlement", "settlement"}
        /\ b \notin {"staleUpdate", "settlement"}
    BY <1>1, <1>2, <1>4, <1>9, WhoSpends, WhichLane DEF Steps
  <2> QED  BY <1>9, <2>1
<1>10. CASE a = "staleUpdate" \/ a = "settlement"
  <2>1. /\ b \in {"staleUpdate", "nativeSettlement", "wrongSettlement", "settlement"}
        /\ b \notin {"nativeSettlement", "wrongSettlement"}
    BY <1>1, <1>2, <1>4, <1>10, WhoSpends, WhichLane DEF Steps
  <2>2. a = "settlement" => b # "staleUpdate"
    <3>1. ASSUME a = "settlement", b = "staleUpdate" PROVE FALSE
      <4>1. HasValues(DriverTx("staleUpdate"), Payout("contest"))
        BY <1>1, <1>4, <3>1
      <4>2. 2 \in DOMAIN Payout("contest")
        BY PayoutIs
      <4>3. 2 \in DOMAIN DriverTx("staleUpdate").outs
        BY <4>1, <4>2 DEF HasValues, HasValue
      <4> QED  BY <4>3, WhatIsPaid
    <3> QED  BY <3>1
  <2> QED  BY <1>10, <2>1, <2>2
<1>11. CASE a \in {"materialise", "settleLnToKaspa", "settleKaspaToLn"}
  BY <1>1, <1>2, <1>5, <1>11, WhoSpends DEF Steps
<1>12. CASE a \in {"earlyRefund", "refund"}
  <2>1. b \in {"earlyRefund", "refund"}
    BY <1>1, <1>2, <1>6, <1>12, WhoSpends DEF Steps
  <2>2. DriverTx(b).ins[1].seq = DriverTx(a).ins[1].seq
    BY <1>1, <1>6, <1>12, WhichSequence
  <2>3. RefundSequence - 1 # RefundSequence
    BY CovenantAssumption
  <2> QED  BY <1>12, <2>1, <2>2, <2>3, WhichSequence
<1> QED  BY <1>7, <1>8, <1>9, <1>10, <1>11, <1>12 DEF Steps, FundSteps

(* The semantic verifier refuses every report of a run in which the         *)
(* transaction of one step stands for another, but for the pairs that look *)
(* alike to it; and so it does after a passed run.                         *)
THEOREM MixUpsAreRefused == Spec => []MixedUpReportRefused
<1>1. MixedUpReportRefused
  BY MixUps DEF MixedUpReportRefused
<1> QED  BY <1>1, PTL

-----------------------------------------------------------------------------
(* The report of a passed run                                              *)

LEMMA RecordedTyped ==
    \A s \in Steps : Recorded[s] = DriverTx(s) /\ Recorded[s].id = DriverId(s)
BY DriverTxTyped DEF Recorded

LEMMA PaysItself ==
    ASSUME NEW c \in Contracts, NEW tx, tx.outs = Payout(c)
    PROVE  HasValues(tx, Payout(c)) /\ PaysExactly(tx.outs, Payout(c))
BY DEF HasValues, HasValue, PaysExactly

(* The driver's own transactions are what the verifier asks for.           *)
LEMMA RecordVerifies ==
    /\ ContestVerifies(Recorded)
    /\ FactoryVerifies(Recorded)
    /\ SwapVerifies("fundLnToKaspa", "settleLnToKaspa", "lnToKaspa", Recorded)
    /\ SwapVerifies("fundKaspaToLn", "settleKaspaToLn", "kaspaToLn", Recorded)
    /\ RefundVerifies(Recorded)
<1>1. /\ \A s \in Steps : Recorded[s] = DriverTx(s) /\ FirstOutput(Recorded[s]) = OutputOf(s)
      /\ {"contest", "factory", "refund", "lnToKaspa", "kaspaToLn"} \subseteq Contracts
  BY RecordedTyped, OutputsDiffer DEF Contracts, Swaps
<1>2. ASSUME NEW tx, NEW o, tx.outs = <<o>> PROVE HasValue(tx, 1, o.value) /\ Len(tx.outs) = 1
  BY <1>2 DEF HasValue
<1>3. \A to, value : Bind(to, value).value = value /\ Start(to, value).value = value
  BY DEF Bind, Start
<1>4. ContestVerifies(Recorded)
  <2>1. /\ HasValue(Recorded["fundContest"], 1, FundingValue)
        /\ HasValue(Recorded["update"], 1, State2Value)
    BY <1>1, <1>2, <1>3, WhatIsPaid DEF Steps
  <2>2. \A s \in {"nativeSettlement", "wrongSettlement", "settlement"} :
            HasValues(Recorded[s], Payout("contest"))
    BY <1>1, WhatIsPaid, PaysItself DEF Steps
  <2>3. \A s \in {"nativeUpdate", "wrongUpdate", "update"} :
            FirstCoin(Recorded[s]) = FirstOutput(Recorded["fundContest"])
    BY <1>1, WhatIsSpent DEF Steps
  <2>4. \A s \in {"staleUpdate", "nativeSettlement", "wrongSettlement", "settlement"} :
            FirstCoin(Recorded[s]) = FirstOutput(Recorded["update"])
    BY <1>1, WhatIsSpent DEF Steps
  <2>5. /\ \A s \in {"fundContest", "update", "staleUpdate", "settlement"} :
              Recorded[s].lane = "expected"
        /\ \A s \in {"nativeUpdate", "wrongUpdate", "nativeSettlement", "wrongSettlement"} :
              Recorded[s].lane # "expected"
    BY <1>1, WhichLane DEF Steps
  <2> QED  BY <2>1, <2>2, <2>3, <2>4, <2>5 DEF ContestVerifies, UpdatesVerify, StaleVerifies, SettlementsVerify
<1>5. FactoryVerifies(Recorded)
  BY <1>1, WhatIsSpent, WhatIsPaid, PaysItself, PayoutIs DEF FactoryVerifies, Steps
<1>6. /\ SwapVerifies("fundLnToKaspa", "settleLnToKaspa", "lnToKaspa", Recorded)
      /\ SwapVerifies("fundKaspaToLn", "settleKaspaToLn", "kaspaToLn", Recorded)
  BY <1>1, WhatIsSpent, WhatIsPaid, PaysItself DEF SwapVerifies, Steps
<1>7. RefundVerifies(Recorded)
  BY <1>1, WhatIsSpent, WhatIsPaid, WhichSequence, PaysItself, PayoutIs DEF RefundVerifies, Steps
<1> QED  BY <1>4, <1>5, <1>6, <1>7

(* What a step can do to the place in the plan.                            *)
LEMMA ControlSteps ==
    ASSUME LedgerSound, [Next]_vars
    PROVE  \/ pc' = pc /\ outcome' = outcome
           \/ Running /\ Fail
           \/ /\ Running /\ Advance
              /\ Plan[pc].do = "submit" => MineSubmitted
              /\ Plan[pc].do = "attempt" => AttemptTx \/ LoseCall
              /\ Plan[pc].do = "mine" => MineOne
              /\ Plan[pc].do = "balances" => CheckBalances
              /\ Plan[pc].do = "lane" => MonitorLane
<1>1. CASE SubmitTx \/ WaitForMempool
  BY <1>1 DEF SubmitTx, WaitForMempool, At, Running
<1>2. CASE MineSubmitted \/ AttemptTx
  BY <1>2 DEF MineSubmitted, AttemptTx, At
<1>3. CASE MineOne \/ CheckBalances \/ MonitorLane
  BY <1>3 DEF MineOne, CheckBalances, MonitorLane, At
<1>4. CASE LoseCall
  BY <1>4 DEF LoseCall
<1>5. CASE \E tx \in StrangerTxs : Stranger(tx)
  BY <1>5 DEF Stranger, control
<1>6. CASE ForeignBlock \/ UNCHANGED vars
  BY <1>6 DEF ForeignBlock, control, vars
<1> QED  BY <1>1, <1>2, <1>3, <1>4, <1>5, <1>6 DEF Next

(* The places of the plan by what is done there.                           *)
LEMMA PlanDoes ==
    /\ \A i \in 1 .. 21 : Plan[i].do = "submit" <=> i \in {1, 4, 8, 12, 13, 14, 15, 16, 17, 18, 21}
    /\ \A i \in 1 .. 21 : Plan[i].do = "attempt" <=> i \in {2, 3, 5, 6, 7, 19}
    /\ \A i \in 1 .. 21 : Plan[i].do = "mine" <=> i \in {9, 20}
    /\ \A i \in 1 .. 21 : Plan[i].do = "balances" <=> i = 10
    /\ \A i \in 1 .. 21 : Plan[i].do = "lane" <=> i = 11
<1>1. \A s : Submit(s).do = "submit" /\ Attempt(s).do = "attempt"
  BY DEF Submit, Attempt, Do
<1>2. (\A n : MineBlocks(n).do = "mine") /\ ReadBalances.do = "balances" /\ ReadLane.do = "lane"
  BY DEF MineBlocks, ReadBalances, ReadLane, Do
<1>3. /\ \A i \in {1, 4, 8, 12, 13, 14, 15, 16, 17, 18, 21} : Plan[i].do = "submit"
      /\ \A i \in {2, 3, 5, 6, 7, 19} : Plan[i].do = "attempt"
      /\ \A i \in {9, 20} : Plan[i].do = "mine"
      /\ Plan[10].do = "balances" /\ Plan[11].do = "lane"
  BY <1>1, <1>2, PlanPlaces
<1> QED  BY <1>3

(* What the lane monitor asks for.                                         *)
LEMMA LaneVerifies ==
    ASSUME LedgerSound, InLaneOrder("fundContest", "update"), InLaneOrder("update", "settlement"),
           NoneAccepted(WrongLaneSteps)
    PROVE  MonitorVerifies(Recorded, LaneEvents, {DriverId(step) : step \in WrongLaneSteps})
<1>1. /\ Recorded["fundContest"].id = DriverId("fundContest")
      /\ Recorded["update"].id = DriverId("update")
      /\ Recorded["settlement"].id = DriverId("settlement")
  BY RecordedTyped DEF Steps
<1>2. \A d, e \in LaneEvents : d.tx = e.tx => d = e
  <2>1. Visible \subseteq DOMAIN ledger
    BY DEF Visible, LedgerSound
  <2>2. \A d \in LaneEvents : \E i \in DOMAIN ledger : d = [tx |-> ledger[i].id, order |-> i]
    BY <2>1 DEF LaneEvents
  <2> QED  BY <2>2 DEF LedgerSound
<1>3. \A step \in {"fundContest", "update", "settlement"} :
          \E e \in LaneEvents : e.tx = Recorded[step].id
  BY <1>1 DEF InLaneOrder
<1>4. \A d, e \in LaneEvents :
          \/ d.tx = Recorded["fundContest"].id /\ e.tx = Recorded["update"].id
          \/ d.tx = Recorded["update"].id /\ e.tx = Recorded["settlement"].id
          => d.order < e.order
  BY <1>1, <1>2 DEF InLaneOrder
<1>5. \A e \in LaneEvents : e.tx \notin {DriverId(step) : step \in WrongLaneSteps}
  BY DEF LaneEvents, NoneAccepted
<1> QED  BY <1>3, <1>4, <1>5 DEF MonitorVerifies

(* Behind the lane monitor its report holds.                               *)
Monitored ==
    /\ pc > 11 => MonitorVerifies(Recorded, events, absent)
    /\ outcome = "passed" => pc = 21

LEMMA StaysMonitored ==
    ASSUME LedgerSound, Monitored, [Next]_vars
    PROVE  Monitored'
<1>1. ASSUME MonitorLane PROVE Monitored'
  <2>1. pc = 11 /\ outcome = "running"
    BY <1>1, PlanDoes DEF MonitorLane, At, Running, LedgerSound
  <2>2. CASE Fail
    BY <2>1, <2>2 DEF Fail, Monitored
  <2>3. CASE ~Fail
    <3>1. /\ Advance
          /\ MonitorVerifies(Recorded, LaneEvents, {DriverId(step) : step \in WrongLaneSteps})
          /\ events' = LaneEvents /\ absent' = {DriverId(step) : step \in WrongLaneSteps}
      BY <1>1, <2>3, LaneVerifies DEF MonitorLane
    <3>2. outcome' = "running"
      BY <2>1, <3>1, PlanPlaces DEF Advance
    <3> QED  BY <3>1, <3>2 DEF Monitored, MonitorVerifies
  <2> QED  BY <2>2, <2>3
<1>2. ASSUME ~MonitorLane PROVE Monitored'
  <2>1. UNCHANGED <<events, absent>>
    <3>1. CASE SubmitTx \/ WaitForMempool \/ MineSubmitted \/ AttemptTx \/ MineOne \/ CheckBalances
      BY <3>1 DEF SubmitTx, WaitForMempool, MineSubmitted, AttemptTx, MineOne, CheckBalances, monitor
    <3>2. CASE \/ LoseCall \/ ForeignBlock \/ UNCHANGED vars
               \/ \E tx \in StrangerTxs : Stranger(tx)
      BY <3>2 DEF LoseCall, ForeignBlock, Stranger, vars, monitor
    <3> QED  BY <1>2, <3>1, <3>2 DEF Next
  <2>2. CASE pc' = pc /\ outcome' = outcome
    BY <2>1, <2>2 DEF Monitored, MonitorVerifies
  <2>3. CASE Fail
    BY <2>1, <2>3 DEF Fail, Monitored, MonitorVerifies
  <2>4. CASE Advance /\ pc # 11
    <3>1. (pc' > 11 => pc > 11) /\ (outcome' = "passed" => pc' = 21)
      BY <2>4, PlanPlaces DEF Advance, LedgerSound
    <3> QED  BY <2>1, <3>1 DEF Monitored, MonitorVerifies
  <2>5. Plan[pc].do # "lane" => pc # 11
    BY PlanDoes DEF LedgerSound
  <2> QED  BY <1>2, <2>2, <2>3, <2>4, <2>5, ControlSteps
<1> QED  BY <1>1, <1>2

(* A passed run leaves a report that its own verifier accepts, whatever    *)
(* others put on the lane and into the blocks meanwhile.                   *)
THEOREM PassedVerifies == Spec => []PassedRunVerifies
<1>1. Init => Monitored
  BY DEF Init, Monitored
<1>2. LedgerSound /\ Monitored /\ [Next]_vars => Monitored'
  BY StaysMonitored
<1>3. Monitored => PassedRunVerifies
  BY RecordVerifies DEF Monitored, PassedRunVerifies, Verifies
<1> QED  BY <1>1, <1>2, <1>3, LedgerStaysSound, PTL DEF Spec

-----------------------------------------------------------------------------
(* Sums of two and three                                                   *)

LEMMA SumOfOne ==
    ASSUME NEW a, NEW f, f[a] \in Nat, DOMAIN f = {a}
    PROVE  SumFunction(f) = f[a]
<1> DEFINE g == [x \in DOMAIN f \ {a} |-> f[x]]
<1>1. IsFiniteSet(DOMAIN f) /\ \A x \in DOMAIN f : f[x] \in Nat
  BY FS_Singleton
<1>2. DOMAIN g = {} /\ IsFiniteSet(DOMAIN g) /\ \A x \in DOMAIN g : g[x] \in Nat
  BY FS_EmptySet
<1>3. SumFunction(g) = 0
  <2> HIDE DEF g
  <2> QED  BY <1>2, SumTakesOut
<1>4. SumFunction(f) = f[a] + SumFunction(g)
  BY <1>1, SumTakesOut
<1> QED  BY <1>3, <1>4

LEMMA SumOfTwo ==
    ASSUME NEW a, NEW b, a # b, NEW f, f[a] \in Nat, f[b] \in Nat, DOMAIN f = {a, b}
    PROVE  SumFunction(f) = f[a] + f[b]
<1> DEFINE g == [x \in DOMAIN f \ {a} |-> f[x]]
<1>1. IsFiniteSet(DOMAIN f) /\ \A x \in DOMAIN f : f[x] \in Nat
  <2>1. DOMAIN f = {b} \cup {a}
    OBVIOUS
  <2>2. IsFiniteSet({b})
    BY FS_Singleton
  <2>3. IsFiniteSet({b} \cup {a})
    BY <2>2, FS_AddElement
  <2> QED  BY <2>1, <2>3
<1>2. DOMAIN g = {b} /\ g[b] = f[b]
  OBVIOUS
<1>3. SumFunction(g) = f[b]
  <2> HIDE DEF g
  <2> QED  BY <1>2, SumOfOne
<1>4. SumFunction(f) = f[a] + SumFunction(g)
  BY <1>1, SumTakesOut
<1> QED  BY <1>3, <1>4

LEMMA SumOfThree ==
    ASSUME NEW f, DOMAIN f = {1, 2, 3}, f[1] \in Nat, f[2] \in Nat, f[3] \in Nat
    PROVE  SumFunction(f) = f[1] + f[2] + f[3]
<1> DEFINE g == [x \in DOMAIN f \ {1} |-> f[x]]
<1>1. IsFiniteSet(DOMAIN f) /\ \A x \in DOMAIN f : f[x] \in Nat
  <2>1. DOMAIN f = 1 .. 3
    OBVIOUS
  <2>2. IsFiniteSet(1 .. 3)
    <3>1. 1 \in Int /\ 3 \in Int
      OBVIOUS
    <3> QED  BY <3>1, FS_Interval, Zenon
  <2> QED  BY <2>1, <2>2
<1>2. DOMAIN g = {2, 3} /\ g[2] = f[2] /\ g[3] = f[3]
  OBVIOUS
<1>3. SumFunction(g) = f[2] + f[3]
  <2> HIDE DEF g
  <2>1. g[2] \in Nat /\ g[3] \in Nat /\ 2 # 3
    BY <1>2
  <2>2. SumFunction(g) = g[2] + g[3]
    BY <1>2, <2>1, SumOfTwo, Zenon
  <2> QED  BY <1>2, <2>2
<1>4. SumFunction(f) = f[1] + SumFunction(g)
  BY <1>1, SumTakesOut
<1> QED  BY <1>3, <1>4

-----------------------------------------------------------------------------
(* The places of the plan                                                  *)

SubmitPlaces == {1, 4, 8, 12, 13, 14, 15, 16, 17, 18, 21}
AttemptPlaces == {2, 3, 5, 6, 7, 19}

LEMMA PlanSteps ==
    /\ Plan[1].step = "fundContest" /\ Plan[2].step = "nativeUpdate"
    /\ Plan[3].step = "wrongUpdate" /\ Plan[4].step = "update"
    /\ Plan[5].step = "staleUpdate" /\ Plan[6].step = "nativeSettlement"
    /\ Plan[7].step = "wrongSettlement" /\ Plan[8].step = "settlement"
    /\ Plan[12].step = "fundFactory" /\ Plan[13].step = "materialise"
    /\ Plan[14].step = "fundLnToKaspa" /\ Plan[15].step = "settleLnToKaspa"
    /\ Plan[16].step = "fundKaspaToLn" /\ Plan[17].step = "settleKaspaToLn"
    /\ Plan[18].step = "fundRefund" /\ Plan[19].step = "earlyRefund"
    /\ Plan[21].step = "refund"
<1>1. \A s : Submit(s).step = s /\ Attempt(s).step = s
  BY DEF Submit, Attempt, Do
<1> QED  BY <1>1, PlanPlaces

LEMMA PlacesDiffer ==
    \A i, j \in SubmitPlaces \cup AttemptPlaces :
        DriverId(Plan[i].step) = DriverId(Plan[j].step) => i = j
<1>1. \A i, j \in SubmitPlaces \cup AttemptPlaces : Plan[i].step = Plan[j].step => i = j
  BY PlanSteps DEF SubmitPlaces, AttemptPlaces
<1>2. \A s, t : DriverId(s) = DriverId(t) => s = t
  BY DEF DriverId
<1> QED  BY <1>1, <1>2

LEMMA PlacesDo ==
    /\ SubmitPlaces \cup AttemptPlaces \subseteq 1 .. 21
    /\ \A i \in 1 .. 21 : Plan[i].do = "submit" <=> i \in SubmitPlaces
    /\ \A i \in 1 .. 21 : Plan[i].do = "attempt" <=> i \in AttemptPlaces
    /\ \A i \in SubmitPlaces \cup AttemptPlaces : Plan[i].step \in Steps
<1>1. SubmitPlaces \cup AttemptPlaces \subseteq 1 .. 21
  BY DEF SubmitPlaces, AttemptPlaces
<1>2. \A i \in SubmitPlaces \cup AttemptPlaces : Plan[i].step \in Steps
  BY PlanSteps DEF SubmitPlaces, AttemptPlaces, Steps
<1> QED  BY <1>1, <1>2, PlanDoes DEF SubmitPlaces, AttemptPlaces

LEMMA KnownAfter ==
    ASSUME LedgerSound, NEW tx \in Tx, Accept(tx)
    PROVE  \A id : Known(id)' <=> Known(id) \/ id = tx.id
<1>1. /\ DOMAIN ledger' = DOMAIN ledger \cup {Len(ledger) + 1}
      /\ \A i \in DOMAIN ledger : ledger'[i] = ledger[i]
      /\ ledger'[Len(ledger) + 1] = tx
  BY LongerLedger
<1>2. \A id : Known(id) <=> \E i \in DOMAIN ledger : ledger[i].id = id
  BY DEF Known, Positions
<1>3. \A id : Known(id)' <=> \E i \in DOMAIN ledger' : ledger'[i].id = id
  BY DEF Known, Positions
<1> QED  BY <1>1, <1>2, <1>3

LEMMA KnownStays ==
    UNCHANGED ledger => \A id : Known(id)' <=> Known(id)
BY DEF Known, Positions

-----------------------------------------------------------------------------
(* The escrow, step by step                                                *)

(* Two contracts that pay out alike are the swap to Alice and the refund.  *)
LEMMA PayoutsDiffer ==
    ASSUME NEW c \in Contracts, NEW d \in Contracts, c # d, NEW outs,
           PaysExactly(outs, Payout(c)), PaysExactly(outs, Payout(d))
    PROVE  {c, d} = {"lnToKaspa", "refund"}
<1>1. Contracts = {"contest", "factory", "refund", "lnToKaspa", "kaspaToLn"}
  BY DEF Contracts, Swaps
<1>2. ASSUME PaysExactly(outs, Payout("contest")), PaysExactly(outs, Payout("factory"))
      PROVE  FALSE
  <2>1. ASSUME NEW value \in Nat, NEW percent \in 0 .. 100,
               PaysExactly(outs, Split(value, percent))
        PROVE  outs[1].value + outs[2].value = value
    <3> DEFINE alice == (value * percent) \div 100
    <3>1. alice \in Nat /\ value - alice \in Nat
      BY ValuesAreNumbers
    <3> HIDE DEF alice
    <3>2. Split(value, percent) = <<Pay("alice", alice), Pay("bob", value - alice)>>
      BY DEF Split, alice
    <3>3. outs[1].value = alice /\ outs[2].value = value - alice
      BY <2>1, <3>2 DEF PaysExactly, Pay
    <3> QED  BY <3>1, <3>3
  <2>2. 60 \in 0 .. 100 /\ 55 \in 0 .. 100 /\ SettlementValue \in Nat /\ State2Value \in Nat
    BY ValuesAreNumbers
  <2>3. SettlementValue = State2Value
    BY <1>2, <2>1, <2>2, PayoutIs
  <2> QED  BY <2>2, <2>3, CovenantAssumption DEF SettlementValue
<1>3. ASSUME PaysExactly(outs, Payout("kaspaToLn")),
             PaysExactly(outs, Payout("refund")) \/ PaysExactly(outs, Payout("lnToKaspa"))
      PROVE  FALSE
  <2>1. PaysExactly(outs, <<Pay("bob", SwapValue)>>) /\ PaysExactly(outs, <<Pay("alice", SwapValue)>>)
    BY <1>3, PayoutIs
  <2>2. ASSUME NEW to, PaysExactly(outs, <<Pay(to, SwapValue)>>) PROVE outs[1].to = to
    BY <2>2 DEF PaysExactly, Pay
  <2> QED  BY <2>1, <2>2
<1>4. \A e \in Contracts : PaysExactly(outs, Payout(e)) => Len(outs) = Len(Payout(e))
  BY DEF PaysExactly
<1>5. \A e \in Contracts :
          Len(Payout(e)) = IF e \in {"contest", "factory"} THEN 2 ELSE 1
  BY <1>1, PayoutIs
<1>6. c \in {"contest", "factory"} <=> d \in {"contest", "factory"}
  BY <1>4, <1>5
<1>7. CASE c \in {"contest", "factory"}
  BY <1>2, <1>6, <1>7
<1>8. CASE c \notin {"contest", "factory"}
  <2>1. c \in {"refund", "lnToKaspa", "kaspaToLn"} /\ d \in {"refund", "lnToKaspa", "kaspaToLn"}
    BY <1>1, <1>6, <1>8
  <2>2. c # "kaspaToLn" /\ d # "kaspaToLn"
    BY <1>3, <2>1
  <2> QED  BY <2>1, <2>2
<1> QED  BY <1>7, <1>8

(* The swap to Alice is settled before the refund is funded: the driver    *)
(* goes on behind a submission only when the node took it.                 *)
SettledFirst ==
    /\ outcome # "failed" /\ (pc > 15 \/ (pc = 15 /\ phase # "call")) =>
           Known(DriverId("settleLnToKaspa"))
    /\ Known(DriverId("fundRefund")) => Known(DriverId("settleLnToKaspa"))

(* Whose transaction the node takes.                                       *)
Others == \E tx \in Tx : Accept(tx) /\ \A s \in Steps : tx.id # DriverId(s)
Drivers == Running /\ pc \in SubmitPlaces \cup AttemptPlaces /\ Accept(TheTx)

(* What a step does to ledger, place and phase.                            *)
LEMMA TakingSteps ==
    ASSUME LedgerSound, [Next]_vars
    PROVE  /\ UNCHANGED ledger \/ (Others /\ UNCHANGED control) \/ Drivers
           /\ pc = 15 /\ phase = "call" /\ outcome' # "failed" =>
                 \/ pc' = 15 /\ phase' = "call"
                 \/ Drivers
<1>1. pc \in 1 .. 21
  BY DEF LedgerSound
<1>2. Plan[pc].do \in {"submit", "attempt"} => pc \in SubmitPlaces \cup AttemptPlaces
  BY <1>1, PlacesDo
<1>3. Plan[15].do = "submit"
  BY PlanDoes
<1>4. Block => UNCHANGED ledger
  BY DEF Block
<1>5. CASE SubmitTx
  BY <1>2, <1>5 DEF SubmitTx, At, Drivers, Fail, node
<1>6. CASE WaitForMempool \/ CheckBalances \/ MonitorLane
  BY <1>3, <1>6 DEF WaitForMempool, CheckBalances, MonitorLane, At, node
<1>7. CASE MineSubmitted \/ MineOne
  BY <1>3, <1>4, <1>7 DEF MineSubmitted, MineOne, At
<1>8. CASE AttemptTx
  BY <1>2, <1>3, <1>8 DEF AttemptTx, At, Drivers, Running, node
<1>9. ASSUME NEW tx \in StrangerTxs, Stranger(tx) PROVE Others /\ UNCHANGED control
  <2>1. tx \in Tx /\ \A s \in Steps : tx.id # DriverId(s)
    BY <1>9, StrangerTxGenuine DEF Genuine, DriverId
  <2> QED  BY <1>9, <2>1 DEF Stranger, Others
<1>10. CASE LoseCall
  BY <1>2, <1>3, <1>4, <1>10 DEF LoseCall, Fail, Drivers, node
<1>11. CASE ForeignBlock \/ UNCHANGED vars
  BY <1>4, <1>11 DEF ForeignBlock, vars, node, control
<1> QED  BY <1>5, <1>6, <1>7, <1>8, <1>9, <1>10, <1>11 DEF Next, control

LEMMA StaysSettledFirst == Spec => []SettledFirst
<1>1. Init => SettledFirst
  BY DEF Init, SettledFirst, Known, Positions
<1>2. LedgerSound /\ SettledFirst /\ [Next]_vars => SettledFirst'
  <2> SUFFICES ASSUME LedgerSound, SettledFirst, [Next]_vars PROVE SettledFirst'
    OBVIOUS
  <2>1. /\ UNCHANGED ledger \/ (Others /\ UNCHANGED control) \/ Drivers
        /\ pc = 15 /\ phase = "call" /\ outcome' # "failed" =>
              (pc' = 15 /\ phase' = "call") \/ Drivers
    BY TakingSteps
  <2>2. pc \in 1 .. 21 /\ Len(Plan) = 21
    BY PlanPlaces DEF LedgerSound
  <2>3. ASSUME Drivers
        PROVE  \A id : Known(id)' <=> Known(id) \/ id = DriverId(Plan[pc].step)
    <3>1. TheTx \in Tx /\ TheTx.id = DriverId(Plan[pc].step)
      BY <2>3, PlacesDo, DriverTxTyped DEF Drivers, TheTx
    <3> QED  BY <2>3, <3>1, KnownAfter DEF Drivers
  <2>4. /\ "settleLnToKaspa" \in Steps /\ "fundRefund" \in Steps
        /\ 15 \in SubmitPlaces /\ 18 \in SubmitPlaces
        /\ DriverId(Plan[15].step) = DriverId("settleLnToKaspa")
        /\ DriverId(Plan[18].step) = DriverId("fundRefund")
    BY PlanSteps DEF Steps, SubmitPlaces
  <2>5. /\ Known(DriverId("settleLnToKaspa")) => Known(DriverId("settleLnToKaspa"))'
        /\ ~Drivers => (Known(DriverId("fundRefund"))' => Known(DriverId("fundRefund")))
    <3>1. Others => \A s \in Steps : Known(DriverId(s))' <=> Known(DriverId(s))
      BY KnownAfter DEF Others
    <3> QED  BY <2>1, <2>3, <2>4, <3>1, KnownStays
  <2>6. (outcome # "failed" /\ (pc > 15 \/ (pc = 15 /\ phase # "call")))' =>
            Known(DriverId("settleLnToKaspa"))'
    <3> SUFFICES ASSUME outcome' # "failed", pc' > 15 \/ (pc' = 15 /\ phase' # "call")
                 PROVE  Known(DriverId("settleLnToKaspa"))'
      OBVIOUS
    <3>1. outcome # "failed" /\ (pc' = pc \/ Advance)
      BY ControlSteps DEF Fail, Running
    <3>2. CASE pc > 15 \/ (pc = 15 /\ phase # "call")
      BY <2>5, <3>1, <3>2 DEF SettledFirst
    <3>3. CASE pc = 15 /\ phase = "call"
      BY <2>1, <2>3, <2>4, <3>3
    <3>4. CASE pc < 15
      BY <2>2, <3>1, <3>4 DEF Advance
    <3> QED  BY <2>2, <3>2, <3>3, <3>4
  <2>7. Known(DriverId("fundRefund"))' => Known(DriverId("settleLnToKaspa"))'
    <3>1. CASE Known(DriverId("fundRefund"))
      BY <2>5, <3>1 DEF SettledFirst
    <3>2. CASE Drivers /\ ~Known(DriverId("fundRefund")) /\ Known(DriverId("fundRefund"))'
      <4>1. DriverId(Plan[18].step) = DriverId(Plan[pc].step)
        BY <2>3, <2>4, <3>2
      <4>2. pc = 18
        BY <2>4, <3>2, <4>1, PlacesDiffer DEF Drivers
      <4> QED  BY <2>5, <3>2, <4>2 DEF Drivers, Running, SettledFirst
    <3> QED  BY <2>5, <3>1, <3>2
  <2> QED  BY <2>6, <2>7 DEF SettledFirst
<1> QED  BY <1>1, <1>2, LedgerStaysSound, PTL DEF Spec

(* What a transaction has to do with a contract: it funds it, spends its   *)
(* coin, or spends the output that replaced that.                          *)
Touches(tx, c) ==
    \/ tx.id = DriverId(FundingStep(c))
    \/ OutputOf(FundingStep(c)) \in Coins(tx)
    \/ c = "contest" /\ \E h \in SpentAt(OutputOf("fundContest")) :
                            FirstOutput(ledger[h]) \in Coins(tx)

(* A funding spends a coin of a wallet and nothing else.                   *)
LEMMA FundingCoins ==
    ASSUME NEW tx, Genuine(tx), NEW c \in Contracts, tx.id = DriverId(FundingStep(c))
    PROVE  Coins(tx) = {WalletCoin}
<1>1. FundingStep(c) \in FundSteps /\ FundingStep(c) \in Steps
  BY FundingFacts
<1>2. tx = DriverTx(FundingStep(c))
  BY <1>1 DEF Genuine
<1> QED  BY <1>1, <1>2, FundingFacts, DriverIns

(* However many coins it spends, a transaction that the node takes touches *)
(* one contract at most: no outputs satisfy the scripts of two, save those *)
(* of the swap to Alice and of the refund, which are never open together.  *)
LEMMA TouchesOne ==
    ASSUME LedgerSound, EscrowKept, SettledFirst,
           NEW tx, Genuine(tx), Refusal(tx) = "none",
           NEW c \in Contracts, NEW d \in Contracts, Touches(tx, c), Touches(tx, d)
    PROVE  c = d
<1>1. ASSUME NEW e \in Contracts, tx.id = DriverId(FundingStep(e)),
             NEW f \in Contracts, Touches(tx, f)
      PROVE  f = e
  <2>1. Coins(tx) = {WalletCoin}
    BY <1>1, FundingCoins
  <2>2. OutputOf(FundingStep(f)) # WalletCoin
    BY FundingFacts, NotAWalletCoin
  <2>3. \A h \in SpentAt(OutputOf("fundContest")) : FirstOutput(ledger[h]) # WalletCoin
    BY DEF LedgerSound, Genuine, FirstOutput, SpentAt
  <2>4. DriverId(FundingStep(f)) = DriverId(FundingStep(e))
    BY <1>1, <2>1, <2>2, <2>3 DEF Touches
  <2> QED  BY <2>4, FundingFacts DEF DriverId
<1> DEFINE Pays(e) == IF e = "contest" THEN IsUpdate(tx) \/ PaysExactly(tx.outs, Payout("contest"))
                                       ELSE PaysExactly(tx.outs, Payout(e))
<1>2. ASSUME NEW e \in Contracts, Touches(tx, e), tx.id # DriverId(FundingStep(e))
      PROVE  /\ Pays(e)
             /\ e # "contest" => OutputOf(FundingStep(e)) \in Coins(tx)
  <2>1. CASE OutputOf(FundingStep(e)) \in Coins(tx)
    BY <2>1, ContractUnlocked
  <2>2. CASE OutputOf(FundingStep(e)) \notin Coins(tx)
    <3>1. e = "contest"
      BY <1>2, <2>2 DEF Touches
    <3>2. PICK h \in SpentAt(OutputOf("fundContest")) : FirstOutput(ledger[h]) \in Coins(tx)
      BY <1>2, <2>2 DEF Touches
    <3>3. h \in DOMAIN ledger /\ OutputOf("fundContest") \in Coins(ledger[h])
      BY DEF SpentAt
    <3> QED  BY <3>1, <3>2, <3>3, LatestUnlocked
  <2> QED  BY <2>1, <2>2
<1>3. ASSUME NEW e \in Contracts, PaysExactly(tx.outs, Payout(e)) PROVE ~IsUpdate(tx)
  <2>1. tx.outs \in Seq(Output)
    BY DEF Genuine, Tx
  <2>2. "state2" \notin Parties
    BY DEF Parties
  <2> QED  BY <1>3, <2>1, <2>2, PaysParties DEF IsUpdate
<1>4. ASSUME c # d, tx.id # DriverId(FundingStep(c)), tx.id # DriverId(FundingStep(d))
      PROVE  FALSE
  <2>1. Pays(c) /\ Pays(d)
    BY <1>2, <1>4
  <2>2. "contest" \in Contracts
    BY DEF Contracts
  <2>3. PaysExactly(tx.outs, Payout(c)) /\ PaysExactly(tx.outs, Payout(d))
    BY <1>3, <1>4, <2>1, <2>2
  <2>4. {c, d} = {"lnToKaspa", "refund"}
    BY <1>4, <2>3, PayoutsDiffer
  <2>5. OutputOf("fundLnToKaspa") \in Coins(tx) /\ OutputOf("fundRefund") \in Coins(tx)
    <3>1. \A e \in {c, d} : e # "contest" /\ OutputOf(FundingStep(e)) \in Coins(tx)
      BY <1>2, <1>4, <2>4
    <3>2. FundingStep("lnToKaspa") = "fundLnToKaspa" /\ FundingStep("refund") = "fundRefund"
      BY DEF FundingStep
    <3> QED  BY <2>4, <3>1, <3>2
  <2>6. /\ "lnToKaspa" \in Contracts /\ FundingStep("lnToKaspa") = "fundLnToKaspa"
        /\ "refund" \in Contracts /\ FundingStep("refund") = "fundRefund"
    BY DEF Contracts, Swaps, FundingStep
  <2>7. Known(DriverId("fundRefund")) /\ SpentAt(OutputOf("fundLnToKaspa")) = {}
    BY <2>5, <2>6, ContractUnlocked
  <2>8. Known(DriverId("settleLnToKaspa"))
    BY <2>7 DEF SettledFirst
  <2>9. PICK i \in DOMAIN ledger : ledger[i].id = DriverId("settleLnToKaspa")
    BY <2>8 DEF Known, Positions
  <2>10. "settleLnToKaspa" \in Steps
    BY DEF Steps
  <2>11. ledger[i] = DriverTx("settleLnToKaspa")
    BY <2>9, <2>10 DEF LedgerSound, Genuine
  <2>12. OutputOf("fundLnToKaspa") \in Coins(ledger[i])
    BY <2>10, <2>11, WhatIsSpent, DriverIns
  <2> QED  BY <2>7, <2>12 DEF SpentAt
<1> QED  BY <1>1, <1>4

(* A transaction that does not touch a contract leaves it where it stands. *)
LEMMA Untouched ==
    ASSUME LedgerSound, EscrowKept, LedgerSound', EscrowKept',
           NEW tx \in Tx, Accept(tx), NEW c \in Contracts, ~Touches(tx, c)
    PROVE  Standing(c)' = Standing(c)
<1> DEFINE n == Len(ledger) + 1
           coin == OutputOf(FundingStep(c))
<1>1. /\ DOMAIN ledger' = DOMAIN ledger \cup {n} /\ n \notin DOMAIN ledger
      /\ \A i \in DOMAIN ledger : ledger'[i] = ledger[i]
      /\ ledger'[n] = tx
  BY LongerLedger
<1>2. Known(DriverId(FundingStep(c)))' = Known(DriverId(FundingStep(c)))
  BY <1>1 DEF Known, Positions, Touches
<1>3. \A s : s \notin Coins(tx) => SpentAt(s)' = SpentAt(s)
  BY <1>1 DEF SpentAt
<1>4. StandingByCoins /\ StandingByCoins'
  BY StandingIs, StandingIsAfter
<1>5. Known(DriverId(FundingStep(c))) \/ SpentAt(coin) = {}
  <2>1. ASSUME NEW i \in SpentAt(coin) PROVE Known(DriverId(FundingStep(c)))
    BY <2>1, FundingFacts, NotAWalletCoin DEF SpentAt, LedgerSound, Exists, OutputOf
  <2> QED  BY <2>1
<1>6. coin \notin Coins(tx)
  BY DEF Touches
<1>7. CASE c # "contest"
  BY <1>2, <1>3, <1>4, <1>5, <1>6, <1>7 DEF StandingByCoins
<1>8. CASE c = "contest"
  <2>1. coin = OutputOf("fundContest")
    BY <1>8, FundingFacts
  <2>2. CASE SpentAt(coin) = {}
    BY <1>2, <1>3, <1>4, <1>6, <1>8, <2>1, <2>2 DEF StandingByCoins
  <2>3. ASSUME NEW i \in SpentAt(coin) PROVE Standing(c)' = Standing(c)
    <3>1. i \in SpentAt(coin)' /\ ledger'[i] = ledger[i]
      BY <1>1, <1>3, <1>6, <2>3 DEF SpentAt
    <3>2. SpentAt(FirstOutput(ledger[i]))' = SpentAt(FirstOutput(ledger[i]))
      <4>1. PICK s : s = FirstOutput(ledger[i])
        OBVIOUS
      <4>2. s = FirstOutput(ledger[i])'
        BY <3>1, <4>1 DEF FirstOutput
      <4>3. s \notin Coins(tx)
        BY <1>8, <2>1, <2>3, <4>1 DEF Touches
      <4>4. SpentAt(s)' = SpentAt(s)
        BY <1>3, <4>3
      <4> QED  BY <4>1, <4>2, <4>4 DEF SpentAt
    <3> QED  BY <1>4, <1>8, <2>1, <2>3, <3>1, <3>2 DEF StandingByCoins
  <2> QED  BY <2>2, <2>3
<1> QED  BY <1>7, <1>8

LEMMA OneMoves ==
    ASSUME NEW c \in Contracts, NEW to, Standing(c)' = to,
           \A d \in Contracts \ {c} : Standing(d)' = Standing(d)
    PROVE  E!Move(c, Standing(c), to)
<1>1. [d \in Contracts |-> Standing(d)]' =
          [[d \in Contracts |-> Standing(d)] EXCEPT ![c] = to]
  OBVIOUS
<1> QED  BY <1>1 DEF E!Move

LEMMA AcceptMovesOne ==
    ASSUME LedgerSound, EscrowKept, SettledFirst, LedgerSound', EscrowKept',
           NEW tx, Genuine(tx), Refusal(tx) = "none", Accept(tx)
    PROVE  E!Next \/ \A c \in Contracts : Standing(c)' = Standing(c)
<1> DEFINE coin(c) == OutputOf(FundingStep(c))
<1> PICK n : n = Len(ledger) + 1
  OBVIOUS
<1>1. tx \in Tx /\ tx.id # WalletCoin.tx /\ ~Known(tx.id)
  BY DEF Genuine, Refusal
<1>2. /\ DOMAIN ledger' = DOMAIN ledger \cup {n} /\ n \notin DOMAIN ledger
      /\ \A i \in DOMAIN ledger : ledger'[i] = ledger[i]
      /\ ledger'[n] = tx
  BY <1>1, LongerLedger
<1>3. StandingByCoins /\ StandingByCoins'
  BY StandingIs, StandingIsAfter
<1>4. \A c, d \in Contracts : Touches(tx, c) /\ Touches(tx, d) => c = d
  BY TouchesOne
<1>5. ASSUME NEW c \in Contracts, Touches(tx, c), NEW d \in Contracts \ {c}
      PROVE  Standing(d)' = Standing(d)
  BY <1>1, <1>4, <1>5, Untouched
<1>6. FundingStep("contest") = "fundContest" /\ "contest" \in Contracts
  BY FundingFacts DEF Contracts
<1>7. \A c \in Contracts : coin(c) # WalletCoin /\ coin(c).tx = DriverId(FundingStep(c))
  BY FundingFacts, NotAWalletCoin DEF OutputOf
<1>8. \A i \in DOMAIN ledger : \A s \in Coins(ledger[i]) : s # WalletCoin => Known(s.tx)
  BY DEF LedgerSound, Exists
<1>9. ASSUME NEW c \in Contracts, tx.id = DriverId(FundingStep(c))
      PROVE  E!Next
  <2>1. Standing(c) = "none"
    BY <1>1, <1>3, <1>9 DEF StandingByCoins
  <2>2. Known(DriverId(FundingStep(c)))'
    BY <1>2, <1>9 DEF Known, Positions
  <2>3. SpentAt(coin(c))' = {}
    <3>1. coin(c) \notin Coins(tx)
      BY <1>7, <1>9, FundingCoins
    <3>2. \A i \in DOMAIN ledger : coin(c) \notin Coins(ledger[i])
      BY <1>1, <1>7, <1>8, <1>9
    <3> QED  BY <1>2, <3>1, <3>2 DEF SpentAt
  <2>4. Standing(c)' = "open"
    BY <1>3, <2>2, <2>3 DEF StandingByCoins
  <2>5. Touches(tx, c)
    BY <1>9 DEF Touches
  <2>6. E!Move(c, "none", "open")
    BY <1>5, <2>1, <2>4, <2>5, OneMoves
  <2> QED  BY <2>6 DEF E!Next, E!Fund
<1>10. ASSUME NEW c \in Contracts, coin(c) \in Coins(tx)
       PROVE  E!Next
  <2>1. Known(DriverId(FundingStep(c))) /\ SpentAt(coin(c)) = {}
    BY <1>10, ContractUnlocked
  <2>2. Standing(c) = "open"
    BY <1>3, <2>1 DEF StandingByCoins
  <2>3. n \in SpentAt(coin(c))'
    BY <1>2, <1>10 DEF SpentAt
  <2>4. Touches(tx, c)
    BY <1>10 DEF Touches
  <2>5. CASE c = "contest"
    <3>1. SpentAt(FirstOutput(ledger[n]))' = {}
      <4>1. FirstOutput(tx).tx = tx.id /\ FirstOutput(tx) # WalletCoin
        BY <1>1 DEF FirstOutput
      <4>2. FirstOutput(tx) \notin Coins(tx)
        BY <1>1, <4>1 DEF Refusal, CoinsFound, ChainInputs, Unspent, Exists, Coins
      <4>3. \A i \in DOMAIN ledger : FirstOutput(tx) \notin Coins(ledger[i])
        BY <1>1, <1>8, <4>1
      <4>4. FirstOutput(ledger[n])' = FirstOutput(tx)
        BY <1>2 DEF FirstOutput
      <4> QED  BY <1>2, <4>2, <4>3, <4>4 DEF SpentAt
    <3>2. Standing(c)' = "latest"
      BY <1>3, <1>6, <2>3, <2>5, <3>1 DEF StandingByCoins
    <3>3. E!Move(c, "open", "latest")
      BY <1>5, <2>2, <2>4, <3>2, OneMoves
    <3> QED  BY <2>5, <3>3 DEF E!Next, E!Replace
  <2>6. CASE c # "contest"
    <3>1. Standing(c)' = "paid"
      BY <1>3, <2>3, <2>6 DEF StandingByCoins
    <3>2. E!Move(c, "open", "paid")
      BY <1>5, <2>2, <2>4, <3>1, OneMoves
    <3> QED  BY <2>6, <3>2 DEF E!Next, E!PayOut
  <2> QED  BY <2>5, <2>6
<1>11. ASSUME NEW h \in SpentAt(OutputOf("fundContest")), FirstOutput(ledger[h]) \in Coins(tx)
       PROVE  E!Next
  <2>1. /\ h \in DOMAIN ledger /\ h # n
        /\ OutputOf("fundContest") \in Coins(ledger[h]) /\ ledger'[h] = ledger[h]
    BY <1>2 DEF SpentAt
  <2>2. SpentAt(FirstOutput(ledger[h])) = {}
    BY <1>11, <2>1, LatestUnlocked
  <2>3. Standing("contest") = "latest"
    BY <1>3, <1>6, <1>11, <2>2 DEF StandingByCoins
  <2>4. h \in SpentAt(OutputOf("fundContest"))'
    BY <1>2, <2>1 DEF SpentAt
  <2>5. n \in SpentAt(FirstOutput(ledger[h]))'
    BY <1>2, <1>11, <2>1 DEF SpentAt, FirstOutput
  <2>6. Standing("contest")' = "paid"
    BY <1>3, <1>6, <2>4, <2>5 DEF StandingByCoins
  <2>7. Touches(tx, "contest")
    BY <1>11 DEF Touches
  <2>8. E!Move("contest", "latest", "paid")
    BY <1>5, <1>6, <2>3, <2>6, <2>7, OneMoves
  <2> QED  BY <1>6, <2>8 DEF E!Next, E!PayOut
<1>12. CASE \A c \in Contracts : ~Touches(tx, c)
  BY <1>1, <1>12, Untouched
<1> QED  BY <1>9, <1>10, <1>11, <1>12 DEF Touches

(* The run of the driver, whoever spends what, is a run of Escrow: for any *)
(* fees and any transactions others try, with any number of inputs, the    *)
(* value of a contract goes to its parties in full, the contest's only     *)
(* from its latest state.                                                  *)
THEOREM DriverImplementsEscrow == Spec => ImplementsEscrow
<1>1. Init => E!Init
  BY DEF Init, E!Init, Standing, Known, Positions
<1>2. /\ LedgerSound /\ LedgerSound' /\ EscrowKept /\ EscrowKept' /\ SettledFirst /\ [Next]_vars
      => [E!Next]_([contract \in Contracts |-> Standing(contract)])
  <2> SUFFICES ASSUME LedgerSound, LedgerSound', EscrowKept, EscrowKept', SettledFirst,
                      [Next]_vars
               PROVE  E!Next \/ \A c \in Contracts : Standing(c)' = Standing(c)
    OBVIOUS
  <2>1. CASE UNCHANGED ledger
    BY <2>1 DEF Standing, Known, Positions, Unspent, Exists, TxOf, SpentAt, Replaced,
                SpenderOf
  <2>2. Block => UNCHANGED ledger
    BY BlockFacts
  <2> QED  BY <2>1, <2>2, NodeSteps, AcceptMovesOne DEF node
<1> QED  BY <1>1, <1>2, LedgerStaysSound, EscrowStaysKept, StaysSettledFirst, PTL
         DEF Spec, ImplementsEscrow, E!Spec

-----------------------------------------------------------------------------
(* What the driver's attempts show                                         *)

(* A run that has not failed and in which no call was lost.                *)
Going == outcome # "failed" /\ "lost" \notin disturbed

(* Nothing the driver did: a block, a wait, a read.                        *)
Idle ==
    /\ UNCHANGED <<pc, outcome, attempts, ledger>>
    /\ phase = "call" <=> phase' = "call"

OtherSpends ==
    /\ UNCHANGED <<pc, phase, outcome, attempts>>
    /\ \E tx \in Tx : Accept(tx) /\ \A s \in Steps : tx.id # DriverId(s)

Submits ==
    /\ Plan[pc].do = "submit" /\ phase = "call" /\ phase' = "mempool"
    /\ Accept(TheTx)
    /\ outcome = "running"
    /\ UNCHANGED <<pc, outcome, attempts>>

Refused ==
    /\ Running /\ Plan[pc].do = "attempt"
    /\ Refusal(TheTx) # "none"
    /\ attempts' = attempts \cup {[step |-> Plan[pc].step, why |-> Refusal(TheTx)]}
    /\ Advance
    /\ UNCHANGED ledger

GoesOn ==
    /\ Running /\ Plan[pc].do # "attempt"
    /\ Plan[pc].do = "submit" => phase = "mine"
    /\ Advance
    /\ UNCHANGED <<ledger, attempts>>

(* The steps of a run that goes on.                                        *)
LEMMA GoingSteps ==
    ASSUME LedgerSound, [Next]_vars, Going'
    PROVE  Going /\ (Idle \/ OtherSpends \/ Submits \/ Refused \/ GoesOn)
<1>1. Fail => FALSE
  BY DEF Fail, Going
<1>2. CASE SubmitTx
  BY <1>1, <1>2 DEF SubmitTx, At, Running, Going, Submits
<1>3. CASE WaitForMempool
  BY <1>1, <1>3 DEF WaitForMempool, At, Running, Going, Idle, node
<1>4. CASE MineSubmitted
  BY <1>4 DEF MineSubmitted, At, Running, Going, GoesOn, Block
<1>5. CASE AttemptTx
  <2>1. Refusal(TheTx) # "none"
    BY <1>1, <1>5 DEF AttemptTx
  <2> QED  BY <1>5, <2>1 DEF AttemptTx, At, Running, Going, Refused, node
<1>6. CASE MineOne
  BY <1>6 DEF MineOne, At, Running, Going, GoesOn, Idle, Block
<1>7. CASE CheckBalances \/ MonitorLane
  BY <1>1, <1>7 DEF CheckBalances, MonitorLane, At, Running, Going, GoesOn, node
<1>8. CASE LoseCall
  BY <1>8 DEF LoseCall, Going
<1>9. ASSUME NEW tx \in StrangerTxs, Stranger(tx) PROVE Going /\ OtherSpends
  <2>1. tx \in Tx /\ \A s \in Steps : tx.id # DriverId(s)
    BY <1>9, StrangerTxGenuine DEF Genuine, DriverId
  <2> QED  BY <1>9, <2>1 DEF Stranger, Running, Going, OtherSpends, control
<1>10. CASE ForeignBlock \/ UNCHANGED vars
  BY <1>10 DEF ForeignBlock, vars, node, control, Going, Idle, Block
<1> QED  BY <1>2, <1>3, <1>4, <1>5, <1>6, <1>7, <1>8, <1>9, <1>10 DEF Next

Taken(i) == i < pc \/ (i = pc /\ (phase # "call" \/ outcome = "passed"))

(* The node has exactly those of the driver's transactions that the run    *)
(* has come past, and none of its attempts.                                *)
PlanTaken ==
    /\ Going =>
        /\ \A i \in SubmitPlaces : Known(DriverId(Plan[i].step)) <=> Taken(i)
        /\ \A i \in AttemptPlaces : ~Known(DriverId(Plan[i].step))
    /\ outcome = "passed" => pc = 21

LEMMA PlanStaysTaken ==
    ASSUME LedgerSound, PlanTaken, [Next]_vars
    PROVE  PlanTaken'
<1>0. pc \in 1 .. 21
  BY DEF LedgerSound
<1>1. (outcome = "passed" => pc = 21)'
  BY <1>0, ControlSteps, PlanPlaces DEF Fail, Advance, PlanTaken
<1>2. ASSUME Going'
      PROVE  /\ \A i \in SubmitPlaces : Known(DriverId(Plan[i].step))' <=> Taken(i)'
             /\ \A i \in AttemptPlaces : ~Known(DriverId(Plan[i].step))'
  <2>1. Going /\ (Idle \/ OtherSpends \/ Submits \/ Refused \/ GoesOn)
    BY <1>2, GoingSteps
  <2>2. /\ \A i \in SubmitPlaces : Known(DriverId(Plan[i].step)) <=> Taken(i)
        /\ \A i \in AttemptPlaces : ~Known(DriverId(Plan[i].step))
    BY <2>1 DEF PlanTaken
  <2>3. CASE Idle
    <3>1. \A id : Known(id)' <=> Known(id)
      BY <2>3, KnownStays DEF Idle
    <3>2. \A i \in SubmitPlaces : Taken(i)' <=> Taken(i)
      BY <2>3 DEF Idle, Taken
    <3> QED  BY <2>2, <3>1, <3>2
  <2>4. CASE OtherSpends
    <3>1. \A s \in Steps : Known(DriverId(s))' <=> Known(DriverId(s))
      BY <2>4, KnownAfter DEF OtherSpends
    <3>2. \A i \in SubmitPlaces : Taken(i)' <=> Taken(i)
      BY <2>4 DEF OtherSpends, Taken
    <3> QED  BY <2>2, <3>1, <3>2, PlacesDo
  <2>5. CASE Submits
    <3>1. pc \in SubmitPlaces /\ TheTx \in Tx /\ TheTx.id = DriverId(Plan[pc].step)
      BY <1>0, <2>5, PlacesDo, DriverTxTyped DEF Submits, TheTx
    <3>2. \A id : Known(id)' <=> Known(id) \/ id = DriverId(Plan[pc].step)
      BY <2>5, <3>1, KnownAfter DEF Submits
    <3>3. \A i \in SubmitPlaces : Taken(i)' <=> Taken(i) \/ i = pc
      BY <2>5 DEF Submits, Taken
    <3>4. AttemptPlaces \cap SubmitPlaces = {}
      BY DEF AttemptPlaces, SubmitPlaces
    <3>5. \A i \in SubmitPlaces \cup AttemptPlaces :
              DriverId(Plan[i].step) = DriverId(Plan[pc].step) => i = pc
      BY <3>1, PlacesDiffer
    <3> QED  BY <2>2, <3>1, <3>2, <3>3, <3>4, <3>5
  <2>6. CASE Refused \/ GoesOn
    <3>1. \A id : Known(id)' <=> Known(id)
      BY <2>6, KnownStays DEF Refused, GoesOn
    <3>2. Advance /\ Running /\ (pc \in SubmitPlaces => phase # "call")
      BY <1>0, <2>6, PlacesDo DEF Refused, GoesOn
    <3>3. 21 \in SubmitPlaces /\ \A i \in SubmitPlaces : i \in Nat
      BY DEF SubmitPlaces
    <3>4. \A i \in SubmitPlaces : Taken(i)' <=> Taken(i)
      <4>1. CASE pc = 21
        BY <1>0, <3>2, <3>3, <4>1, PlanPlaces DEF Advance, Running, Taken
      <4>2. CASE pc # 21
        BY <1>0, <3>2, <3>3, <4>2, PlanPlaces DEF Advance, Running, Taken
      <4> QED  BY <4>1, <4>2
    <3> QED  BY <2>2, <3>1, <3>4
  <2> QED  BY <2>1, <2>3, <2>4, <2>5, <2>6
<1>3. (\A i \in SubmitPlaces : Known(DriverId(Plan[i].step))' <=> Taken(i)')
        <=> (\A i \in SubmitPlaces : Known(DriverId(Plan[i].step)) <=> Taken(i))'
  OBVIOUS
<1> QED  BY <1>1, <1>2, <1>3 DEF PlanTaken

LEMMA Totals ==
    /\ \A to, value : value \in Nat =>
          Total(<<Pay(to, value)>>) = value /\ Total(<<Bind(to, value)>>) = value
    /\ \A value \in Nat, percent \in 0 .. 100 : Total(Split(value, percent)) = value
<1>1. ASSUME NEW o, o.value \in Nat PROVE Total(<<o>>) = o.value
  <2> DEFINE f == [k \in DOMAIN <<o>> |-> <<o>>[k].value]
  <2>1. f[1] = o.value /\ DOMAIN f = {1}
    OBVIOUS
  <2> HIDE DEF f
  <2>2. SumFunction(f) = o.value
    BY <1>1, <2>1, SumOfOne
  <2> QED  BY <2>2 DEF Total, f
<1>2. ASSUME NEW o, NEW p, o.value \in Nat, p.value \in Nat
      PROVE  Total(<<o, p>>) = o.value + p.value
  <2> DEFINE f == [k \in DOMAIN <<o, p>> |-> <<o, p>>[k].value]
  <2>1. f[1] = o.value /\ f[2] = p.value /\ DOMAIN f = {1, 2}
    OBVIOUS
  <2> HIDE DEF f
  <2>2. 1 # 2 /\ f[1] \in Nat /\ f[2] \in Nat
    BY <1>2, <2>1
  <2>3. SumFunction(f) = f[1] + f[2]
    BY <2>1, <2>2, SumOfTwo, Zenon
  <2>4. SumFunction(f) = o.value + p.value
    BY <2>1, <2>3
  <2> QED  BY <2>4 DEF Total, f
<1>3. \A to, value : Pay(to, value).value = value /\ Bind(to, value).value = value
  BY DEF Pay, Bind, Start
<1>4. ASSUME NEW value \in Nat, NEW percent \in 0 .. 100
      PROVE  Total(Split(value, percent)) = value
  <2> DEFINE alice == (value * percent) \div 100
  <2>1. alice \in Nat /\ value - alice \in Nat
    BY ValuesAreNumbers
  <2> HIDE DEF alice
  <2>2. Total(<<Pay("alice", alice), Pay("bob", value - alice)>>) = alice + (value - alice)
    BY <1>2, <1>3, <2>1
  <2>3. alice + (value - alice) = value
    BY <2>1
  <2> QED  BY <2>2, <2>3 DEF Split, alice
<1>5. ASSUME NEW to, NEW value \in Nat
      PROVE  Total(<<Pay(to, value)>>) = value /\ Total(<<Bind(to, value)>>) = value
  <2>1. PICK o, p : o = Pay(to, value) /\ p = Bind(to, value)
    OBVIOUS
  <2>2. o.value = value /\ p.value = value
    BY <1>3, <2>1
  <2>3. Total(<<o>>) = value /\ Total(<<p>>) = value
    BY <1>1, <2>2
  <2> QED  BY <2>1, <2>3
<1> QED  BY <1>4, <1>5

(* The step that makes the coin a step spends.                             *)
Maker(s) ==
    CASE s \in {"nativeUpdate", "wrongUpdate", "update"} -> "fundContest"
      [] s \in {"staleUpdate", "nativeSettlement", "wrongSettlement", "settlement"} -> "update"
      [] s = "materialise" -> "fundFactory"
      [] s = "settleLnToKaspa" -> "fundLnToKaspa"
      [] s = "settleKaspaToLn" -> "fundKaspaToLn"
      [] s \in {"earlyRefund", "refund"} -> "fundRefund"

Spenders == Steps \ FundSteps

LEMMA MakerMakes ==
    ASSUME NEW s \in Spenders
    PROVE  Maker(s) \in Steps /\ FirstCoin(DriverTx(s)) = OutputOf(Maker(s))
BY WhatIsSpent DEF Maker, Spenders, Steps, FundSteps

LEMMA FundPays ==
    /\ DriverTx("fundContest").outs = <<Start("state1", FundingValue)>>
    /\ DriverTx("fundFactory").outs = <<Pay("factory", FundingValue)>>
    /\ DriverTx("fundLnToKaspa").outs = <<Pay("lnToKaspa", FundingValue)>>
    /\ DriverTx("fundKaspaToLn").outs = <<Pay("kaspaToLn", FundingValue)>>
    /\ DriverTx("fundRefund").outs = <<Pay("refund", FundingValue)>>
BY DEF DriverTx, GenesisTx, FundTx, Spend

(* What each step of the driver spends covers what it pays, and carries    *)
(* the covenant that its outputs continue.                                 *)
LEMMA CoinCovers ==
    ASSUME NEW s \in Spenders
    PROVE  /\ 1 \in DOMAIN DriverTx(Maker(s)).outs
           /\ DriverTx(Maker(s)).outs[1].value \in Nat
           /\ Total(DriverTx(s).outs) <= DriverTx(Maker(s)).outs[1].value
           /\ \A k \in DOMAIN DriverTx(s).outs :
                 LET output == DriverTx(s).outs[k] IN
                 \/ output.cov = "none" /\ output.by = 0
                 \/ /\ output.cov = "contest" /\ output.by = 1
                    /\ DriverTx(Maker(s)).outs[1].cov = "contest"
<1>1. /\ FundingValue \in Nat /\ UpdateFee \in Nat /\ SettlementFee \in Nat
      /\ State2Value \in Nat /\ SettlementValue \in Nat /\ SwapValue \in Nat
      /\ State2Value - UpdateFee \in Nat
      /\ State2Value <= FundingValue /\ State2Value - UpdateFee <= State2Value
      /\ SettlementValue <= State2Value /\ SwapValue <= FundingValue
  BY CovenantAssumption DEF State2Value, SettlementValue, SwapValue
<1>2. \A o : 1 \in DOMAIN <<o>> /\ <<o>>[1] = o /\ DOMAIN <<o>> = {1}
  OBVIOUS
<1>3. \A to, value :
          /\ Pay(to, value).value = value /\ Pay(to, value).cov = "none" /\ Pay(to, value).by = 0
          /\ Start(to, value).value = value /\ Start(to, value).cov = "contest"
          /\ Bind(to, value).value = value /\ Bind(to, value).cov = "contest"
          /\ Bind(to, value).by = 1
  BY DEF Pay, Start, Bind
<1>4. 60 \in 0 .. 100 /\ 55 \in 0 .. 100
  OBVIOUS
<1>10. ASSUME NEW value, NEW percent, NEW k \in DOMAIN Split(value, percent)
       PROVE  Split(value, percent)[k].cov = "none" /\ Split(value, percent)[k].by = 0
  BY <1>10 DEF Split, Pay
<1>5. CASE s \in {"nativeUpdate", "wrongUpdate", "update"}
  <2>1. DriverTx(s).outs = <<Bind("state2", State2Value)>> /\ Maker(s) = "fundContest"
    BY <1>5, WhatIsPaid DEF Maker
  <2>2. Total(<<Bind("state2", State2Value)>>) = State2Value
    BY <1>1, Totals
  <2> QED  BY <1>1, <1>2, <1>3, <2>1, <2>2, FundPays
<1>6. CASE s = "staleUpdate"
  <2>1. DriverTx(s).outs = <<Bind("state2", State2Value - UpdateFee)>> /\ Maker(s) = "update"
    BY <1>6, WhatIsPaid DEF Maker
  <2>2. Total(<<Bind("state2", State2Value - UpdateFee)>>) = State2Value - UpdateFee
    BY <1>1, Totals
  <2> QED  BY <1>1, <1>2, <1>3, <2>1, <2>2, WhatIsPaid
<1>7. CASE s \in {"nativeSettlement", "wrongSettlement", "settlement"}
  <2>1. DriverTx(s).outs = Split(SettlementValue, 60) /\ Maker(s) = "update"
    BY <1>7, WhatIsPaid, PayoutIs DEF Maker
  <2>2. Total(DriverTx(s).outs) = SettlementValue
    BY <1>1, <1>4, <2>1, Totals
  <2> QED  BY <1>1, <1>2, <1>3, <1>10, <2>1, <2>2, WhatIsPaid
<1>8. CASE s = "materialise"
  <2>1. DriverTx(s).outs = Split(State2Value, 55) /\ Maker(s) = "fundFactory"
    BY <1>8, WhatIsPaid, PayoutIs DEF Maker
  <2>2. Total(DriverTx(s).outs) = State2Value
    BY <1>1, <1>4, <2>1, Totals
  <2> QED  BY <1>1, <1>2, <1>3, <1>10, <2>1, <2>2, FundPays
<1>9. CASE s \in {"settleLnToKaspa", "settleKaspaToLn", "earlyRefund", "refund"}
  <2>1. \E party \in Parties : DriverTx(s).outs = <<Pay(party, SwapValue)>>
    BY <1>9, WhatIsPaid, PayoutIs DEF Parties
  <2>2. \E script : DriverTx(Maker(s)).outs = <<Pay(script, FundingValue)>>
    BY <1>9, FundPays DEF Maker
  <2>3. \A party : Total(<<Pay(party, SwapValue)>>) = SwapValue
    BY <1>1, Totals
  <2> QED  BY <1>1, <1>2, <1>3, <2>1, <2>2, <2>3
<1> QED  BY <1>5, <1>6, <1>7, <1>8, <1>9 DEF Spenders, Steps, FundSteps

(* A coin the driver made is what it was made as.                          *)
LEMMA MadeOutput ==
    ASSUME LedgerSound, NEW s \in Steps, Known(DriverId(s)), 1 \in DOMAIN DriverTx(s).outs
    PROVE  Exists(OutputOf(s)) /\ OutputAt(OutputOf(s)) = DriverTx(s).outs[1]
<1>1. PICK i \in DOMAIN ledger : ledger[i].id = DriverId(s)
  BY DEF Known, Positions
<1>2. ledger[i] = DriverTx(s)
  BY <1>1 DEF LedgerSound, Genuine
<1>3. TxOf(DriverId(s)) = DriverTx(s)
  BY <1>1, <1>2, OneTransaction
<1> QED  BY <1>3 DEF Exists, OutputAt, OutputOf

LEMMA DriverValuesFit ==
    ASSUME LedgerSound, NEW s \in Spenders, Known(DriverId(Maker(s)))
    PROVE  Exists(FirstCoin(DriverTx(s))) /\ ValuesFit(DriverTx(s))
<1> DEFINE tx == DriverTx(s)
           coin == FirstCoin(tx)
           made == DriverTx(Maker(s)).outs[1]
           spent == [n \in DOMAIN tx.ins |-> OutputAt(tx.ins[n].coin)]
<1>1. Maker(s) \in Steps /\ coin = OutputOf(Maker(s)) /\ s \in Steps
  BY MakerMakes DEF Spenders
<1>2. Exists(coin) /\ OutputAt(coin) = made
  BY <1>1, CoinCovers, MadeOutput
<1>3. DOMAIN tx.ins = {1} /\ tx.ins[1].coin = coin /\ ChainInputs(tx) = {1}
  BY <1>1, DriverIns, NotAWalletCoin DEF ChainInputs, FirstCoin
<1>4. DOMAIN spent = {1} /\ spent[1] = made /\ made.value \in Nat
  BY <1>2, <1>3, CoinCovers
<1>5. Total(spent) = made.value
  <2> HIDE DEF spent
  <2> DEFINE f == [k \in DOMAIN spent |-> spent[k].value]
  <2>1. DOMAIN f = {1} /\ f[1] = made.value /\ f[1] \in Nat
    BY <1>4
  <2> HIDE DEF f
  <2>2. SumFunction(f) = f[1]
    BY <2>1, SumOfOne, Zenon
  <2> QED  BY <2>1, <2>2 DEF Total, f
<1>6. ASSUME NEW k \in DOMAIN tx.outs PROVE CovenantFits(tx, tx.outs[k])
  BY <1>2, <1>3, CoinCovers DEF CovenantFits
<1>7. Total(tx.outs) <= Total(spent)
  BY <1>5, CoinCovers
<1> QED  BY <1>2, <1>6, <1>7 DEF ValuesFit

(* What the node looks at when it refuses a transaction of the driver's.   *)
LEMMA DriverRefusal ==
    ASSUME NEW s \in Steps, FirstCoin(DriverTx(s)) # WalletCoin
    PROVE  LET tx == DriverTx(s)
               coin == FirstCoin(tx)
           IN  Refusal(tx) =
                  IF Known(tx.id) THEN "known"
                  ELSE IF ~Unspent(coin) THEN "missing"
                  ELSE IF ~ValuesFit(tx) THEN "value"
                  ELSE IF ~SequenceMet(tx.ins[1]) THEN "sequence"
                  ELSE IF ~Unlocks(OutputAt(coin).to, tx, 1) THEN "script"
                  ELSE "none"
<1> DEFINE tx == DriverTx(s)
           coin == FirstCoin(tx)
<1>1. DOMAIN tx.ins = {1} /\ tx.ins[1].coin = coin /\ ChainInputs(tx) = {1}
  BY DriverIns DEF ChainInputs, FirstCoin
<1>2. CoinsFound(tx) <=> Unspent(coin)
  BY <1>1 DEF CoinsFound
<1>3. (\E n \in ChainInputs(tx) : ~SequenceMet(tx.ins[n])) <=> ~SequenceMet(tx.ins[1])
  BY <1>1
<1>4. (\E n \in ChainInputs(tx) : ~Unlocks(OutputAt(tx.ins[n].coin).to, tx, n))
          <=> ~Unlocks(OutputAt(coin).to, tx, 1)
  BY <1>1
<1> QED  BY <1>2, <1>3, <1>4 DEF Refusal

(* Nothing stands against a funding but that it is known already.          *)
LEMMA FundingTaken ==
    ASSUME NEW s \in FundSteps, ~Known(DriverTx(s).id)
    PROVE  Refusal(DriverTx(s)) = "none"
<1> DEFINE tx == DriverTx(s)
<1>1. s \in Steps
  BY DEF FundSteps, Steps
<1>2. DOMAIN tx.ins = {1} /\ ChainInputs(tx) = {}
  BY <1>1, DriverIns, WhatIsSpent DEF ChainInputs, FirstCoin
<1>3. CoinsFound(tx)
  BY <1>2 DEF CoinsFound
<1>4. ASSUME NEW k \in DOMAIN tx.outs PROVE CovenantFits(tx, tx.outs[k])
  <2>1. CASE s = "fundContest"
    <3>1. tx = GenesisTx /\ tx.outs[k].by = 0
      BY <1>4, <2>1, FundPays DEF DriverTx, Start
    <3> QED  BY <3>1 DEF CovenantFits
  <2>2. CASE s # "fundContest"
    <3>1. \E to : tx.outs = <<Pay(to, FundingValue)>>
      BY <2>2, FundPays DEF FundSteps
    <3> QED  BY <1>4, <3>1 DEF CovenantFits, Pay
  <2> QED  BY <2>1, <2>2
<1>5. ValuesFit(tx)
  BY <1>2, <1>4 DEF ValuesFit
<1> QED  BY <1>2, <1>3, <1>5 DEF Refusal

(* The step that is to spend the coin an attempt is made on.               *)
Meant(step) ==
    IF step \in {"nativeUpdate", "wrongUpdate"} THEN "update"
    ELSE IF step = "earlyRefund" THEN "refund" ELSE "settlement"

TakenByOther(step) ==
    \E i \in DOMAIN ledger :
        FirstCoin(DriverTx(step)) \in Coins(ledger[i]) /\ ledger[i].id # DriverId(Meant(step))

Told(a) ==
    \/ a.why = "script"
    \/ a.step = "earlyRefund" /\ a.why = "sequence"
    \/ a.why = "missing" /\ TakenByOther(a.step)

(* When the driver makes an attempt its coin is there, unless another      *)
(* transaction than the driver's own has spent it.                         *)
LEMMA AttemptPlacesFacts ==
    ASSUME NEW i \in AttemptPlaces
    PROVE  /\ Plan[i].step \in Spenders
           /\ Plan[i].step # "earlyRefund" => DriverTx(Plan[i].step).ins[1].seq = 0
           /\ \E m \in SubmitPlaces : Plan[m].step = Maker(Plan[i].step) /\ m < i
           /\ \E m \in SubmitPlaces : Plan[m].step = Meant(Plan[i].step) /\ i < m
<1>1. Plan[i].step \in {"nativeUpdate", "wrongUpdate", "staleUpdate", "nativeSettlement",
                        "wrongSettlement", "earlyRefund"}
  BY PlanSteps DEF AttemptPlaces
<1>2. Plan[i].step \in Spenders
  BY <1>1 DEF Spenders, Steps, FundSteps
<1>3. Plan[i].step # "earlyRefund" => DriverTx(Plan[i].step).ins[1].seq = 0
  BY <1>1, WhichSequence DEF Steps
<1>4. CASE i \in {2, 3}
  <2>1. Maker(Plan[i].step) = "fundContest" /\ Meant(Plan[i].step) = "update"
    BY <1>4, PlanSteps DEF Maker, Meant
  <2>2. 1 \in SubmitPlaces /\ 4 \in SubmitPlaces /\ 1 < i /\ i < 4
    BY <1>4 DEF SubmitPlaces
  <2> QED  BY <1>2, <1>3, <2>1, <2>2, PlanSteps
<1>5. CASE i \in {5, 6, 7}
  <2>1. Maker(Plan[i].step) = "update" /\ Meant(Plan[i].step) = "settlement"
    BY <1>5, PlanSteps DEF Maker, Meant
  <2>2. 4 \in SubmitPlaces /\ 8 \in SubmitPlaces /\ 4 < i /\ i < 8
    BY <1>5 DEF SubmitPlaces
  <2> QED  BY <1>2, <1>3, <2>1, <2>2, PlanSteps
<1>6. CASE i = 19
  <2>1. Maker(Plan[i].step) = "fundRefund" /\ Meant(Plan[i].step) = "refund"
    BY <1>6, PlanSteps DEF Maker, Meant
  <2>2. 18 \in SubmitPlaces /\ 21 \in SubmitPlaces /\ 18 < i /\ i < 21
    BY <1>6 DEF SubmitPlaces
  <2> QED  BY <1>2, <1>3, <2>1, <2>2, PlanSteps
<1> QED  BY <1>4, <1>5, <1>6 DEF AttemptPlaces

LEMMA AttemptRefused ==
    ASSUME LedgerSound, PlanTaken, Going, pc \in AttemptPlaces, Refusal(TheTx) # "none"
    PROVE  Told([step |-> Plan[pc].step, why |-> Refusal(TheTx)])
<1> DEFINE s == Plan[pc].step
<1>1. s \in Spenders /\ s \in Steps /\ TheTx = DriverTx(s) /\ TheTx.id = DriverId(s)
  BY AttemptPlacesFacts, DriverTxTyped DEF Spenders, TheTx
<1>2. PICK m \in SubmitPlaces : Plan[m].step = Maker(s) /\ m < pc
  BY AttemptPlacesFacts
<1>3. PICK n \in SubmitPlaces : Plan[n].step = Meant(s) /\ pc < n
  BY AttemptPlacesFacts
<1>4. Known(DriverId(Maker(s))) /\ ~Known(DriverId(Meant(s))) /\ ~Known(DriverId(s))
  <2>1. Taken(m) /\ ~Taken(n)
    BY <1>2, <1>3 DEF Taken, AttemptPlaces, SubmitPlaces
  <2> QED  BY <1>2, <1>3, <2>1 DEF PlanTaken
<1> DEFINE coin == FirstCoin(TheTx)
<1>5. Exists(coin) /\ ValuesFit(TheTx)
  BY <1>1, <1>4, DriverValuesFit
<1>6. coin # WalletCoin
  BY <1>1, MakerMakes, NotAWalletCoin
<1>7. s # "earlyRefund" => SequenceMet(TheTx.ins[1])
  BY <1>1, AttemptPlacesFacts DEF SequenceMet
<1>8. ASSUME ~Unspent(coin) PROVE TakenByOther(s)
  <2>1. PICK i \in DOMAIN ledger : coin \in Coins(ledger[i])
    BY <1>5, <1>8 DEF Unspent, SpentAt
  <2>2. ledger[i].id # DriverId(Meant(s))
    BY <1>4 DEF Known, Positions
  <2> QED  BY <1>1, <2>1, <2>2 DEF TakenByOther
<1>9. /\ Refusal(TheTx) \in {"missing", "sequence", "script"}
      /\ Refusal(TheTx) = "missing" => ~Unspent(coin)
      /\ Refusal(TheTx) = "sequence" => ~SequenceMet(TheTx.ins[1])
  BY <1>1, <1>4, <1>5, <1>6, DriverRefusal
<1> QED  BY <1>7, <1>8, <1>9 DEF Told

(* Every attempt the run has come past was refused by the script, or by    *)
(* the sequence lock of the early refund, or its coin was gone.            *)
AttemptsTold ==
    Going =>
        /\ {a.step : a \in attempts} = {Plan[i].step : i \in {j \in AttemptPlaces : j < pc}}
        /\ \A a \in attempts : Told(a)

LEMMA TakenStays ==
    ASSUME LedgerSound, [Next]_vars, NEW a, Told(a)
    PROVE  Told(a)'
<1>1. \A i \in DOMAIN ledger : i \in DOMAIN ledger' /\ ledger'[i] = ledger[i]
  <2>1. ASSUME NEW tx \in Tx, Accept(tx)
        PROVE  \A i \in DOMAIN ledger : i \in DOMAIN ledger' /\ ledger'[i] = ledger[i]
    BY <2>1, LongerLedger
  <2> QED  BY <2>1, NodeSteps DEF node, Block, Genuine
<1> QED  BY <1>1 DEF Told, TakenByOther

LEMMA StaysTold ==
    ASSUME LedgerSound, PlanTaken, AttemptsTold, [Next]_vars
    PROVE  AttemptsTold'
<1>0. pc \in 1 .. 21
  BY DEF LedgerSound
<1> SUFFICES ASSUME Going'
             PROVE  /\ {a.step : a \in attempts'} =
                          {Plan[i].step : i \in {j \in AttemptPlaces : j < pc'}}
                    /\ \A a \in attempts' : Told(a)'
  BY DEF AttemptsTold
<1>1. Going /\ (Idle \/ OtherSpends \/ Submits \/ Refused \/ GoesOn)
  BY GoingSteps
<1>2. /\ {a.step : a \in attempts} = {Plan[i].step : i \in {j \in AttemptPlaces : j < pc}}
      /\ \A a \in attempts : Told(a)
  BY <1>1 DEF AttemptsTold
<1>3. \A a \in attempts : Told(a)'
  BY <1>2, TakenStays
<1>4. CASE Idle \/ OtherSpends \/ Submits
  BY <1>2, <1>3, <1>4 DEF Idle, OtherSpends, Submits
<1>5. CASE GoesOn
  <2>1. pc \notin AttemptPlaces
    BY <1>0, <1>5, PlacesDo DEF GoesOn
  <2>2. {j \in AttemptPlaces : j < pc'} = {j \in AttemptPlaces : j < pc}
    BY <1>0, <1>5, <2>1, PlanPlaces DEF GoesOn, Advance, AttemptPlaces
  <2> QED  BY <1>2, <1>3, <1>5, <2>2 DEF GoesOn
<1>6. CASE Refused
  <2>1. pc \in AttemptPlaces
    BY <1>0, <1>6, PlacesDo DEF Refused
  <2>2. pc' = pc + 1
    BY <1>0, <1>6, <2>1, PlanPlaces DEF Refused, Advance, AttemptPlaces
  <2>3. {j \in AttemptPlaces : j < pc'} = {j \in AttemptPlaces : j < pc} \cup {pc}
    BY <1>0, <2>1, <2>2 DEF AttemptPlaces
  <2> DEFINE new == [step |-> Plan[pc].step, why |-> Refusal(TheTx)]
  <2>4. attempts' = attempts \cup {new} /\ new.step = Plan[pc].step
    BY <1>6 DEF Refused
  <2>5. Told(new)
    BY <1>1, <1>6, <2>1, AttemptRefused DEF Refused
  <2>6. PICK a : a = new
    OBVIOUS
  <2>7. Told(a)'
    BY <2>5, <2>6, TakenStays
  <2> HIDE DEF new
  <2>8. \A b \in attempts' : Told(b)'
    BY <1>3, <2>4, <2>6, <2>7
  <2>9. {b.step : b \in attempts'} = {b.step : b \in attempts} \cup {Plan[pc].step}
    BY <2>4
  <2>10. {Plan[i].step : i \in {j \in AttemptPlaces : j < pc'}}
            = {Plan[i].step : i \in {j \in AttemptPlaces : j < pc}} \cup {Plan[pc].step}
    BY <2>3
  <2> QED  BY <1>2, <2>8, <2>9, <2>10
<1> QED  BY <1>1, <1>4, <1>5, <1>6

(* What a passed run in which no call was lost shows: every attempt was    *)
(* refused by the script of a coin that was there, the early refund by its *)
(* sequence lock at the least.  Had another spent the coin, the driver's   *)
(* own spend of it would have failed and the run with it.                  *)
THEOREM RejectionsWereScripts == Spec => []PassedRejectionsWereScripts
<1>1. Init => PlanTaken /\ AttemptsTold
  <2>1. ASSUME Init PROVE PlanTaken
    BY <2>1 DEF Init, PlanTaken, Taken, Known, Positions, SubmitPlaces
  <2>2. ASSUME Init PROVE AttemptsTold
    BY <2>2 DEF Init, AttemptsTold, AttemptPlaces
  <2> QED  BY <2>1, <2>2
<1>2. LedgerSound /\ PlanTaken /\ AttemptsTold /\ [Next]_vars
          => (PlanTaken /\ AttemptsTold)'
  BY PlanStaysTaken, StaysTold
<1>3. LedgerSound /\ PlanTaken /\ AttemptsTold => PassedRejectionsWereScripts
  <2> SUFFICES ASSUME LedgerSound, PlanTaken, AttemptsTold, outcome = "passed",
                      "lost" \notin disturbed
               PROVE  /\ {a.step : a \in attempts} =
                            WrongLaneSteps \cup {"staleUpdate", "earlyRefund"}
                      /\ \A a \in attempts :
                            a.why = "script" \/ (a.step = "earlyRefund" /\ a.why = "sequence")
    BY DEF PassedRejectionsWereScripts
  <2>1. Going /\ pc = 21
    BY DEF Going, PlanTaken
  <2>2. {j \in AttemptPlaces : j < pc} = AttemptPlaces
    BY <2>1 DEF AttemptPlaces
  <2>3. {Plan[i].step : i \in AttemptPlaces} = WrongLaneSteps \cup {"staleUpdate", "earlyRefund"}
    BY PlanSteps DEF AttemptPlaces, WrongLaneSteps
  <2>4. {a.step : a \in attempts} = WrongLaneSteps \cup {"staleUpdate", "earlyRefund"}
    BY <2>1, <2>2, <2>3 DEF AttemptsTold
  <2>5. ASSUME NEW a \in attempts PROVE ~TakenByOther(a.step)
    <3> DEFINE s == a.step
               own == Meant(s)
    <3>1. s \in {"nativeUpdate", "wrongUpdate", "staleUpdate", "nativeSettlement",
                 "wrongSettlement", "earlyRefund"}
      BY <2>4, <2>5 DEF WrongLaneSteps
    <3>2. own \in {"update", "settlement", "refund"} /\ own \in Steps
      BY DEF Meant, Steps
    <3>3. FirstCoin(DriverTx(own)) = FirstCoin(DriverTx(s)) /\ FirstCoin(DriverTx(own)) # WalletCoin
      BY <3>1, <3>2, WhatIsSpent, NotAWalletCoin DEF Meant, Steps
    <3>4. Known(DriverId(own))
      <4>1. \A i \in SubmitPlaces : Known(DriverId(Plan[i].step))
        BY <2>1 DEF PlanTaken, Taken, SubmitPlaces
      <4>2. {4, 8, 21} \subseteq SubmitPlaces
        BY DEF SubmitPlaces
      <4> QED  BY <3>2, <4>1, <4>2, PlanSteps
    <3>5. PICK j \in DOMAIN ledger : ledger[j].id = DriverId(own)
      BY <3>4 DEF Known, Positions
    <3>6. ledger[j] = DriverTx(own)
      BY <3>2, <3>5 DEF LedgerSound, Genuine
    <3>7. ASSUME NEW i \in DOMAIN ledger, FirstCoin(DriverTx(s)) \in Coins(ledger[i]) PROVE i = j
      BY <3>2, <3>3, <3>6, <3>7, DriverIns DEF LedgerSound
    <3> QED  BY <3>5, <3>7 DEF TakenByOther
  <2>6. \A a \in attempts : Told(a)
    BY <2>1 DEF AttemptsTold
  <2> QED  BY <2>4, <2>5, <2>6 DEF Told
<1> QED  BY <1>1, <1>2, <1>3, LedgerStaysSound, PTL DEF Spec

-----------------------------------------------------------------------------
(* An undisturbed run                                                      *)

Own ==
    <<"fundContest", "update", "settlement", "fundFactory", "materialise", "fundLnToKaspa",
      "settleLnToKaspa", "fundKaspaToLn", "settleKaspaToLn", "fundRefund", "refund">>

(* How many submissions come before a place of the plan.                   *)
Before(place) ==
    IF place = 1 THEN 0 ELSE IF place <= 4 THEN 1 ELSE IF place <= 8 THEN 2
    ELSE IF place <= 12 THEN 3 ELSE IF place <= 19 THEN place - 9 ELSE 10

Done == Before(pc) + (IF phase # "call" \/ outcome = "passed" THEN 1 ELSE 0)

(* How old, by more than one block, everything that is in blocks is.       *)
Age ==
    IF pc \in {10, 11} THEN 1
    ELSE IF pc = 20 THEN waited
    ELSE IF pc = 21 /\ phase = "call" /\ outcome = "running" THEN RefundSequence + RefundMargin
    ELSE 0

Undisturbed == disturbed = {} /\ foreign = 0

(* An undisturbed run goes by its plan: the ledger is what the plan says,  *)
(* everything but the transaction being submitted is in blocks, and these  *)
(* are as old as the blocks the plan mined for that make them.             *)
OnPlan ==
    Undisturbed =>
        /\ outcome # "failed"
        /\ Len(ledger) = Done
        /\ \A i \in 1 .. Len(ledger) : ledger[i] = DriverTx(Own[i])
        /\ Len(minedAt) = IF phase = "call" THEN Len(ledger) ELSE Len(ledger) - 1
        /\ phase # "call" => pc \in SubmitPlaces
        /\ \A i \in 1 .. Len(minedAt) : minedAt[i] + Age < daa

LEMMA OwnSteps ==
    /\ Len(Own) = 11
    /\ \A i \in 1 .. 11 : Own[i] \in Steps
    /\ \A i, j \in 1 .. 11 : Own[i] = Own[j] => i = j
    /\ \A place \in 1 .. 21 : Before(place) \in 0 .. 10
    /\ \A place \in SubmitPlaces : Plan[place].step = Own[Before(place) + 1]
    /\ \A place \in 1 .. 20 :
          Before(place + 1) = IF place \in SubmitPlaces THEN Before(place) + 1 ELSE Before(place)
<1>1. /\ Own[1] = "fundContest" /\ Own[2] = "update" /\ Own[3] = "settlement"
      /\ Own[4] = "fundFactory" /\ Own[5] = "materialise" /\ Own[6] = "fundLnToKaspa"
      /\ Own[7] = "settleLnToKaspa" /\ Own[8] = "fundKaspaToLn" /\ Own[9] = "settleKaspaToLn"
      /\ Own[10] = "fundRefund" /\ Own[11] = "refund" /\ Len(Own) = 11
  BY DEF Own
<1>2. \A i \in 1 .. 11 : Own[i] \in Steps
  BY <1>1 DEF Steps
<1>3. \A i, j \in 1 .. 11 : Own[i] = Own[j] => i = j
  BY <1>1
<1>4. \A place \in 1 .. 21 : Before(place) \in 0 .. 10
  BY DEF Before
<1>5. \A place \in SubmitPlaces : Plan[place].step = Own[Before(place) + 1]
  BY <1>1, PlanSteps DEF SubmitPlaces, Before
<1>6. \A place \in 1 .. 20 :
          Before(place + 1) = IF place \in SubmitPlaces THEN Before(place) + 1 ELSE Before(place)
  BY DEF SubmitPlaces, Before
<1> QED  BY <1>1, <1>2, <1>3, <1>4, <1>5, <1>6

(* The scripts take what the driver submits and nothing it attempts.       *)
LEMMA WhichBranch ==
    /\ \A s \in {"nativeSettlement", "wrongSettlement", "settlement"} : DriverTx(s).ins[1].settle = TRUE
    /\ \A s \in {"nativeUpdate", "wrongUpdate", "update", "staleUpdate"} :
          DriverTx(s).ins[1].settle = FALSE
    /\ DriverTx("settleLnToKaspa").ins[1].preimage = "lnToKaspa"
    /\ DriverTx("settleKaspaToLn").ins[1].preimage = "kaspaToLn"
BY DEF DriverTx, UpdateTx, StaleTx, SettlementTx, ClaimTx, Spend

LEMMA MadeFor ==
    /\ \A s \in {"nativeUpdate", "wrongUpdate", "update"} :
          DriverTx(Maker(s)).outs[1].to = "state1"
    /\ \A s \in {"staleUpdate", "nativeSettlement", "wrongSettlement", "settlement"} :
          DriverTx(Maker(s)).outs[1].to = "state2"
    /\ DriverTx(Maker("materialise")).outs[1].to = "factory"
    /\ DriverTx(Maker("settleLnToKaspa")).outs[1].to = "lnToKaspa"
    /\ DriverTx(Maker("settleKaspaToLn")).outs[1].to = "kaspaToLn"
    /\ \A s \in {"earlyRefund", "refund"} : DriverTx(Maker(s)).outs[1].to = "refund"
<1>1. \A o : <<o>>[1] = o
  OBVIOUS
<1>2. \A to, value : Pay(to, value).to = to /\ Bind(to, value).to = to /\ Start(to, value).to = to
  BY DEF Pay, Bind, Start
<1> QED  BY <1>1, <1>2, FundPays, WhatIsPaid DEF Maker

LEMMA ScriptsTake ==
    ASSUME NEW s \in {"update", "settlement", "materialise", "settleLnToKaspa",
                      "settleKaspaToLn", "refund"}
    PROVE  Unlocks(DriverTx(Maker(s)).outs[1].to, DriverTx(s), 1)
<1>1. \A c \in Contracts : PaysExactly(Payout(c), Payout(c))
  BY DEF PaysExactly
<1>2. {"contest", "factory", "refund", "lnToKaspa", "kaspaToLn"} \subseteq Contracts
  BY DEF Contracts, Swaps
<1>3. CASE s = "update"
  <2>1. DriverTx(s).outs = <<Bind("state2", State2Value)>>
    BY <1>3, WhatIsPaid
  <2>2. /\ Authorised(DriverTx(s), 1) = {1} /\ DriverTx(s).outs[1].to = "state2"
        /\ DriverTx(s).outs[1].value = State2Value
    BY <2>1 DEF Authorised, Bind, Start
  <2> QED  BY <1>3, <2>2, MadeFor, WhichLane, WhichBranch DEF Unlocks, State1Unlocks
<1>4. CASE s = "settlement"
  BY <1>1, <1>2, <1>4, MadeFor, WhichLane, WhichBranch, WhatIsPaid DEF Unlocks, State2Unlocks
<1>5. CASE s = "materialise"
  BY <1>1, <1>2, <1>5, MadeFor, WhatIsPaid DEF Unlocks, FactoryUnlocks
<1>6. CASE s = "settleLnToKaspa" \/ s = "settleKaspaToLn"
  BY <1>1, <1>2, <1>6, MadeFor, WhichBranch, WhatIsPaid DEF Unlocks, HashlockUnlocks, Swaps
<1>7. CASE s = "refund"
  BY <1>1, <1>2, <1>7, MadeFor, WhichSequence, WhatIsPaid, CovenantAssumption
     DEF Unlocks, RefundUnlocks
<1> QED  BY <1>3, <1>4, <1>5, <1>6, <1>7

LEMMA ScriptsRefuse ==
    ASSUME NEW i \in AttemptPlaces
    PROVE  ~Unlocks(DriverTx(Maker(Plan[i].step)).outs[1].to, DriverTx(Plan[i].step), 1)
<1> DEFINE s == Plan[i].step
<1>1. s \in {"nativeUpdate", "wrongUpdate", "staleUpdate", "nativeSettlement", "wrongSettlement",
             "earlyRefund"}
  BY PlanSteps DEF AttemptPlaces
<1> HIDE DEF s
<1>2. CASE s \in {"nativeUpdate", "wrongUpdate"}
  <2>1. DriverTx(s).lane # "expected"
    BY <1>2, WhichLane DEF Steps
  <2> QED  BY <1>2, <2>1, MadeFor DEF Unlocks, State1Unlocks, Swaps, s
<1>3. CASE s \in {"nativeSettlement", "wrongSettlement"}
  <2>1. DriverTx(s).lane # "expected"
    BY <1>3, WhichLane DEF Steps
  <2> QED  BY <1>3, <2>1, MadeFor DEF Unlocks, State2Unlocks, Swaps, s
<1>4. CASE s = "staleUpdate"
  BY <1>4, MadeFor, WhichBranch DEF Unlocks, State2Unlocks, Swaps, s
<1>5. CASE s = "earlyRefund"
  <2>1. ~(DriverTx(s).ins[1].seq >= RefundSequence)
    BY <1>5, WhichSequence, CovenantAssumption
  <2> QED  BY <1>5, <2>1, MadeFor DEF Unlocks, RefundUnlocks, Swaps, s
<1> QED  BY <1>1, <1>2, <1>3, <1>4, <1>5

(* What an undisturbed run's ledger has: the driver's own.                 *)
LEMMA OwnLedger ==
    ASSUME LedgerSound, OnPlan, Undisturbed
    PROVE  /\ Done \in 0 .. 11
           /\ DOMAIN ledger = 1 .. Done
           /\ \A i \in 1 .. Done : ledger[i] = DriverTx(Own[i]) /\ ledger[i].id = DriverId(Own[i])
<1>1. Done \in 0 .. 11
  <2>1. Before(pc) \in 0 .. 10
    BY OwnSteps DEF LedgerSound
  <2> QED  BY <2>1 DEF Done
<1>2. DOMAIN ledger = 1 .. Done /\ \A i \in 1 .. Done : ledger[i] = DriverTx(Own[i])
  BY DEF LedgerSound, OnPlan
<1>3. \A i \in 1 .. Done : ledger[i].id = DriverId(Own[i])
  <2>1. \A i \in 1 .. Done : i \in 1 .. 11
    BY <1>1
  <2>2. \A i \in 1 .. Done : Own[i] \in Steps
    BY <2>1, OwnSteps
  <2> QED  BY <1>2, <2>2, DriverTxTyped
<1> QED  BY <1>1, <1>2, <1>3

(* No two steps the driver submits spend one coin.                         *)
LEMMA OwnCoins ==
    \A i, j \in 1 .. 11 :
        /\ FirstCoin(DriverTx(Own[i])) # WalletCoin
        /\ FirstCoin(DriverTx(Own[i])) = FirstCoin(DriverTx(Own[j]))
        => i = j
<1>1. \A i \in 1 .. 11 : Own[i] \in Steps /\ Own[i] \notin {"nativeUpdate", "wrongUpdate",
            "staleUpdate", "nativeSettlement", "wrongSettlement", "earlyRefund"}
  BY DEF Own, Steps
<1>2. \A s \in Steps : FirstCoin(DriverTx(s)) \in {WalletCoin, OutputOf("fundContest"),
            OutputOf("update"), OutputOf("fundFactory"), OutputOf("fundLnToKaspa"),
            OutputOf("fundKaspaToLn"), OutputOf("fundRefund")}
  BY WhatIsSpent DEF Steps, FundSteps
<1>3. \A i, j \in 1 .. 11 :
          FirstCoin(DriverTx(Own[i])) # WalletCoin /\ FirstCoin(DriverTx(Own[i])) = FirstCoin(DriverTx(Own[j]))
          => Own[i] = Own[j]
  <2> SUFFICES ASSUME NEW i \in 1 .. 11, NEW j \in 1 .. 11,
                      FirstCoin(DriverTx(Own[i])) # WalletCoin,
                      FirstCoin(DriverTx(Own[i])) = FirstCoin(DriverTx(Own[j]))
               PROVE  Own[i] = Own[j]
    OBVIOUS
  <2> DEFINE s == Own[i]
             t == Own[j]
  <2>1. s \in Steps /\ t \in Steps
    BY <1>1
  <2>2. /\ s \notin {"nativeUpdate", "wrongUpdate", "staleUpdate", "nativeSettlement",
                     "wrongSettlement", "earlyRefund"}
        /\ t \notin {"nativeUpdate", "wrongUpdate", "staleUpdate", "nativeSettlement",
                     "wrongSettlement", "earlyRefund"}
    BY <1>1
  <2>3. FirstCoin(DriverTx(s)) = FirstCoin(DriverTx(t)) /\ FirstCoin(DriverTx(s)) # WalletCoin
    OBVIOUS
  <2> HIDE DEF s, t
  <2>4. s = t
    BY <1>2, <2>1, <2>2, <2>3, WhoSpends
  <2> QED  BY <2>4 DEF s, t
<1> QED  BY <1>3, OwnSteps

LEMMA SubmitPlacesFacts ==
    ASSUME NEW i \in SubmitPlaces, Plan[i].step \notin FundSteps
    PROVE  /\ Plan[i].step \in Spenders
           /\ Plan[i].step \in {"update", "settlement", "materialise", "settleLnToKaspa",
                                "settleKaspaToLn", "refund"}
           /\ Plan[i].step # "refund" => DriverTx(Plan[i].step).ins[1].seq = 0
           /\ Plan[i].step = "refund" => i = 21
           /\ \E m \in SubmitPlaces : Plan[m].step = Maker(Plan[i].step) /\ m < i
<1>1. Plan[i].step \in {"update", "settlement", "materialise", "settleLnToKaspa",
                        "settleKaspaToLn", "refund"}
  BY PlanSteps DEF SubmitPlaces, FundSteps
<1>2. Plan[i].step \in Spenders
  BY <1>1 DEF Spenders, Steps, FundSteps
<1>3. Plan[i].step # "refund" => DriverTx(Plan[i].step).ins[1].seq = 0
  BY <1>1, WhichSequence DEF Steps
<1>4. Plan[i].step = "refund" => i = 21
  BY PlanSteps DEF SubmitPlaces
<1>5. \E m \in SubmitPlaces : Plan[m].step = Maker(Plan[i].step) /\ m < i
  <2>1. i \in {4, 8, 13, 15, 17, 21}
    BY PlanSteps DEF SubmitPlaces, FundSteps
  <2>2. {1, 4, 12, 14, 16, 18} \subseteq SubmitPlaces
    BY DEF SubmitPlaces
  <2>3. CASE i = 4
    BY <2>2, <2>3, PlanSteps DEF Maker
  <2>4. CASE i = 8
    BY <2>2, <2>4, PlanSteps DEF Maker
  <2>5. CASE i = 13
    BY <2>2, <2>5, PlanSteps DEF Maker
  <2>6. CASE i = 15
    BY <2>2, <2>6, PlanSteps DEF Maker
  <2>7. CASE i = 17
    BY <2>2, <2>7, PlanSteps DEF Maker
  <2>8. CASE i = 21
    BY <2>2, <2>8, PlanSteps DEF Maker
  <2> QED  BY <2>1, <2>3, <2>4, <2>5, <2>6, <2>7, <2>8
<1> QED  BY <1>1, <1>2, <1>3, <1>4, <1>5

(* Undisturbed, the node takes what the driver submits.                    *)
LEMMA SubmissionTaken ==
    ASSUME LedgerSound, PlanTaken, OnPlan, Undisturbed, Running,
           pc \in SubmitPlaces, phase = "call"
    PROVE  /\ Refusal(TheTx) = "none"
           /\ Done = Before(pc) /\ Done \in 0 .. 10 /\ TheTx = DriverTx(Own[Done + 1])
<1> DEFINE s == Plan[pc].step
<1>1. s \in Steps /\ TheTx = DriverTx(s) /\ TheTx.id = DriverId(s)
  BY PlacesDo, DriverTxTyped DEF TheTx
<1>2. Done = Before(pc)
  <2>1. Before(pc) \in 0 .. 10
    BY OwnSteps DEF LedgerSound
  <2> QED  BY <2>1 DEF Done, Running
<1>3. Done \in 0 .. 10 /\ s = Own[Done + 1]
  BY <1>2, OwnSteps DEF LedgerSound
<1>4. Going /\ ~Taken(pc)
  BY DEF Undisturbed, OnPlan, Going, Taken, Running, LedgerSound
<1>5. ~Known(TheTx.id)
  BY <1>1, <1>4 DEF PlanTaken
<1>6. CASE s \in FundSteps
  BY <1>1, <1>2, <1>3, <1>5, <1>6, FundingTaken
<1>7. CASE s \notin FundSteps
  <2>1. s \in Spenders /\ s \in {"update", "settlement", "materialise", "settleLnToKaspa",
                                 "settleKaspaToLn", "refund"}
    BY <1>7, SubmitPlacesFacts
  <2>2. PICK m \in SubmitPlaces : Plan[m].step = Maker(s) /\ m < pc
    BY <1>7, SubmitPlacesFacts
  <2>3. Known(DriverId(Maker(s)))
    BY <1>4, <2>2 DEF PlanTaken, Taken
  <2>4. FirstCoin(TheTx) = OutputOf(Maker(s)) /\ FirstCoin(TheTx) # WalletCoin /\ Maker(s) \in Steps
    BY <1>1, <2>1, MakerMakes, NotAWalletCoin
  <2>5. Exists(FirstCoin(TheTx)) /\ ValuesFit(TheTx)
    BY <1>1, <2>1, <2>3, DriverValuesFit
  <2>6. OutputAt(FirstCoin(TheTx)) = DriverTx(Maker(s)).outs[1]
    BY <2>1, <2>3, <2>4, CoinCovers, MadeOutput
  <2>7. Unlocks(OutputAt(FirstCoin(TheTx)).to, TheTx, 1)
    BY <1>1, <2>1, <2>6, ScriptsTake
  <2>8. SpentAt(FirstCoin(TheTx)) = {}
    <3> SUFFICES ASSUME NEW i \in DOMAIN ledger, FirstCoin(TheTx) \in Coins(ledger[i]) PROVE FALSE
      BY DEF SpentAt
    <3>1. i \in 1 .. Done /\ ledger[i] = DriverTx(Own[i])
      BY OwnLedger
    <3>2. i \in 1 .. 11 /\ Done + 1 \in 1 .. 11 /\ i # Done + 1
      BY <1>3, <3>1
    <3>3. FirstCoin(DriverTx(Own[i])) = FirstCoin(DriverTx(Own[Done + 1]))
      <4>1. Own[i] \in Steps
        BY <3>2, OwnSteps
      <4> QED  BY <1>1, <1>3, <3>1, <4>1, DriverIns
    <3> QED  BY <1>1, <1>3, <2>4, <3>2, <3>3, OwnCoins
  <2>9. SequenceMet(TheTx.ins[1])
    <3>1. CASE s # "refund"
      BY <1>1, <1>7, <3>1, SubmitPlacesFacts DEF SequenceMet
    <3>2. CASE s = "refund"
      <4>1. pc = 21 /\ Done = 10 /\ FirstCoin(TheTx).tx = DriverId("fundRefund")
        BY <1>2, <1>7, <2>4, <3>2, SubmitPlacesFacts DEF Before, Maker, OutputOf
      <4>2. TheTx.ins[1].seq = RefundSequence /\ RefundSequence \in Nat /\ RefundMargin \in Nat
        BY <1>1, <3>2, WhichSequence, CovenantAssumption, DriverAssumption
      <4>3. 10 \in Positions(FirstCoin(TheTx).tx)
        BY <4>1, OwnLedger DEF Positions, Own
      <4>4. Len(minedAt) = 10 /\ minedAt[10] \in Nat /\ daa \in Nat
        <5>1. Len(minedAt) = 10 /\ minedAt \in Seq(Nat)
          BY <4>1 DEF OnPlan, LedgerSound
        <5>2. minedAt[10] \in Nat
          <6>1. 10 \in 1 .. Len(minedAt)
            BY <5>1
          <6> QED  BY <5>1, <6>1, ElementOfSeq
        <5>3. daa \in Nat
          BY DEF LedgerSound
        <5> QED  BY <5>1, <5>2, <5>3
      <4>5. minedAt[10] + (RefundSequence + RefundMargin) < daa
        BY <4>1, <4>4 DEF OnPlan, Age, Running
      <4>6. minedAt[10] + RefundSequence <= daa
        BY <4>2, <4>4, <4>5
      <4> QED  BY <4>2, <4>3, <4>4, <4>6 DEF SequenceMet, FirstCoin
    <3> QED  BY <3>1, <3>2
  <2> QED  BY <1>1, <1>2, <1>3, <1>5, <2>4, <2>5, <2>7, <2>8, <2>9, DriverRefusal DEF Unspent
<1> QED  BY <1>6, <1>7

(* The node refuses what the driver attempts, whoever else spends.         *)
LEMMA AttemptFails ==
    ASSUME LedgerSound, PlanTaken, Going, pc \in AttemptPlaces
    PROVE  Refusal(TheTx) # "none"
<1> DEFINE s == Plan[pc].step
<1>1. s \in Spenders /\ s \in Steps /\ TheTx = DriverTx(s)
  BY AttemptPlacesFacts DEF Spenders, TheTx
<1>2. PICK m \in SubmitPlaces : Plan[m].step = Maker(s) /\ m < pc
  BY AttemptPlacesFacts
<1>3. Known(DriverId(Maker(s)))
  BY <1>2 DEF PlanTaken, Taken
<1>4. FirstCoin(TheTx) = OutputOf(Maker(s)) /\ FirstCoin(TheTx) # WalletCoin /\ Maker(s) \in Steps
  BY <1>1, MakerMakes, NotAWalletCoin
<1>5. OutputAt(FirstCoin(TheTx)) = DriverTx(Maker(s)).outs[1]
  BY <1>1, <1>3, <1>4, CoinCovers, MadeOutput
<1>6. ~Unlocks(OutputAt(FirstCoin(TheTx)).to, TheTx, 1)
  BY <1>1, <1>5, ScriptsRefuse
<1> QED  BY <1>1, <1>4, <1>6, DriverRefusal

(* The first three transactions of an undisturbed run, in blocks.          *)
LEMMA ContestMined ==
    ASSUME LedgerSound, OnPlan, Undisturbed, Running, pc \in {10, 11}, phase = "call"
    PROVE  /\ DOMAIN ledger = {1, 2, 3} /\ DOMAIN minedAt = {1, 2, 3}
           /\ ledger[1] = DriverTx("fundContest") /\ ledger[2] = DriverTx("update")
           /\ ledger[3] = DriverTx("settlement")
           /\ Visible = {1, 2, 3}
<1>1. Done = 3 /\ Age = 1
  BY DEF Done, Before, Age, Running
<1>2. Len(ledger) = 3 /\ Len(minedAt) = 3
  BY <1>1 DEF OnPlan
<1>3. DOMAIN ledger = {1, 2, 3} /\ DOMAIN minedAt = {1, 2, 3}
  BY <1>2 DEF LedgerSound
<1>4. /\ ledger[1] = DriverTx("fundContest") /\ ledger[2] = DriverTx("update")
      /\ ledger[3] = DriverTx("settlement")
  BY <1>2 DEF OnPlan, Own
<1>5. \A i \in {1, 2, 3} : minedAt[i] + 1 < daa
  BY <1>1, <1>2 DEF OnPlan
<1> QED  BY <1>3, <1>4, <1>5 DEF Visible

(* What a transaction pays a party.                                        *)
PaidBy(outs, party) ==
    SumFunction([k \in DOMAIN outs |-> IF outs[k].to = party THEN outs[k].value ELSE 0])

LEMMA PaidByOne ==
    ASSUME NEW o, o.value \in Nat, NEW party
    PROVE  PaidBy(<<o>>, party) = IF o.to = party THEN o.value ELSE 0
<1> DEFINE f == [k \in DOMAIN <<o>> |-> IF <<o>>[k].to = party THEN <<o>>[k].value ELSE 0]
           v == IF o.to = party THEN o.value ELSE 0
<1>1. f[1] = v /\ v \in Nat /\ DOMAIN f = {1}
  OBVIOUS
<1> HIDE DEF f, v
<1>2. f[1] \in Nat
  BY <1>1
<1>3. SumFunction(f) = f[1]
  BY <1>1, <1>2, SumOfOne, Zenon
<1> QED  BY <1>1, <1>3 DEF PaidBy, f, v

LEMMA PaidByTwo ==
    ASSUME NEW o, NEW p, o.value \in Nat, p.value \in Nat, NEW party
    PROVE  PaidBy(<<o, p>>, party) = (IF o.to = party THEN o.value ELSE 0)
                                        + (IF p.to = party THEN p.value ELSE 0)
<1> DEFINE f == [k \in DOMAIN <<o, p>> |->
                   IF <<o, p>>[k].to = party THEN <<o, p>>[k].value ELSE 0]
           v == IF o.to = party THEN o.value ELSE 0
           w == IF p.to = party THEN p.value ELSE 0
<1>1. f[1] = v /\ v \in Nat /\ f[2] = w /\ w \in Nat /\ DOMAIN f = {1, 2}
  OBVIOUS
<1> HIDE DEF f, v, w
<1>2. f[1] \in Nat /\ f[2] \in Nat /\ 1 # 2
  BY <1>1
<1>3. SumFunction(f) = f[1] + f[2]
  BY <1>1, <1>2, SumOfTwo, Zenon
<1>4. SumFunction(f) = v + w
  BY <1>1, <1>3
<1> QED  BY <1>4 DEF PaidBy, f, v, w

(* Undisturbed, each party has in the end what the settlement pays it.     *)
LEMMA BalancesRight ==
    ASSUME LedgerSound, OnPlan, Undisturbed, Running, pc = 10, phase = "call",
           NEW k \in {1, 2}
    PROVE  PaidInBlocks(Payout("contest")[k].to) = Payout("contest")[k].value
<1> DEFINE part == (SettlementValue * 60) \div 100
           party == Payout("contest")[k].to
           value == Payout("contest")[k].value
           f == [i \in DOMAIN minedAt |-> PaidBy(ledger[i].outs, party)]
<1>1. part \in Nat /\ SettlementValue - part \in Nat
  <2>1. 60 \in 0 .. 100 /\ SettlementValue \in Nat
    BY ValuesAreNumbers
  <2> QED  BY <2>1, ValuesAreNumbers
<1>2. Payout("contest") = <<Pay("alice", part), Pay("bob", SettlementValue - part)>>
  BY PayoutIs DEF Split
<1>3. \A to, v : /\ Pay(to, v).to = to /\ Pay(to, v).value = v
                 /\ Start(to, v).to = to /\ Start(to, v).value = v
                 /\ Bind(to, v).to = to /\ Bind(to, v).value = v
  BY DEF Pay, Start, Bind
<1> HIDE DEF part
<1>4. /\ party \in {"alice", "bob"}
      /\ party = "alice" => value = part
      /\ party = "bob" => value = SettlementValue - part
      /\ value \in Nat
  BY <1>1, <1>2, <1>3
<1> HIDE DEF party, value
<1>5. /\ ledger[1].outs = <<Start("state1", FundingValue)>>
      /\ ledger[2].outs = <<Bind("state2", State2Value)>>
      /\ ledger[3].outs = <<Pay("alice", part), Pay("bob", SettlementValue - part)>>
      /\ DOMAIN minedAt = {1, 2, 3}
  BY <1>2, ContestMined, WhatIsPaid, FundPays
<1>6. PaidBy(ledger[1].outs, party) = 0
  <2>1. PICK o : o = Start("state1", FundingValue)
    OBVIOUS
  <2>2. o.value \in Nat /\ o.to = "state1"
    BY <1>3, <2>1, CovenantAssumption
  <2>3. PaidBy(<<o>>, party) = 0
    BY <1>4, <2>2, PaidByOne
  <2> QED  BY <1>5, <2>1, <2>3
<1>7. PaidBy(ledger[2].outs, party) = 0
  <2>1. PICK o : o = Bind("state2", State2Value)
    OBVIOUS
  <2>2. o.value \in Nat /\ o.to = "state2"
    BY <1>3, <2>1, ValuesAreNumbers
  <2>3. PaidBy(<<o>>, party) = 0
    BY <1>4, <2>2, PaidByOne
  <2> QED  BY <1>5, <2>1, <2>3
<1>8. PaidBy(ledger[3].outs, party) = value
  <2>1. PICK o, p : o = Pay("alice", part) /\ p = Pay("bob", SettlementValue - part)
    OBVIOUS
  <2>2. /\ o.value = part /\ o.value \in Nat /\ o.to = "alice"
        /\ p.value = SettlementValue - part /\ p.value \in Nat /\ p.to = "bob"
    BY <1>1, <1>3, <2>1
  <2>3. PaidBy(<<o, p>>, party) = (IF o.to = party THEN o.value ELSE 0)
                                     + (IF p.to = party THEN p.value ELSE 0)
    BY <2>2, PaidByTwo
  <2>4. PaidBy(<<o, p>>, party) = value
    BY <1>4, <2>2, <2>3
  <2> QED  BY <1>5, <2>1, <2>4
<1>9. f[1] = 0 /\ f[2] = 0 /\ f[3] = value /\ DOMAIN f = {1, 2, 3}
  BY <1>5, <1>6, <1>7, <1>8
<1>10. PaidInBlocks(party) = SumFunction(f)
  BY DEF PaidInBlocks, PaidBy
<1> HIDE DEF f
<1>11. f[1] \in Nat /\ f[2] \in Nat /\ f[3] \in Nat /\ 1 # 2 /\ 1 # 3 /\ 2 # 3
  BY <1>4, <1>9
<1>12. SumFunction(f) = f[1] + f[2] + f[3]
  BY <1>9, <1>11, SumOfThree, Zenon
<1>13. PaidInBlocks(party) = value
  BY <1>4, <1>9, <1>10, <1>12
<1> QED  BY <1>13 DEF party, value

(* Undisturbed, the lane monitor finds the contest on the lane in order    *)
(* and none of the attempts.                                               *)
LEMMA LaneRight ==
    ASSUME LedgerSound, PlanTaken, OnPlan, Undisturbed, Running, pc = 11, phase = "call"
    PROVE  /\ InLaneOrder("fundContest", "update")
           /\ InLaneOrder("update", "settlement")
           /\ NoneAccepted(WrongLaneSteps)
<1>1. Visible = {1, 2, 3} /\ \A i \in {1, 2, 3} : ledger[i].lane = "expected"
  BY ContestMined, WhichLane
<1>2. /\ ledger[1].id = DriverId("fundContest") /\ ledger[2].id = DriverId("update")
      /\ ledger[3].id = DriverId("settlement")
  BY ContestMined, DriverTxTyped DEF Steps
<1>3. /\ [tx |-> DriverId("fundContest"), order |-> 1] \in LaneEvents
      /\ [tx |-> DriverId("update"), order |-> 2] \in LaneEvents
      /\ [tx |-> DriverId("settlement"), order |-> 3] \in LaneEvents
  BY <1>1, <1>2 DEF LaneEvents
<1>4. InLaneOrder("fundContest", "update") /\ InLaneOrder("update", "settlement")
  BY <1>3 DEF InLaneOrder
<1>5. \A step \in WrongLaneSteps : ~Known(DriverId(step))
  <2>1. Going
    BY DEF Going, Undisturbed, OnPlan
  <2>2. \A step \in WrongLaneSteps : \E i \in AttemptPlaces : Plan[i].step = step
    <3>1. {2, 3, 6, 7} \subseteq AttemptPlaces
      BY DEF AttemptPlaces
    <3> QED  BY <3>1, PlanSteps DEF WrongLaneSteps
  <2> QED  BY <2>1, <2>2 DEF PlanTaken
<1>6. NoneAccepted(WrongLaneSteps)
  <2>1. Visible \subseteq DOMAIN ledger
    BY <1>1, ContestMined
  <2> QED  BY <1>5, <2>1 DEF NoneAccepted, Known, Positions
<1> QED  BY <1>4, <1>6

LEMMA Ages ==
    ASSUME LedgerSound, RestTyped
    PROVE  /\ Age \in Nat /\ daa \in Nat /\ Len(ledger) \in Nat /\ Len(minedAt) \in Nat
           /\ \A i \in 1 .. Len(minedAt) : minedAt[i] \in Nat
           /\ pc \in 1 .. 21
<1>1. Age \in Nat
  BY CovenantAssumption, DriverAssumption DEF Age, RestTyped
<1>2. minedAt \in Seq(Nat)
  BY DEF LedgerSound
<1>3. \A i \in 1 .. Len(minedAt) : minedAt[i] \in Nat
  BY <1>2, ElementOfSeq
<1> QED  BY <1>1, <1>3 DEF LedgerSound

LEMMA MinedNow ==
    ASSUME LedgerSound, Block
    PROVE  /\ UNCHANGED ledger /\ daa' = daa + 1 /\ Len(minedAt') = Len(ledger)
           /\ \A i \in 1 .. Len(minedAt') :
                 minedAt'[i] = IF i <= Len(minedAt) THEN minedAt[i] ELSE daa
<1>1. UNCHANGED ledger /\ daa' = daa + 1 /\ Len(minedAt') = Len(ledger)
  BY BlockFacts
<1>2. DOMAIN ledger = 1 .. Len(ledger)
  BY DEF LedgerSound
<1> QED  BY <1>1, <1>2 DEF Block

(* Only others and a lost call disturb.                                    *)
LEMMA DrivenSteps ==
    ASSUME RestTyped, [Next]_vars, Undisturbed'
    PROVE  /\ Undisturbed
           /\ \/ SubmitTx \/ WaitForMempool \/ MineSubmitted \/ AttemptTx
              \/ MineOne \/ CheckBalances \/ MonitorLane \/ UNCHANGED vars
<1>1. CASE SubmitTx \/ WaitForMempool \/ MineSubmitted \/ AttemptTx
  BY <1>1 DEF SubmitTx, WaitForMempool, MineSubmitted, AttemptTx, Undisturbed
<1>2. CASE MineOne \/ CheckBalances \/ MonitorLane \/ UNCHANGED vars
  BY <1>2 DEF MineOne, CheckBalances, MonitorLane, vars, Undisturbed
<1>3. CASE \E tx \in StrangerTxs : Stranger(tx)
  BY <1>3 DEF Stranger, Undisturbed
<1>4. CASE ForeignBlock
  BY <1>4, DriverAssumption DEF ForeignBlock, Undisturbed, RestTyped
<1>5. CASE LoseCall
  BY <1>5 DEF LoseCall, Undisturbed
<1> QED  BY <1>1, <1>2, <1>3, <1>4, <1>5 DEF Next

(* The conjuncts of OnPlan, by name.                                       *)
OwnOnly ==
    /\ Len(ledger) = Done
    /\ \A i \in 1 .. Len(ledger) : ledger[i] = DriverTx(Own[i])

Mined ==
    /\ Len(minedAt) = IF phase = "call" THEN Len(ledger) ELSE Len(ledger) - 1
    /\ phase # "call" => pc \in SubmitPlaces
    /\ \A i \in 1 .. Len(minedAt) : minedAt[i] + Age < daa

(* Where the plan goes on to, and what that does to Done and Age.          *)
LEMMA AdvanceFacts ==
    ASSUME LedgerSound, RestTyped, Running, Advance, phase # "call" <=> pc \in SubmitPlaces
    PROVE  /\ outcome' # "failed" /\ phase' = "call" /\ Done' = Done
           /\ pc \notin {9, 10, 20} => Age' = 0
           /\ pc \in {9, 10} => Age' = 1
           /\ pc = 20 => Age' = RefundSequence + RefundMargin
<1>1. pc \in 1 .. 21 /\ Len(Plan) = 21 /\ 21 \in SubmitPlaces
  BY PlanPlaces DEF LedgerSound, SubmitPlaces
<1>2. phase' = "call" /\ waited' = 0 /\ outcome' \in {"running", "passed"}
  BY DEF Advance
<1>3. CASE pc = 21
  <2>1. pc' = 21 /\ outcome' = "passed"
    BY <1>1, <1>3 DEF Advance
  <2> QED  BY <1>1, <1>2, <1>3, <2>1 DEF Done, Age, Running, Before
<1>4. CASE pc # 21
  <2>1. pc' = pc + 1 /\ outcome' = "running" /\ pc \in 1 .. 20
    BY <1>1, <1>4 DEF Advance
  <2>2. Before(pc) \in 0 .. 10 /\ Before(pc') = IF pc \in SubmitPlaces THEN Before(pc) + 1 ELSE Before(pc)
    BY <1>1, <2>1, OwnSteps
  <2>3. Done' = Before(pc')
    <3>1. Before(pc)' = Before(pc')
      BY DEF Before
    <3>2. Before(pc') \in 0 .. 11
      BY <2>2
    <3> QED  BY <1>2, <2>1, <3>1, <3>2 DEF Done
  <2>4. Done = Before(pc')
    BY <2>2 DEF Done, Running
  <2>5. /\ pc \notin {9, 10, 20} => Age' = 0
        /\ pc \in {9, 10} => Age' = 1
        /\ pc = 20 => Age' = RefundSequence + RefundMargin
    BY <1>2, <2>1 DEF Age
  <2> QED  BY <1>2, <2>1, <2>3, <2>4, <2>5
<1> QED  BY <1>3, <1>4

LEMMA StaysOnPlan ==
    ASSUME LedgerSound, RestTyped, PlanTaken, OnPlan, [Next]_vars
    PROVE  OnPlan'
<1> SUFFICES ASSUME Undisturbed' PROVE (outcome # "failed")' /\ OwnOnly' /\ Mined'
  BY DEF OnPlan, OwnOnly, Mined
<1>0. /\ Undisturbed
      /\ \/ SubmitTx \/ WaitForMempool \/ MineSubmitted \/ AttemptTx
         \/ MineOne \/ CheckBalances \/ MonitorLane \/ UNCHANGED vars
  BY DrivenSteps
<1>1. outcome # "failed" /\ OwnOnly /\ Mined /\ Going
  BY <1>0 DEF OnPlan, OwnOnly, Mined, Undisturbed, Going
<1>2. /\ Age \in Nat /\ daa \in Nat /\ Len(ledger) \in Nat /\ Len(minedAt) \in Nat
      /\ \A i \in 1 .. Len(minedAt) : minedAt[i] \in Nat
      /\ pc \in 1 .. 21
  BY Ages
<1>3. \A i \in 1 .. Len(minedAt) : minedAt[i] + 0 < daa
  BY <1>1, <1>2 DEF Mined
<1>4. ASSUME UNCHANGED ledger, Done' = Done PROVE OwnOnly'
  BY <1>1, <1>4 DEF OwnOnly
<1>5. CASE SubmitTx
  <2>1. Running /\ pc \in SubmitPlaces /\ phase = "call"
    BY <1>2, <1>5, PlacesDo DEF SubmitTx, At
  <2>2. /\ Refusal(TheTx) = "none" /\ TheTx \in Tx
        /\ Done = Before(pc) /\ Done \in 0 .. 10 /\ TheTx = DriverTx(Own[Done + 1])
    <3>1. TheTx \in Tx
      BY <2>1, PlacesDo, DriverTxTyped DEF TheTx
    <3> QED  BY <1>0, <2>1, <3>1, SubmissionTaken
  <2>3. /\ Accept(TheTx) /\ phase' = "mempool" /\ UNCHANGED <<pc, waited, outcome>>
        /\ UNCHANGED <<minedAt, daa>>
    BY <1>5, <2>2 DEF SubmitTx, Accept
  <2>4. /\ Len(ledger') = Len(ledger) + 1 /\ ledger'[Len(ledger) + 1] = TheTx
        /\ \A i \in DOMAIN ledger : ledger'[i] = ledger[i]
        /\ DOMAIN ledger = 1 .. Len(ledger)
    BY <2>2, <2>3, LongerLedger DEF LedgerSound
  <2>5. Done' = Done + 1
    BY <2>2, <2>3 DEF Done, Before
  <2>6. Age' = 0
    BY <2>1, <2>3 DEF Age, SubmitPlaces
  <2>7. OwnOnly'
    <3>1. Len(ledger') = Done' /\ Len(ledger) = Done
      BY <1>1, <2>4, <2>5 DEF OwnOnly
    <3>2. ASSUME NEW i \in 1 .. Len(ledger') PROVE ledger'[i] = DriverTx(Own[i])
      <4>1. CASE i = Len(ledger) + 1
        BY <2>2, <2>4, <3>1, <4>1
      <4>2. CASE i \in 1 .. Len(ledger)
        BY <1>1, <2>4, <4>2 DEF OwnOnly
      <4> QED  BY <1>2, <2>4, <4>1, <4>2
    <3> QED  BY <3>1, <3>2 DEF OwnOnly
  <2>8. Mined'
    BY <1>1, <1>2, <1>3, <2>1, <2>3, <2>4, <2>6 DEF Mined
  <2> QED  BY <1>1, <2>3, <2>7, <2>8
<1>6. CASE WaitForMempool
  <2>1. Running /\ pc \in SubmitPlaces /\ phase = "mempool" /\ UNCHANGED node
    BY <1>2, <1>6, PlacesDo DEF WaitForMempool, At
  <2>2. Len(ledger) \in Positions(TheTx.id) /\ Len(ledger) > Len(minedAt)
    <3>1. Done = Before(pc) + 1 /\ Done \in 1 .. 11 /\ Plan[pc].step = Own[Done]
      <4>1. Before(pc) \in 0 .. 10 /\ Plan[pc].step = Own[Before(pc) + 1]
        BY <1>2, <2>1, OwnSteps
      <4> QED  BY <2>1, <4>1 DEF Done
    <3>2. TheTx = ledger[Done] /\ Done \in DOMAIN ledger /\ Done = Len(ledger)
      BY <1>0, <1>1, <3>1, OwnLedger DEF TheTx, OwnOnly
    <3>3. Len(minedAt) = Len(ledger) - 1
      BY <1>1, <2>1 DEF Mined
    <3> QED  BY <1>2, <3>2, <3>3 DEF Positions
  <2>3. phase' = "mine" /\ UNCHANGED <<pc, waited, outcome>>
    BY <1>2, <1>6, <2>2 DEF WaitForMempool
  <2>4. UNCHANGED <<ledger, minedAt, daa>>
    BY <2>1 DEF node
  <2>5. Done' = Done /\ Age' = 0
    BY <2>1, <2>3 DEF Done, Before, Age, SubmitPlaces
  <2>6. Mined'
    BY <1>1, <1>2, <1>3, <2>1, <2>3, <2>4, <2>5 DEF Mined
  <2> QED  BY <1>1, <1>4, <2>3, <2>4, <2>5, <2>6
<1>7. CASE MineSubmitted
  <2>1. Running /\ pc \in SubmitPlaces /\ phase = "mine" /\ Block /\ Advance
    BY <1>2, <1>7, PlacesDo DEF MineSubmitted, At
  <2>2. /\ UNCHANGED ledger /\ daa' = daa + 1 /\ Len(minedAt') = Len(ledger)
        /\ \A i \in 1 .. Len(minedAt') :
              minedAt'[i] = IF i <= Len(minedAt) THEN minedAt[i] ELSE daa
    BY <2>1, MinedNow
  <2>3. outcome' # "failed" /\ phase' = "call" /\ Done' = Done /\ Age' = 0
    BY <2>1, AdvanceFacts DEF SubmitPlaces
  <2>4. \A i \in 1 .. Len(minedAt') : minedAt'[i] + 0 < daa'
    BY <1>2, <1>3, <2>2
  <2>5. Mined'
    BY <2>2, <2>3, <2>4 DEF Mined
  <2> QED  BY <1>4, <2>2, <2>3, <2>5
<1>8. CASE AttemptTx
  <2>1. Running /\ pc \in AttemptPlaces /\ phase = "call"
    BY <1>2, <1>8, PlacesDo DEF AttemptTx, At
  <2>2. Refusal(TheTx) # "none"
    BY <1>1, <2>1, AttemptFails
  <2>3. Advance /\ UNCHANGED <<ledger, minedAt, daa>>
    BY <1>8, <2>2 DEF AttemptTx, node
  <2>4. outcome' # "failed" /\ phase' = "call" /\ Done' = Done /\ Age' = 0
    BY <2>1, <2>3, AdvanceFacts DEF SubmitPlaces, AttemptPlaces
  <2>5. Mined'
    BY <1>1, <1>3, <2>1, <2>3, <2>4 DEF Mined
  <2> QED  BY <1>4, <2>3, <2>4, <2>5
<1>9. CASE MineOne
  <2>1. /\ Running /\ pc \in {9, 20} /\ phase = "call" /\ Block /\ waited \in Nat
        /\ \/ waited + 1 = Plan[pc].blocks /\ Advance
           \/ waited' = waited + 1 /\ UNCHANGED <<pc, phase, outcome>>
    BY <1>2, <1>9, PlanDoes DEF MineOne, At, RestTyped
  <2>2. UNCHANGED ledger /\ daa' = daa + 1 /\ Len(minedAt') = Len(minedAt)
        /\ \A i \in 1 .. Len(minedAt) : minedAt'[i] = minedAt[i]
    BY <1>1, <2>1, MinedNow DEF Mined
  <2>3. \A i \in 1 .. Len(minedAt) : minedAt'[i] + (Age + 1) < daa'
    <3>1. \A i \in 1 .. Len(minedAt) : minedAt[i] + Age < daa
      BY <1>1 DEF Mined
    <3> QED  BY <1>2, <2>2, <3>1
  <2>4. CASE waited + 1 = Plan[pc].blocks /\ Advance
    <3>1. outcome' # "failed" /\ phase' = "call" /\ Done' = Done
      BY <2>1, <2>4, AdvanceFacts DEF SubmitPlaces
    <3>2. Age' = Age + 1
      <4>1. CASE pc = 9
        BY <2>1, <2>4, <4>1, AdvanceFacts DEF SubmitPlaces, Age
      <4>2. CASE pc = 20
        <5>1. Plan[20].blocks = RefundSequence + RefundMargin
          BY PlanPlaces DEF MineBlocks, Do
        <5>2. Age = waited /\ Age' = RefundSequence + RefundMargin
          BY <2>1, <2>4, <4>2, AdvanceFacts DEF SubmitPlaces, Age
        <5> QED  BY <2>4, <4>2, <5>1, <5>2
      <4> QED  BY <2>1, <4>1, <4>2
    <3>3. Mined'
      BY <1>1, <2>1, <2>2, <2>3, <3>1, <3>2 DEF Mined
    <3> QED  BY <1>4, <2>2, <3>1, <3>3
  <2>5. CASE waited' = waited + 1 /\ UNCHANGED <<pc, phase, outcome>>
    <3>1. Done' = Done
      BY <2>5 DEF Done, Before
    <3>2. Age' \in Nat /\ Age' <= Age + 1
      BY <2>1, <2>5 DEF Age
    <3>3. \A i \in 1 .. Len(minedAt) : minedAt'[i] + Age' < daa'
      BY <1>2, <2>2, <2>3, <3>2
    <3>4. Mined'
      BY <1>1, <2>1, <2>2, <2>5, <3>3 DEF Mined
    <3> QED  BY <1>1, <1>4, <2>2, <2>5, <3>1, <3>4
  <2> QED  BY <2>1, <2>4, <2>5
<1>10. CASE CheckBalances
  <2>1. Running /\ pc = 10 /\ phase = "call" /\ UNCHANGED <<ledger, minedAt, daa>>
    BY <1>2, <1>10, PlanDoes DEF CheckBalances, At, node
  <2>2. Advance
    BY <1>0, <1>10, <2>1, BalancesRight DEF CheckBalances
  <2>3. outcome' # "failed" /\ phase' = "call" /\ Done' = Done /\ Age' = 1 /\ Age = 1
    BY <2>1, <2>2, AdvanceFacts DEF SubmitPlaces, Age
  <2>4. Mined'
    BY <1>1, <2>1, <2>3 DEF Mined
  <2> QED  BY <1>4, <2>1, <2>3, <2>4
<1>11. CASE MonitorLane
  <2>1. Running /\ pc = 11 /\ phase = "call" /\ UNCHANGED <<ledger, minedAt, daa>>
    BY <1>2, <1>11, PlanDoes DEF MonitorLane, At, node
  <2>2. Advance
    BY <1>0, <1>11, <2>1, LaneRight DEF MonitorLane
  <2>3. outcome' # "failed" /\ phase' = "call" /\ Done' = Done /\ Age' = 0
    BY <2>1, <2>2, AdvanceFacts DEF SubmitPlaces
  <2>4. Mined'
    BY <1>1, <1>3, <2>1, <2>3 DEF Mined
  <2> QED  BY <1>4, <2>1, <2>3, <2>4
<1>12. CASE UNCHANGED vars
  <2>1. UNCHANGED <<ledger, minedAt, daa, pc, phase, waited, outcome>>
    BY <1>12 DEF vars, node, control
  <2>2. Done' = Done /\ Age' = Age
    BY <2>1 DEF Done, Before, Age
  <2>3. Mined'
    BY <1>1, <2>1, <2>2 DEF Mined
  <2> QED  BY <1>1, <1>4, <2>1, <2>2, <2>3
<1> QED  BY <1>0, <1>5, <1>6, <1>7, <1>8, <1>9, <1>10, <1>11, <1>12

(* Undisturbed the driver never fails: what it submits the node takes and  *)
(* what it attempts the node refuses, the balances come out, the lane      *)
(* shows what was accepted, and the refund is of age, for any values, fees *)
(* and refund sequence that CovenantAssumption admits.                     *)
THEOREM FailsOnlyForAReason == Spec => []FailsForAReason
<1>1. Init => OnPlan /\ PlanTaken /\ RestTyped
  <2>1. ASSUME Init PROVE OnPlan
    BY <2>1 DEF Init, OnPlan, Done, Before, Age
  <2>2. ASSUME Init PROVE PlanTaken
    BY <2>2 DEF Init, PlanTaken, Taken, Known, Positions, SubmitPlaces
  <2>3. ASSUME Init PROVE RestTyped
    BY <2>3, DriverAssumption DEF Init, RestTyped
  <2> QED  BY <2>1, <2>2, <2>3
<1>2. LedgerSound /\ RestTyped /\ PlanTaken /\ OnPlan /\ [Next]_vars
          => (RestTyped /\ PlanTaken /\ OnPlan)'
  BY RestStaysTyped, PlanStaysTaken, StaysOnPlan
<1>3. RestTyped /\ OnPlan => FailsForAReason
  BY DriverAssumption DEF FailsForAReason, OnPlan, Undisturbed, RestTyped
<1> QED  BY <1>1, <1>2, <1>3, LedgerStaysSound, PTL DEF Spec
=============================================================================
