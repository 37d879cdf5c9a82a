--------------------------- MODULE MCDevnetDriver ---------------------------
(* An instance of DevnetDriver small enough for TLC.                       *)
EXTENDS DevnetDriver

Spends(settle, preimage, seq) ==
    [wallet |-> FALSE, settle |-> settle, preimage |-> preimage, seq |-> seq]

Wallet == [Spends(FALSE, "none", 0) EXCEPT !.wallet = TRUE]

Try(lane, ins, outs) == [lane |-> lane, ins |-> ins, outs |-> outs]

Updates == Spends(FALSE, "none", 0)
Settles == Spends(TRUE, "none", 0)
Refunds(seq) == Spends(FALSE, "none", seq)

Update(outs) == Try("expected", <<Updates>>, <<Bind("state2", State2Value)>> \o outs)
Settle(outs) == Try("expected", <<Settles>>, outs)
Claim(swap, outs) == Try("native", <<Spends(FALSE, swap, 0)>>, outs)
Refund(seq, outs) == Try("native", <<Refunds(seq)>>, outs)

ToMyself(outs) == [k \in DOMAIN outs |-> Pay("stranger", outs[k].value)]
Carrying(cov, by, outs) == [k \in DOMAIN outs |-> [outs[k] EXCEPT !.cov = cov, !.by = by]]

(* Right spends of each contract, and each with one thing wrong in it: the *)
(* lane, the branch, the preimage, the sequence, a second output that      *)
(* continues the covenant, or the party that is paid; and a settlement     *)
(* whose outputs continue the covenant, which the script does not refuse.  *)
SingleTries ==
    {Update(<<>>), Update(<<Pay("stranger", UpdateFee)>>),
     Update(<<Bind("state2", UpdateFee)>>), [Update(<<>>) EXCEPT !.lane = "native"],
     Settle(Payout("contest")), Settle(ToMyself(Payout("contest"))),
     [Settle(Payout("contest")) EXCEPT !.ins = <<Updates>>],
     Settle(Carrying("contest", 1, Payout("contest"))),
     Refund(0, Payout("factory")), Refund(0, ToMyself(Payout("factory"))),
     Claim("lnToKaspa", Payout("lnToKaspa")), Claim("kaspaToLn", Payout("kaspaToLn")),
     Claim("kaspaToLn", ToMyself(Payout("kaspaToLn"))), Claim("none", Payout("lnToKaspa")),
     Refund(RefundSequence, Payout("refund")), Refund(RefundSequence - 1, Payout("refund")),
     Refund(RefundSequence, ToMyself(Payout("refund")))}

(* Behind a coin with another covenant: the update, with the contest       *)
(* continued by nothing, and by two outputs more; and with no other        *)
(* covenant to be counted instead.                                         *)
ContestBehind(outs) == Try("expected", <<Wallet, Updates>>, outs)

State2Of(cov, by) == Carrying(cov, by, <<Bind("state2", State2Value)>>)

(* Several coins in one transaction: a wallet that pays for more, and two  *)
(* coins of the chain under one set of outputs.                            *)
JointTries ==
    {ContestBehind(State2Of("other", 1)),
     ContestBehind(State2Of("other", 1) \o State2Of("contest", 2)
                      \o Carrying("contest", 2, <<Bind("state2", UpdateFee)>>)),
     ContestBehind(State2Of("contest", 2)),
     Try("expected", <<Updates, Wallet>>,
         State2Of("contest", 1) \o State2Of("contest", 2)),
     Try("expected", <<Wallet, Settles>>, Payout("contest")),
     Try("expected", <<Settles, Settles>>, Payout("contest")),
     Try("expected", <<Settles, Updates>>, Payout("factory")),
     Try("native", <<Updates, Wallet>>, ToMyself(Payout("factory"))),
     Try("native", <<Spends(FALSE, "lnToKaspa", 0), Refunds(RefundSequence)>>,
         Payout("refund")),
     Try("native", <<Wallet, Refunds(RefundSequence)>>, Payout("refund")),
     Try("native", <<Spends(FALSE, "kaspaToLn", 0), Wallet>>, Payout("kaspaToLn"))}

MCTries == SingleTries \cup JointTries
=============================================================================
