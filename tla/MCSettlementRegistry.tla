------------------------ MODULE MCSettlementRegistry ------------------------
(* Instances of SettlementRegistry small enough for TLC.                   *)
EXTENDS SettlementRegistry

CONSTANTS c1, t1, k1

(* Two receipts someone may have registered before settle() gets to them.  *)
MCForeignReceipts ==
    {[channel |-> c1, n |-> n, tmpl |-> t1, terms |-> k1] : n \in {1, MaxState}}
=============================================================================
