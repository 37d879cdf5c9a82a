---------------------- MODULE MCSettlementEligibility ----------------------
(* Instances of SettlementEligibility small enough for TLC.                *)
EXTENDS SettlementEligibility

State(n, new, prev) == [n |-> n, new |-> new, prev |-> prev]

(* A chain of three signed states with two states signed at number 1, and  *)
(* a skip: state 2 extends only one of the two.                            *)
MCSigned == {State(0, "a", "none"), State(1, "b", "a"), State(1, "x", "a"),
             State(2, "c", "b")}

(* The same and a state nobody signed.                                     *)
MCStates == MCSigned \cup {State(2, "forged", "b")}
=============================================================================
