------------------------- MODULE MCEvidencePipeline -------------------------
(* Instances of EvidencePipeline small enough for TLC.                     *)
EXTENDS EvidencePipeline

(* The commands people give one by one: those that bring in evidence, the  *)
(* report and the verifier.  The gates are left to the scripts: what they  *)
(* write alone no other command reads.                                     *)
MCByHand ==
    {"run-ln-devnet", "run-state-channel-flow", "run-kaspa-to-ln-flow",
     "write-acceptance-report", "run-semantic-transaction-verifier"}

(* Nothing written, a flow half written, the state channel without its     *)
(* markers, three flows written, all.                                      *)
MCStops == {0, 1, 2, 7, 11}
=============================================================================
