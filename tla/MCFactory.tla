----------------------------- MODULE MCFactory -----------------------------
(* An instance of Factory small enough for TLC.                            *)
EXTENDS Factory, TLC

CONSTANTS v1, v2, v3

ChannelState(principal, state) == [principal |-> principal, state |-> state]

(* Two states that differ in nothing but the state, so that a channel      *)
(* could change unnoticed by the sums.                                     *)
MCChannelStates ==
    {ChannelState(0, "s0"), ChannelState(0, "s1"), ChannelState(1, "s0"),
     ChannelState(1, "s1")}

(* The channels' principal and the fee reserve fill a u64.                 *)
MCOpeningChannels ==
    v1 :> ChannelState(1, "s0") @@ v2 :> ChannelState(0, "s0") @@ v3 :> ChannelState(1, "s1")
=============================================================================
