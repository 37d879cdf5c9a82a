--------------------------- MODULE MCSponsoredLane ---------------------------
(* Instances of SponsoredLane small enough for TLC.                        *)
EXTENDS SponsoredLane, TLC

CONSTANTS alice, bob, mallory

MCParticipants == {alice, bob, mallory}
MCHonest == Permutations({alice, bob})

Equal(share) == [p \in MCParticipants |-> share]

(* Six in all, with a u64 of five bits.                                    *)
MCSplit == Equal(2)
MCTemplate == [id |-> "t", outs |-> MCSplit]

Update(n, new, prev) ==
    [n |-> n, new |-> new, prev |-> prev, scope |-> "ours", lane |-> "own",
     template |-> MCTemplate, policy |-> "p", balances |-> MCSplit]

(* State 1, signed with the fee policy and, as the driver first does,      *)
(* without; two states 2 that extend it.                                   *)
MCUpdates ==
    {Update(1, "a", "g"), [Update(1, "a", "g") EXCEPT !.policy = "none"],
     Update(2, "c", "a"), Update(2, "d", "a")}

Account(input, change, fee) ==
    [coins |-> {"sponsor"}, input |-> input, change |-> change, fee |-> fee,
     template |-> MCTemplate, distribution |-> MCTemplate.outs]

MCWitness == [input |-> 9, change |-> 8]

(* What the transaction says, a greater fee, one above the policy's        *)
(* maximum, one that does not add up, and the channel's own coin.          *)
MCAccounts ==
    {Account(9, 8, 1), Account(9, 6, 3), Account(9, 4, 5), Account(9, 9, 1),
     [Account(9, 8, 1) EXCEPT !.coins = {"funding"}]}
=============================================================================
