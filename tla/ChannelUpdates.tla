--------------------------- MODULE ChannelUpdates ---------------------------
(***************************************************************************)
(* What a signed state update has to satisfy for its channel:              *)
(* validate_channel_update and validate_settlement_candidate_evidence of   *)
(* src/lib.rs.                                                             *)
(*                                                                         *)
(* The scope of an update stands for the fields the code compares one by   *)
(* one with the channel's own: domain separator, protocol version, network,*)
(* genesis id, channel, funding outpoint, covenant id, script hash and the *)
(* hashes of participants and challenge policy.  A hash is what it hashes. *)
(* A signature is of one update, header and balances, by one participant.  *)
(***************************************************************************)
EXTENDS Integers, FiniteSets, Functions

CONSTANTS
    Participants, Authorised, KeyHolders,   \* config and its access manifest
    Required,                               \* required_signatures
    Scope, ConfigLane, FundingLane,         \* expected_lane_id of each, or NoLane
    UserLanes, NoLane,                      \* valid lane ids; no lane is expected
    FundingSplit, Principal,                \* principal_by_participant and its total
    MaxValue,                               \* u64::MAX
    Updates                                 \* what participants may sign

ASSUME ChannelAssumption ==
    /\ IsFiniteSet(Participants)
    /\ Required \in Nat
    /\ NoLane \notin UserLanes
    /\ Principal \in 0 .. MaxValue
    /\ \A u \in Updates : u.n \in Nat

MinRequired == 2

(* checked_sum: no partial sum exceeds a u64, and the last is the total.   *)
CheckedSumIs(values, total) ==
    /\ SumFunction(values) <= MaxValue
    /\ SumFunction(values) = total

Optional(lane) == lane \in UserLanes \cup {NoLane}

(* validate_lane_binding                                                   *)
LaneBound(u) ==
    /\ Optional(ConfigLane) /\ Optional(FundingLane) /\ Optional(u.lane)
    /\ ConfigLane # NoLane => FundingLane = ConfigLane /\ u.lane = ConfigLane

ManifestFits ==
    /\ Participants = Authorised
    /\ KeyHolders = Participants
    /\ MinRequired <= Required
    /\ Required <= Cardinality(Participants)

(* The balances are of all participants and of nobody else; principals,    *)
(* balances and settlement outputs have one total.                         *)
Conserved(u, template) ==
    /\ DOMAIN u.balances = Participants
    /\ CheckedSumIs(FundingSplit, Principal)
    /\ CheckedSumIs(u.balances, Principal)
    /\ CheckedSumIs(template.outs, Principal)

(* Mutant: one signature short of the quorum is enough.                    *)
QuorumButOne(u, signers, signed) ==
    /\ signers \subseteq Authorised
    /\ \A p \in signers : <<p, u>> \in signed
    /\ Cardinality(signers) + 1 >= Required

(* Every signature handed in is of an authorised participant and verifies; *)
(* one that does not spoils the rest.                                      *)
Quorum(u, signers, signed) ==
    /\ signers \subseteq Authorised
    /\ \A p \in signers : <<p, u>> \in signed
    /\ Cardinality(signers) >= Required

(* validate_channel_update up to the signatures, which are Quorum.         *)
Fits(u, template) ==
    /\ u.scope = Scope
    /\ LaneBound(u)
    /\ u.template = template
    /\ ManifestFits
    /\ Conserved(u, template)

(* The evidence that u's marker was accepted on a lane is evidence for u:  *)
(* of validate_settlement_candidate_evidence the lane checks.  Its other   *)
(* comparisons, of channel, txid, payload, accepted order and DAA score    *)
(* with the candidate's, hold by what the models call a candidate: the     *)
(* record of one accepted marker, whose order is its txid.                 *)
EvidenceFits(u, lane) ==
    /\ lane \in UserLanes
    /\ ConfigLane # NoLane => lane = ConfigLane
    /\ u.lane = lane
=============================================================================
