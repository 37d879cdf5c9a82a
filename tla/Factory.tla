------------------------------ MODULE Factory ------------------------------
(***************************************************************************)
(* A channel factory from which virtual channels are materialised one by   *)
(* one.  validate_materialisation of src/lib.rs is handed the factory's    *)
(* state, the state it is to have next and a plan.  Nobody computes the    *)
(* next state: it may be anything, and what the validator lets pass is     *)
(* what the factory becomes.  Here the state before is the variables, and  *)
(* what is proposed for the state after has names that begin with next.    *)
(*                                                                         *)
(* The code reads balances and planned outputs only through checked_sum,   *)
(* so a virtual channel has a principal and a plan the sum it pays; a sum  *)
(* beyond MaxAmount is one checked_sum refuses.  A channel's state number, *)
(* commitment and channel id are one value, its state.  A refused plan     *)
(* changes nothing, and its error is not told from another.                *)
(***************************************************************************)
EXTENDS Naturals, FiniteSets, Functions

CONSTANTS
    VirtualChannels,  \* virtual channel ids
    ChannelStates,    \* what a virtual channel can be: records [principal, state]
    Ids,              \* materialisation ids
    FactoryId,        \* the factory's id
    FactoryIds,       \* the factory ids a plan may name
    Networks,
    MaxAmount,        \* u64::MAX
    OpeningChannels, OpeningReserve   \* what the factory opened with

Amounts == 0 .. MaxAmount
Sums == 0 .. 2 * MaxAmount      \* bound on sums, overflowing ones included
Leaves == UNION {[D -> ChannelStates] : D \in SUBSET VirtualChannels}

Plan == [id : Ids, factory : FactoryIds, channel : VirtualChannels,
         touched : SUBSET VirtualChannels, separated : BOOLEAN,
         principal : Amounts, fee : Amounts, paid : Sums]

(* factory_principal_sum, as a number that may not fit in a u64.           *)
PrincipalSum(leaves) == SumFunction([v \in DOMAIN leaves |-> leaves[v].principal])

OpeningTotal == PrincipalSum(OpeningChannels)

ASSUME FactoryAssumption ==
    /\ MaxAmount \in Nat
    /\ \A s \in ChannelStates : s.principal \in Nat
    /\ OpeningChannels \in Leaves
    /\ IsFiniteSet(DOMAIN OpeningChannels)
    /\ OpeningTotal \in Amounts
    /\ OpeningReserve \in Amounts

VARIABLES
    network,   \* network_profile
    total,     \* total_principal
    reserve,   \* fee_reserve
    channels,  \* virtual_channels
    spent,     \* materialised_receipts
    exits,     \* history: the receipts of the validated materialisations
    paidOut    \* history: what their outputs paid, fees included

vars == <<network, total, reserve, channels, spent, exits, paidOut>>

Init ==
    /\ network \in Networks
    /\ total = OpeningTotal
    /\ reserve = OpeningReserve
    /\ channels = OpeningChannels
    /\ spent = {}
    /\ exits = {}
    /\ paidOut = 0

-----------------------------------------------------------------------------
(* validate_materialisation, its conditions grouped by what they protect   *)

(* Mutant: a materialisation has to pay a fee.                             *)
PlanFitsWithFee(plan) ==
    /\ plan.factory = FactoryId
    /\ plan.separated
    /\ plan.channel \in DOMAIN channels
    /\ plan.touched = {plan.channel}
    /\ plan.principal = channels[plan.channel].principal
    /\ plan.fee = reserve /\ plan.fee > 0
    /\ plan.paid = plan.principal + plan.fee
    /\ plan.paid <= MaxAmount

(* The plan names one active channel of this factory and pays out all of   *)
(* its principal and the whole fee reserve; no input pays for both.        *)
PlanFits(plan) ==
    /\ plan.factory = FactoryId
    /\ plan.separated
    /\ plan.channel \in DOMAIN channels
    /\ plan.touched = {plan.channel}
    /\ plan.principal = channels[plan.channel].principal
    /\ plan.fee = reserve
    /\ plan.paid = plan.principal + plan.fee
    /\ plan.paid <= MaxAmount

(* The id is fresh and gets recorded, and nothing recorded is forgotten.   *)
(* More ids than the plan's may be recorded.                               *)
ReceiptsFit(plan, nextSpent) ==
    /\ plan.id \notin spent
    /\ spent \cup {plan.id} \subseteq nextSpent

(* Mutant: the channels left alone are counted but not compared.           *)
LeavesPresent(plan, nextChannels) ==
    DOMAIN nextChannels = DOMAIN channels \ {plan.channel}

(* The touched channel leaves, nothing enters, nothing else changes.       *)
LeavesFit(plan, nextChannels) ==
    /\ plan.channel \notin DOMAIN nextChannels
    /\ DOMAIN nextChannels \subseteq DOMAIN channels
    /\ \A v \in DOMAIN channels \ plan.touched :
          v \in DOMAIN nextChannels /\ nextChannels[v] = channels[v]

(* Mutant: the fee is paid out but the reserve is kept.                    *)
PrincipalFits(plan, nextChannels, nextTotal, nextReserve) ==
    /\ total = PrincipalSum(channels)
    /\ nextTotal = total - plan.principal
    /\ nextTotal = PrincipalSum(nextChannels)
    /\ nextReserve = reserve

(* What was there before is what is left and what was paid, the recorded   *)
(* total is the channels' sum on both sides, and all of it fits in a u64.  *)
AmountsFit(plan, nextChannels, nextTotal, nextReserve) ==
    /\ total = PrincipalSum(channels)
    /\ plan.principal <= total
    /\ nextTotal = total - plan.principal
    /\ nextReserve = reserve - plan.fee
    /\ nextTotal = PrincipalSum(nextChannels)
    /\ total + reserve <= MaxAmount
    /\ total + reserve = nextTotal + nextReserve + plan.paid

(* Mutant: the receipt stands for the channel and the fee.                 *)
ReceiptWithFee(plan) ==
    [network |-> network, id |-> plan.id, channel |-> plan.channel,
     was |-> [channels[plan.channel] EXCEPT !.principal = plan.paid]]

(* The receipt, with the channel it stands for.                            *)
ReceiptOf(plan) ==
    [network |-> network, id |-> plan.id, channel |-> plan.channel,
     was |-> channels[plan.channel]]

(* What validate_materialisation lets pass.                                *)
Validates(plan, nextSpent, nextChannels, nextTotal, nextReserve) ==
    /\ PlanFits(plan)
    /\ nextSpent \in SUBSET Ids
    /\ ReceiptsFit(plan, nextSpent)
    /\ nextChannels \in Leaves
    /\ LeavesFit(plan, nextChannels)
    /\ nextTotal \in Amounts
    /\ nextReserve \in Amounts
    /\ AmountsFit(plan, nextChannels, nextTotal, nextReserve)

(* The network of the next state is compared with nothing.                 *)
Materialise(plan) ==
    /\ Validates(plan, spent', channels', total', reserve')
    /\ network' \in Networks
    /\ exits' = exits \cup {ReceiptOf(plan)}
    /\ paidOut' = paidOut + plan.paid

Next == \E plan \in Plan : Materialise(plan)

Spec == Init /\ [][Next]_vars

-----------------------------------------------------------------------------
Exit == [network : Networks, id : Ids, channel : VirtualChannels, was : ChannelStates]

(* Type invariant of the factory and of its history.                       *)
TypeOK ==
    /\ network \in Networks
    /\ total \in Amounts
    /\ reserve \in Amounts
    /\ channels \in Leaves
    /\ spent \subseteq Ids
    /\ exits \subseteq Exit
    /\ paidOut \in Nat

(* Nothing is created or lost over any number of materialisations: what is *)
(* still in the factory and what its outputs have paid is what it opened   *)
(* with.                                                                   *)
ValueConserved == total + reserve + paidOut = OpeningTotal + OpeningReserve

(* Every virtual channel the factory opened with is either still in it,    *)
(* exactly as it was, or has left as it was.  It left once, none is        *)
(* slipped in, and no materialisation id serves twice.                     *)
EveryChannelOnce ==
    /\ DOMAIN channels \subseteq DOMAIN OpeningChannels
    /\ \A v \in DOMAIN channels : channels[v] = OpeningChannels[v]
    /\ {e.channel : e \in exits} = DOMAIN OpeningChannels \ DOMAIN channels
    /\ \A e \in exits : e.was = OpeningChannels[e.channel] /\ e.id \in spent
    /\ \A d, e \in exits : d.channel = e.channel \/ d.id = e.id => d = e

(* The plan the participants of v would submit.                            *)
HonestPlan(v, id) ==
    [id |-> id, factory |-> FactoryId, channel |-> v, touched |-> {v},
     separated |-> TRUE, principal |-> channels[v].principal,
     fee |-> reserve, paid |-> channels[v].principal + reserve]

(* Whoever left before, in whatever order and with whatever next states    *)
(* the validator let pass, a channel that is still there can leave: its    *)
(* participants' plan is accepted under any id not yet recorded, with the  *)
(* factory without the channel, its principal and the reserve as the next  *)
(* state.                                                                  *)
HonestExitAccepted ==
    OpeningTotal + OpeningReserve <= MaxAmount =>
        \A v \in DOMAIN channels, id \in Ids \ spent :
            Validates(HonestPlan(v, id), spent \cup {id},
                      Restrict(channels, DOMAIN channels \ {v}),
                      total - channels[v].principal, 0)
=============================================================================
