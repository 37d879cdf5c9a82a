---------------------------- MODULE SponsoredLane ----------------------------
(***************************************************************************)
(* A channel of several participants whose settlement candidates are paid  *)
(* for by sponsors.  Participants sign updates; anyone publishes a marker  *)
(* for one, in a transaction a sponsor's coin pays for; a reporter who     *)
(* watches the lane, from some block on, has what it saw evaluated by      *)
(* evaluate_fee_sponsored_settlement_eligibility, with the signatures it   *)
(* holds and its account of each sponsor's coin.                           *)
(*                                                                         *)
(* A candidate is what EligibilityRules says: the update, its accepted     *)
(* order, which stands for its txid, and its DAA score.  An account is     *)
(* given for the candidate its txid names.  The transactions of all        *)
(* markers spend and keep the same, as Witness says.                       *)
(***************************************************************************)
EXTENDS ChannelUpdates

CONSTANTS
    Faulty,         \* participants who sign whatever they like
    Rule, Window, Tolerance, MaxDaa, MaxOrder,   \* see EligibilityRules
    Lane,           \* the lane the reporter watches
    Template,       \* the settlement template it evaluates with
    Policy, MaxSponsorFee,                       \* its settlement fee policy
    Witness,        \* what a marker's transaction spends and keeps: [input, change]
    Accounts        \* what a reporter may say of a sponsor's coins

ASSUME SponsoredAssumption == Faulty \subseteq Participants

VARIABLES
    signed,     \* pairs <<participant, update>>
    lane, daa,  \* the chain, as in SettlementEligibility without its forks
    order,
    report      \* the last evaluation that returned decisions, if any

vars == <<signed, lane, daa, order, report>>

Fitting == {u \in Updates : Fits(u, Template) /\ EvidenceFits(u, Lane)}

(* The updates for which signatures can be handed in that validate.        *)
Acceptable ==
    {u \in Fitting :
        \E signers \in SUBSET Participants : Quorum(u, signers, signed)}

Rules == INSTANCE EligibilityRules WITH States <- Updates, Signed <- Acceptable

-----------------------------------------------------------------------------
(* validate_sponsor_evidence                                               *)

Balances(account) ==
    /\ account.change + account.fee <= MaxValue
    /\ account.change + account.fee = account.input

SponsorValidates(c, account) ==
    /\ c.state.policy = Policy
    /\ account.coins # {} /\ "funding" \notin account.coins
    /\ account.fee # 0 /\ account.fee <= MaxSponsorFee
    /\ Balances(account)
    /\ account.template = Template
    /\ account.distribution = Template.outs

-----------------------------------------------------------------------------
Init ==
    /\ signed = Faulty \X Updates
    /\ lane = {} /\ daa = 0 /\ order = 1
    /\ report = {}

(* A participant who is not faulty commits to one new state at each number *)
(* and may sign it again with a fee policy, as the driver's signers do.    *)
(* That is an assumption about people: the code signs what it is given.    *)
Sign(p, u) ==
    /\ p \notin Faulty
    /\ \A v \in Updates : <<p, v>> \in signed /\ v.n = u.n => v.new = u.new
    /\ signed' = signed \cup {<<p, u>>}
    /\ UNCHANGED <<lane, daa, order, report>>

Tick ==
    /\ daa < MaxDaa
    /\ daa' = daa + 1
    /\ UNCHANGED <<signed, lane, order, report>>

AcceptMarker(u) ==
    /\ order <= MaxOrder
    /\ lane' = lane \cup {[state |-> u, order |-> order, daa |-> daa]}
    /\ order' = order + 1
    /\ UNCHANGED <<signed, daa, report>>

Seen(start) == {c \in lane : start <= c.order}

(* Mutant: eligible_after_daa is recorded for observed_daa_score.          *)
DecisionsAtMaturity(ranked, account) ==
    {[candidate |-> c, status |-> Rules!Status(c, ranked, daa),
      at |-> Rules!Finalisation(c), account |-> account[c]] : c \in ranked}

Decisions(ranked, account) ==
    {[candidate |-> c, status |-> Rules!Status(c, ranked, daa), at |-> daa,
      account |-> account[c]] : c \in ranked}

(* evaluate_fee_sponsored_settlement_eligibility of the candidates from    *)
(* monitor_start_block on, at the DAA score of the last block.  One        *)
(* account that does not validate refuses them all.                        *)
Report(start) ==
    /\ Seen(start) # {}
    /\ Rules!Evaluates(Seen(start))
    /\ \E account \in [Seen(start) -> Accounts] :
        /\ \A c \in Seen(start) : SponsorValidates(c, account[c])
        /\ report' = Decisions(Rules!Ranked(Seen(start)), account)
    /\ UNCHANGED <<signed, lane, daa, order>>

Next ==
    \/ \E p \in Participants, u \in Updates : Sign(p, u)
    \/ Tick
    \/ \E u \in Updates : AcceptMarker(u)
    \/ \E start \in 1 .. MaxOrder : Report(start)

Spec == Init /\ [][Next]_vars

-----------------------------------------------------------------------------
(* Type invariant.                                                         *)
TypeOK ==
    /\ signed \subseteq Participants \X Updates
    /\ daa \in 0 .. MaxDaa
    /\ order \in 1 .. MaxOrder + 1
    /\ lane \subseteq [state : Updates, order : 1 .. MaxOrder, daa : 0 .. MaxDaa]
    /\ \A r \in report :
          /\ r.candidate \in lane /\ r.status \in Rules!Statuses
          /\ r.at \in 0 .. daa /\ r.account \in Accounts

(* Two updates of one number that validate with different new states: a    *)
(* quorum of two is no majority of three, and the code does not rule them  *)
(* out.                                                                    *)
Rivals(u, v) == u.n = v.n /\ u.new # v.new

(* When rivals validate, whatever signatures they are shown with, who      *)
(* signed both is faulty, and there are at least as many of those as two   *)
(* quorums have to share: twice what validate_channel_update asks for less *)
(* the participants.  Where that is more than are faulty, the same-number  *)
(* rule of the evaluation never has to choose; where it is not, rivals do  *)
(* happen.                                                                 *)
RivalsShareFaultySigners ==
    \A u, v \in Fitting : Rivals(u, v) =>
        \A S, T \in SUBSET Participants :
            Quorum(u, S, signed) /\ Quorum(v, T, signed) =>
                /\ S \cap T \subseteq Faulty
                /\ Cardinality(S \cap T) + Cardinality(Participants) >= 2 * Required

(* A report holds for good, wherever on the lane the reporter began: what  *)
(* it calls eligible or displaced every later evaluation of the whole lane *)
(* calls so too.                                                           *)
ReportsStayTrue ==
    Rules!Evaluates(lane) =>
        \A r \in report : r.status \in {"EligibleToFinalise", "Displaced"} =>
            /\ r.candidate \in Rules!Ranked(lane)
            /\ Rules!Status(r.candidate, Rules!Ranked(lane), daa) = r.status

(* verify_fee_sponsored_displacement_semantics of drivers/kaspa-devnet     *)
(* compares the DAA scores of a report on its own, with a window that is   *)
(* closed and knows no tolerance.                                          *)
InVerifiersWindow(lower, higher, at) ==
    /\ lower.order < higher.order
    /\ higher.daa <= lower.daa + Window
    /\ at >= higher.daa + Window

(* It never refuses for that a report in which state 1 is displaced and    *)
(* state 2 is eligible, the only ones it takes.                            *)
VerifierFindsTheWindowKept ==
    \A r, s \in report :
        /\ r.candidate.state.n = 1 /\ r.status = "Displaced"
        /\ s.candidate.state.n = 2 /\ s.status = "EligibleToFinalise"
        => InVerifiersWindow(r.candidate, s.candidate, r.at)

(* The documentation of validate_sponsor_evidence, src/lib.rs:1753: "A     *)
(* marker transaction whose raw witness contradicts its committed sponsor  *)
(* accounting is rejected here".  So of an accepted marker the account     *)
(* agrees with what the transaction spends and keeps.                      *)
DocWitnessContradictionRejected ==
    \A r \in report :
        r.account.input = Witness.input /\ r.account.change = Witness.change
=============================================================================
