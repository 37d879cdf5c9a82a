------------------------ MODULE SettlementEligibility ------------------------
(***************************************************************************)
(* A channel's lane as the participants and the chain write it, and the    *)
(* monitor of drivers/kaspa-devnet that judges it.  Markers carrying any   *)
(* state, signed or not, old or new, are accepted in any order while the   *)
(* DAA score advances; the chain may drop the markers of its last blocks   *)
(* in a reorganisation; the monitor reads the lane and evaluates it at the *)
(* DAA score of the last block it read, whenever it likes.                 *)
(***************************************************************************)
EXTENDS EligibilityRules

CONSTANT ReorgDepth   \* how far below its highest DAA score the chain can fork

ASSUME ReorgAssumption == ReorgDepth \in Nat

VARIABLES
    lane,      \* the candidates on the accepted chain
    daa,       \* the DAA score of its tip
    peak,      \* the highest DAA score the chain has had
    order,     \* the next accepted-order index
    verdicts   \* history: decisions the monitor got out of reach of a reorg

vars == <<lane, daa, peak, order, verdicts>>

Verdict == [candidate : Candidate, status : {"EligibleToFinalise", "Displaced"},
            by : Candidate]

Init ==
    /\ lane = {}
    /\ daa \in DaaScores
    /\ peak = daa
    /\ order = 1
    /\ verdicts = {}

(* The DAA score of the virtual chain moves on.                            *)
Tick ==
    /\ daa < MaxDaa
    /\ daa' = daa + 1
    /\ peak' = IF daa + 1 > peak THEN daa + 1 ELSE peak
    /\ UNCHANGED <<lane, order, verdicts>>

(* A block accepts a marker on the channel's lane.                         *)
AcceptMarker(s) ==
    /\ order <= MaxOrder
    /\ lane' = lane \cup {[state |-> s, order |-> order, daa |-> daa]}
    /\ order' = order + 1
    /\ UNCHANGED <<daa, peak, verdicts>>

(* The chain forks at score fork and loses what was accepted above it.     *)
Reorganise(fork) ==
    /\ fork < daa
    /\ fork + ReorgDepth >= peak
    /\ daa' = fork
    /\ lane' = {c \in lane : c.daa <= fork}
    /\ UNCHANGED <<peak, order, verdicts>>

(* Mutant: whatever status a buried candidate has is taken for a decision. *)
BuriedAnyStatus ==
    {[candidate |-> c, status |-> Status(c, Ranked(lane), daa), by |-> c] :
        c \in {d \in Ranked(lane) : d.daa + ReorgDepth <= daa}}

(* The decisions no reorganisation can take back: a candidate that matured *)
(* ReorgDepth ago, or was displaced by a marker accepted that long ago.    *)
(* The decisions are the code's; that a caller may rely on one once the    *)
(* chain cannot fork below it any more is this model's notion: the code    *)
(* knows no depth and leaves when to act on a report to its caller.        *)
Buried ==
    LET ranked == Ranked(lane) IN
    {[candidate |-> c, status |-> "EligibleToFinalise", by |-> c] :
        c \in {d \in ranked : /\ Status(d, ranked, daa) = "EligibleToFinalise"
                              /\ Finalisation(d) + ReorgDepth <= daa}}
    \cup
    {[candidate |-> p[1], status |-> "Displaced", by |-> p[2]] :
        p \in {q \in ranked \X ranked : /\ DisplacedBy(q[1], q[2], ranked)
                                        /\ q[2].daa + ReorgDepth <= daa}}

(* The monitor evaluates the lane as it stands.                            *)
Evaluate ==
    /\ Evaluates(lane)
    /\ verdicts' = verdicts \cup Buried
    /\ UNCHANGED <<lane, daa, peak, order>>

Next ==
    \/ Tick
    \/ \E s \in States : AcceptMarker(s)
    \/ \E fork \in DaaScores : Reorganise(fork)
    \/ Evaluate

Spec == Init /\ [][Next]_vars

(* Blocks keep being produced, and a chain that comes back again and again *)
(* to the same distance from its highest score does go on from there.      *)
(* Nothing else is promised: no one has to publish a marker, and the       *)
(* monitor need not look.                                                  *)
Fairness ==
    /\ WF_vars(Tick)
    /\ \A depth \in 0 .. ReorgDepth - 1 : SF_vars(Tick /\ daa + depth = peak)

FairSpec == Spec /\ Fairness

-----------------------------------------------------------------------------
(* Type invariant of the lane and of the monitor's history.                *)
TypeOK ==
    /\ lane \subseteq Candidate
    /\ daa \in DaaScores
    /\ peak \in DaaScores
    /\ order \in 1 .. MaxOrder + 1
    /\ verdicts \subseteq Verdict

(* An evaluation never takes back an earlier one: a candidate once reported*)
(* eligible, or displaced by a given marker, is reported so by every later *)
(* evaluation that returns decisions, whatever is published meanwhile and  *)
(* whatever blocks are reorganised away.                                   *)
VerdictsAreFinal ==
    Evaluates(lane) =>
        \A v \in verdicts :
            /\ v.candidate \in Ranked(lane)
            /\ Status(v.candidate, Ranked(lane), daa) = v.status
            /\ v.status = "Displaced" => DisplacedBy(v.candidate, v.by, Ranked(lane))

(* At most one candidate is still open at any time: of two that are        *)
(* neither displaced nor mature the earlier would have been displaced by   *)
(* the later.  So a participant never faces two live response windows.     *)
OneOpenCandidate ==
    Evaluates(lane) =>
        \A c, d \in Ranked(lane) :
            /\ Status(c, Ranked(lane), daa) \in {"Provisional", "NotYetEligible"}
            /\ Status(d, Ranked(lane), daa) \in {"Provisional", "NotYetEligible"}
            => c = d

(* Once a candidate is on the lane the evaluation comes to name an         *)
(* eligible one, or to refuse the lane: it cannot stay undecided for ever  *)
(* while blocks are produced.                                              *)
EventuallyDecided ==
    (lane # {}) ~> \/ lane = {}
                   \/ ~Evaluates(lane)
                   \/ \E c \in Ranked(lane) :
                         Status(c, Ranked(lane), daa) = "EligibleToFinalise"

(* The documentation of the field eligible_after_daa of a decision,        *)
(* src/lib.rs:502-505: "First DAA score at which this candidate may        *)
(* finalise in the current validation view.  Replacement evidence must be  *)
(* accepted at a score strictly below this value; observed scores greater  *)
(* than or equal to this value are mature."  So a marker accepted once a   *)
(* candidate is mature leaves that candidate's decision alone.             *)
DocLateMarkerIsOutsideTheWindow ==
    [][Evaluates(lane) /\ Evaluates(lane') /\ lane \subseteq lane' =>
         \A c \in Ranked(lane) : Finalisation(c) <= daa =>
             /\ c \in Ranked(lane')
             /\ Status(c, Ranked(lane'), daa') = Status(c, Ranked(lane), daa)]_vars
=============================================================================
