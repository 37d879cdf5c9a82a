-------------------- MODULE SettlementEligibilityProofs --------------------
(***************************************************************************)
(* Proofs about the eligibility rules and the monitored lane, for every    *)
(* window, tolerance, reorganisation depth, set of states and lane length. *)
(***************************************************************************)
EXTENDS SettlementEligibility, NaturalFacts

(* What a marker accepted later must be to one accepted before it.         *)
Precedes(p, q) == p.daa <= q.daa /\ p.state.n < q.state.n

(* The windows(2) loop compares neighbours only, and the displacement test *)
(* further down relies on it for every pair: an evaluation that passes has *)
(* DAA scores and state numbers in accepted order throughout.              *)
LEMMA NeighboursSuffice ==
    ASSUME NEW cands, cands \subseteq Candidate, Evaluates(cands),
           NEW p \in Ranked(cands), NEW q \in Ranked(cands), p.order < q.order
    PROVE  Precedes(p, q)
  <1> USE EligibilityAssumption
  <1> DEFINE R == Ranked(cands)
  <1>1. R \subseteq Candidate
    BY DEF Ranked, LastOfItsNumber
  <1>2. /\ \A a, b \in R : a.order = b.order => a = b
        /\ \A a, b \in R : Adjacent(a, b, R) => InSequence(a, b)
    BY DEF Evaluates
  <1>3. \A a \in R : a.order \in Nat /\ a.daa \in Nat /\ a.state.n \in Nat
    BY <1>1 DEF Candidate, Orders, DaaScores
  <1>4. p \in R /\ q \in R
    OBVIOUS
  <1> HIDE DEF R
  <1> DEFINE Related == {pair \in R \X R : Precedes(pair[1], pair[2])}
  <1>5. \A a, b \in R : <<a, b>> \in Related <=> Precedes(a, b)
    OBVIOUS
  <1> HIDE DEF Related
  <1>6. ASSUME NEW a \in R, NEW b \in R, a.order < b.order,
               \A d \in R : ~(a.order < d.order /\ d.order < b.order)
        PROVE  <<a, b>> \in Related
    BY <1>2, <1>5, <1>6 DEF Adjacent, InSequence, Precedes
  <1>7. \A a, b, c \in R :
            <<a, b>> \in Related /\ <<b, c>> \in Related => <<a, c>> \in Related
    BY <1>3, <1>5 DEF Precedes
  <1>8. <<p, q>> \in Related
    BY <1>2, <1>3, <1>4, <1>6, <1>7, NeighboursReach
  <1> QED
    BY <1>4, <1>5, <1>8

-----------------------------------------------------------------------------
(* The lane keeps what was accepted in order: indices are fresh, scores do *)
(* not exceed the tip's, and the tip is at most ReorgDepth below the peak. *)
LaneInv ==
    /\ \A c \in lane : c.order < order /\ c.daa <= daa
    /\ \A c, d \in lane : c.order = d.order => c = d
    /\ daa <= peak
    /\ peak <= daa + ReorgDepth

(* What keeps a verdict true: an eligible candidate matured at a score no  *)
(* fork reaches, so whatever is accepted later comes after its window; a   *)
(* displaced one and the marker that displaced it lie below every fork,    *)
(* and nothing accepted later comes before that marker.                    *)
Stands(v) ==
    LET c == v.candidate IN
    /\ c \in lane
    /\ v.status = "EligibleToFinalise" =>
          /\ Finalisation(c) + ReorgDepth <= peak
          /\ \A d \in lane : ~Displaces(d, c)
    /\ v.status = "Displaced" =>
          /\ v.by \in lane /\ Displaces(v.by, c)
          /\ c.daa <= v.by.daa
          /\ v.by.daa + ReorgDepth <= peak
          /\ \A e \in lane : Displaces(e, c) => v.by.order <= e.order

VerdictInv == \A v \in verdicts : Stands(v)

Inv == TypeOK /\ LaneInv /\ VerdictInv

(* The numbers a candidate is made of.                                     *)
LEMMA CandidateTypes ==
    ASSUME NEW c \in Candidate
    PROVE  /\ c.order \in Nat /\ c.daa \in Nat /\ c.state.n \in Nat
           /\ Finalisation(c) \in Nat
           /\ c.daa < Finalisation(c)
  BY EligibilityAssumption DEF Candidate, Orders, DaaScores, Finalisation

(* The lane, the clock and the history keep their types.                   *)
LEMMA TypeStep == TypeOK /\ [Next]_vars => TypeOK'
  <1> SUFFICES ASSUME TypeOK, [Next]_vars PROVE TypeOK'
    OBVIOUS
  <1> USE EligibilityAssumption, ReorgAssumption
  <1>1. CASE Tick
    BY <1>1 DEF TypeOK, Tick, DaaScores
  <1>2. ASSUME NEW s \in States, AcceptMarker(s) PROVE TypeOK'
    <2>1. [state |-> s, order |-> order, daa |-> daa] \in Candidate
      BY <1>2 DEF TypeOK, AcceptMarker, Candidate, Orders
    <2> QED
      BY <1>2, <2>1 DEF TypeOK, AcceptMarker
  <1>3. ASSUME NEW fork \in DaaScores, Reorganise(fork) PROVE TypeOK'
    BY <1>3 DEF TypeOK, Reorganise
  <1>4. CASE Evaluate
    <2>1. Ranked(lane) \subseteq Candidate
      BY DEF TypeOK, Ranked, LastOfItsNumber
    <2>2. Buried \subseteq Verdict
      BY <2>1 DEF Buried, Verdict
    <2> QED
      BY <1>4, <2>2 DEF TypeOK, Evaluate
  <1>5. CASE UNCHANGED vars
    BY <1>5 DEF TypeOK, vars
  <1> QED
    BY <1>1, <1>2, <1>3, <1>4, <1>5 DEF Next

(* Accepting, forking and ticking keep the lane in order.                  *)
LEMMA LaneStep == TypeOK /\ LaneInv /\ [Next]_vars => LaneInv'
  <1> SUFFICES ASSUME TypeOK, LaneInv, [Next]_vars PROVE LaneInv'
    OBVIOUS
  <1> USE EligibilityAssumption, ReorgAssumption
  <1>0. /\ \A c \in lane : c.order \in Nat /\ c.daa \in Nat
        /\ daa \in Nat /\ peak \in Nat /\ order \in Nat
    BY CandidateTypes DEF TypeOK, DaaScores
  <1>1. CASE Tick
    BY <1>0, <1>1 DEF LaneInv, Tick
  <1>2. ASSUME NEW s \in States, AcceptMarker(s) PROVE LaneInv'
    BY <1>0, <1>2 DEF LaneInv, AcceptMarker
  <1>3. ASSUME NEW fork \in DaaScores, Reorganise(fork) PROVE LaneInv'
    BY <1>0, <1>3 DEF LaneInv, Reorganise, DaaScores
  <1>4. CASE Evaluate \/ UNCHANGED vars
    BY <1>4 DEF LaneInv, Evaluate, vars
  <1> QED
    BY <1>1, <1>2, <1>3, <1>4 DEF Next

(* A verdict the monitor records stands when it is recorded.  This is      *)
(* where the state numbers and scores have to be in accepted order.        *)
LEMMA BuriedStands ==
    ASSUME Inv, Rule = "RejectConflict", Evaluates(lane), NEW v \in Buried
    PROVE  Stands(v)
  <1> USE EligibilityAssumption, ReorgAssumption
  <1>0. /\ Ranked(lane) = lane
        /\ lane \subseteq Candidate
        /\ daa \in Nat /\ peak \in Nat /\ daa <= peak
    BY DEF Ranked, Inv, TypeOK, LaneInv, DaaScores
  <1>1. ASSUME NEW c \in lane, v = [candidate |-> c, status |-> "EligibleToFinalise", by |-> c],
               Status(c, lane, daa) = "EligibleToFinalise",
               Finalisation(c) + ReorgDepth <= daa
        PROVE  Stands(v)
    <2>1. ~Displaced(c, lane)
      BY <1>1 DEF Status
    <2>2. Finalisation(c) + ReorgDepth <= peak
      BY <1>0, <1>1, CandidateTypes
    <2> QED
      BY <1>1, <2>1, <2>2 DEF Displaced, Stands
  <1>2. ASSUME NEW c \in lane, NEW d \in lane,
               v = [candidate |-> c, status |-> "Displaced", by |-> d],
               DisplacedBy(c, d, lane), d.daa + ReorgDepth <= daa
        PROVE  Stands(v)
    <2>1. c.daa <= d.daa
      BY <1>0, <1>2, NeighboursSuffice DEF DisplacedBy, Displaces, Precedes
    <2>2. d.daa + ReorgDepth <= peak
      BY <1>0, <1>2, CandidateTypes
    <2> QED
      BY <1>2, <2>1, <2>2 DEF DisplacedBy, Stands
  <1>3. \/ \E c \in lane : /\ v = [candidate |-> c, status |-> "EligibleToFinalise", by |-> c]
                           /\ Status(c, lane, daa) = "EligibleToFinalise"
                           /\ Finalisation(c) + ReorgDepth <= daa
        \/ \E c, d \in lane : /\ v = [candidate |-> c, status |-> "Displaced", by |-> d]
                              /\ DisplacedBy(c, d, lane)
                              /\ d.daa + ReorgDepth <= daa
    BY <1>0 DEF Buried
  <1> QED
    BY <1>1, <1>2, <1>3

(* A verdict that stands goes on standing.                                 *)
LEMMA VerdictStep ==
    ASSUME Inv, Rule = "RejectConflict", [Next]_vars
    PROVE  VerdictInv'
  <1> USE EligibilityAssumption, ReorgAssumption
  <1>0. /\ lane \subseteq Candidate
        /\ daa \in Nat /\ peak \in Nat /\ order \in Nat
        /\ LaneInv
    BY DEF Inv, TypeOK, DaaScores
  <1>1. CASE Tick
    <2>1. /\ lane' = lane /\ verdicts' = verdicts
          /\ peak' \in Nat /\ peak <= peak'
      BY <1>0, <1>1 DEF Tick
    <2> SUFFICES ASSUME NEW v \in verdicts PROVE Stands(v)'
      BY <2>1 DEF VerdictInv
    <2>2. Stands(v)
      BY DEF Inv, VerdictInv
    <2>3. v.candidate \in Candidate /\ (v.status = "Displaced" => v.by \in Candidate)
      BY <1>0, <2>2 DEF Stands
    <2>4. /\ Finalisation(v.candidate) \in Nat
          /\ v.status = "Displaced" => v.by.daa \in Nat
      BY <2>3, CandidateTypes
    <2> QED
      BY <1>0, <2>1, <2>2, <2>4 DEF Stands
  <1>2. ASSUME NEW s \in States, AcceptMarker(s) PROVE VerdictInv'
    <2> DEFINE new == [state |-> s, order |-> order, daa |-> daa]
    <2>1. lane' = lane \cup {new} /\ UNCHANGED <<daa, peak, verdicts>>
      BY <1>2 DEF AcceptMarker
    <2> SUFFICES ASSUME NEW v \in verdicts PROVE Stands(v)'
      BY <2>1 DEF VerdictInv
    <2>2. Stands(v)
      BY DEF Inv, VerdictInv
    <2>3. v.candidate \in Candidate
      BY <1>0, <2>2 DEF Stands
    <2>4. CASE v.status = "EligibleToFinalise"
      <3>1. Finalisation(v.candidate) <= daa
        BY <1>0, <2>2, <2>3, <2>4, CandidateTypes DEF Stands, LaneInv
      <3>2. ~Displaces(new, v.candidate)
        BY <1>0, <2>3, <3>1, CandidateTypes DEF Displaces
      <3> QED
        BY <2>1, <2>2, <2>4, <3>2 DEF Stands
    <2>5. CASE v.status = "Displaced"
      <3>1. v.by.order <= new.order
        BY <1>0, <2>2, <2>5, CandidateTypes DEF Stands, LaneInv
      <3> QED
        BY <2>1, <2>2, <2>5, <3>1 DEF Stands
    <2>6. v.status \in {"EligibleToFinalise", "Displaced"}
      BY DEF Inv, TypeOK, Verdict
    <2> QED
      BY <2>4, <2>5, <2>6
  <1>3. ASSUME NEW fork \in DaaScores, Reorganise(fork) PROVE VerdictInv'
    <2>1. /\ lane' = {c \in lane : c.daa <= fork}
          /\ UNCHANGED <<peak, verdicts>>
          /\ peak <= fork + ReorgDepth
          /\ fork \in Nat
      BY <1>0, <1>3 DEF Reorganise, DaaScores
    <2> SUFFICES ASSUME NEW v \in verdicts PROVE Stands(v)'
      BY <2>1 DEF VerdictInv
    <2>2. Stands(v)
      BY DEF Inv, VerdictInv
    <2>3. v.candidate \in Candidate
      BY <1>0, <2>2 DEF Stands
    <2>4. CASE v.status = "EligibleToFinalise"
      <3>1. v.candidate.daa <= fork
        BY <1>0, <2>1, <2>2, <2>3, <2>4, CandidateTypes DEF Stands
      <3> QED
        BY <2>1, <2>2, <2>4, <3>1 DEF Stands
    <2>5. CASE v.status = "Displaced"
      <3>1. v.by \in Candidate
        BY <1>0, <2>2, <2>5 DEF Stands
      <3>2. v.by.daa <= fork
        BY <1>0, <2>1, <2>2, <2>5, <3>1, CandidateTypes DEF Stands
      <3>3. v.candidate.daa <= fork
        BY <2>1, <2>2, <2>3, <2>5, <3>1, <3>2, CandidateTypes DEF Stands
      <3> QED
        BY <2>1, <2>2, <2>5, <3>2, <3>3 DEF Stands
    <2>6. v.status \in {"EligibleToFinalise", "Displaced"}
      BY DEF Inv, TypeOK, Verdict
    <2> QED
      BY <2>4, <2>5, <2>6
  <1>4. CASE Evaluate
    <2>1. /\ UNCHANGED <<lane, daa, peak, order>>
          /\ verdicts' = verdicts \cup Buried
          /\ Evaluates(lane)
      BY <1>4 DEF Evaluate
    <2> SUFFICES ASSUME NEW v \in verdicts \cup Buried PROVE Stands(v)'
      BY <2>1 DEF VerdictInv
    <2>2. Stands(v)
      BY <2>1, BuriedStands DEF Inv, VerdictInv
    <2> QED
      BY <2>1, <2>2 DEF Stands
  <1>5. CASE UNCHANGED vars
    BY <1>5 DEF Inv, VerdictInv, Stands, vars
  <1> QED
    BY <1>1, <1>2, <1>3, <1>4, <1>5 DEF Next

(* No lane, no verdicts: nothing has to stand yet.                         *)
LEMMA InvInit == Init => Inv
  BY EligibilityAssumption, ReorgAssumption
  DEF Init, Inv, TypeOK, LaneInv, VerdictInv, DaaScores

(* The lane is well formed under either rule: what                         *)
(* evaluate_settlement_eligibility may assume about its input.             *)
THEOREM TypeCorrect == Spec => [](TypeOK /\ LaneInv)
  <1>1. Init => TypeOK /\ LaneInv
    BY InvInit DEF Inv
  <1>2. TypeOK /\ LaneInv /\ [Next]_vars => (TypeOK /\ LaneInv)'
    BY TypeStep, LaneStep
  <1> QED
    BY <1>1, <1>2, PTL DEF Spec

(* Under RejectConflict every recorded verdict stands in every state.      *)
LEMMA InvHolds == ASSUME Rule = "RejectConflict" PROVE Spec => []Inv
  <1>1. Init => Inv
    BY InvInit
  <1>2. Inv /\ [Next]_vars => Inv'
    BY TypeStep, LaneStep, VerdictStep DEF Inv
  <1> QED
    BY <1>1, <1>2, PTL DEF Spec

(* A verdict that stands is what an evaluation made now would report.      *)
LEMMA StandingIsReported ==
    ASSUME Inv, Rule = "RejectConflict"
    PROVE  VerdictsAreFinal
  <1> SUFFICES ASSUME Evaluates(lane), NEW v \in verdicts
      PROVE  /\ v.candidate \in Ranked(lane)
             /\ Status(v.candidate, Ranked(lane), daa) = v.status
             /\ v.status = "Displaced" => DisplacedBy(v.candidate, v.by, Ranked(lane))
    BY DEF VerdictsAreFinal
  <1>0. /\ Ranked(lane) = lane
        /\ lane \subseteq Candidate
        /\ daa \in Nat /\ peak \in Nat /\ peak <= daa + ReorgDepth
    BY DEF Ranked, Inv, TypeOK, LaneInv, DaaScores
  <1>1. Stands(v) /\ v.candidate \in Candidate
    BY <1>0 DEF Inv, VerdictInv, Stands
  <1>2. CASE v.status = "EligibleToFinalise"
    <2>1. ~Displaced(v.candidate, lane)
      BY <1>1, <1>2 DEF Stands, Displaced
    <2>2. Finalisation(v.candidate) <= daa
      BY <1>0, <1>1, <1>2, CandidateTypes, ReorgAssumption DEF Stands
    <2>3. Status(v.candidate, lane, daa) = "EligibleToFinalise"
      BY <2>1, <2>2 DEF Status
    <2> QED
      BY <1>0, <1>1, <1>2, <2>3 DEF Stands
  <1>3. CASE v.status = "Displaced"
    BY <1>0, <1>1, <1>3 DEF Stands, DisplacedBy, Displaced, Status
  <1> QED
    BY <1>2, <1>3 DEF Inv, TypeOK, Verdict

(* Under RejectConflict no evaluation takes back a decision that has got   *)
(* out of reach of a reorganisation, for every window, tolerance and depth.*)
THEOREM VerdictsFinal ==
    ASSUME Rule = "RejectConflict" PROVE Spec => []VerdictsAreFinal
  <1>1. Inv => VerdictsAreFinal
    BY StandingIsReported
  <1> QED
    BY <1>1, InvHolds, PTL

(* Two candidates that are both undecided are the same one, under either   *)
(* rule: of two, the later has a higher number and came before the earlier *)
(* one's window closed, because that window is still open.                 *)
THEOREM OneOpen == Spec => []OneOpenCandidate
  <1>1. ASSUME TypeOK, LaneInv PROVE OneOpenCandidate
    <2> DEFINE R == Ranked(lane)
               Open(c) == Status(c, R, daa) \in {"Provisional", "NotYetEligible"}
    <2>0. R \subseteq lane /\ lane \subseteq Candidate /\ daa \in Nat
      BY <1>1 DEF Ranked, LastOfItsNumber, TypeOK, DaaScores
    <2>1. ASSUME NEW c \in R, NEW d \in R, Evaluates(lane), Open(c), c.order < d.order
          PROVE  FALSE
      <3>1. Precedes(c, d)
        BY <2>0, <2>1, NeighboursSuffice
      <3>2. ~Displaced(c, R) /\ ~(daa >= Finalisation(c))
        BY <2>1 DEF Status
      <3>3. d.daa <= daa
        BY <1>1, <2>0 DEF LaneInv
      <3>4. Displaces(d, c)
        BY <2>0, <2>1, <3>1, <3>2, <3>3, CandidateTypes DEF Displaces, Precedes
      <3> QED
        BY <3>2, <3>4 DEF Displaced
    <2>2. ASSUME NEW c \in R, NEW d \in R, Evaluates(lane), Open(c), Open(d)
          PROVE  c = d
      <3>1. ~(c.order < d.order) /\ ~(d.order < c.order)
        BY <2>1, <2>2
      <3>2. c.order = d.order
        BY <2>0, <3>1, CandidateTypes
      <3> QED
        BY <1>1, <2>0, <3>2 DEF LaneInv
    <2> QED
      BY <2>2 DEF OneOpenCandidate
  <1> QED
    BY <1>1, TypeCorrect, PTL

(* An evaluation that names no eligible candidate waits for one: the last  *)
(* in accepted order, which nothing displaces and which matures within a   *)
(* window and its tolerance.                                               *)
DecisionInSight ==
    Evaluates(lane) /\ lane # {} =>
        \/ \E c \in Ranked(lane) : Status(c, Ranked(lane), daa) = "EligibleToFinalise"
        \/ \E c \in Ranked(lane) :
              /\ \A d \in Ranked(lane) : d.order <= c.order
              /\ ~Displaced(c, Ranked(lane))
              /\ daa < Finalisation(c) /\ Finalisation(c) <= daa + Window + Tolerance

(* A lane that stays as it is gets decided, under either rule and without  *)
(* anyone's help: what is left of liveness when the clock is taken as      *)
(* given.  The last candidate of the lane is the last of its number, so    *)
(* dedup_candidates_prefer_later keeps it.                                 *)
THEOREM NeverStuck == Spec => []DecisionInSight
  <1>1. ASSUME TypeOK, LaneInv PROVE DecisionInSight
    <2> SUFFICES ASSUME Evaluates(lane), lane # {},
                        ~\E c \in Ranked(lane) :
                            Status(c, Ranked(lane), daa) = "EligibleToFinalise"
                 PROVE  \E c \in Ranked(lane) :
                            /\ \A d \in Ranked(lane) : d.order <= c.order
                            /\ ~Displaced(c, Ranked(lane))
                            /\ daa < Finalisation(c)
                            /\ Finalisation(c) <= daa + Window + Tolerance
      BY DEF DecisionInSight
    <2> USE EligibilityAssumption
    <2>1. /\ lane \subseteq Candidate /\ daa \in Nat /\ order \in Nat
          /\ \A c \in lane : c.order \in Nat /\ c.daa \in Nat /\ Finalisation(c) \in Nat
      BY <1>1, CandidateTypes DEF TypeOK, DaaScores
    <2>2. PICK c \in lane : \A d \in lane : d.order <= c.order
      <3> DEFINE Ahead == {order - d.order : d \in lane}
      <3>1. Ahead \subseteq Nat /\ Ahead # {}
        BY <1>1, <2>1 DEF LaneInv
      <3>2. PICK m \in Ahead : \A k \in Ahead : m <= k
        <4> HIDE DEF Ahead
        <4> QED
          BY <3>1, LeastNatural
      <3>3. PICK c \in lane : m = order - c.order
        BY <3>2
      <3>4. ASSUME NEW d \in lane PROVE d.order <= c.order
        <4>1. order - c.order <= order - d.order
          BY <3>2, <3>3
        <4> QED
          BY <2>1, <4>1
      <3> QED
        BY <3>4
    <2>3. c \in Ranked(lane) /\ Ranked(lane) \subseteq lane
      BY <2>2 DEF Ranked, LastOfItsNumber
    <2>4. ~Displaced(c, Ranked(lane))
      <3>1. ASSUME NEW d \in lane, c.order < d.order PROVE FALSE
        BY <2>1, <2>2, <3>1
      <3> QED
        BY <2>3, <3>1 DEF Displaced, Displaces
    <2>5. ~(daa >= Finalisation(c))
      BY <2>3, <2>4 DEF Status
    <2>6. Finalisation(c) <= daa + Window + Tolerance
      <3>1. c.daa <= daa /\ c.daa \in Nat
        BY <1>1, <2>1 DEF LaneInv
      <3> QED
        BY <2>1, <3>1 DEF Finalisation
    <2>7. daa < Finalisation(c)
      BY <2>1, <2>5
    <2> QED
      BY <2>2, <2>3, <2>4, <2>6, <2>7
  <1> QED
    BY <1>1, TypeCorrect, PTL
=============================================================================
