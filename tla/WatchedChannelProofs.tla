------------------------ MODULE WatchedChannelProofs ------------------------
(***************************************************************************)
(* While the watcher's answers are included in time, no evaluation makes a *)
(* stale state eligible: for every window, tolerance and number of states, *)
(* and for reorganisations of any depth.                                   *)
(***************************************************************************)
EXTENDS WatchedChannel, SettlementEligibilityProofs

(* Inductive: a stale candidate still has time left, or a marker for Top   *)
(* was accepted within its window.                                         *)
Covered(c) ==
    \/ daa < Finalisation(c)
    \/ \E t \in lane : t.state = Top /\ t.daa < Finalisation(c)

WatchInv == \A c \in lane : Stale(c) => Covered(c)

(* The watched steps are steps of the unwatched lane.                      *)
LEMMA WatchedStepIsStep == [WatchedNext]_vars => [Next]_vars
  <1>1. Top \in States
    BY TopAssumption, EligibilityAssumption
  <1> QED
    BY <1>1 DEF WatchedNext, Next, TimelyTick, Publish, Answer

(* Every watched step keeps the stale candidates covered.                  *)
LEMMA WatchStep ==
    ASSUME TypeOK, LaneInv, WatchInv, [WatchedNext]_vars
    PROVE  WatchInv'
  <1> USE EligibilityAssumption
  <1>0. /\ lane \subseteq Candidate
        /\ daa \in Nat
        /\ \A c \in lane : c.daa <= daa
    BY DEF TypeOK, DaaScores, LaneInv
  <1>1. CASE TimelyTick
    <2>1. lane' = lane /\ daa' = daa + 1
      BY <1>1 DEF TimelyTick, Tick
    <2> SUFFICES ASSUME NEW c \in lane, Stale(c), ~(daa + 1 < Finalisation(c))
                 PROVE  \E t \in lane : t.state = Top /\ t.daa < Finalisation(c)
      BY <2>1 DEF WatchInv, Stale, Covered, Finalisation
    <2>2. Finalisation(c) \in Nat
      BY <1>0, CandidateTypes
    <2>3. Answered
      BY <1>0, <1>1, <2>2 DEF TimelyTick
    <2>4. CASE daa < Finalisation(c)
      <3>1. PICK t \in lane : t.state = Top
        BY <2>3 DEF Answered
      <3>2. t.daa < Finalisation(c)
        BY <1>0, <2>2, <2>4, <3>1, CandidateTypes
      <3> QED
        BY <3>1, <3>2
    <2>5. CASE ~(daa < Finalisation(c))
      BY <2>5 DEF WatchInv, Covered
    <2> QED
      BY <2>4, <2>5
  <1>2. ASSUME NEW s \in States, AcceptMarker(s) PROVE WatchInv'
    <2> DEFINE new == [state |-> s, order |-> order, daa |-> daa]
    <2>1. lane' = lane \cup {new} /\ daa' = daa
      BY <1>2 DEF AcceptMarker
    <2>2. daa < Finalisation(new)
      BY <1>0 DEF Finalisation
    <2> QED
      BY <2>1, <2>2 DEF WatchInv, Stale, Covered, Finalisation
  <1>3. ASSUME NEW fork \in DaaScores, Reorganise(fork) PROVE WatchInv'
    <2>1. /\ lane' = {c \in lane : c.daa <= fork}
          /\ daa' = fork /\ fork < daa /\ fork \in Nat
      BY <1>3 DEF Reorganise, DaaScores
    <2> SUFFICES ASSUME NEW c \in lane, Stale(c), c.daa <= fork, ~(fork < Finalisation(c))
                 PROVE  \E t \in lane' : t.state = Top /\ t.daa < Finalisation(c)
      BY <2>1 DEF WatchInv, Stale, Covered, Finalisation
    <2>2. Finalisation(c) \in Nat
      BY <1>0, CandidateTypes
    <2>3. PICK t \in lane : t.state = Top /\ t.daa < Finalisation(c)
      BY <1>0, <2>1, <2>2 DEF WatchInv, Covered
    <2>4. t.daa <= fork
      BY <1>0, <2>1, <2>2, <2>3, CandidateTypes
    <2> QED
      BY <2>1, <2>3, <2>4
  <1>4. CASE Evaluate \/ UNCHANGED vars
    BY <1>4 DEF WatchInv, Stale, Covered, Finalisation, Evaluate, vars
  <1> QED
    BY <1>1, <1>2, <1>3, <1>4, TopAssumption DEF WatchedNext, Publish, Answer

(* A covered stale candidate that has matured was displaced: the marker    *)
(* for Top that covers it cannot have been accepted before it, because an  *)
(* evaluated lane has its state numbers in accepted order.                 *)
LEMMA CoveredIsHarmless ==
    ASSUME TypeOK, LaneInv, WatchInv, Rule = "RejectConflict"
    PROVE  StaleNeverEligible
  <1> USE EligibilityAssumption
  <1>0. /\ Ranked(lane) = lane
        /\ lane \subseteq Candidate
        /\ daa \in Nat
    BY DEF Ranked, TypeOK, DaaScores
  <1> SUFFICES ASSUME Evaluates(lane), NEW c \in lane, c.state # Top,
                      Status(c, lane, daa) = "EligibleToFinalise"
               PROVE  FALSE
    BY <1>0 DEF StaleNeverEligible
  <1>1. Stale(c)
    BY TopAssumption DEF Evaluates, Stale
  <1>2. ~Displaced(c, lane) /\ daa >= Finalisation(c)
    BY DEF Status
  <1>3. PICK t \in lane : t.state = Top /\ t.daa < Finalisation(c)
    BY <1>0, <1>1, <1>2, CandidateTypes DEF WatchInv, Covered
  <1>4. c.order # t.order
    BY <1>3 DEF LaneInv
  <1>5. CASE t.order < c.order
    <2>1. Precedes(t, c)
      BY <1>0, <1>3, <1>5, NeighboursSuffice
    <2> QED
      BY <1>0, <1>1, <1>3, <2>1, CandidateTypes DEF Stale, Precedes
  <1>6. CASE c.order < t.order
    BY <1>1, <1>2, <1>3, <1>6 DEF Displaced, Displaces, Stale
  <1> QED
    BY <1>0, <1>3, <1>4, <1>5, <1>6, CandidateTypes

(* Under RejectConflict a stale state is never eligible on a watched lane. *)
THEOREM StaleStatesNeverSettle ==
    ASSUME Rule = "RejectConflict" PROVE WatchedSpec => []StaleNeverEligible
  <1> DEFINE I == TypeOK /\ LaneInv /\ WatchInv
  <1>1. Init => I
    BY InvInit DEF Init, Inv, WatchInv
  <1>2. I /\ [WatchedNext]_vars => I'
    BY WatchedStepIsStep, TypeStep, LaneStep, WatchStep
  <1>3. I => StaleNeverEligible
    BY CoveredIsHarmless
  <1> QED
    BY <1>1, <1>2, <1>3, PTL DEF WatchedSpec
=============================================================================
