------------------------- MODULE SponsoredLaneProofs -------------------------
(***************************************************************************)
(* Proofs about SponsoredLane, for any participants, quorum, updates and   *)
(* accounts.                                                               *)
(***************************************************************************)
EXTENDS SponsoredLane, NaturalFacts

(* Two quorums have in common what their sizes exceed the participants by. *)
LEMMA QuorumsMeet ==
    ASSUME NEW S \in SUBSET Participants, Cardinality(S) >= Required,
           NEW T \in SUBSET Participants, Cardinality(T) >= Required
    PROVE  Cardinality(S \cap T) + Cardinality(Participants) >= 2 * Required
<1>1. IsFiniteSet(Participants) /\ Required \in Nat
  BY ChannelAssumption
<1>2. IsFiniteSet(S) /\ IsFiniteSet(T) /\ IsFiniteSet(S \cap T)
  <2>1. S \cap T \in SUBSET Participants
    OBVIOUS
  <2> QED  BY <1>1, <2>1, FS_Subset
<1>3. IsFiniteSet(S \cup T) /\ Cardinality(S \cup T) <= Cardinality(Participants)
  <2>1. S \cup T \in SUBSET Participants
    OBVIOUS
  <2> QED  BY <1>1, <2>1, FS_Subset
<1>4. Cardinality(S \cup T) = Cardinality(S) + Cardinality(T) - Cardinality(S \cap T)
  BY <1>2, FS_Union
<1>5. /\ Cardinality(S) \in Nat /\ Cardinality(T) \in Nat
      /\ Cardinality(S \cap T) \in Nat /\ Cardinality(S \cup T) \in Nat
      /\ Cardinality(Participants) \in Nat
  BY <1>1, <1>2, <1>3, FS_CardinalityType
<1> QED
  BY <1>1, <1>3, <1>4, <1>5

(* Who is not faulty has signed one new state at each number at most.      *)
HonestSignOnce ==
    /\ signed \subseteq Participants \X Updates
    /\ \A p \in Participants \ Faulty : \A u, v \in Updates :
          <<p, u>> \in signed /\ <<p, v>> \in signed => ~Rivals(u, v)

LEMMA HonestSignOnceInductive == Spec => []HonestSignOnce
<1>1. Init => HonestSignOnce
  BY SponsoredAssumption DEF Init, HonestSignOnce
<1>2. HonestSignOnce /\ [Next]_vars => HonestSignOnce'
  <2> SUFFICES ASSUME HonestSignOnce, [Next]_vars PROVE HonestSignOnce'
    OBVIOUS
  <2>1. CASE UNCHANGED signed
    BY <2>1 DEF HonestSignOnce
  <2>2. ASSUME NEW p \in Participants, NEW u \in Updates, Sign(p, u)
        PROVE  HonestSignOnce'
    BY <2>2 DEF HonestSignOnce, Sign, Rivals
  <2>3. \/ \E p \in Participants, u \in Updates : Sign(p, u)
        \/ UNCHANGED signed
    BY DEF Next, Tick, AcceptMarker, Report, vars
  <2> QED  BY <2>1, <2>2, <2>3
<1> QED  BY <1>1, <1>2, PTL DEF Spec

(* Rivals that validate were both signed by faulty participants only, and  *)
(* by as many as two quorums of the configured size have to share, for any *)
(* quorum the code accepts, two of three included, whatever the faulty     *)
(* sign and whichever signatures are handed in.                            *)
THEOREM RivalsAreOfTheFaulty == Spec => []RivalsShareFaultySigners
<1>1. HonestSignOnce => RivalsShareFaultySigners
  <2> SUFFICES ASSUME HonestSignOnce,
                      NEW u \in Fitting, NEW v \in Fitting, Rivals(u, v),
                      NEW S \in SUBSET Participants, NEW T \in SUBSET Participants,
                      Quorum(u, S, signed), Quorum(v, T, signed)
               PROVE  /\ S \cap T \subseteq Faulty
                      /\ Cardinality(S \cap T) + Cardinality(Participants) >= 2 * Required
    BY DEF RivalsShareFaultySigners
  <2>1. u \in Updates /\ v \in Updates
    BY DEF Fitting
  <2>2. \A p \in S \cap T : <<p, u>> \in signed /\ <<p, v>> \in signed
    BY DEF Quorum
  <2>3. S \cap T \subseteq Faulty
    BY <2>1, <2>2 DEF HonestSignOnce
  <2>4. Cardinality(S \cap T) + Cardinality(Participants) >= 2 * Required
    BY QuorumsMeet DEF Quorum
  <2> QED  BY <2>3, <2>4
<1> QED  BY <1>1, HonestSignOnceInductive, PTL

(* Where the faulty are fewer than two quorums have to share, there are no *)
(* rivals.                                                                 *)
COROLLARY NoRivalsAmongMajorities ==
    ASSUME 2 * Required > Cardinality(Participants) + Cardinality(Faulty)
    PROVE  Spec => [](\A u, v \in Acceptable : ~Rivals(u, v))
<1>1. RivalsShareFaultySigners => \A u, v \in Acceptable : ~Rivals(u, v)
  <2> SUFFICES ASSUME RivalsShareFaultySigners,
                      NEW u \in Acceptable, NEW v \in Acceptable, Rivals(u, v)
               PROVE  FALSE
    OBVIOUS
  <2>1. u \in Fitting /\ v \in Fitting
    BY DEF Acceptable
  <2> PICK S \in SUBSET Participants : Quorum(u, S, signed)
    BY DEF Acceptable
  <2> PICK T \in SUBSET Participants : Quorum(v, T, signed)
    BY DEF Acceptable
  <2>2. /\ S \cap T \subseteq Faulty
        /\ Cardinality(S \cap T) + Cardinality(Participants) >= 2 * Required
    BY <2>1 DEF RivalsShareFaultySigners
  <2>3. IsFiniteSet(Participants) /\ Required \in Nat
    BY ChannelAssumption
  <2>4. IsFiniteSet(Faulty)
    BY <2>3, SponsoredAssumption, FS_Subset
  <2>5. IsFiniteSet(S \cap T) /\ Cardinality(S \cap T) <= Cardinality(Faulty)
    BY <2>2, <2>4, FS_Subset
  <2>6. /\ Cardinality(S \cap T) \in Nat /\ Cardinality(Faulty) \in Nat
        /\ Cardinality(Participants) \in Nat
    BY <2>3, <2>4, <2>5, FS_CardinalityType
  <2> QED  BY <2>2, <2>3, <2>5, <2>6
<1> QED  BY <1>1, RivalsAreOfTheFaulty, PTL

-----------------------------------------------------------------------------
(* A candidate of the lane came before the next order and not after daa.   *)
LaneBehind ==
    \A c \in lane : c.order < order /\ c.daa <= daa

(* The type invariant holds for every value of the constants that gives    *)
(* the rules of eligibility sensible ones.                                 *)
RulesAssumption ==
    /\ Rule \in {"RejectConflict", "PreferLater"}
    /\ Window \in Nat \ {0} /\ Tolerance \in Nat
    /\ MaxDaa \in Nat /\ MaxOrder \in Nat

LEMMA RankedFromSeen ==
    ASSUME NEW cands PROVE Rules!Ranked(cands) \subseteq cands
BY DEF Rules!Ranked, Rules!LastOfItsNumber

LEMMA StatusIsAStatus ==
    ASSUME NEW c, NEW ranked, NEW at PROVE Rules!Status(c, ranked, at) \in Rules!Statuses
BY DEF Rules!Status, Rules!Statuses

(* Lane, clock, signatures and report are of their types.                  *)
THEOREM TypeCorrect ==
    ASSUME RulesAssumption
    PROVE  Spec => [](TypeOK /\ LaneBehind)
<1> DEFINE Inv == TypeOK /\ LaneBehind
<1>1. Init => Inv
  BY SponsoredAssumption DEF Init, TypeOK, LaneBehind, RulesAssumption
<1>2. Inv /\ [Next]_vars => Inv'
  <2> SUFFICES ASSUME TypeOK, LaneBehind, [Next]_vars PROVE TypeOK' /\ LaneBehind'
    OBVIOUS
  <2>1. CASE UNCHANGED vars
    BY <2>1 DEF TypeOK, LaneBehind, vars, Rules!Statuses
  <2>2. ASSUME NEW p \in Participants, NEW u \in Updates, Sign(p, u)
        PROVE  TypeOK' /\ LaneBehind'
    BY <2>2 DEF TypeOK, LaneBehind, Sign, Rules!Statuses
  <2>3. CASE Tick
    BY <2>3 DEF TypeOK, LaneBehind, Tick, Rules!Statuses, RulesAssumption
  <2>4. ASSUME NEW u \in Updates, AcceptMarker(u)
        PROVE  TypeOK' /\ LaneBehind'
    <3> DEFINE marker == [state |-> u, order |-> order, daa |-> daa]
    <3>1. lane' = lane \cup {marker} /\ order' = order + 1 /\ order <= MaxOrder
      BY <2>4 DEF AcceptMarker
    <3>2. UNCHANGED <<signed, daa, report>>
      BY <2>4 DEF AcceptMarker
    <3>3. marker \in [state : Updates, order : 1 .. MaxOrder, daa : 0 .. MaxDaa]
      BY <3>1 DEF TypeOK, RulesAssumption
    <3>4. TypeOK'
      BY <3>1, <3>2, <3>3 DEF TypeOK, RulesAssumption, Rules!Statuses
    <3>5. LaneBehind'
      BY <3>1, <3>2, <3>3 DEF TypeOK, LaneBehind, RulesAssumption
    <3> QED  BY <3>4, <3>5
  <2>5. ASSUME NEW start \in 1 .. MaxOrder, Report(start)
        PROVE  TypeOK' /\ LaneBehind'
    <3> PICK account \in [Seen(start) -> Accounts] :
            report' = Decisions(Rules!Ranked(Seen(start)), account)
      BY <2>5 DEF Report
    <3>1. UNCHANGED <<signed, lane, daa, order>>
      BY <2>5 DEF Report
    <3>2. ASSUME NEW r \in report'
          PROVE  /\ r.candidate \in lane /\ r.status \in Rules!Statuses
                 /\ r.at \in 0 .. daa /\ r.account \in Accounts
      <4> PICK c \in Rules!Ranked(Seen(start)) :
              r = [candidate |-> c, status |-> Rules!Status(c, Rules!Ranked(Seen(start)), daa),
                   at |-> daa, account |-> account[c]]
        BY <3>2 DEF Decisions
      <4>1. c \in Seen(start) /\ c \in lane
        BY RankedFromSeen DEF Seen
      <4>2. r.candidate = c /\ r.at = daa /\ r.account = account[c]
        OBVIOUS
      <4>3. r.status \in Rules!Statuses
        BY StatusIsAStatus
      <4> QED  BY <4>1, <4>2, <4>3 DEF TypeOK, RulesAssumption
    <3> QED  BY <3>1, <3>2 DEF TypeOK, LaneBehind, Rules!Statuses
  <2> QED  BY <2>1, <2>2, <2>3, <2>4, <2>5 DEF Next
<1> QED  BY <1>1, <1>2, PTL DEF Spec

-----------------------------------------------------------------------------
(* What makes a reported status last: a displaced candidate has the one    *)
(* that displaced it on the lane, an eligible one is mature and has none,  *)
(* and none accepted from now on can displace it.                          *)
Settled(c, status) ==
    /\ c \in lane
    /\ status = "Displaced" => \E d \in lane : Rules!Displaces(d, c)
    /\ status = "EligibleToFinalise" =>
          /\ Rules!Finalisation(c) <= daa
          /\ \A d \in lane : ~Rules!Displaces(d, c)

ReportSettled == \A r \in report : Settled(r.candidate, r.status)

Sound == TypeOK /\ LaneBehind /\ ReportSettled

LEMMA FinalisationIsANumber ==
    ASSUME RulesAssumption, TypeOK, NEW c \in lane
    PROVE  Rules!Finalisation(c) \in Nat
BY DEF RulesAssumption, TypeOK, Rules!Finalisation

LEMMA MarkerLeavesSettled ==
    ASSUME RulesAssumption, Sound, NEW u \in Updates, AcceptMarker(u)
    PROVE  ReportSettled'
<1> DEFINE marker == [state |-> u, order |-> order, daa |-> daa]
<1>1. lane' = lane \cup {marker} /\ UNCHANGED <<daa, report>>
  BY DEF AcceptMarker
<1>2. SUFFICES ASSUME NEW r \in report PROVE Settled(r.candidate, r.status)'
  BY <1>1 DEF ReportSettled
<1>3. Settled(r.candidate, r.status)
  BY DEF Sound, ReportSettled
<1>4. ASSUME r.status = "EligibleToFinalise" PROVE ~Rules!Displaces(marker, r.candidate)
  <2>1. Rules!Finalisation(r.candidate) <= daa /\ r.candidate \in lane
    BY <1>3, <1>4 DEF Settled
  <2>2. Rules!Finalisation(r.candidate) \in Nat /\ daa \in Nat
    BY <2>1, FinalisationIsANumber DEF Sound, TypeOK, RulesAssumption
  <2> QED  BY <2>1, <2>2 DEF Rules!Displaces
<1> QED  BY <1>1, <1>3, <1>4 DEF Settled, Rules!Displaces, Rules!Finalisation

(* A report made from a later start misses nothing that could displace:    *)
(* what it does not see was accepted before all it sees.                   *)
LEMMA ReportIsSettled ==
    ASSUME RulesAssumption, Rule = "RejectConflict", Sound,
           NEW start \in 1 .. MaxOrder, Report(start)
    PROVE  ReportSettled'
<1> PICK account \in [Seen(start) -> Accounts] :
        report' = Decisions(Rules!Ranked(Seen(start)), account)
  BY DEF Report
<1>1. Rules!Ranked(Seen(start)) = Seen(start)
  BY DEF Rules!Ranked
<1>2. UNCHANGED <<lane, daa>>
  BY DEF Report
<1>3. SUFFICES ASSUME NEW r \in report' PROVE Settled(r.candidate, r.status)
  BY <1>2 DEF ReportSettled, Settled, Rules!Displaces, Rules!Finalisation
<1> PICK c \in Seen(start) :
        r = [candidate |-> c, status |-> Rules!Status(c, Seen(start), daa),
             at |-> daa, account |-> account[c]]
  BY <1>1 DEF Decisions
<1>4. r.candidate = c /\ r.status = Rules!Status(c, Seen(start), daa)
  OBVIOUS
<1>5. c \in lane /\ start <= c.order /\ Seen(start) \subseteq lane
  BY DEF Seen
<1>6. ASSUME NEW d \in lane, Rules!Displaces(d, c) PROVE d \in Seen(start)
  BY <1>5, <1>6 DEF Seen, Rules!Displaces, Sound, TypeOK
<1>7. ASSUME r.status = "Displaced" PROVE \E d \in lane : Rules!Displaces(d, c)
  BY <1>4, <1>5, <1>7 DEF Rules!Status, Rules!Displaced
<1>8. ASSUME r.status = "EligibleToFinalise"
      PROVE  Rules!Finalisation(c) <= daa /\ \A d \in lane : ~Rules!Displaces(d, c)
  <2>1. ~Rules!Displaced(c, Seen(start)) /\ daa >= Rules!Finalisation(c)
    BY <1>4, <1>8 DEF Rules!Status
  <2>2. Rules!Finalisation(c) \in Nat /\ daa \in Nat
    BY <1>5, FinalisationIsANumber DEF Sound, TypeOK, RulesAssumption
  <2> QED  BY <2>1, <2>2, <1>6 DEF Rules!Displaced
<1> QED  BY <1>4, <1>5, <1>7, <1>8 DEF Settled

(* Under the rule that rejects conflicts, what a report calls eligible or  *)
(* displaced stays so in every later evaluation of the whole lane, however *)
(* late the reporter began to watch.                                       *)
THEOREM ReportsAreFinal ==
    ASSUME RulesAssumption, Rule = "RejectConflict"
    PROVE  Spec => []ReportsStayTrue
<1>1. Init => ReportSettled
  BY DEF Init, ReportSettled
<1>2. Sound /\ [Next]_vars => ReportSettled'
  <2> SUFFICES ASSUME Sound, [Next]_vars PROVE ReportSettled'
    OBVIOUS
  <2>1. CASE UNCHANGED <<lane, daa, report>>
    BY <2>1 DEF Sound, ReportSettled, Settled, Rules!Displaces, Rules!Finalisation
  <2>2. CASE Tick
    <3>1. daa \in Nat /\ daa' = daa + 1 /\ UNCHANGED <<lane, report>>
      BY <2>2 DEF Tick, Sound, TypeOK, RulesAssumption
    <3>2. SUFFICES ASSUME NEW r \in report PROVE Settled(r.candidate, r.status)'
      BY <3>1 DEF ReportSettled
    <3>3. Settled(r.candidate, r.status)
      BY DEF Sound, ReportSettled
    <3>4. Rules!Finalisation(r.candidate) \in Nat
      BY <3>3, FinalisationIsANumber DEF Settled, Sound
    <3> QED  BY <3>1, <3>3, <3>4 DEF Settled, Rules!Displaces, Rules!Finalisation
  <2>3. ASSUME NEW u \in Updates, AcceptMarker(u) PROVE ReportSettled'
    BY <2>3, MarkerLeavesSettled
  <2>4. ASSUME NEW start \in 1 .. MaxOrder, Report(start) PROVE ReportSettled'
    BY <2>4, ReportIsSettled
  <2>5. \/ UNCHANGED <<lane, daa, report>>
        \/ Tick
        \/ \E u \in Updates : AcceptMarker(u)
        \/ \E start \in 1 .. MaxOrder : Report(start)
    BY DEF Next, Sign, vars
  <2> QED  BY <2>1, <2>2, <2>3, <2>4, <2>5
<1>3. Sound => ReportsStayTrue
  <2> SUFFICES ASSUME Sound, NEW r \in report,
                      r.status \in {"EligibleToFinalise", "Displaced"}
               PROVE  /\ r.candidate \in Rules!Ranked(lane)
                      /\ Rules!Status(r.candidate, Rules!Ranked(lane), daa) = r.status
    BY DEF ReportsStayTrue
  <2>1. Rules!Ranked(lane) = lane
    BY DEF Rules!Ranked
  <2>2. Settled(r.candidate, r.status)
    BY DEF Sound, ReportSettled
  <2>3. CASE r.status = "Displaced"
    BY <2>1, <2>2, <2>3 DEF Settled, Rules!Status, Rules!Displaced
  <2>4. CASE r.status = "EligibleToFinalise"
    <3>1. Rules!Finalisation(r.candidate) \in Nat /\ daa \in Nat
      BY <2>2, FinalisationIsANumber DEF Settled, Sound, TypeOK, RulesAssumption
    <3> QED  BY <2>1, <2>2, <2>4, <3>1 DEF Settled, Rules!Status, Rules!Displaced
  <2> QED  BY <2>3, <2>4
<1>4. TypeOK /\ LaneBehind /\ ReportSettled <=> Sound
  BY DEF Sound
<1> QED  BY <1>1, <1>2, <1>3, <1>4, TypeCorrect, PTL DEF Spec

-----------------------------------------------------------------------------
(* Of two candidates an evaluation passes, the later has the higher state  *)
(* number and no lower DAA score, although only neighbours are compared.   *)
LEMMA RankedInSequence ==
    ASSUME RulesAssumption, TypeOK, NEW cands, cands \subseteq lane, Rules!Evaluates(cands),
           NEW p \in Rules!Ranked(cands), NEW q \in Rules!Ranked(cands), p.order < q.order
    PROVE  p.daa <= q.daa /\ p.state.n < q.state.n
<1> DEFINE R == Rules!Ranked(cands)
           Related == {pair \in R \X R : pair[1].daa <= pair[2].daa
                                         /\ pair[1].state.n < pair[2].state.n}
<1>1. R \subseteq lane /\ p \in R /\ q \in R
  BY RankedFromSeen
<1>2. \A a \in R : a.order \in Nat /\ a.daa \in Nat /\ a.state.n \in Nat
  <2>1. \A a \in lane : a.order \in Nat /\ a.daa \in Nat /\ a.state \in Updates
    BY DEF TypeOK, RulesAssumption
  <2> QED  BY <1>1, <2>1, ChannelAssumption
<1>3. /\ \A a, b \in R : a.order = b.order => a = b
      /\ \A a, b \in R : Rules!Adjacent(a, b, R) => Rules!InSequence(a, b)
  BY DEF Rules!Evaluates
<1> HIDE DEF R
<1>4. \A a, b \in R : <<a, b>> \in Related <=> a.daa <= b.daa /\ a.state.n < b.state.n
  OBVIOUS
<1> HIDE DEF Related
<1>5. \A a, b \in R :
          a.order < b.order /\ (\A d \in R : ~(a.order < d.order /\ d.order < b.order))
          => <<a, b>> \in Related
  BY <1>3, <1>4 DEF Rules!Adjacent, Rules!InSequence
<1>6. \A a, b, c \in R :
          <<a, b>> \in Related /\ <<b, c>> \in Related => <<a, c>> \in Related
  BY <1>2, <1>4
<1>7. <<p, q>> \in Related
  BY <1>1, <1>2, <1>3, <1>5, <1>6, NeighboursReach
<1> QED  BY <1>1, <1>4, <1>7

(* A report in which state 1 is displaced and state 2 eligible keeps the   *)
(* closed window of the driver's verifier, as long as the tolerance, which *)
(* the verifier does not know, is one DAA score at most; the driver's is   *)
(* none.  What displaced state 1 is state 2 or comes after it.             *)
THEOREM VerifierAgrees ==
    ASSUME RulesAssumption, Tolerance <= 1
    PROVE  Spec => []VerifierFindsTheWindowKept
<1>1. Init => VerifierFindsTheWindowKept
  BY DEF Init, VerifierFindsTheWindowKept
<1>2. TypeOK /\ VerifierFindsTheWindowKept /\ [Next]_vars => VerifierFindsTheWindowKept'
  <2> SUFFICES ASSUME TypeOK, VerifierFindsTheWindowKept, [Next]_vars
               PROVE  VerifierFindsTheWindowKept'
    OBVIOUS
  <2>1. CASE UNCHANGED report
    BY <2>1 DEF VerifierFindsTheWindowKept
  <2>2. ASSUME NEW start \in 1 .. MaxOrder, Report(start)
        PROVE  VerifierFindsTheWindowKept'
    <3> DEFINE seen == Seen(start)
               R == Rules!Ranked(seen)
    <3>1. Rules!Evaluates(seen) /\ seen \subseteq lane
      BY <2>2 DEF Report, Seen
    <3>2. PICK account : report' = Decisions(R, account)
      BY <2>2 DEF Report
    <3>3. SUFFICES ASSUME NEW r \in report', NEW s \in report',
                          r.candidate.state.n = 1, r.status = "Displaced",
                          s.candidate.state.n = 2, s.status = "EligibleToFinalise"
                   PROVE  InVerifiersWindow(r.candidate, s.candidate, r.at)
      BY DEF VerifierFindsTheWindowKept
    <3>4. PICK c \in R, e \in R :
              /\ r = [candidate |-> c, status |-> Rules!Status(c, R, daa), at |-> daa,
                      account |-> account[c]]
              /\ s = [candidate |-> e, status |-> Rules!Status(e, R, daa), at |-> daa,
                      account |-> account[e]]
      BY <3>2 DEF Decisions
    <3>5. /\ c.state.n = 1 /\ Rules!Status(c, R, daa) = "Displaced"
          /\ e.state.n = 2 /\ Rules!Status(e, R, daa) = "EligibleToFinalise"
          /\ r.candidate = c /\ s.candidate = e /\ r.at = daa
      BY <3>3, <3>4
    <3>6. PICK d \in R : Rules!Displaces(d, c)
      BY <3>5 DEF Rules!Status, Rules!Displaced
    <3>7. /\ R \subseteq lane
          /\ \A a \in R : a.order \in Nat /\ a.daa \in Nat /\ a.state.n \in Nat
      <4>1. R \subseteq lane
        BY <3>1, RankedFromSeen
      <4>2. \A a \in lane : a.order \in Nat /\ a.daa \in Nat /\ a.state \in Updates
        BY DEF TypeOK, RulesAssumption
      <4> QED  BY <4>1, <4>2, ChannelAssumption
    <3>8. \A a, b \in R : a.order < b.order => a.daa <= b.daa /\ a.state.n < b.state.n
      BY <3>1, RankedInSequence
    <3>9. \A a, b \in R : a.order = b.order => a = b
      BY <3>1 DEF Rules!Evaluates
    <3> HIDE DEF R, seen
    <3>10. c.order < e.order
      <4>1. ~(e.order < c.order) /\ e.order # c.order
        BY <3>5, <3>8, <3>9
      <4> QED  BY <3>7, <4>1
    <3>11. e.daa <= d.daa
      <4>1. d.state.n > 1 /\ ~(d.order < e.order)
        BY <3>5, <3>6, <3>7, <3>8 DEF Rules!Displaces
      <4> QED  BY <3>7, <3>8, <3>9, <4>1
    <3>12. d.daa < c.daa + Window + Tolerance
      BY <3>6 DEF Rules!Displaces, Rules!Finalisation
    <3>13. daa >= e.daa + Window + Tolerance
      BY <3>5 DEF Rules!Status, Rules!Finalisation
    <3>14. Window \in Nat /\ Tolerance \in Nat /\ daa \in Nat
      BY DEF RulesAssumption, TypeOK
    <3>15. e.daa <= c.daa + Window /\ daa >= e.daa + Window
      BY <3>7, <3>11, <3>12, <3>13, <3>14
    <3> QED  BY <3>5, <3>10, <3>15 DEF InVerifiersWindow
  <2>3. \/ UNCHANGED report
        \/ \E start \in 1 .. MaxOrder : Report(start)
    BY DEF Next, Sign, Tick, AcceptMarker, vars
  <2> QED  BY <2>1, <2>2, <2>3
<1>3. Spec => []TypeOK
  <2>1. TypeOK /\ LaneBehind => TypeOK
    OBVIOUS
  <2> QED  BY <2>1, TypeCorrect, PTL
<1> QED  BY <1>1, <1>2, <1>3, PTL DEF Spec
=============================================================================
