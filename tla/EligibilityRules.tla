-------------------------- MODULE EligibilityRules --------------------------
(***************************************************************************)
(* evaluate_settlement_eligibility of src/lib.rs as a function of the      *)
(* candidates found on a channel's lane and of the DAA score they are      *)
(* judged at.                                                              *)
(*                                                                         *)
(* A candidate is a marker transaction accepted on the lane: the signed    *)
(* state it carries, its accepted-order index and the DAA score of the     *)
(* block that accepted it.  Its order index also stands for its txid.      *)
(* The code takes a vector and sorts it by the index; here it is a set,    *)
(* because a transaction is accepted once.  The errors of a refused        *)
(* evaluation are not told apart.                                          *)
(***************************************************************************)
EXTENDS Naturals

CONSTANTS
    Rule,          \* challenge_policy.same_number_conflict_rule
    Window,        \* policy.response_window_daa
    Tolerance,     \* policy.reorg_tolerance_daa
    MaxDaa,        \* u64::MAX
    MaxOrder,      \* bound on accepted-order indices
    States,        \* what a marker may carry: records [n, new, prev]
    Signed         \* those of them that pass validate_channel_update

DaaScores == 0 .. MaxDaa
Orders == 1 .. MaxOrder
Candidate == [state : States, order : Orders, daa : DaaScores]
Statuses == {"Provisional", "Displaced", "EligibleToFinalise", "NotYetEligible"}

ASSUME EligibilityAssumption ==
    /\ Rule \in {"RejectConflict", "PreferLater"}
    /\ Window \in Nat \ {0}
    /\ Tolerance \in Nat
    /\ MaxDaa \in Nat
    /\ MaxOrder \in Nat
    /\ \A s \in States : s.n \in Nat
    /\ Signed \subseteq States

(* First DAA score a candidate is mature at, and no longer replaceable at. *)
Finalisation(c) == c.daa + Window + Tolerance

(* dedup_candidates_prefer_later: of the candidates at one state number,   *)
(* the last in accepted order.                                             *)
LastOfItsNumber(cands) ==
    {c \in cands : \A d \in cands : d.state.n = c.state.n => d.order <= c.order}

Ranked(cands) == IF Rule = "PreferLater" THEN LastOfItsNumber(cands) ELSE cands

(* next is the candidate right after previous in accepted order.           *)
Adjacent(previous, next, ranked) ==
    /\ previous.order < next.order
    /\ \A d \in ranked : ~(previous.order < d.order /\ d.order < next.order)

(* Mutant: the state numbers are not compared.                             *)
InScoreSequence(previous, next) ==
    /\ previous.daa <= next.daa
    /\ next.state.n = previous.state.n + 1 => next.state.prev = previous.state.new

(* What the windows(2) loop asks of two neighbours.                        *)
InSequence(previous, next) ==
    /\ previous.daa <= next.daa
    /\ previous.state.n < next.state.n
    /\ next.state.n = previous.state.n + 1 => next.state.prev = previous.state.new

(* The evaluation returns decisions rather than an error.                  *)
Evaluates(cands) ==
    LET ranked == Ranked(cands) IN
    /\ \A c \in cands : c.state \in Signed
    /\ \A p, q \in ranked : p.order = q.order => p = q
    /\ \A p, q \in ranked : Adjacent(p, q, ranked) => InSequence(p, q)
    /\ \A c \in ranked : Finalisation(c) <= MaxDaa

(* Mutants: any later higher state displaces; the tolerance does not count *)
(* for displacement; a candidate is compared with itself too.              *)
DisplacesAtAnyTime(d, c) == c.order < d.order /\ c.state.n < d.state.n

DisplacesInWindowOnly(d, c) ==
    /\ c.order < d.order
    /\ c.state.n < d.state.n
    /\ d.daa < c.daa + Window

DisplacesItself(d, c) ==
    /\ c.order <= d.order
    /\ c.state.n <= d.state.n
    /\ d.daa < Finalisation(c)

(* A higher state accepted before c matures takes its place.               *)
Displaces(d, c) ==
    /\ c.order < d.order
    /\ c.state.n < d.state.n
    /\ d.daa < Finalisation(c)

Displaced(c, ranked) == \E d \in ranked : Displaces(d, c)

(* displaced_by: the first in accepted order that displaces c.             *)
DisplacedBy(c, d, ranked) ==
    /\ d \in ranked /\ Displaces(d, c)
    /\ \A e \in ranked : Displaces(e, c) => d.order <= e.order

First(c, ranked) == \A d \in ranked : c.order <= d.order

(* Mutant: the first candidate is provisional whatever the DAA score.      *)
StatusFirstWaits(c, ranked, current) ==
    IF Displaced(c, ranked)                THEN "Displaced"
    ELSE IF First(c, ranked)               THEN "Provisional"
    ELSE IF current >= Finalisation(c)     THEN "EligibleToFinalise"
    ELSE "NotYetEligible"

Status(c, ranked, current) ==
    IF Displaced(c, ranked)                THEN "Displaced"
    ELSE IF current >= Finalisation(c)     THEN "EligibleToFinalise"
    ELSE IF First(c, ranked)               THEN "Provisional"
    ELSE "NotYetEligible"
=============================================================================
