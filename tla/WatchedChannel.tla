--------------------------- MODULE WatchedChannel ---------------------------
(***************************************************************************)
(* A lane on which one participant watches over the latest state.  It      *)
(* holds the highest state ever signed, Top, and answers a stale marker:   *)
(* a marker for Top is accepted before the stale one matures.  That is the *)
(* inclusion assumption the response window is sized for; everybody else   *)
(* publishes what they like, and reorganisations may drop the answer, in   *)
(* which case it has to be accepted again.                                 *)
(***************************************************************************)
EXTENDS SettlementEligibility

CONSTANT Top   \* the highest signed state

ASSUME TopAssumption ==
    /\ Top \in Signed
    /\ \A s \in Signed : s = Top \/ s.n < Top.n

Stale(c) == c.state.n < Top.n

Answered == \E t \in lane : t.state = Top

(* The clock waits for the answer to a stale marker about to mature.       *)
TimelyTick ==
    /\ Tick
    /\ \A c \in lane : Stale(c) /\ Finalisation(c) <= daa + 1 => Answered

(* Anyone publishes anything; the last order index is kept for the answer, *)
(* so that the bound on the lane's length never silences the watcher.      *)
Publish(s) ==
    /\ order < MaxOrder
    /\ AcceptMarker(s)

Answer ==
    /\ ~Answered
    /\ \E c \in lane : Stale(c)
    /\ AcceptMarker(Top)

WatchedNext ==
    \/ TimelyTick
    \/ \E s \in States : Publish(s)
    \/ Answer
    \/ \E fork \in DaaScores : Reorganise(fork)
    \/ Evaluate

WatchedSpec == Init /\ [][WatchedNext]_vars

(* The watcher's answer is included, blocks keep being produced, and a     *)
(* chain that comes back again and again to the same distance from its     *)
(* highest score goes on from there.                                       *)
WatchedFairness ==
    /\ WF_vars(TimelyTick)
    /\ \A depth \in 0 .. ReorgDepth - 1 :
          SF_vars(TimelyTick /\ daa + depth = peak)
    /\ WF_vars(Answer)

FairWatchedSpec == WatchedSpec /\ WatchedFairness

-----------------------------------------------------------------------------
(* The safety a latest-state channel exists for: while the watcher answers *)
(* in time, no evaluation ever entitles anyone to settle on a stale state. *)
StaleNeverEligible ==
    Evaluates(lane) =>
        \A c \in Ranked(lane) :
            Status(c, Ranked(lane), daa) = "EligibleToFinalise" => c.state = Top

(* And it is not delayed for ever, although the answer can be reorganised  *)
(* away: once anything is on the lane, Top becomes eligible, unless the    *)
(* lane is one the evaluation refuses.  Where the answer was dropped with  *)
(* the last order index there is, the bound silences the watcher.          *)
LatestPrevails ==
    (lane # {}) ~> \/ lane = {}
                   \/ order > MaxOrder /\ ~Answered
                   \/ ~Evaluates(lane)
                   \/ \E c \in Ranked(lane) :
                         /\ c.state = Top
                         /\ Status(c, Ranked(lane), daa) = "EligibleToFinalise"
=============================================================================
