-------------------------- MODULE MCWatchedChannel --------------------------
(* Instances of WatchedChannel small enough for TLC.                       *)
EXTENDS WatchedChannel

State(n, new, prev) == [n |-> n, new |-> new, prev |-> prev]

MCTop == State(2, "c", "b")

(* Two stale states, a rival of one of them, and the latest.               *)
MCSigned == {State(0, "a", "none"), State(1, "b", "a"), State(1, "x", "a"), MCTop}

MCStates == MCSigned \cup {State(3, "forged", "c")}
=============================================================================
