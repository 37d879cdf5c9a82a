------------------------- MODULE LatestStateChannel -------------------------
(***************************************************************************)
(* What a latest-state channel promises its participants, whatever keeps   *)
(* its books: a chain of commitments that grows only at its end, one       *)
(* commitment at a time, and that is closed at most once, on the last      *)
(* commitment it holds.  The chain never branches, never loses or rewrites *)
(* a commitment and never moves again once it is closed.                   *)
(***************************************************************************)
EXTENDS Naturals, Sequences

CONSTANTS
    Commitments,    \* what the participants can sign as "the state"
    MaxDepth        \* how many commitments a chain can hold

VARIABLES
    chain,          \* the accepted commitments, oldest first
    closedAt        \* 0 while open, else the length of the chain it closed on

chanVars == <<chain, closedAt>>

ChainInit ==
    /\ chain = << >>
    /\ closedAt = 0

(* A commitment joins the end of an open chain.                            *)
Extend ==
    /\ closedAt = 0
    /\ Len(chain) < MaxDepth
    /\ \E new \in Commitments : chain' = Append(chain, new)
    /\ UNCHANGED closedAt

(* The channel closes on the state it is in.                               *)
Close ==
    /\ closedAt = 0
    /\ chain # << >>
    /\ closedAt' = Len(chain)
    /\ UNCHANGED chain

ChainNext == Extend \/ Close

ChainSpec == ChainInit /\ [][ChainNext]_chanVars
=============================================================================
