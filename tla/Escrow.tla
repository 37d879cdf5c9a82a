------------------------------- MODULE Escrow -------------------------------
(***************************************************************************)
(* What the covenant outputs promise together: whoever spends them and in  *)
(* whatever order, a contract is funded, is replaced by its latest state   *)
(* if it is of the kind that has one, and is paid out to the parties it    *)
(* was made for.  There is no other way for its value to go.               *)
(***************************************************************************)
CONSTANTS
    Contracts,
    Replaceable    \* contracts that are paid out from their latest state only

VARIABLE standing

Standings == {"none", "open", "latest", "paid"}

Init == standing = [c \in Contracts |-> "none"]

Move(c, from, to) ==
    /\ standing[c] = from
    /\ standing' = [standing EXCEPT ![c] = to]

Fund(c) == Move(c, "none", "open")
Replace(c) == c \in Replaceable /\ Move(c, "open", "latest")
PayOut(c) ==
    \/ c \in Replaceable /\ Move(c, "latest", "paid")
    \/ c \notin Replaceable /\ Move(c, "open", "paid")

Next == \E c \in Contracts : Fund(c) \/ Replace(c) \/ PayOut(c)

Spec == Init /\ [][Next]_standing
=============================================================================
