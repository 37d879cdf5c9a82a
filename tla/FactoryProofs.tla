--------------------------- MODULE FactoryProofs ---------------------------
(***************************************************************************)
(* A factory neither creates nor loses value, and every virtual channel    *)
(* leaves it at most once and unchanged, for any number of channels, of    *)
(* materialisations and of participants.  For that the sum of the          *)
(* channels' principals is never computed: that the recorded total is      *)
(* checked against it before and after is all the argument takes.  That    *)
(* a channel can leave is a matter of the sum itself: the total without    *)
(* the channel's principal is the sum over the other channels.             *)
(***************************************************************************)
EXTENDS Factory, NaturalFacts

(* What a validated materialisation does to the leaves.                    *)
LEMMA OneLeafLess ==
    ASSUME NEW plan \in Plan, Materialise(plan)
    PROVE  /\ plan.channel \in DOMAIN channels
           /\ DOMAIN channels' = DOMAIN channels \ {plan.channel}
           /\ \A v \in DOMAIN channels' : channels'[v] = channels[v]
  BY DEF Materialise, Validates, PlanFits, LeavesFit

(* The factory and its history keep their types.                           *)
LEMMA TypeStep == TypeOK /\ [Next]_vars => TypeOK'
  <1> SUFFICES ASSUME TypeOK, [Next]_vars PROVE TypeOK'
    OBVIOUS
  <1>1. ASSUME NEW plan \in Plan, Materialise(plan) PROVE TypeOK'
    <2>1. plan.channel \in DOMAIN channels /\ plan.channel \in VirtualChannels
      BY <1>1, OneLeafLess DEF Plan
    <2>2. channels[plan.channel] \in ChannelStates
      BY <2>1 DEF TypeOK, Leaves
    <2>3. ReceiptOf(plan) \in Exit
      BY <2>1, <2>2 DEF TypeOK, Plan, ReceiptOf, Exit
    <2>4. paidOut + plan.paid \in Nat
      BY FactoryAssumption DEF TypeOK, Plan, Sums
    <2> QED
      BY <1>1, <2>3, <2>4 DEF TypeOK, Materialise, Validates
  <1>2. CASE UNCHANGED vars
    BY <1>2 DEF TypeOK, vars
  <1> QED
    BY <1>1, <1>2 DEF Next

(* A materialisation pays out exactly what the factory holds less.         *)
LEMMA ValueStep == TypeOK /\ ValueConserved /\ [Next]_vars => ValueConserved'
  <1> SUFFICES ASSUME TypeOK, ValueConserved, [Next]_vars PROVE ValueConserved'
    OBVIOUS
  <1>1. ASSUME NEW plan \in Plan, Materialise(plan) PROVE ValueConserved'
    <2>1. /\ total + reserve = total' + reserve' + plan.paid
          /\ paidOut' = paidOut + plan.paid
          /\ total' \in Nat /\ reserve' \in Nat
      BY <1>1, FactoryAssumption DEF Materialise, Validates, AmountsFit, Amounts
    <2>2. total \in Nat /\ reserve \in Nat /\ paidOut \in Nat /\ plan.paid \in Nat
      BY FactoryAssumption DEF TypeOK, Amounts, Plan, Sums
    <2> QED
      BY <2>1, <2>2 DEF ValueConserved
  <1>2. CASE UNCHANGED vars
    BY <1>2 DEF ValueConserved, vars
  <1> QED
    BY <1>1, <1>2 DEF Next

(* The leaf that goes was there, unchanged, under an id nobody had used.   *)
LEMMA OnceStep == EveryChannelOnce /\ [Next]_vars => EveryChannelOnce'
  <1> SUFFICES ASSUME EveryChannelOnce, [Next]_vars PROVE EveryChannelOnce'
    OBVIOUS
  <1>1. ASSUME NEW plan \in Plan, Materialise(plan) PROVE EveryChannelOnce'
    <2> DEFINE receipt == ReceiptOf(plan)
    <2>1. /\ plan.channel \in DOMAIN channels
          /\ DOMAIN channels' = DOMAIN channels \ {plan.channel}
          /\ \A v \in DOMAIN channels' : channels'[v] = channels[v]
      BY <1>1, OneLeafLess
    <2>2. /\ exits' = exits \cup {receipt}
          /\ plan.id \notin spent
          /\ spent \cup {plan.id} \subseteq spent'
      BY <1>1 DEF Materialise, Validates, ReceiptsFit
    <2>3. /\ receipt.channel = plan.channel
          /\ receipt.id = plan.id
          /\ receipt.was = channels[plan.channel]
      BY DEF ReceiptOf
    <2> HIDE DEF receipt
    <2>4. /\ DOMAIN channels' \subseteq DOMAIN OpeningChannels
          /\ \A v \in DOMAIN channels' : channels'[v] = OpeningChannels[v]
      BY <2>1 DEF EveryChannelOnce
    <2>5. {e.channel : e \in exits'} = DOMAIN OpeningChannels \ DOMAIN channels'
      <3>1. {e.channel : e \in exits'} = {e.channel : e \in exits} \cup {plan.channel}
        BY <2>2, <2>3
      <3> QED
        BY <2>1, <3>1 DEF EveryChannelOnce
    <2>6. \A e \in exits' : e.was = OpeningChannels[e.channel] /\ e.id \in spent'
      BY <2>1, <2>2, <2>3 DEF EveryChannelOnce
    <2>7. \A d, e \in exits' : d.channel = e.channel \/ d.id = e.id => d = e
      <3>1. \A e \in exits : e.channel # receipt.channel /\ e.id # receipt.id
        BY <2>1, <2>2, <2>3 DEF EveryChannelOnce
      <3> QED
        BY <2>2, <3>1 DEF EveryChannelOnce
    <2> QED
      BY <2>4, <2>5, <2>6, <2>7 DEF EveryChannelOnce
  <1>2. CASE UNCHANGED vars
    BY <1>2 DEF EveryChannelOnce, vars
  <1> QED
    BY <1>1, <1>2 DEF Next

(* A factory that has just opened satisfies all three.                     *)
LEMMA FactoryInit == Init => TypeOK /\ ValueConserved /\ EveryChannelOnce
  <1> SUFFICES ASSUME Init PROVE TypeOK /\ ValueConserved /\ EveryChannelOnce
    OBVIOUS
  <1>1. TypeOK
    BY FactoryAssumption DEF Init, TypeOK
  <1>2. ValueConserved
    BY FactoryAssumption DEF Init, ValueConserved, Amounts
  <1>3. EveryChannelOnce
    BY DEF Init, EveryChannelOnce
  <1> QED
    BY <1>1, <1>2, <1>3

(* Type correctness of the factory.                                        *)
THEOREM FactoryTyped == Spec => []TypeOK
  BY FactoryInit, TypeStep, PTL DEF Spec

(* Over any number of materialisations, what is left in the factory and    *)
(* what was paid out is what it opened with.                               *)
THEOREM NothingCreatedOrLost == Spec => []ValueConserved
  <1>1. TypeOK /\ ValueConserved /\ [Next]_vars => (TypeOK /\ ValueConserved)'
    BY TypeStep, ValueStep
  <1> QED
    BY <1>1, FactoryInit, PTL DEF Spec

(* A virtual channel leaves a factory at most once, as it was when the     *)
(* factory opened, and those that have not left are as they were.          *)
THEOREM ChannelsLeaveOnce == Spec => []EveryChannelOnce
  BY FactoryInit, OnceStep, PTL DEF Spec

-----------------------------------------------------------------------------
(* The exits                                                               *)

(* The recorded total is at all times the sum of the channels' principals, *)
(* and no more can be paid out than the factory opened with.               *)
TotalIsTheSum == total = PrincipalSum(channels)

(* validate_materialisation compares the total with the sum afterwards.    *)
LEMMA TotalStep == TotalIsTheSum /\ [Next]_vars => TotalIsTheSum'
  <1> SUFFICES ASSUME TotalIsTheSum, [Next]_vars PROVE TotalIsTheSum'
    OBVIOUS
  <1>1. ASSUME NEW plan \in Plan, Materialise(plan) PROVE TotalIsTheSum'
    BY <1>1 DEF Materialise, Validates, AmountsFit, TotalIsTheSum, PrincipalSum
  <1>2. CASE UNCHANGED vars
    BY <1>2 DEF TotalIsTheSum, vars, PrincipalSum
  <1> QED
    BY <1>1, <1>2 DEF Next

(* The principal of one channel can be taken out of the sum.               *)
LEMMA PrincipalTakesOut ==
    ASSUME NEW leaves, IsFiniteSet(DOMAIN leaves),
           \A v \in DOMAIN leaves : leaves[v].principal \in Nat,
           NEW v \in DOMAIN leaves
    PROVE  LET rest == PrincipalSum(Restrict(leaves, DOMAIN leaves \ {v}))
           IN  rest \in Nat /\ PrincipalSum(leaves) = leaves[v].principal + rest
  <1> DEFINE f == [w \in DOMAIN leaves |-> leaves[w].principal]
             g == [w \in DOMAIN f \ {v} |-> f[w]]
             left == Restrict(leaves, DOMAIN leaves \ {v})
  <1>1. DOMAIN f = DOMAIN leaves /\ \A w \in DOMAIN f : f[w] \in Nat
    OBVIOUS
  <1>2. DOMAIN g = DOMAIN f \ {v} /\ \A w \in DOMAIN g : g[w] \in Nat
    OBVIOUS
  <1>3. g = [w \in DOMAIN left |-> left[w].principal]
    BY DEF Restrict
  <1>4. f[v] = leaves[v].principal
    OBVIOUS
  <1>5. PrincipalSum(leaves) = SumFunction(f) /\ PrincipalSum(left) = SumFunction(g)
    BY <1>3 DEF PrincipalSum
  <1> HIDE DEF left
  <1>6. SumFunction(g) \in Nat
    <2>1. IsFiniteSet(DOMAIN g)
      BY <1>1, <1>2, FS_RemoveElement
    <2> HIDE DEF g
    <2> QED
      BY <1>2, <2>1, SumTakesOut
  <1>7. SumFunction(f) = f[v] + SumFunction(g)
    <2> HIDE DEF f
    <2> QED
      BY <1>1, SumTakesOut
  <1> USE DEF left
  <1> QED
    BY <1>4, <1>5, <1>6, <1>7

(* Where the types, the value and the total are right, the honest exit is  *)
(* let pass.                                                               *)
LEMMA ExitIsOpen ==
    TypeOK /\ ValueConserved /\ EveryChannelOnce /\ TotalIsTheSum => HonestExitAccepted
  <1> SUFFICES ASSUME TypeOK, ValueConserved, EveryChannelOnce, TotalIsTheSum,
                      OpeningTotal + OpeningReserve <= MaxAmount,
                      NEW v \in DOMAIN channels, NEW id \in Ids \ spent
               PROVE  Validates(HonestPlan(v, id), spent \cup {id},
                                Restrict(channels, DOMAIN channels \ {v}),
                                total - channels[v].principal, 0)
    BY DEF HonestExitAccepted
  <1> DEFINE plan == HonestPlan(v, id)
             principal == channels[v].principal
             left == Restrict(channels, DOMAIN channels \ {v})
  <1>1. /\ plan.id = id /\ plan.factory = FactoryId /\ plan.channel = v
        /\ plan.touched = {v} /\ plan.separated /\ plan.principal = principal
        /\ plan.fee = reserve /\ plan.paid = principal + reserve
    BY DEF HonestPlan
  <1> HIDE DEF plan
  <1>2. \A w \in DOMAIN channels : channels[w].principal \in Nat
    BY FactoryAssumption DEF TypeOK, Leaves
  <1>3. IsFiniteSet(DOMAIN channels)
    BY FactoryAssumption, FS_Subset DEF EveryChannelOnce
  <1>4. PrincipalSum(left) \in Nat /\ PrincipalSum(channels) = principal + PrincipalSum(left)
    BY <1>2, <1>3, PrincipalTakesOut
  <1>5. /\ principal \in Nat /\ MaxAmount \in Nat
        /\ total \in Nat /\ reserve \in Nat /\ paidOut \in Nat
        /\ OpeningTotal \in Nat /\ OpeningReserve \in Nat
    BY <1>2, FactoryAssumption DEF TypeOK, Amounts
  <1>6. total + reserve <= MaxAmount
    BY <1>5 DEF ValueConserved
  <1>7. total - principal = PrincipalSum(left) /\ principal <= total
    BY <1>4, <1>5 DEF TotalIsTheSum
  <1>8. PlanFits(plan)
    <2>1. principal + reserve <= MaxAmount
      BY <1>5, <1>6, <1>7
    <2> QED
      BY <1>1, <2>1 DEF PlanFits
  <1>9. spent \cup {id} \in SUBSET Ids /\ ReceiptsFit(plan, spent \cup {id})
    BY <1>1 DEF TypeOK, ReceiptsFit
  <1>10. left \in Leaves /\ LeavesFit(plan, left)
    <2>1. /\ DOMAIN left = DOMAIN channels \ {v}
          /\ \A w \in DOMAIN left : left[w] = channels[w]
      BY DEF Restrict
    <2>2. DOMAIN channels \in SUBSET VirtualChannels
          /\ \A w \in DOMAIN channels : channels[w] \in ChannelStates
      BY DEF TypeOK, Leaves
    <2>3. left \in [DOMAIN channels \ {v} -> ChannelStates]
      BY <2>2 DEF Restrict
    <2>4. DOMAIN channels \ {v} \in SUBSET VirtualChannels
      BY <2>2
    <2>5. left \in Leaves
      <3> HIDE DEF left
      <3> QED
        BY <2>3, <2>4 DEF Leaves
    <2>6. LeavesFit(plan, left)
      <3> HIDE DEF left
      <3> QED
        BY <1>1, <2>1 DEF LeavesFit
    <2> QED
      BY <2>5, <2>6
  <1>11. total - principal \in Amounts /\ 0 \in Amounts
    BY <1>5, <1>6, <1>7 DEF Amounts
  <1>12. AmountsFit(plan, left, total - principal, 0)
    <2>1. total + reserve = (total - principal) + 0 + (principal + reserve)
      BY <1>5
    <2>2. 0 = reserve - reserve
      BY <1>5
    <2> QED
      BY <1>1, <1>6, <1>7, <2>1, <2>2 DEF AmountsFit, TotalIsTheSum
  <1> HIDE DEF left, principal
  <1>13. Validates(plan, spent \cup {id}, left, total - principal, 0)
    BY <1>8, <1>9, <1>10, <1>11, <1>12 DEF Validates
  <1> QED
    BY <1>13 DEF plan, left, principal

(* Whoever left before and in whatever order, a channel that is still in   *)
(* the factory can leave it: validate_materialisation lets the plan of its *)
(* participants pass, for any number of channels and any principals.       *)
THEOREM ExitsStayOpen == Spec => []HonestExitAccepted
  <1> DEFINE Inv == TypeOK /\ ValueConserved /\ EveryChannelOnce /\ TotalIsTheSum
  <1>1. Init => Inv
    BY FactoryInit DEF Init, TotalIsTheSum, OpeningTotal, PrincipalSum
  <1>2. Inv /\ [Next]_vars => Inv'
    BY TypeStep, ValueStep, OnceStep, TotalStep
  <1>3. Inv => HonestExitAccepted
    BY ExitIsOpen
  <1> QED
    BY <1>1, <1>2, <1>3, PTL DEF Spec
=============================================================================
