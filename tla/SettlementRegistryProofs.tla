---------------------- MODULE SettlementRegistryProofs ----------------------
(***************************************************************************)
(* Proofs about SettlementRegistry for every value of its constants: the   *)
(* inductive invariant Inv, and that every channel of the registry         *)
(* implements LatestStateChannel.                                          *)
(***************************************************************************)
EXTENDS SettlementRegistry, SequenceTheorems, TLAPS

(* The three invariants are inductive only together: the proof that the    *)
(* maps agree needs their types, and the refinement needs all three.       *)
Inv == TypeOK /\ LatestAndSeenAgree /\ SettledOnceOnLatest

(* An accepted update is in the type its channel's entry has, names the    *)
(* next number and links to the latest commitment.                         *)
LEMMA AcceptedFits ==
    ASSUME NEW h \in Header, NEW inDomain \in BOOLEAN, NEW rule \in Rules,
           AcceptOutcome(h, inDomain, rule) = "Ok"
    PROVE  /\ h.channel \notin settled
           /\ latest[h.channel] = NoHeader => h.n = 0
           /\ latest[h.channel] # NoHeader =>
                 /\ latest[h.channel].n < MaxState
                 /\ h.n = latest[h.channel].n + 1
                 /\ h.prev = latest[h.channel].new
  BY DEF AcceptOutcome, NumberFits

(* A settlement that goes through closes an open channel whose receipt was *)
(* not registered.                                                         *)
LEMMA SettledFits ==
    ASSUME NEW h \in Header, NEW tmpl \in Templates,
           SettleOutcome(h, tmpl) = "Ok"
    PROVE  /\ latest[h.channel] # NoHeader
           /\ h.channel \notin settled
           /\ ReceiptOf(latest[h.channel]) \notin receipts
  BY DEF SettleOutcome

(* What a call returns is one of the registry's errors or "Ok".            *)
LEMMA OutcomesTyped ==
    /\ \A h, inDomain, rule : AcceptOutcome(h, inDomain, rule) \in Results
    /\ \A h, tmpl : SettleOutcome(h, tmpl) \in Results
    /\ \A r, hashValid : RegisterOutcome(r, hashValid) \in Results
  BY DEF AcceptOutcome, SettleOutcome, RegisterOutcome, Results

(* The registry's collections and its replies keep their types.            *)
LEMMA TypeStep == TypeOK /\ [Next]_vars => TypeOK'
  <1> SUFFICES ASSUME TypeOK, [Next]_vars PROVE TypeOK'
    OBVIOUS
  <1> USE RegistryAssumption
  <1>1. ASSUME NEW h \in Header, NEW inDomain \in BOOLEAN, NEW rule \in Rules,
               Accept(h, inDomain, rule)
        PROVE  TypeOK'
    <2>1. h.channel \in Channels /\ h.n \in StateNumbers /\ h.new \in Commitments
      BY DEF Header
    <2>2. latest' \in [Channels -> Header \cup {NoHeader}]
      BY <1>1, <2>1 DEF TypeOK, Accept
    <2>3. seen' \in [Channels -> [StateNumbers -> Commitments \cup {NoCommitment}]]
      BY <1>1, <2>1 DEF TypeOK, Accept
    <2>4. reply' \in [op : Operations, result : Results]
      BY <1>1 DEF Accept, Reply, Operations, Results
    <2> QED
      BY <1>1, <2>2, <2>3, <2>4 DEF TypeOK, Accept
  <1>2. ASSUME NEW h \in Header, NEW inDomain \in BOOLEAN, NEW rule \in Rules,
               RefuseUpdate(h, inDomain, rule)
        PROVE  TypeOK'
    BY <1>2, OutcomesTyped DEF TypeOK, RefuseUpdate, books, Reply, Operations
  <1>3. ASSUME NEW h \in Header, NEW tmpl \in Templates, Settle(h, tmpl)
        PROVE  TypeOK'
    <2>1. h.channel \in Channels
      BY DEF Header
    <2>2. latest[h.channel] \in Header
      BY <1>3, <2>1, SettledFits DEF TypeOK, Settle
    <2>3. ReceiptOf(latest[h.channel]) \in Receipt
      BY <2>2 DEF ReceiptOf, Receipt, Header
    <2>4. issued' \in [Channels -> SUBSET Receipt]
      BY <1>3, <2>1, <2>3 DEF TypeOK, Settle
    <2>5. reply' \in [op : Operations, result : Results]
      BY <1>3 DEF Settle, Reply, Operations, Results
    <2> QED
      BY <1>3, <2>1, <2>3, <2>4, <2>5 DEF TypeOK, Settle
  <1>4. ASSUME NEW h \in Header, NEW tmpl \in Templates, RefuseSettlement(h, tmpl)
        PROVE  TypeOK'
    BY <1>4, OutcomesTyped DEF TypeOK, RefuseSettlement, books, Reply, Operations
  <1>5. ASSUME NEW r \in ForeignReceipts, NEW hashValid \in BOOLEAN,
               RegisterReceipt(r, hashValid)
        PROVE  TypeOK'
    BY <1>5, OutcomesTyped DEF TypeOK, RegisterReceipt, Reply, Operations
  <1>6. CASE UNCHANGED vars
    BY <1>6 DEF TypeOK, vars
  <1>7. CASE RefuseInvalidUpdate
    BY <1>7 DEF TypeOK, RefuseInvalidUpdate, books, Reply, Operations, Results
  <1> QED
    BY <1>1, <1>2, <1>3, <1>4, <1>5, <1>6, <1>7 DEF Next

(* An accepted update moves both maps by the same entry.                   *)
LEMMA MapsAgreeStep == TypeOK /\ LatestAndSeenAgree /\ [Next]_vars => LatestAndSeenAgree'
  <1> SUFFICES ASSUME TypeOK, LatestAndSeenAgree, [Next]_vars, NEW c \in Channels
               PROVE  MapsAgree(c)'
    BY DEF LatestAndSeenAgree
  <1> USE RegistryAssumption
  <1>0. MapsAgree(c)
    BY DEF LatestAndSeenAgree
  <1>1. ASSUME NEW h \in Header, NEW inDomain \in BOOLEAN, NEW rule \in Rules,
               Accept(h, inDomain, rule)
        PROVE  MapsAgree(c)'
    <2>1. CASE h.channel # c
      <3>1. latest'[c] = latest[c] /\ seen'[c] = seen[c]
        BY <1>1, <2>1 DEF Accept, TypeOK
      <3> QED
        BY <1>0, <3>1 DEF MapsAgree
    <2>2. CASE h.channel = c
      <3>1. h.n \in StateNumbers /\ h.new \in Commitments /\ h.new # NoCommitment
            /\ h # NoHeader
        BY DEF Header
      <3>2. latest'[c] = h /\ seen'[c] = [seen[c] EXCEPT ![h.n] = h.new]
        BY <1>1, <2>2 DEF Accept, TypeOK
      <3>3. /\ seen'[c][h.n] = h.new
            /\ \A n \in StateNumbers : n # h.n => seen'[c][n] = seen[c][n]
        BY <3>1, <3>2 DEF TypeOK
      <3>4. CASE latest[c] = NoHeader
        <4>1. h.n = 0 /\ \A n \in StateNumbers : seen[c][n] = NoCommitment
          BY <1>0, <1>1, <2>2, <3>4, AcceptedFits DEF Accept, MapsAgree
        <4> QED
          BY <2>2, <3>1, <3>2, <3>3, <4>1 DEF MapsAgree, StateNumbers
      <3>5. CASE latest[c] # NoHeader
        <4>1. /\ latest[c].n \in StateNumbers
              /\ h.n = latest[c].n + 1
              /\ h.prev = latest[c].new
              /\ seen[c][latest[c].n] = latest[c].new
              /\ \A n \in StateNumbers : seen[c][n] # NoCommitment <=> n <= latest[c].n
          BY <1>0, <1>1, <2>2, <3>5, AcceptedFits DEF Accept, MapsAgree, TypeOK, Header
        <4>2. \A n \in StateNumbers : seen'[c][n] # NoCommitment <=> n <= h.n
          BY <3>1, <3>3, <4>1 DEF StateNumbers
        <4>3. seen'[c][h.n - 1] = h.prev
          BY <3>1, <3>3, <4>1 DEF StateNumbers
        <4> QED
          BY <2>2, <3>1, <3>2, <3>3, <4>2, <4>3 DEF MapsAgree
      <3> QED
        BY <3>4, <3>5
    <2> QED
      BY <2>1, <2>2
  <1>2. CASE UNCHANGED <<latest, seen>>
    BY <1>0, <1>2 DEF MapsAgree
  <1> QED
    BY <1>1, <1>2 DEF Next, vars, books, RefuseUpdate, RefuseInvalidUpdate, Settle, RefuseSettlement,
                      RegisterReceipt

(* A settled channel stays on the state its only receipt describes.        *)
LEMMA SettledStep ==
    TypeOK /\ SettledOnceOnLatest /\ [Next]_vars => SettledOnceOnLatest'
  <1> DEFINE Settlement(c) ==
        /\ issued[c] = IF c \in settled THEN {ReceiptOf(latest[c])} ELSE {}
        /\ c \in settled => latest[c] # NoHeader
        /\ issued[c] \subseteq receipts
  <1> SUFFICES ASSUME TypeOK, SettledOnceOnLatest, [Next]_vars, NEW c \in Channels
               PROVE  Settlement(c)'
    BY DEF SettledOnceOnLatest
  <1> USE RegistryAssumption
  <1>0. Settlement(c)
    BY DEF SettledOnceOnLatest
  <1>1. ASSUME NEW h \in Header, NEW inDomain \in BOOLEAN, NEW rule \in Rules,
               Accept(h, inDomain, rule)
        PROVE  Settlement(c)'
    <2>1. c \in settled => latest'[c] = latest[c]
      BY <1>1, AcceptedFits DEF Accept, TypeOK
    <2> QED
      BY <1>0, <1>1, <2>1 DEF Accept, ReceiptOf
  <1>2. ASSUME NEW h \in Header, NEW tmpl \in Templates, Settle(h, tmpl)
        PROVE  Settlement(c)'
    <2>1. /\ latest[h.channel] # NoHeader
          /\ h.channel \notin settled
      BY <1>2, SettledFits DEF Settle
    <2>2. CASE h.channel = c
      BY <1>0, <1>2, <2>1, <2>2 DEF Settle, TypeOK, ReceiptOf
    <2>3. CASE h.channel # c
      <3>1. issued'[c] = issued[c] /\ (c \in settled' <=> c \in settled)
        BY <1>2, <2>3 DEF Settle, TypeOK
      <3> QED
        BY <1>0, <1>2, <3>1 DEF Settle, ReceiptOf
    <2> QED
      BY <2>2, <2>3
  <1>3. ASSUME NEW r \in ForeignReceipts, NEW hashValid \in BOOLEAN,
               RegisterReceipt(r, hashValid)
        PROVE  Settlement(c)'
    BY <1>0, <1>3 DEF RegisterReceipt, ReceiptOf
  <1>4. CASE UNCHANGED books
    BY <1>0, <1>4 DEF books, ReceiptOf
  <1> QED
    BY <1>1, <1>2, <1>3, <1>4 DEF Next, vars, books, RefuseUpdate, RefuseInvalidUpdate, RefuseSettlement

(* The registry starts with no channel, so its three invariants hold.      *)
LEMMA InvInit == Init => Inv
  BY RegistryAssumption DEF Init, Inv, TypeOK, LatestAndSeenAgree, MapsAgree,
                            SettledOnceOnLatest, Operations, Results

(* The conjunction is inductive: each part needs the others.               *)
LEMMA InvStep == Inv /\ [Next]_vars => Inv'
  BY TypeStep, MapsAgreeStep, SettledStep DEF Inv

(* In every reachable state the registry is typed, its two maps agree and  *)
(* a settled channel has one receipt, for its latest state.                *)
THEOREM InvHolds == Spec => []Inv
  BY InvInit, InvStep, PTL DEF Spec

(* Type correctness of the registry, whatever the calls.                   *)
THEOREM TypeCorrect == Spec => []TypeOK
  BY InvHolds, PTL DEF Inv

(* latest_by_channel and seen_commitments never disagree: accept writes    *)
(* them one after the other, and no other call writes either.              *)
THEOREM MapsNeverDisagree == Spec => []LatestAndSeenAgree
  BY InvHolds, PTL DEF Inv

(* A channel is settled once, on its latest state, and its receipt is      *)
(* registered; a receipt registered beforehand only makes settle() fail.   *)
THEOREM SettledOnce == Spec => []SettledOnceOnLatest
  BY InvHolds, PTL DEF Inv

-----------------------------------------------------------------------------
(* The refinement.  A new registry shows an empty, open chain for every    *)
(* channel.                                                                *)
LEMMA ChainInitRefined == Init => \A c \in Channels : Chan(c)!ChainInit
  <1> SUFFICES ASSUME Init, NEW c \in Channels PROVE Chan(c)!ChainInit
    OBVIOUS
  <1>1. Depth(c) = 0 /\ c \notin settled
    BY DEF Init, Depth
  <1>2. ChainOf(c) \in [1 .. 0 -> Commitments]
    BY <1>1 DEF ChainOf
  <1>3. ChainOf(c) \in Seq(Commitments) /\ Len(ChainOf(c)) = 0
    BY <1>2, SeqDef
  <1> QED
    BY <1>1, <1>3, EmptySeq DEF Chan!ChainInit

(* A call on a channel extends its chain, closes it, or leaves it alone.   *)
LEMMA ChainStepRefined ==
    ASSUME Inv, [Next]_vars, NEW c \in Channels
    PROVE  [Chan(c)!ChainNext]_(Chan(c)!chanVars)
  <1> USE RegistryAssumption
  <1>0. /\ MapsAgree(c)
        /\ TypeOK
    BY DEF Inv, LatestAndSeenAgree
  <1>1. CASE UNCHANGED <<latest, seen, settled>>
    BY <1>1 DEF Chan!chanVars, ChainOf, Depth
  <1>2. ASSUME NEW h \in Header, NEW inDomain \in BOOLEAN, NEW rule \in Rules,
               Accept(h, inDomain, rule)
        PROVE  [Chan(c)!ChainNext]_(Chan(c)!chanVars)
    <2>1. CASE h.channel # c
      <3>1. latest'[c] = latest[c] /\ seen'[c] = seen[c] /\ settled' = settled
        BY <1>0, <1>2, <2>1 DEF Accept, TypeOK
      <3> QED
        BY <3>1 DEF Chan!chanVars, ChainOf, Depth
    <2>2. CASE h.channel = c
      <3>1. /\ h.n \in StateNumbers /\ h.new \in Commitments /\ h # NoHeader
            /\ latest'[c] = h
            /\ seen'[c] = [seen[c] EXCEPT ![h.n] = h.new]
            /\ settled' = settled /\ c \notin settled
        BY <1>0, <1>2, <2>2, AcceptedFits DEF Accept, TypeOK, Header
      <3>2. Depth(c) = h.n /\ Depth(c)' = h.n + 1 /\ h.n <= MaxState
        BY <1>0, <1>2, <2>2, <3>1, AcceptedFits
           DEF Accept, TypeOK, Header, StateNumbers, Depth
      <3>3. ChainOf(c)' = Append(ChainOf(c), h.new)
        <4>1. /\ ChainOf(c) = [i \in 1 .. h.n |-> seen[c][i - 1]]
              /\ ChainOf(c)' = [i \in 1 .. h.n + 1 |-> seen'[c][i - 1]]
          BY <3>2 DEF ChainOf
        <4>2. \A i \in 1 .. h.n : seen'[c][i - 1] = seen[c][i - 1]
          BY <1>0, <3>1 DEF TypeOK, StateNumbers
        <4>3. seen'[c][h.n + 1 - 1] = h.new
          BY <1>0, <3>1 DEF TypeOK, StateNumbers
        <4>4. ChainOf(c) \in Seq(Commitments)
          <5>1. \A i \in 1 .. h.n : seen[c][i - 1] \in Commitments
            BY <1>0, <1>2, <2>2, <3>1, AcceptedFits
               DEF Accept, TypeOK, MapsAgree, StateNumbers, Header
          <5> QED
            BY <3>1, <4>1, <5>1, SeqDef DEF StateNumbers
        <4>5. Len(ChainOf(c)) = h.n
          BY <3>1, <4>1 DEF StateNumbers
        <4> QED
          BY <3>1, <4>1, <4>2, <4>3, <4>4, <4>5 DEF StateNumbers
      <3>4. Len(ChainOf(c)) = h.n
        BY <3>1, <3>2 DEF ChainOf, StateNumbers
      <3> QED
        BY <3>1, <3>2, <3>3, <3>4 DEF Chan!ChainNext, Chan!Extend, StateNumbers
    <2> QED
      BY <2>1, <2>2
  <1>3. ASSUME NEW h \in Header, NEW tmpl \in Templates, Settle(h, tmpl)
        PROVE  [Chan(c)!ChainNext]_(Chan(c)!chanVars)
    <2>1. ChainOf(c)' = ChainOf(c) /\ Depth(c)' = Depth(c)
      BY <1>3 DEF Settle, ChainOf, Depth
    <2>2. CASE h.channel # c
      BY <1>3, <2>1, <2>2 DEF Settle, Chan!chanVars
    <2>3. CASE h.channel = c
      <3>1. c \notin settled /\ c \in settled' /\ latest[c] # NoHeader
        BY <1>3, <2>3, SettledFits DEF Settle
      <3>2. Depth(c) \in Nat \ {0}
        BY <1>0, <3>1 DEF TypeOK, Header, StateNumbers, Depth
      <3>3. Len(ChainOf(c)) = Depth(c) /\ ChainOf(c) # << >>
        BY <3>2 DEF ChainOf
      <3> QED
        BY <2>1, <3>1, <3>3 DEF Chan!ChainNext, Chan!Close
    <2> QED
      BY <2>2, <2>3
  <1> QED
    BY <1>1, <1>2, <1>3 DEF Next, vars, books, RefuseUpdate, RefuseInvalidUpdate, RefuseSettlement,
                            RegisterReceipt

(* Every channel of the registry implements LatestStateChannel: whatever   *)
(* order calls come in and whichever same-number rule they name, recorded  *)
(* commitments are never rewritten, numbers never skipped, and nothing     *)
(* moves after the one settlement.                                         *)
THEOREM Refinement == Spec => ImplementsLatestStateChannel
  <1>1. Inv /\ [Next]_vars =>
          [\A c \in Channels : [Chan(c)!ChainNext]_(Chan(c)!chanVars)]_vars
    BY ChainStepRefined
  <1> QED
    BY <1>1, ChainInitRefined, InvHolds, PTL DEF Spec, ImplementsLatestStateChannel
=============================================================================
