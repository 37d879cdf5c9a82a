------------------------- MODULE SettlementRegistry -------------------------
(***************************************************************************)
(* The SettlementRegistry of src/lib.rs: the books a verifier keeps of the *)
(* channels it watches.  Its callers are not trusted to call it in any     *)
(* order: updates, settlements and receipts may come late, twice, out of   *)
(* order or from two branches of the same channel, and every interleaving  *)
(* of calls is a behaviour of Spec.                                        *)
(*                                                                         *)
(* Hashes are injective here: a commitment, a template hash or a receipt   *)
(* key is the value that was hashed.  The header fields that settle()      *)
(* compares come in two groups, "terms" for those a receipt repeats        *)
(* (network, protocol version, funding outpoint, fee policy hash) and      *)
(* "covenant" for those it does not (covenant id, script hash, participant *)
(* set hash).  State numbers have the width 0 .. MaxState of a u64.        *)
(***************************************************************************)
EXTENDS Naturals

CONSTANTS
    Channels,         \* channel ids
    Commitments,      \* values of new_ and previous_state_commitment
    Templates,        \* settlement templates, each standing for its own hash
    Terms, Covenants, \* values of the two groups of header fields
    MaxState,         \* u64::MAX
    ForeignReceipts,  \* receipts a caller may register by itself
    NoHeader, NoCommitment

StateNumbers == 0 .. MaxState
Rules == {"RejectConflict", "PreferLater"}
Operations == {"none", "accept", "settle", "register"}
Results == {"Ok", "WrongDomainSeparator", "ChannelAlreadySettled", "SameNumberConflict",
            "NonMonotonicState", "PreviousStateMismatch", "UnknownChannel", "StaleState",
            "SettlementTemplateMismatch", "DuplicateSettlement", "DuplicateReceipt",
            "ReceiptHashMismatch", "InvalidUpdate"}

Header == [channel : Channels, n : StateNumbers, prev : Commitments,
           new : Commitments, tmpl : Templates, terms : Terms, covenant : Covenants]

Receipt == [channel : Channels, n : StateNumbers, tmpl : Templates, terms : Terms]

ASSUME RegistryAssumption ==
    /\ MaxState \in Nat
    /\ NoHeader \notin Header
    /\ NoCommitment \notin Commitments
    /\ ForeignReceipts \subseteq Receipt

VARIABLES
    latest,    \* latest_by_channel
    seen,      \* seen_commitments
    settled,   \* settled_channels
    receipts,  \* receipts
    issued,    \* history: the receipts settle() has returned, per channel
    reply      \* the last call and what it returned

books == <<latest, seen, settled, receipts, issued>>
vars == <<latest, seen, settled, receipts, issued, reply>>

Reply(op, result) == reply' = [op |-> op, result |-> result]


Init ==
    /\ latest = [c \in Channels |-> NoHeader]
    /\ seen = [c \in Channels |-> [n \in StateNumbers |-> NoCommitment]]
    /\ settled = {}
    /\ receipts = {}
    /\ issued = [c \in Channels |-> {}]
    /\ reply = [op |-> "none", result |-> "Ok"]

-----------------------------------------------------------------------------
(* accept_update_with_rule                                                 *)

(* Mutants of NumberFits: any higher number extends the channel, as on the *)
(* lane; a rival of the latest state replaces it.                          *)
AnyHigherNumber(h) ==
    IF latest[h.channel] = NoHeader THEN h.n = 0 ELSE h.n > latest[h.channel].n

SameOrNextNumber(h) ==
    IF latest[h.channel] = NoHeader
    THEN h.n = 0
    ELSE h.n \in {latest[h.channel].n, latest[h.channel].n + 1}

(* The error a state number meets: the first state of a channel is 0, and  *)
(* a later one is the successor of the latest, which u64::MAX lacks.       *)
NumberFits(h) ==
    IF latest[h.channel] = NoHeader
    THEN h.n = 0
    ELSE latest[h.channel].n < MaxState /\ h.n = latest[h.channel].n + 1

Conflicts(h) == seen[h.channel][h.n] \notin {NoCommitment, h.new}

(* Mutant: a settled channel still takes updates.                          *)
OutcomeIgnoringSettlement(h, inDomain, rule) ==
    IF ~inDomain                                       THEN "WrongDomainSeparator"
    ELSE IF Conflicts(h) /\ rule = "RejectConflict"    THEN "SameNumberConflict"
    ELSE IF ~NumberFits(h)                             THEN "NonMonotonicState"
    ELSE IF latest[h.channel] # NoHeader /\ h.prev # latest[h.channel].new
                                                       THEN "PreviousStateMismatch"
    ELSE "Ok"

(* inDomain: the header carries DOMAIN_STATE as its domain separator.      *)
AcceptOutcome(h, inDomain, rule) ==
    IF ~inDomain                                       THEN "WrongDomainSeparator"
    ELSE IF h.channel \in settled                      THEN "ChannelAlreadySettled"
    ELSE IF Conflicts(h) /\ rule = "RejectConflict"    THEN "SameNumberConflict"
    ELSE IF ~NumberFits(h)                             THEN "NonMonotonicState"
    ELSE IF latest[h.channel] # NoHeader /\ h.prev # latest[h.channel].new
                                                       THEN "PreviousStateMismatch"
    ELSE "Ok"

Accept(h, inDomain, rule) ==
    /\ AcceptOutcome(h, inDomain, rule) = "Ok"
    /\ seen' = [seen EXCEPT ![h.channel][h.n] = h.new]
    /\ latest' = [latest EXCEPT ![h.channel] = h]
    /\ Reply("accept", "Ok")
    /\ UNCHANGED <<settled, receipts, issued>>

RefuseUpdate(h, inDomain, rule) ==
    /\ AcceptOutcome(h, inDomain, rule) # "Ok"
    /\ Reply("accept", AcceptOutcome(h, inDomain, rule))
    /\ UNCHANGED books

(* validate_and_accept_update is an accept with the rule of the channel's  *)
(* policy behind validate_channel_update, which is in ChannelUpdates.      *)
(* What the validator refuses, for one of its many reasons, the registry   *)
(* never sees.                                                             *)
RefuseInvalidUpdate ==
    /\ Reply("accept", "InvalidUpdate")
    /\ UNCHANGED books

-----------------------------------------------------------------------------
(* settle and register_receipt                                             *)

(* What settle() compares; the previous commitment is not among it.        *)
SameState(h, k) ==
    /\ h.n = k.n /\ h.new = k.new /\ h.tmpl = k.tmpl
    /\ h.terms = k.terms /\ h.covenant = k.covenant

(* Mutant: the receipt names the state that would come next.               *)
ReceiptOfNext(h) ==
    [channel |-> h.channel, n |-> h.n + 1, tmpl |-> h.tmpl, terms |-> h.terms]

ReceiptOf(h) == [channel |-> h.channel, n |-> h.n, tmpl |-> h.tmpl, terms |-> h.terms]

SettleOutcome(h, tmpl) ==
    IF latest[h.channel] = NoHeader                THEN "UnknownChannel"
    ELSE IF ~SameState(latest[h.channel], h)       THEN "StaleState"
    ELSE IF h.tmpl # tmpl                          THEN "SettlementTemplateMismatch"
    ELSE IF h.channel \in settled                  THEN "DuplicateSettlement"
    ELSE IF ReceiptOf(latest[h.channel]) \in receipts THEN "DuplicateReceipt"
    ELSE "Ok"

Settle(h, tmpl) ==
    /\ SettleOutcome(h, tmpl) = "Ok"
    /\ LET receipt == ReceiptOf(latest[h.channel]) IN
          /\ receipts' = receipts \cup {receipt}
          /\ issued' = [issued EXCEPT ![h.channel] = @ \cup {receipt}]
    /\ settled' = settled \cup {h.channel}
    /\ Reply("settle", "Ok")
    /\ UNCHANGED <<latest, seen>>

RefuseSettlement(h, tmpl) ==
    /\ SettleOutcome(h, tmpl) # "Ok"
    /\ Reply("settle", SettleOutcome(h, tmpl))
    /\ UNCHANGED books

(* A receipt brought from outside; hashValid is whether its receipt_hash   *)
(* is the hash of its own scope.                                           *)
RegisterOutcome(r, hashValid) ==
    IF ~hashValid             THEN "ReceiptHashMismatch"
    ELSE IF r \in receipts    THEN "DuplicateReceipt"
    ELSE "Ok"

RegisterReceipt(r, hashValid) ==
    /\ receipts' = IF RegisterOutcome(r, hashValid) = "Ok"
                   THEN receipts \cup {r} ELSE receipts
    /\ Reply("register", RegisterOutcome(r, hashValid))
    /\ UNCHANGED <<latest, seen, settled, issued>>

-----------------------------------------------------------------------------
Next ==
    \/ \E h \in Header, inDomain \in BOOLEAN, rule \in Rules : Accept(h, inDomain, rule)
    \/ \E h \in Header, inDomain \in BOOLEAN, rule \in Rules :
          RefuseUpdate(h, inDomain, rule)
    \/ RefuseInvalidUpdate
    \/ \E h \in Header, tmpl \in Templates : Settle(h, tmpl)
    \/ \E h \in Header, tmpl \in Templates : RefuseSettlement(h, tmpl)
    \/ \E r \in ForeignReceipts, hashValid \in BOOLEAN : RegisterReceipt(r, hashValid)

Spec == Init /\ [][Next]_vars

-----------------------------------------------------------------------------
(* Type invariant of the registry's collections and of its call record.    *)
TypeOK ==
    /\ latest \in [Channels -> Header \cup {NoHeader}]
    /\ seen \in [Channels -> [StateNumbers -> Commitments \cup {NoCommitment}]]
    /\ settled \subseteq Channels
    /\ receipts \subseteq Receipt
    /\ issued \in [Channels -> SUBSET Receipt]
    /\ reply \in [op : Operations, result : Results]

(* latest_by_channel and seen_commitments are two maps that accept writes   *)
(* one after the other and settle() and the conflict check read apart.     *)
(* They always tell the same story: a channel without a latest header has  *)
(* no commitment at any number; one with a latest header has exactly the   *)
(* numbers up to it, its own commitment on top, and the commitment it      *)
(* names as its predecessor right below.                                   *)
MapsAgree(c) ==
    IF latest[c] = NoHeader
    THEN \A n \in StateNumbers : seen[c][n] = NoCommitment
    ELSE /\ latest[c].channel = c
         /\ seen[c][latest[c].n] = latest[c].new
         /\ \A n \in StateNumbers : seen[c][n] # NoCommitment <=> n <= latest[c].n
         /\ latest[c].n > 0 => seen[c][latest[c].n - 1] = latest[c].prev

LatestAndSeenAgree == \A c \in Channels : MapsAgree(c)

(* A channel is in settled_channels exactly when one receipt was issued    *)
(* for it, that receipt describes the state that is still its latest, and  *)
(* the receipt is registered, so that no one can present it again.  This   *)
(* is what the order "register the receipt, then mark the channel" in      *)
(* settle() is for: a receipt someone registered beforehand makes the call *)
(* fail between the two.                                                   *)
SettledOnceOnLatest ==
    \A c \in Channels :
        /\ issued[c] = IF c \in settled THEN {ReceiptOf(latest[c])} ELSE {}
        /\ c \in settled => latest[c] # NoHeader
        /\ issued[c] \subseteq receipts

(* Each channel of the registry is an abstract latest-state channel: its   *)
(* chain is the commitments recorded for it, and it is closed where its    *)
(* issued receipt says.  Neither same-number rule can rewrite a recorded   *)
(* commitment, and an update that arrives after the settlement is lost.    *)
Depth(c) == IF latest[c] = NoHeader THEN 0 ELSE latest[c].n + 1

ChainOf(c) == [i \in 1 .. Depth(c) |-> seen[c][i - 1]]

Chan(c) == INSTANCE LatestStateChannel WITH
    MaxDepth <- MaxState + 1,
    chain <- ChainOf(c),
    closedAt <- IF c \in settled THEN Depth(c) ELSE 0

ImplementsLatestStateChannel ==
    /\ \A c \in Channels : Chan(c)!ChainInit
    /\ [][\A c \in Channels : [Chan(c)!ChainNext]_(Chan(c)!chanVars)]_vars

(* The documentation of accept_update_with_rule: under PreferLater a       *)
(* second commitment at a state number of an open channel "overwrites the  *)
(* previously-stored commitment ... and becomes the new latest header".    *)
(* Stated for the mildest case, a rival of the latest state that names the *)
(* same predecessor.                                                       *)
DocPreferLaterOverwrites ==
    \A c \in Channels \ settled : \A h \in Header :
        /\ latest[c] # NoHeader /\ h.channel = c
        /\ h.n = latest[c].n /\ h.prev = latest[c].prev /\ h.new # latest[c].new
        => AcceptOutcome(h, TRUE, "PreferLater") = "Ok"
=============================================================================
