-------------------------------- MODULE EvmRail --------------------------------
(***************************************************************************)
(* The rite of sovereign/src/pay.ts on the Base rail: the send() of        *)
(* sovereign/src/senders/evm.sender.ts over the durable nonce reservations *)
(* of sovereign/src/senders/evm-nonce.ts.                                  *)
(*                                                                         *)
(* Durable state is the payments rows and the evm_nonce_reservations rows  *)
(* of one sending address.  A confirmation suspends at every await, several*)
(* run at once in one or more processes over the same file, and each can   *)
(* die at any await.  The chain is external: it counts the transactions of *)
(* the address, and an RPC node reports that count or an older one.        *)
(*                                                                         *)
(* The claim of confirmPayment is one step here (BtcRail models its read,  *)
(* its clock and the account it re-checks): expiry may strike at any time. *)
(***************************************************************************)
EXTENDS Naturals

CONSTANTS Payments,    \* one identity per quotePayment call
          Callers,     \* confirmPayment calls in progress at once
          NoPayment,   \* the payment of a caller that has none
          MaxNonce,    \* Number.MAX_SAFE_INTEGER, the last nonce the code can hold
          MaxOthers    \* bound of the model: transactions sent by other wallets

ASSUME NoPaymentAssumption == NoPayment \notin Payments
ASSUME NonceAssumption == MaxNonce \in Nat /\ MaxOthers \in Nat

VARIABLES row,          \* payments rows: status and tx_hash
          reservation,  \* evm_nonce_reservations rows
          caller,       \* confirm calls: stage, payment, the pending count each read
          posts,        \* how many sendRawTransaction calls left for each payment
          count,        \* transactions of the address the network knows, none evicted
          others        \* how many of them this node did not send

db == <<row, reservation>>
chain == <<count, others>>
vars == <<row, reservation, caller, posts, count, others>>

Statuses == {"none", "quoted", "confirmed", "broadcast", "failed"}

States == {"none", "reserved", "signed", "submitting", "submitted",
           "submission_unknown", "released_pre_submit"}

\* The await points of send() and of the confirmPayment around it, in order.
Stages == {"idle", "claimed", "counted", "reserved", "releasing", "rejected",
           "signed", "submitting", "posted", "acknowledged", "answered"}

Row == [status : Statuses, txHash : {"null", "hash"}]
Nonces == 0..MaxNonce
Reservation == [state : States, nonce : Nonces]

NoReservation == [state |-> "none", nonce |-> 0]
Idle == [stage |-> "idle", payment |-> NoPayment, pending |-> 0]

Wire == {p \in Payments : posts[p] > 0}

Init == /\ row = [p \in Payments |-> [status |-> "none", txHash |-> "null"]]
        /\ reservation = [p \in Payments |-> NoReservation]
        /\ caller = [c \in Callers |-> Idle]
        /\ posts = [p \in Payments |-> 0]
        /\ count = 0
        /\ others = 0

-----------------------------------------------------------------------------
At(c, stage) == caller[c].stage = stage
Paying(c) == caller[c].payment
Go(c, stage) == caller' = [caller EXCEPT ![c] =
                    [stage |-> stage, payment |-> @.payment, pending |-> @.pending]]
Return(c) == caller' = [caller EXCEPT ![c] = Idle]

SetRow(p, status, txHash) ==
    row' = [row EXCEPT ![p] = [status |-> status, txHash |-> txHash]]
SetReservation(p, state, nonce) ==
    reservation' = [reservation EXCEPT ![p] = [state |-> state, nonce |-> nonce]]

\* An UPDATE of one reservation guarded on the state it leaves.
Move(p, from, to) == /\ reservation[p].state = from
                     /\ SetReservation(p, to, reservation[p].nonce)

Quote(p) ==
    /\ row[p].status = "none"
    /\ SetRow(p, "quoted", "null")
    /\ UNCHANGED <<reservation, caller, posts, chain>>

\* The claim transaction finds the quote expired.
Expire(c, p) ==
    /\ At(c, "idle")
    /\ row[p].status = "quoted"
    /\ SetRow(p, "failed", "null")
    /\ UNCHANGED <<reservation, caller, posts, chain>>

Claim(c, p) ==
    /\ At(c, "idle")
    /\ row[p].status = "quoted"
    /\ SetRow(p, "confirmed", row[p].txHash)
    /\ caller' = [caller EXCEPT ![c] = [stage |-> "claimed", payment |-> p, pending |-> 0]]
    /\ UNCHANGED <<reservation, posts, chain>>

\* The stored detail, the accepted fees and a fresh gas estimate agree, and the
\* node answers eth_getTransactionCount: with today's count or a stale one.
GetPendingNonce(c) ==
    /\ At(c, "claimed")
    /\ \E n \in 0..count \cap Nonces :
           caller' = [caller EXCEPT ![c] =
                         [stage |-> "counted", payment |-> Paying(c), pending |-> n]]
    /\ UNCHANGED <<db, posts, chain>>

\* Any error before a nonce is held, also when no safe integer is left to hold.
Reject(c) ==
    /\ caller[c].stage \in {"claimed", "counted"}
    /\ Go(c, "rejected")
    /\ UNCHANGED <<db, posts, chain>>

-----------------------------------------------------------------------------
\* Every reservation but a released one holds its nonce; none has a TTL.
Held(p) == reservation[p].state \notin {"none", "released_pre_submit"}

HeldNonces == {reservation[p].nonce : p \in {q \in Payments : Held(q)}}

\* Mutants of LowestFree: the RPC's count trusted as free, and read as used.
TrustPending(pending, n) == n = pending
SkipPending(pending, n) ==
    /\ n > pending
    /\ n \notin HeldNonces
    /\ \A k \in (pending + 1)..n : k < n => k \in HeldNonces

\* reserveEvmNonce's scan: the lowest free nonce at or above the RPC's count.
LowestFree(pending, n) ==
    /\ n >= pending
    /\ n \notin HeldNonces
    /\ \A k \in pending..n : k < n => k \in HeldNonces

\* Mutant of ReserveNonce: the scan may step past the last safe integer.
ReserveBeyond(c) ==
    /\ At(c, "counted")
    /\ row[Paying(c)].status = "confirmed"
    /\ reservation[Paying(c)].state = "none"
    /\ \E n \in 0..(MaxNonce + 1) : /\ LowestFree(caller[c].pending, n)
                                   /\ SetReservation(Paying(c), "reserved", n)
    /\ Go(c, "reserved")
    /\ UNCHANGED <<row, posts, chain>>

\* reserveEvmNonce, one BEGIN IMMEDIATE transaction.
ReserveNonce(c) ==
    /\ At(c, "counted")
    /\ row[Paying(c)].status = "confirmed"
    /\ reservation[Paying(c)].state = "none"
    /\ \E n \in Nonces : /\ LowestFree(caller[c].pending, n)
                         /\ SetReservation(Paying(c), "reserved", n)
    /\ Go(c, "reserved")
    /\ UNCHANGED <<row, posts, chain>>

\* The vault is locked, the signature is not the quoted transaction's, or the
\* signed evidence cannot be persisted: the reservation is to be released.
SignFails(c) ==
    /\ At(c, "reserved")
    /\ Go(c, "releasing")
    /\ UNCHANGED <<db, posts, chain>>

ReleasePreSubmit(c) ==
    /\ At(c, "releasing")
    /\ Move(Paying(c), "reserved", "released_pre_submit")
    /\ Go(c, "rejected")
    /\ UNCHANGED <<row, posts, chain>>

\* The release itself throws: the payment fails and the nonce stays held.
ReleaseFails(c) ==
    /\ At(c, "releasing")
    /\ Go(c, "rejected")
    /\ UNCHANGED <<db, posts, chain>>

\* markEvmNonceSigned: the reservation, the signed bytes and the payment's hash
\* in one transaction, which rolls back unless the payment is still confirmed.
MarkSigned(c) ==
    /\ At(c, "reserved")
    /\ row[Paying(c)].status = "confirmed"
    /\ Move(Paying(c), "reserved", "signed")
    /\ SetRow(Paying(c), "confirmed", "hash")
    /\ Go(c, "signed")
    /\ UNCHANGED <<posts, chain>>

\* Mutant of AbandonSigned: the error is taken for one before signing.
AbandonAsRejected(c) ==
    /\ At(c, "signed")
    /\ Go(c, "rejected")
    /\ UNCHANGED <<db, posts, chain>>

\* The hook or the next UPDATE throws: nothing leaves, but a signed transaction
\* exists, so the outcome is reported as ambiguous.
AbandonSigned(c) ==
    /\ At(c, "signed")
    /\ Return(c)
    /\ UNCHANGED <<db, posts, chain>>

MarkSubmitting(c) ==
    /\ At(c, "signed")
    /\ Move(Paying(c), "signed", "submitting")
    /\ Go(c, "submitting")
    /\ UNCHANGED <<row, posts, chain>>

\* The one sendRawTransaction.
SendRaw(c) ==
    /\ At(c, "submitting")
    /\ posts' = [posts EXCEPT ![Paying(c)] = @ + 1]
    /\ Go(c, "posted")
    /\ UNCHANGED <<db, chain>>

\* markEvmNonceSubmissionUnknown, whose failure is swallowed.
MarkUnknown(p) == \/ Move(p, "submitting", "submission_unknown")
                  \/ UNCHANGED reservation

\* Mutant of SendUnknown: an RPC error gives the nonce back.
SendUnknownReleased(c) ==
    /\ caller[c].stage \in {"submitting", "posted"}
    /\ Move(Paying(c), "submitting", "released_pre_submit")
    /\ Return(c)
    /\ UNCHANGED <<row, posts, chain>>

\* The call throws, before or after the bytes left, or answers another hash.
SendUnknown(c) ==
    /\ caller[c].stage \in {"submitting", "posted"}
    /\ MarkUnknown(Paying(c))
    /\ Return(c)
    /\ UNCHANGED <<row, posts, chain>>

Acknowledge(c) ==
    /\ At(c, "posted")
    /\ Go(c, "acknowledged")
    /\ UNCHANGED <<db, posts, chain>>

MarkSubmitted(c) ==
    /\ At(c, "acknowledged")
    /\ Move(Paying(c), "submitting", "submitted")
    /\ Go(c, "answered")
    /\ UNCHANGED <<row, posts, chain>>

\* Mutant of MarkSubmittedFails: a bookkeeping error reported as a failed send.
MarkSubmittedAsFailure(c) ==
    /\ At(c, "acknowledged")
    /\ Go(c, "rejected")
    /\ UNCHANGED <<db, posts, chain>>

\* The node has the transaction, but the reservation's UPDATE throws.
MarkSubmittedFails(c) ==
    /\ At(c, "acknowledged")
    /\ MarkUnknown(Paying(c))
    /\ Return(c)
    /\ UNCHANGED <<row, posts, chain>>

\* confirmPayment's catch, with no guard on the status it replaces.
RecordFailed(c) ==
    /\ At(c, "rejected")
    /\ SetRow(Paying(c), "failed", row[Paying(c)].txHash)
    /\ Return(c)
    /\ UNCHANGED <<reservation, posts, chain>>

RecordBroadcast(c) ==
    /\ At(c, "answered")
    /\ SetRow(Paying(c), "broadcast", "hash")
    /\ Return(c)
    /\ UNCHANGED <<reservation, posts, chain>>

Crash(c) ==
    /\ ~At(c, "idle")
    /\ Return(c)
    /\ UNCHANGED <<db, posts, chain>>

-----------------------------------------------------------------------------
\* The network takes the transaction whose nonce is its count.
TakeOurs ==
    /\ \E p \in Wire : reservation[p].nonce = count
    /\ count' = count + 1
    /\ UNCHANGED <<db, caller, posts, others>>

\* Another wallet holding the same key sends at the count.
TakeOther ==
    /\ others < MaxOthers
    /\ count' = count + 1
    /\ others' = others + 1
    /\ UNCHANGED <<db, caller, posts>>

Claiming(c, p) == Expire(c, p) \/ Claim(c, p)

Preparing(c) == \/ GetPendingNonce(c) \/ Reject(c) \/ ReserveNonce(c)
                \/ SignFails(c) \/ ReleasePreSubmit(c) \/ ReleaseFails(c)
                \/ MarkSigned(c) \/ AbandonSigned(c) \/ MarkSubmitting(c)

Submitting(c) == \/ SendRaw(c) \/ SendUnknown(c) \/ Acknowledge(c)
                 \/ MarkSubmitted(c) \/ MarkSubmittedFails(c)

Recording(c) == RecordFailed(c) \/ RecordBroadcast(c)

Next == \/ \E p \in Payments : Quote(p)
        \/ \E c \in Callers, p \in Payments : Claiming(c, p)
        \/ \E c \in Callers : Preparing(c) \/ Submitting(c) \/ Recording(c) \/ Crash(c)
        \/ TakeOurs
        \/ TakeOther

Spec == Init /\ [][Next]_vars

-----------------------------------------------------------------------------
(***************************************************************************)
(* Properties.                                                             *)
(***************************************************************************)

\* Every variable keeps its type.
TypeOK ==
    /\ row \in [Payments -> Row]
    /\ reservation \in [Payments -> Reservation]
    /\ caller \in [Callers -> [stage : Stages, payment : Payments \cup {NoPayment}, pending : Nat]]
    /\ \A c \in Callers : caller[c].stage # "idle" => caller[c].payment \in Payments
    /\ posts \in [Payments -> Nat]
    /\ count \in Nat
    /\ others \in Nat

\* No two transactions that left carry one nonce, and no reservation that still
\* holds a nonce shares it, however stale the RPC's count was: a second use
\* would replace our own pending transaction.
NonceExclusive ==
    \A p, q \in Payments :
        p # q /\ Held(p) /\ Held(q) => reservation[p].nonce # reservation[q].nonce

\* A nonce is given back only if nothing was signed with it: a payment that
\* left, or that has a hash, keeps its reservation whatever throws or crashes.
SignedNonceSticks ==
    \A p \in Payments :
        /\ row[p].txHash = "hash" =>
               reservation[p].state \in {"signed", "submitting", "submitted", "submission_unknown"}
        /\ p \in Wire =>
               /\ row[p].txHash = "hash"
               /\ reservation[p].state \in {"submitting", "submitted", "submission_unknown"}

\* The two rows of a payment tell one story: failed means never signed, broadcast
\* means submitted, and every POST is recorded as begun before it leaves.
RowsAgree ==
    \A p \in Payments :
        /\ row[p].status = "failed" =>
               /\ row[p].txHash = "null"
               /\ reservation[p].state \in {"none", "reserved", "released_pre_submit"}
        /\ row[p].status = "broadcast" => reservation[p].state = "submitted" /\ posts[p] = 1
        /\ posts[p] <= 1

\* Reservations never skip a nonce: below one that is held, every nonce was
\* consumed on the chain or was once reserved here.  A transaction waits only
\* for a payment of this node that stopped before it was sent.
NoSkippedNonce ==
    \A p \in Payments : Held(p) =>
        \A k \in count..reservation[p].nonce :
            \E q \in Payments : reservation[q].state # "none" /\ reservation[q].nonce = k

RiteSteps == {<<"none", "reserved">>, <<"reserved", "signed">>,
              <<"reserved", "released_pre_submit">>, <<"signed", "submitting">>,
              <<"submitting", "submitted">>, <<"submitting", "submission_unknown">>}

\* A reservation moves along the states evm-nonce.ts lists, keeps the nonce it
\* was given, and crosses "submitting" before the first byte leaves.
ReservationRite ==
    [][\A p \in Payments :
          /\ reservation'[p].state # reservation[p].state =>
                 <<reservation[p].state, reservation'[p].state>> \in RiteSteps
          /\ reservation[p].state # "none" => reservation'[p].nonce = reservation[p].nonce
          /\ posts'[p] # posts[p] => reservation[p].state = "submitting"]_vars

Phase(p) ==
    CASE row[p].status = "none"      -> "absent"
      [] row[p].status = "quoted"    -> "quoted"
      [] row[p].status = "failed"    -> "void"
      [] row[p].status = "broadcast" -> "settled"
      [] row[p].status = "confirmed" -> IF posts[p] > 0 THEN "sent" ELSE "claimed"

Rite == INSTANCE PaymentRite WITH
            Slots <- Nonces,
            phase <- [p \in Payments |-> Phase(p)],
            used  <- [p \in Payments |-> IF posts[p] > 0 THEN {reservation[p].nonce} ELSE {}]

\* The Base rail implements the rite of pay.ts with nonces as its slots.
ImplementsRite == Rite!Spec

-----------------------------------------------------------------------------
(***************************************************************************)
(* The strengthening EvmRailProofs shows inductive.                        *)
(***************************************************************************)
Unsigned == {"claimed", "counted", "reserved", "releasing", "rejected"}
Unsent == Unsigned \cup {"signed", "submitting"}

\* At most one call owns a payment, and its rows say how far it got.
OneOwner ==
    \A c, d \in Callers :
        ~At(c, "idle") /\ ~At(d, "idle") /\ Paying(c) = Paying(d) => c = d

\* The rows and the request count of a call's payment, stage by stage.
Follows(c) ==
    /\ row[Paying(c)].status = "confirmed"
    /\ row[Paying(c)].txHash = IF caller[c].stage \in Unsigned THEN "null" ELSE "hash"
    /\ posts[Paying(c)] = IF caller[c].stage \in Unsent THEN 0 ELSE 1
    /\ caller[c].stage \in {"claimed", "counted"} => reservation[Paying(c)].state = "none"
    /\ caller[c].stage \in {"reserved", "releasing"} => reservation[Paying(c)].state = "reserved"
    /\ At(c, "rejected") =>
           reservation[Paying(c)].state \in {"none", "reserved", "released_pre_submit"}
    /\ At(c, "signed") => reservation[Paying(c)].state = "signed"
    /\ caller[c].stage \in {"submitting", "posted", "acknowledged"} =>
           reservation[Paying(c)].state = "submitting"
    /\ At(c, "answered") => reservation[Paying(c)].state = "submitted"

OwnerRow == \A c \in Callers : ~At(c, "idle") => Follows(c)

RowHistory ==
    \A p \in Payments :
        /\ row[p].status \in {"none", "quoted"} =>
               /\ reservation[p].state = "none"
               /\ row[p].txHash = "null"
               /\ posts[p] = 0
        /\ row[p].txHash = "hash" => row[p].status \in {"confirmed", "broadcast"}

\* A count that a call read is never ahead of the network's.
PendingIsPast == \A c \in Callers : caller[c].pending <= count

IInv == /\ TypeOK /\ OneOwner /\ OwnerRow /\ RowHistory
        /\ SignedNonceSticks /\ RowsAgree /\ NonceExclusive
        /\ PendingIsPast /\ NoSkippedNonce
=============================================================================
