----------------------------- MODULE EvmRailProofs -----------------------------
(***************************************************************************)
(* Theorems about EvmRail, for any payments, callers, largest nonce and    *)
(* number of foreign transactions.                                         *)
(***************************************************************************)
EXTENDS EvmRail, TLAPS

CallerType ==
    /\ caller \in [Callers -> [stage : Stages, payment : Payments \cup {NoPayment}, pending : Nat]]
    /\ \A c \in Callers : caller[c].stage # "idle" => caller[c].payment \in Payments

-----------------------------------------------------------------------------
\* A call that moves to another stage, or returns, stays well formed, and no
\* other call changes.
LEMMA GoType ==
    ASSUME TypeOK, NEW c \in Callers, ~At(c, "idle"), NEW s \in Stages, Go(c, s)
    PROVE  CallerType' /\ Paying(c) \in Payments
  BY DEF TypeOK, CallerType, Go, At, Paying

\* A call that ends leaves a well-typed, empty slot.
LEMMA ReturnType ==
    ASSUME TypeOK, NEW c \in Callers, Return(c)
    PROVE  CallerType'
  BY DEF TypeOK, CallerType, Return, Idle, Stages, At, Paying

\* Writing one payments row or one reservation row keeps the tables well formed.
LEMMA RowType ==
    ASSUME TypeOK, NEW p \in Payments, NEW status \in Statuses, NEW txHash \in {"null", "hash"},
           SetRow(p, status, txHash)
    PROVE  row' \in [Payments -> Row]
  BY DEF TypeOK, SetRow, Row

\* A guarded reservation UPDATE keeps the types.
LEMMA MoveType ==
    ASSUME TypeOK, NEW p \in Payments, NEW from, NEW to \in States, Move(p, from, to)
    PROVE  reservation' \in [Payments -> Reservation]
  BY DEF TypeOK, Move, SetReservation, Reservation

\* So does the UPDATE of markEvmNonceSubmissionUnknown, done or swallowed.
LEMMA UnknownType ==
    ASSUME TypeOK, NEW p \in Payments, MarkUnknown(p)
    PROVE  reservation' \in [Payments -> Reservation]
  BY MoveType DEF TypeOK, MarkUnknown, States

\* Every variable keeps its type: rows, reservations and calls stay in the
\* shapes pay.ts, evm.sender.ts and evm-nonce.ts assume of one another.
THEOREM TypeCorrect == Spec => []TypeOK
<1>1. Init => TypeOK
  BY NonceAssumption DEF Init, TypeOK, Row, Statuses, Reservation, NoReservation, States,
     Nonces, Idle, Stages
<1>2. TypeOK /\ [Next]_vars => TypeOK'
  <2> SUFFICES ASSUME TypeOK, [Next]_vars PROVE TypeOK'
    OBVIOUS
  <2> USE DEF At, Paying, db, chain
  <2>0. \A c \in Callers : ~At(c, "idle") => Paying(c) \in Payments
    BY DEF TypeOK
  <2>1. ASSUME NEW p \in Payments, Quote(p) PROVE TypeOK'
    BY <2>1, RowType DEF TypeOK, Quote, Statuses
  <2>2. ASSUME NEW c \in Callers, NEW p \in Payments, Expire(c, p) PROVE TypeOK'
    BY <2>2, RowType DEF TypeOK, Expire, Statuses
  <2>3. ASSUME NEW c \in Callers, NEW p \in Payments, Claim(c, p) PROVE TypeOK'
    <3>1. row' \in [Payments -> Row]
      BY <2>3 DEF TypeOK, Claim, SetRow, Row, Statuses
    <3>2. CallerType'
      BY <2>3 DEF TypeOK, CallerType, Claim, Stages
    <3>3. QED
      BY <2>3, <3>1, <3>2 DEF TypeOK, CallerType, Claim
  <2>4. ASSUME NEW c \in Callers, GetPendingNonce(c) PROVE TypeOK'
    <3>1. CallerType'
      BY <2>0, <2>4 DEF TypeOK, CallerType, GetPendingNonce, Stages
    <3>2. QED
      BY <2>4, <3>1 DEF TypeOK, CallerType, GetPendingNonce
  <2>5. ASSUME NEW c \in Callers,
               \/ Reject(c) \/ SignFails(c) \/ ReleaseFails(c) \/ Acknowledge(c)
        PROVE  TypeOK'
    <3>1. CallerType' /\ UNCHANGED <<row, reservation, posts, count, others>>
      BY <2>5, GoType DEF Reject, SignFails, ReleaseFails, Acknowledge, Stages
    <3>2. QED
      BY <3>1 DEF TypeOK, CallerType
  <2>6. ASSUME NEW c \in Callers, AbandonSigned(c) \/ Crash(c) PROVE TypeOK'
    <3>1. CallerType' /\ UNCHANGED <<row, reservation, posts, count, others>>
      BY <2>6, ReturnType DEF AbandonSigned, Crash
    <3>2. QED
      BY <3>1 DEF TypeOK, CallerType
  <2>7. ASSUME NEW c \in Callers, ReserveNonce(c) PROVE TypeOK'
    <3>1. CallerType'
      BY <2>7, GoType DEF ReserveNonce, Stages
    <3>2. reservation' \in [Payments -> Reservation]
      BY <2>7 DEF TypeOK, ReserveNonce, SetReservation, Reservation, States
    <3>3. QED
      BY <2>7, <3>1, <3>2 DEF TypeOK, CallerType, ReserveNonce
  <2>8. ASSUME NEW c \in Callers, ReleasePreSubmit(c) PROVE TypeOK'
    <3>1. CallerType' /\ reservation' \in [Payments -> Reservation]
      BY <2>0, <2>8, GoType, MoveType DEF ReleasePreSubmit, Stages, States
    <3>2. QED
      BY <2>8, <3>1 DEF TypeOK, CallerType, ReleasePreSubmit
  <2>9. ASSUME NEW c \in Callers, MarkSigned(c) PROVE TypeOK'
    <3>1. CallerType' /\ reservation' \in [Payments -> Reservation]
      BY <2>0, <2>9, GoType, MoveType DEF MarkSigned, Stages, States
    <3>2. row' \in [Payments -> Row]
      BY <2>0, <2>9, RowType DEF MarkSigned, Statuses
    <3>3. QED
      BY <2>9, <3>1, <3>2 DEF TypeOK, CallerType, MarkSigned
  <2>10. ASSUME NEW c \in Callers, MarkSubmitting(c) \/ MarkSubmitted(c) PROVE TypeOK'
    <3>1. CallerType' /\ reservation' \in [Payments -> Reservation]
      BY <2>0, <2>10, GoType, MoveType DEF MarkSubmitting, MarkSubmitted, Stages, States
    <3>2. QED
      BY <2>10, <3>1 DEF TypeOK, CallerType, MarkSubmitting, MarkSubmitted
  <2>11. ASSUME NEW c \in Callers, SendRaw(c) PROVE TypeOK'
    <3>1. CallerType'
      BY <2>11, GoType DEF SendRaw, Stages
    <3>2. QED
      BY <2>0, <2>11, <3>1 DEF TypeOK, CallerType, SendRaw
  <2>12. ASSUME NEW c \in Callers, SendUnknown(c) \/ MarkSubmittedFails(c) PROVE TypeOK'
    <3>1. CallerType' /\ reservation' \in [Payments -> Reservation]
      BY <2>0, <2>12, ReturnType, UnknownType DEF SendUnknown, MarkSubmittedFails
    <3>2. QED
      BY <2>12, <3>1 DEF TypeOK, CallerType, SendUnknown, MarkSubmittedFails
  <2>13. ASSUME NEW c \in Callers, Recording(c) PROVE TypeOK'
    <3>1. CallerType'
      BY <2>13, ReturnType DEF Recording, RecordFailed, RecordBroadcast
    <3>2. row' \in [Payments -> Row]
      BY <2>0, <2>13 DEF TypeOK, Recording, RecordFailed, RecordBroadcast, SetRow, Row, Statuses
    <3>3. QED
      BY <2>13, <3>1, <3>2 DEF TypeOK, CallerType, Recording, RecordFailed, RecordBroadcast
  <2>14. CASE TakeOurs \/ TakeOther \/ UNCHANGED vars
    BY <2>14 DEF TypeOK, TakeOurs, TakeOther, vars
  <2>15. QED
    BY <2>1, <2>2, <2>3, <2>4, <2>5, <2>6, <2>7, <2>8, <2>9, <2>10, <2>11, <2>12, <2>13, <2>14
       DEF Next, Claiming, Preparing, Submitting
<1>3. QED
  BY <1>1, <1>2, PTL DEF Spec

-----------------------------------------------------------------------------
(***************************************************************************)
(* Ownership: the claim gives the payment to one call, and both rows and   *)
(* the network follow the stage that call has reached.                     *)
(***************************************************************************)
Ownership == OneOwner /\ OwnerRow /\ RowHistory /\ SignedNonceSticks /\ RowsAgree

\* What RowHistory, SignedNonceSticks and RowsAgree say of one payment.
Story(p) ==
    /\ row[p].status \in {"none", "quoted"} =>
           reservation[p].state = "none" /\ row[p].txHash = "null" /\ posts[p] = 0
    /\ row[p].txHash = "hash" =>
           /\ row[p].status \in {"confirmed", "broadcast"}
           /\ reservation[p].state \in {"signed", "submitting", "submitted", "submission_unknown"}
    /\ posts[p] > 0 =>
           /\ row[p].txHash = "hash"
           /\ reservation[p].state \in {"submitting", "submitted", "submission_unknown"}
    /\ row[p].status = "failed" =>
           /\ row[p].txHash = "null"
           /\ reservation[p].state \in {"none", "reserved", "released_pre_submit"}
    /\ row[p].status = "broadcast" => reservation[p].state = "submitted" /\ posts[p] = 1
    /\ posts[p] <= 1

\* Follows, Story by Story: what each stage of the owning call says of its rows.
LEMMA StoryOfEach ==
    (\A p \in Payments : Story(p)) <=> RowHistory /\ SignedNonceSticks /\ RowsAgree
  BY DEF Story, RowHistory, SignedNonceSticks, RowsAgree, Wire

OnlyPayment(p) ==
    \A q \in Payments : q # p => /\ row'[q] = row[q]
                                 /\ reservation'[q] = reservation[q]
                                 /\ posts'[q] = posts[q]

OnlyCaller(c) == \A d \in Callers : d # c => caller'[d] = caller[d]

NoOtherOwner(c, p) == \A d \in Callers : d # c /\ ~At(d, "idle") => Paying(d) # p

\* A call that is not idle is the only owner of its payment.
LEMMA Owned ==
    ASSUME TypeOK, Ownership, NEW c \in Callers, ~At(c, "idle")
    PROVE  /\ Paying(c) \in Payments /\ NoOtherOwner(c, Paying(c))
           /\ Follows(c) /\ Story(Paying(c))
<1>1. Paying(c) \in Payments
  BY DEF TypeOK, At, Paying
<1>2. QED
  BY <1>1, StoryOfEach DEF Ownership, OneOwner, OwnerRow, NoOtherOwner

\* A step that touches one payment and one call, the call that owns it or takes
\* it, keeps ownership if that call and that payment still agree.
LEMMA LocalStep ==
    ASSUME TypeOK, Ownership, NEW c \in Callers, NEW p \in Payments,
           OnlyPayment(p), OnlyCaller(c), NoOtherOwner(c, p),
           At(c, "idle")' \/ (Paying(c)' = p /\ Follows(c)'), Story(p)'
    PROVE  Ownership'
<1>1. ASSUME NEW q \in Payments PROVE Story(q)'
  <2>1. CASE q = p
    BY <2>1
  <2>2. CASE q # p
    <3>1. Story(q)
      BY StoryOfEach DEF Ownership
    <3>2. QED
      BY <2>2, <3>1 DEF OnlyPayment, Story
  <2>3. QED
    BY <2>1, <2>2
<1>2. (RowHistory /\ SignedNonceSticks /\ RowsAgree)'
  BY <1>1, StoryOfEach DEF Story, RowHistory, SignedNonceSticks, RowsAgree, Wire
<1>3. OneOwner'
  BY DEF Ownership, OneOwner, OnlyCaller, NoOtherOwner, At, Paying
<1>4. ASSUME NEW d \in Callers, ~At(d, "idle")' PROVE Follows(d)'
  <2>1. CASE d = c
    BY <1>4, <2>1
  <2>2. CASE d # c
    <3>1. caller'[d] = caller[d] /\ Follows(d) /\ Paying(d) # p /\ Paying(d) \in Payments
      BY <1>4, <2>2 DEF OnlyCaller, Ownership, OwnerRow, NoOtherOwner, At, Paying, TypeOK
    <3>2. QED
      BY <3>1 DEF OnlyPayment, Follows, At, Paying
  <2>3. QED
    BY <2>1, <2>2
<1>5. QED
  BY <1>2, <1>3, <1>4 DEF Ownership, OwnerRow

\* Every step keeps ownership: one owner per payment, whose stage its payments
\* row, its reservation and its requests follow.
LEMMA OwnershipStep == TypeOK /\ Ownership /\ [Next]_vars => Ownership'
<1> SUFFICES ASSUME TypeOK, Ownership, [Next]_vars PROVE Ownership'
  OBVIOUS
<1> USE DEF At, Paying
<1>1. ASSUME NEW p \in Payments, Quote(p) PROVE Ownership'
  <2>1. \A c \in Callers : NoOtherOwner(c, p)
    BY <1>1 DEF Quote, Ownership, OwnerRow, Follows, NoOtherOwner
  <2>2. Story(p)
    BY StoryOfEach DEF Ownership
  <2>3. OnlyPayment(p) /\ Story(p)' /\ caller' = caller
    BY <1>1, <2>2 DEF Quote, OnlyPayment, Story, SetRow, TypeOK, Row
  <2>4. \A d \in Callers : ~At(d, "idle") => Paying(d) # p /\ Paying(d) \in Payments
    BY <1>1 DEF Quote, Ownership, OwnerRow, Follows, TypeOK
  <2>5. ASSUME NEW q \in Payments PROVE Story(q)'
    BY <2>3, StoryOfEach DEF Ownership, OnlyPayment, Story
  <2>6. OneOwner' /\ OwnerRow'
    BY <2>3, <2>4 DEF Ownership, OneOwner, OwnerRow, Follows, OnlyPayment
  <2>7. QED
    BY <2>5, <2>6, StoryOfEach DEF Ownership, Story, RowHistory, SignedNonceSticks, RowsAgree, Wire
<1>2. ASSUME NEW c \in Callers, NEW p \in Payments, Expire(c, p) \/ Claim(c, p) PROVE Ownership'
  <2>1. NoOtherOwner(c, p) /\ OnlyCaller(c)
    BY <1>2 DEF Expire, Claim, Ownership, OwnerRow, Follows, NoOtherOwner, OnlyCaller, TypeOK
  <2>2. Story(p) /\ row[p].status = "quoted"
    BY <1>2, StoryOfEach DEF Ownership, Expire, Claim
  <2>3. OnlyPayment(p) /\ Story(p)'
    BY <1>2, <2>2 DEF Expire, Claim, OnlyPayment, Story, SetRow, TypeOK, Row
  <2>4. CASE Expire(c, p)
    BY <2>1, <2>3, <2>4, LocalStep DEF Expire
  <2>5. CASE Claim(c, p)
    <3>1. Paying(c)' = p /\ Follows(c)'
      BY <2>2, <2>5 DEF Claim, Story, Follows, Unsigned, Unsent, SetRow, TypeOK, Row
    <3>2. QED
      BY <2>1, <2>3, <3>1, LocalStep
  <2>6. QED
    BY <1>2, <2>4, <2>5
<1>3. ASSUME NEW c \in Callers, NEW p \in Payments, p = Paying(c), ~At(c, "idle"),
             Preparing(c) \/ Submitting(c) \/ Recording(c) \/ Crash(c)
      PROVE  Ownership'
  <2>0. NoOtherOwner(c, p) /\ Follows(c) /\ Story(p)
    BY <1>3, Owned
  <2>1. CASE GetPendingNonce(c)
    <3>1. OnlyPayment(p) /\ OnlyCaller(c)
      BY <1>3, <2>1 DEF GetPendingNonce, db, OnlyPayment, OnlyCaller, TypeOK
    <3>2. Paying(c)' = p /\ Follows(c)'
      BY <1>3, <2>0, <2>1 DEF GetPendingNonce, db, Follows, Unsigned, Unsent, TypeOK
    <3>3. Story(p)'
      BY <1>3, <2>0, <2>1 DEF GetPendingNonce, db, Story, Follows, Unsigned, Unsent, TypeOK
    <3>4. QED
      BY <2>0, <3>1, <3>2, <3>3, LocalStep
  <2>2. CASE Reject(c) \/ SignFails(c) \/ ReleaseFails(c) \/ Acknowledge(c)
    <3>1. OnlyPayment(p) /\ OnlyCaller(c)
      BY <1>3, <2>2 DEF Reject, SignFails, ReleaseFails, Acknowledge, Go, db, OnlyPayment, OnlyCaller, TypeOK
    <3>2. Paying(c)' = p /\ Follows(c)'
      BY <1>3, <2>0, <2>2 DEF Reject, SignFails, ReleaseFails, Acknowledge, Go, db, Follows, Unsigned, Unsent, TypeOK
    <3>3. Story(p)'
      BY <1>3, <2>0, <2>2 DEF Reject, SignFails, ReleaseFails, Acknowledge, Go, db, Story, Follows, Unsigned, Unsent, TypeOK
    <3>4. QED
      BY <2>0, <3>1, <3>2, <3>3, LocalStep
  <2>3. CASE ReserveNonce(c)
    <3>1. OnlyPayment(p) /\ OnlyCaller(c)
      BY <1>3, <2>3 DEF ReserveNonce, Go, SetReservation, Reservation, OnlyPayment, OnlyCaller, TypeOK
    <3>2. Paying(c)' = p /\ Follows(c)'
      BY <1>3, <2>0, <2>3 DEF ReserveNonce, Go, SetReservation, Reservation, Follows, Unsigned, Unsent, TypeOK
    <3>3. Story(p)'
      BY <1>3, <2>0, <2>3 DEF ReserveNonce, Go, SetReservation, Reservation, Story, Follows, Unsigned, Unsent, TypeOK
    <3>4. QED
      BY <2>0, <3>1, <3>2, <3>3, LocalStep
  <2>4. CASE ReleasePreSubmit(c) \/ MarkSubmitting(c) \/ MarkSubmitted(c)
    <3>1. OnlyPayment(p) /\ OnlyCaller(c)
      BY <1>3, <2>4 DEF ReleasePreSubmit, MarkSubmitting, MarkSubmitted, Go, Move, SetReservation, Reservation, OnlyPayment, OnlyCaller, TypeOK
    <3>2. Paying(c)' = p /\ Follows(c)'
      BY <1>3, <2>0, <2>4 DEF ReleasePreSubmit, MarkSubmitting, MarkSubmitted, Go, Move, SetReservation, Reservation, Follows, Unsigned, Unsent, TypeOK
    <3>3. Story(p)'
      BY <1>3, <2>0, <2>4 DEF ReleasePreSubmit, MarkSubmitting, MarkSubmitted, Go, Move, SetReservation, Reservation, Story, Follows, Unsigned, Unsent, TypeOK
    <3>4. QED
      BY <2>0, <3>1, <3>2, <3>3, LocalStep
  <2>5. CASE MarkSigned(c)
    <3>1. OnlyPayment(p) /\ OnlyCaller(c)
      BY <1>3, <2>5 DEF MarkSigned, Go, Move, SetReservation, Reservation, SetRow, Row, OnlyPayment, OnlyCaller, TypeOK
    <3>2. Paying(c)' = p /\ Follows(c)'
      BY <1>3, <2>0, <2>5 DEF MarkSigned, Go, Move, SetReservation, Reservation, SetRow, Row, Follows, Unsigned, Unsent, TypeOK
    <3>3. Story(p)'
      BY <1>3, <2>0, <2>5 DEF MarkSigned, Go, Move, SetReservation, Reservation, SetRow, Row, Story, Follows, Unsigned, Unsent, TypeOK
    <3>4. QED
      BY <2>0, <3>1, <3>2, <3>3, LocalStep
  <2>6. CASE SendRaw(c)
    <3>1. OnlyPayment(p) /\ OnlyCaller(c)
      BY <1>3, <2>6 DEF SendRaw, Go, db, OnlyPayment, OnlyCaller, TypeOK
    <3>2. Paying(c)' = p /\ Follows(c)'
      BY <1>3, <2>0, <2>6 DEF SendRaw, Go, db, Follows, Unsigned, Unsent, TypeOK
    <3>3. Story(p)'
      BY <1>3, <2>0, <2>6 DEF SendRaw, Go, db, Story, Follows, Unsigned, Unsent, TypeOK
    <3>4. QED
      BY <2>0, <3>1, <3>2, <3>3, LocalStep
  <2>7. CASE AbandonSigned(c) \/ Crash(c)
    <3>1. OnlyPayment(p) /\ OnlyCaller(c)
      BY <1>3, <2>7 DEF AbandonSigned, Crash, Return, Idle, db, OnlyPayment, OnlyCaller, TypeOK
    <3>2. At(c, "idle")'
      BY <1>3, <2>0, <2>7 DEF AbandonSigned, Crash, Return, Idle, db, Follows, Unsigned, Unsent, TypeOK
    <3>3. Story(p)'
      BY <1>3, <2>0, <2>7 DEF AbandonSigned, Crash, Return, Idle, db, Story, Follows, Unsigned, Unsent, TypeOK
    <3>4. QED
      BY <2>0, <3>1, <3>2, <3>3, LocalStep
  <2>8. CASE SendUnknown(c) \/ MarkSubmittedFails(c)
    <3>1. OnlyPayment(p) /\ OnlyCaller(c)
      BY <1>3, <2>8 DEF SendUnknown, MarkSubmittedFails, Return, Idle, MarkUnknown, Move, SetReservation, Reservation, OnlyPayment, OnlyCaller, TypeOK
    <3>2. At(c, "idle")'
      BY <1>3, <2>0, <2>8 DEF SendUnknown, MarkSubmittedFails, Return, Idle, MarkUnknown, Move, SetReservation, Reservation, Follows, Unsigned, Unsent, TypeOK
    <3>3. Story(p)'
      BY <1>3, <2>0, <2>8 DEF SendUnknown, MarkSubmittedFails, Return, Idle, MarkUnknown, Move, SetReservation, Reservation, Story, Follows, Unsigned, Unsent, TypeOK
    <3>4. QED
      BY <2>0, <3>1, <3>2, <3>3, LocalStep
  <2>9. CASE RecordFailed(c) \/ RecordBroadcast(c)
    <3>1. OnlyPayment(p) /\ OnlyCaller(c)
      BY <1>3, <2>9 DEF RecordFailed, RecordBroadcast, Return, Idle, SetRow, Row, OnlyPayment, OnlyCaller, TypeOK
    <3>2. At(c, "idle")'
      BY <1>3, <2>0, <2>9 DEF RecordFailed, RecordBroadcast, Return, Idle, SetRow, Row, Follows, Unsigned, Unsent, TypeOK
    <3>3. Story(p)'
      BY <1>3, <2>0, <2>9 DEF RecordFailed, RecordBroadcast, Return, Idle, SetRow, Row, Story, Follows, Unsigned, Unsent, TypeOK
    <3>4. QED
      BY <2>0, <3>1, <3>2, <3>3, LocalStep
  <2>10. QED
    BY <1>3, <2>1, <2>2, <2>3, <2>4, <2>5, <2>6, <2>7, <2>8, <2>9
       DEF Preparing, Submitting, Recording
<1>4. ASSUME NEW c \in Callers, Preparing(c) \/ Submitting(c) \/ Recording(c) \/ Crash(c)
      PROVE  Ownership'
  <2>1. ~At(c, "idle")
    BY <1>4 DEF Preparing, Submitting, Recording, Crash, GetPendingNonce, Reject, ReserveNonce,
                SignFails, ReleasePreSubmit, ReleaseFails, MarkSigned, AbandonSigned,
                MarkSubmitting, SendRaw, SendUnknown, Acknowledge, MarkSubmitted,
                MarkSubmittedFails, RecordFailed, RecordBroadcast
  <2>2. PICK p \in Payments : p = Paying(c)
    BY <2>1 DEF TypeOK
  <2>3. QED
    BY <1>3, <1>4, <2>1, <2>2
<1>5. CASE TakeOurs \/ TakeOther \/ UNCHANGED vars
  BY <1>5 DEF TakeOurs, TakeOther, vars, db, Ownership, OneOwner, OwnerRow, Follows, RowHistory,
              SignedNonceSticks, RowsAgree, Wire
<1>6. QED
  BY <1>1, <1>2, <1>4, <1>5 DEF Next, Claiming

-----------------------------------------------------------------------------
(***************************************************************************)
(* Nonces: a reservation takes the lowest nonce nobody holds, and keeps it.*)
(***************************************************************************)
NonceInv == NonceExclusive /\ PendingIsPast /\ NoSkippedNonce

\* A reservation that exists keeps its nonce and its existence, and a released
\* one is never held again.
KeepsNonce(p) ==
    /\ reservation'[p].nonce = reservation[p].nonce
    /\ reservation'[p].state = "none" <=> reservation[p].state = "none"
    /\ Held(p)' => Held(p)

\* Only reserveEvmNonce hands out a nonce.
LEMMA NonceSteps ==
    ASSUME TypeOK, [Next]_vars
    PROVE  (\A p \in Payments : KeepsNonce(p)) \/ \E c \in Callers : ReserveNonce(c)
<1> USE DEF KeepsNonce, Held
<1>1. ASSUME reservation' = reservation PROVE \A p \in Payments : KeepsNonce(p)
  BY <1>1
<1>2. ASSUME NEW p \in Payments, NEW from \in States \ {"none", "released_pre_submit"},
             NEW to \in States \ {"none"}, Move(p, from, to)
      PROVE  \A q \in Payments : KeepsNonce(q)
  BY <1>2 DEF Move, SetReservation, TypeOK, Reservation
<1>3. ASSUME NEW p \in Payments, MarkUnknown(p) PROVE \A q \in Payments : KeepsNonce(q)
  BY <1>1, <1>2, <1>3 DEF MarkUnknown, States
<1>4. ASSUME NEW c \in Callers, ~At(c, "idle") PROVE Paying(c) \in Payments
  BY <1>4 DEF TypeOK, At, Paying
<1>5. ASSUME NEW c \in Callers,
             \/ ReleasePreSubmit(c) \/ MarkSigned(c) \/ MarkSubmitting(c) \/ MarkSubmitted(c)
      PROVE  \A p \in Payments : KeepsNonce(p)
  BY <1>2, <1>4, <1>5 DEF ReleasePreSubmit, MarkSigned, MarkSubmitting, MarkSubmitted, States, At
<1>6. ASSUME NEW c \in Callers, SendUnknown(c) \/ MarkSubmittedFails(c)
      PROVE  \A p \in Payments : KeepsNonce(p)
  BY <1>3, <1>4, <1>6 DEF SendUnknown, MarkSubmittedFails, At
<1>7. QED
  BY <1>1, <1>5, <1>6 DEF Next, vars, db, Quote, Claiming, Expire, Claim, Preparing, Submitting,
     Recording, GetPendingNonce, Reject, SignFails, ReleaseFails, AbandonSigned, SendRaw,
     Acknowledge, RecordFailed, RecordBroadcast, Crash, TakeOurs, TakeOther

\* The network's count only grows, and no call reads beyond it.
LEMMA PendingStep ==
    ASSUME TypeOK, PendingIsPast, [Next]_vars
    PROVE  PendingIsPast' /\ count' >= count
<1> USE DEF PendingIsPast, TypeOK
<1>1. ASSUME caller' = caller, count' = count \/ count' = count + 1
      PROVE  PendingIsPast' /\ count' >= count
  BY <1>1
<1>2. ASSUME NEW c \in Callers, NEW s, Go(c, s), count' = count
      PROVE  PendingIsPast' /\ count' >= count
  BY <1>2 DEF Go
<1>3. ASSUME NEW c \in Callers, Return(c), count' = count
      PROVE  PendingIsPast' /\ count' >= count
  BY <1>3 DEF Return, Idle
<1>4. ASSUME NEW c \in Callers, GetPendingNonce(c) PROVE PendingIsPast' /\ count' >= count
  BY <1>4 DEF GetPendingNonce, chain
<1>5. ASSUME NEW c \in Callers, NEW p \in Payments, Claim(c, p)
      PROVE  PendingIsPast' /\ count' >= count
  BY <1>5 DEF Claim, chain
<1>6. ASSUME NEW c \in Callers, Preparing(c) PROVE PendingIsPast' /\ count' >= count
  BY <1>2, <1>3, <1>4, <1>6 DEF Preparing, Reject, ReserveNonce, SignFails, ReleasePreSubmit,
     ReleaseFails, MarkSigned, AbandonSigned, MarkSubmitting, chain
<1>7. ASSUME NEW c \in Callers, Submitting(c) \/ Recording(c) \/ Crash(c)
      PROVE  PendingIsPast' /\ count' >= count
  BY <1>2, <1>3, <1>7 DEF Submitting, SendRaw, SendUnknown, Acknowledge, MarkSubmitted,
     MarkSubmittedFails, Recording, RecordFailed, RecordBroadcast, Crash, chain
<1>8. QED
  BY <1>1, <1>5, <1>6, <1>7 DEF Next, vars, Quote, Claiming, Expire, TakeOurs, TakeOther, chain

\* Handing out the lowest free nonce keeps the held nonces distinct and skips none.
LEMMA ReserveStep ==
    ASSUME TypeOK, NonceInv, NEW c \in Callers, ReserveNonce(c)
    PROVE  NonceExclusive' /\ NoSkippedNonce'
<1>1. PICK n \in Nonces : /\ LowestFree(caller[c].pending, n)
                          /\ SetReservation(Paying(c), "reserved", n)
  BY DEF ReserveNonce
<1>2. PICK p \in Payments : p = Paying(c)
  BY DEF ReserveNonce, TypeOK, At, Paying
<1>3. /\ reservation'[p] = [state |-> "reserved", nonce |-> n]
      /\ reservation[p].state = "none"
      /\ \A q \in Payments : q # p => reservation'[q] = reservation[q]
      /\ count' = count
  BY <1>1, <1>2 DEF SetReservation, TypeOK, ReserveNonce, chain
<1>4. ~Held(p) /\ \A q \in Payments : q # p => Held(q)' = Held(q)
  BY <1>3 DEF Held
<1>5. \A q \in Payments : Held(q) => reservation[q].nonce # n
  BY <1>1 DEF LowestFree, HeldNonces
<1>6. NonceExclusive'
  BY <1>3, <1>4, <1>5 DEF NonceInv, NonceExclusive
<1>7. ASSUME NEW k \in count..n, k # n
      PROVE  \E q \in Payments : reservation[q].state # "none" /\ reservation[q].nonce = k
  <2>1. k \in caller[c].pending..n /\ k < n
    BY <1>7 DEF NonceInv, PendingIsPast, TypeOK, Nonces
  <2>2. k \in HeldNonces
    BY <1>1, <2>1 DEF LowestFree
  <2>3. QED
    BY <2>2 DEF HeldNonces, Held
<1>8. ASSUME NEW q \in Payments, Held(q)', NEW k \in count'..reservation'[q].nonce
      PROVE  \E r \in Payments : reservation'[r].state # "none" /\ reservation'[r].nonce = k
  <2>1. CASE q = p /\ k = n
    BY <1>3, <2>1
  <2>2. CASE q = p /\ k # n
    BY <1>3, <1>7, <1>8, <2>2
  <2>3. CASE q # p
    <3>1. PICK r \in Payments : reservation[r].state # "none" /\ reservation[r].nonce = k
      BY <1>3, <1>4, <1>8, <2>3 DEF NonceInv, NoSkippedNonce
    <3>2. QED
      BY <1>3, <3>1
  <2>4. QED
    BY <2>1, <2>2, <2>3
<1>9. QED
  BY <1>6, <1>8 DEF NoSkippedNonce

\* Every step keeps the held nonces distinct and leaves no hole of its own.
LEMMA NonceStep ==
    ASSUME TypeOK, NonceInv, [Next]_vars
    PROVE  NonceInv'
<1>1. PendingIsPast' /\ count' >= count /\ count \in Nat /\ count' \in Nat
  <2>1. count \in Nat /\ (count' = count \/ count' = count + 1)
    BY DEF TypeOK, Next, vars, chain, Quote, Claiming, Expire, Claim, Preparing, Submitting,
       Recording, GetPendingNonce, Reject, ReserveNonce, SignFails, ReleasePreSubmit, ReleaseFails,
       MarkSigned, AbandonSigned, MarkSubmitting, SendRaw, SendUnknown, Acknowledge, MarkSubmitted,
       MarkSubmittedFails, RecordFailed, RecordBroadcast, Crash, TakeOurs, TakeOther
  <2>2. QED
    BY <2>1, PendingStep DEF NonceInv
<1>2. CASE \A p \in Payments : KeepsNonce(p)
  <2>1. NonceExclusive'
    BY <1>2 DEF KeepsNonce, NonceInv, NonceExclusive
  <2>2. ASSUME NEW q \in Payments, Held(q)', NEW k \in count'..reservation'[q].nonce
        PROVE  \E r \in Payments : reservation'[r].state # "none" /\ reservation'[r].nonce = k
    <3>1. Held(q) /\ k \in count..reservation[q].nonce
      BY <1>1, <1>2, <2>2 DEF KeepsNonce, TypeOK, Reservation, Nonces
    <3>2. PICK r \in Payments : reservation[r].state # "none" /\ reservation[r].nonce = k
      BY <3>1 DEF NonceInv, NoSkippedNonce
    <3>3. QED
      BY <1>2, <3>2 DEF KeepsNonce
  <2>3. QED
    BY <1>1, <2>1, <2>2 DEF NonceInv, NoSkippedNonce
<1>3. CASE \E c \in Callers : ReserveNonce(c)
  BY <1>1, <1>3, ReserveStep DEF NonceInv
<1>4. QED
  BY <1>2, <1>3, NonceSteps

-----------------------------------------------------------------------------
\* IInv is an invariant of the rail.
LEMMA Inductive == Spec => []IInv
<1>1. Init => Ownership /\ NonceInv
  BY DEF Init, Ownership, OneOwner, OwnerRow, RowHistory, SignedNonceSticks, RowsAgree, Wire,
         NonceInv, NonceExclusive, PendingIsPast, NoSkippedNonce, NoReservation, Held, Idle, At
<1>2. TypeOK /\ Ownership /\ NonceInv /\ [Next]_vars => Ownership' /\ NonceInv'
  BY OwnershipStep, NonceStep
<1>3. TypeOK /\ Ownership /\ NonceInv => IInv
  BY DEF IInv, Ownership, NonceInv
<1>4. QED
  BY <1>1, <1>2, <1>3, TypeCorrect, PTL DEF Spec

\* No two reservations that still hold a nonce share it, however stale the count
\* the RPC reported to each call and however the calls interleave or die.
THEOREM NoNonceSharedTwice == Spec => []NonceExclusive
<1>1. IInv => NonceExclusive
  BY DEF IInv
<1>2. QED
  BY <1>1, Inductive, PTL

\* Below a held nonce every nonce was consumed on the chain or reserved here.
THEOREM ReservationsSkipNothing == Spec => []NoSkippedNonce
<1>1. IInv => NoSkippedNonce
  BY DEF IInv
<1>2. QED
  BY <1>1, Inductive, PTL

\* What was signed keeps its nonce: no release of evm-nonce.ts reaches a
\* reservation whose bytes left.
THEOREM SignedNonceStays == Spec => []SignedNonceSticks
<1>1. IInv => SignedNonceSticks
  BY DEF IInv
<1>2. QED
  BY <1>1, Inductive, PTL

\* The payments row and the reservation of a payment never contradict one another.
THEOREM RowsFollowTheWire == Spec => []RowsAgree
<1>1. IInv => RowsAgree
  BY DEF IInv
<1>2. QED
  BY <1>1, Inductive, PTL

-----------------------------------------------------------------------------
(***************************************************************************)
(* Refinement: every step of the rail is a step of the rite or a stutter.  *)
(***************************************************************************)
PhaseMap == [p \in Payments |-> Phase(p)]
UsedMap == [p \in Payments |-> IF posts[p] > 0 THEN {reservation[p].nonce} ELSE {}]

\* The initial states of the rail are initial states of the rite.
LEMMA RiteInit == Init => Rite!Init
  BY DEF Init, Rite!Init, Phase

\* A step that touches one payment's row and requests moves that phase alone.
LEMMA PhaseMoves ==
    ASSUME NEW p \in Payments,
           \A q \in Payments : q # p => row'[q] = row[q] /\ posts'[q] = posts[q]
    PROVE  PhaseMap' = [PhaseMap EXCEPT ![p] = Phase(p)']
<1>1. \A q \in Payments : q # p => Phase(q)' = Phase(q)
  BY DEF Phase
<1>2. QED
  BY <1>1 DEF PhaseMap

\* A step of one payment's row that sends nothing moves that payment's phase.
LEMMA QuietMove ==
    ASSUME NEW p \in Payments, posts' = posts, reservation' = reservation,
           \A q \in Payments : q # p => row'[q] = row[q]
    PROVE  PhaseMap' = [PhaseMap EXCEPT ![p] = Phase(p)'] /\ UsedMap' = UsedMap
  BY PhaseMoves DEF UsedMap

\* A step that moves no status, sends nothing and keeps the nonces is a stutter.
LEMMA Stutter ==
    ASSUME posts' = posts,
           \A p \in Payments : /\ row'[p].status = row[p].status
                               /\ posts[p] > 0 => reservation'[p].nonce = reservation[p].nonce
    PROVE  UNCHANGED Rite!vars
<1>1. \A p \in Payments : Phase(p)' = Phase(p)
  BY DEF Phase
<1>2. QED
  BY <1>1 DEF Rite!vars

\* Every step of the rail is a step of the rite or leaves it unchanged.
LEMMA RiteStep == IInv /\ [Next]_vars => [Rite!Next]_(Rite!vars)
<1> SUFFICES ASSUME IInv, [Next]_vars PROVE [Rite!Next]_(Rite!vars)
  OBVIOUS
<1>0. TypeOK /\ Ownership /\ NonceExclusive
  BY DEF IInv, Ownership
<1> USE DEF At, Paying
<1>1. ASSUME NEW p \in Payments, Quote(p) PROVE Rite!Quote(p)
  <2>1. /\ row[p].status = "none" /\ row'[p].status = "quoted"
        /\ \A q \in Payments : q # p => row'[q] = row[q]
        /\ posts' = posts /\ reservation' = reservation
    BY <1>0, <1>1 DEF Quote, SetRow, TypeOK
  <2>2. Phase(p) = "absent" /\ Phase(p)' = "quoted"
    BY <2>1 DEF Phase
  <2>3. PhaseMap' = [PhaseMap EXCEPT ![p] = "quoted"] /\ UsedMap' = UsedMap
    BY <2>1, <2>2, QuietMove
  <2>4. QED
    BY <2>2, <2>3 DEF Rite!Quote, Rite!Become, PhaseMap, UsedMap
<1>2. ASSUME NEW c \in Callers, NEW p \in Payments, Claim(c, p) PROVE Rite!Claim(p)
  <2>1. /\ row[p].status = "quoted" /\ row'[p].status = "confirmed" /\ posts[p] = 0
        /\ \A q \in Payments : q # p => row'[q] = row[q]
        /\ posts' = posts /\ reservation' = reservation
    BY <1>0, <1>2 DEF Claim, SetRow, TypeOK, Ownership, RowHistory
  <2>2. Phase(p) = "quoted" /\ Phase(p)' = "claimed"
    BY <2>1 DEF Phase
  <2>3. PhaseMap' = [PhaseMap EXCEPT ![p] = "claimed"] /\ UsedMap' = UsedMap
    BY <2>1, <2>2, QuietMove
  <2>4. QED
    BY <2>2, <2>3 DEF Rite!Claim, Rite!Become, PhaseMap, UsedMap
<1>3. ASSUME NEW c \in Callers, NEW p \in Payments,
             Expire(c, p) \/ (p = Paying(c) /\ RecordFailed(c))
      PROVE  Rite!Void(p)
  <2>1. /\ row[p].status \in {"quoted", "confirmed"} /\ row'[p].status = "failed"
        /\ posts[p] = 0
        /\ \A q \in Payments : q # p => row'[q] = row[q]
        /\ posts' = posts /\ reservation' = reservation
    BY <1>0, <1>3 DEF Expire, RecordFailed, SetRow, TypeOK, Ownership, OwnerRow, Follows,
                      Unsent, Unsigned, RowHistory
  <2>2. Phase(p) \in {"quoted", "claimed"} /\ Phase(p)' = "void"
    BY <2>1 DEF Phase
  <2>3. PhaseMap' = [PhaseMap EXCEPT ![p] = "void"] /\ UsedMap' = UsedMap
    BY <2>1, <2>2, QuietMove
  <2>4. QED
    BY <2>2, <2>3 DEF Rite!Void, Rite!Become, PhaseMap, UsedMap
<1>4. ASSUME NEW c \in Callers, NEW p \in Payments, p = Paying(c), RecordBroadcast(c)
      PROVE  Rite!Settle(p)
  <2>1. /\ row[p].status = "confirmed" /\ row'[p].status = "broadcast" /\ posts[p] = 1
        /\ \A q \in Payments : q # p => row'[q] = row[q]
        /\ posts' = posts /\ reservation' = reservation
    BY <1>0, <1>4 DEF RecordBroadcast, SetRow, TypeOK, Ownership, OwnerRow, Follows, Unsent, Unsigned
  <2>2. Phase(p) = "sent" /\ Phase(p)' = "settled"
    BY <2>1 DEF Phase
  <2>3. PhaseMap' = [PhaseMap EXCEPT ![p] = "settled"] /\ UsedMap' = UsedMap
    BY <2>1, <2>2, QuietMove
  <2>4. QED
    BY <2>2, <2>3 DEF Rite!Settle, Rite!Become, PhaseMap, UsedMap
<1>5. ASSUME NEW c \in Callers, NEW p \in Payments, p = Paying(c), SendRaw(c) PROVE Rite!Next
  <2>1. /\ posts[p] = 0 /\ posts'[p] = 1 /\ row[p].status = "confirmed"
        /\ reservation[p].state = "submitting"
        /\ \A q \in Payments : q # p => posts'[q] = posts[q]
        /\ row' = row /\ reservation' = reservation
    BY <1>0, <1>5 DEF SendRaw, TypeOK, Ownership, OwnerRow, Follows, Unsent, Unsigned, db
  <2>2. PICK slots \in SUBSET Nonces : slots = {reservation[p].nonce}
    <3>1. reservation[p].nonce \in Nonces
      BY <1>0 DEF TypeOK, Reservation
    <3>2. {reservation[p].nonce} \in SUBSET Nonces
      BY <3>1
    <3>3. QED
      BY <3>2
  <2>3. \A q \in Payments : UsedMap[q] \cap slots = {}
    <3>1. ASSUME NEW q \in Payments, posts[q] > 0 PROVE reservation[q].nonce # reservation[p].nonce
      <4>1. Held(p) /\ Held(q) /\ p # q
        BY <1>0, <2>1, <3>1 DEF Ownership, SignedNonceSticks, Wire, Held
      <4>2. QED
        BY <1>0, <4>1 DEF NonceExclusive
    <3>2. QED
      BY <2>2, <3>1 DEF UsedMap
  <2>4. Phase(p) = "claimed" /\ Phase(p)' = "sent"
    BY <2>1 DEF Phase
  <2>5. PhaseMap' = [PhaseMap EXCEPT ![p] = "sent"]
    BY <2>1, <2>4, PhaseMoves
  <2>6. UsedMap' = [UsedMap EXCEPT ![p] = slots]
    <3>1. ASSUME NEW q \in Payments PROVE UsedMap'[q] = IF q = p THEN slots ELSE UsedMap[q]
      BY <2>1, <2>2 DEF UsedMap
    <3>2. QED
      BY <3>1 DEF UsedMap
  <2>7. Rite!Dispatch(p, slots)
    BY <2>3, <2>4, <2>5, <2>6 DEF Rite!Dispatch, Rite!Dispatched, Rite!Become, PhaseMap, UsedMap
  <2>8. QED
    BY <2>7 DEF Rite!Next
<1>6. ASSUME NEW c \in Callers, ReserveNonce(c) PROVE UNCHANGED Rite!vars
  <2>1. \A p \in Payments : posts[p] > 0 => p # Paying(c)
    BY <1>0, <1>6 DEF ReserveNonce, Ownership, OwnerRow, Follows, Unsent, Unsigned
  <2>2. \A p \in Payments : p # Paying(c) => reservation'[p] = reservation[p]
    BY <1>0, <1>6 DEF ReserveNonce, SetReservation, TypeOK
  <2>3. QED
    BY <1>6, <2>1, <2>2, Stutter DEF ReserveNonce
<1>7. ASSUME NEW c \in Callers, MarkSigned(c) PROVE UNCHANGED Rite!vars
  <2>1. \A p \in Payments : row'[p].status = row[p].status
    BY <1>0, <1>7 DEF MarkSigned, SetRow, TypeOK, Row
  <2>2. \A p \in Payments : reservation'[p].nonce = reservation[p].nonce
    BY <1>0, <1>7 DEF MarkSigned, Move, SetReservation, TypeOK, Reservation
  <2>3. QED
    BY <1>7, <2>1, <2>2, Stutter DEF MarkSigned
<1>9. ASSUME NEW c \in Callers, Preparing(c) PROVE UNCHANGED Rite!vars
  <2>1. CASE ReserveNonce(c) \/ MarkSigned(c)
    BY <1>6, <1>7, <2>1
  <2>2. CASE ~ReserveNonce(c) /\ ~MarkSigned(c)
    <3>1. posts' = posts /\ row' = row
      BY <1>9, <2>2 DEF Preparing, GetPendingNonce, Reject, SignFails, ReleasePreSubmit,
         ReleaseFails, AbandonSigned, MarkSubmitting, db
    <3>2. \A p \in Payments : reservation'[p].nonce = reservation[p].nonce
      BY <1>0, <1>9, <2>2 DEF Preparing, GetPendingNonce, Reject, SignFails, ReleasePreSubmit,
         ReleaseFails, AbandonSigned, MarkSubmitting, db, Move, SetReservation, TypeOK, Reservation
    <3>3. QED
      BY <3>1, <3>2, Stutter
  <2>3. QED
    BY <2>1, <2>2
<1>10. ASSUME NEW c \in Callers, Submitting(c) PROVE [Rite!Next]_(Rite!vars)
  <2>1. CASE SendRaw(c)
    <3>1. PICK p \in Payments : p = Paying(c)
      BY <1>0, <2>1 DEF SendRaw, TypeOK
    <3>2. QED
      BY <1>5, <2>1, <3>1
  <2>2. CASE ~SendRaw(c)
    <3>1. posts' = posts /\ row' = row
      BY <1>10, <2>2 DEF Submitting, SendUnknown, Acknowledge, MarkSubmitted, MarkSubmittedFails, db
    <3>2. \A p \in Payments : reservation'[p].nonce = reservation[p].nonce
      BY <1>0, <1>10, <2>2 DEF Submitting, SendUnknown, Acknowledge, MarkSubmitted,
         MarkSubmittedFails, MarkUnknown, db, Move, SetReservation, TypeOK, Reservation
    <3>3. QED
      BY <3>1, <3>2, Stutter
  <2>3. QED
    BY <2>1, <2>2
<1>11. ASSUME NEW c \in Callers, Recording(c) PROVE [Rite!Next]_(Rite!vars)
  <2>1. PICK p \in Payments : p = Paying(c)
    BY <1>0, <1>11 DEF Recording, RecordFailed, RecordBroadcast, TypeOK
  <2>2. QED
    BY <1>3, <1>4, <1>11, <2>1 DEF Recording, Rite!Next
<1>12. ASSUME NEW c \in Callers, Crash(c) PROVE UNCHANGED Rite!vars
  BY <1>12, Stutter DEF Crash, db
<1>13. CASE TakeOurs \/ TakeOther \/ UNCHANGED vars
  BY <1>13, Stutter DEF TakeOurs, TakeOther, vars, db
<1>14. QED
  BY <1>1, <1>2, <1>3, <1>9, <1>10, <1>11, <1>12, <1>13 DEF Next, Claiming, Rite!Next

\* The Base rail implements the rite pay.ts documents, for every number of
\* payments, calls and nonces: quoted, claimed once, dispatched at most once with
\* a nonce of its own, never voided after the dispatch.
THEOREM RailImplementsRite == Spec => ImplementsRite
<1>1. QED
  BY RiteInit, RiteStep, Inductive, PTL DEF Spec, ImplementsRite, Rite!Spec

-----------------------------------------------------------------------------
ReservationStep ==
    \A p \in Payments :
        /\ reservation'[p].state # reservation[p].state =>
               <<reservation[p].state, reservation'[p].state>> \in RiteSteps
        /\ reservation[p].state # "none" => reservation'[p].nonce = reservation[p].nonce
        /\ posts'[p] # posts[p] => reservation[p].state = "submitting"

\* One step moves a reservation along the edges evm-nonce.ts allows.
LEMMA ReservationMoves == IInv /\ [Next]_vars => ReservationStep
<1> SUFFICES ASSUME IInv, [Next]_vars PROVE ReservationStep
  OBVIOUS
<1>0. TypeOK /\ Ownership
  BY DEF IInv, Ownership
<1> USE DEF ReservationStep, At, Paying
<1>1. ASSUME reservation' = reservation, posts' = posts PROVE ReservationStep
  BY <1>1
<1>2. ASSUME NEW p \in Payments, NEW from, NEW to, Move(p, from, to),
             <<from, to>> \in RiteSteps, posts' = posts
      PROVE  ReservationStep
  BY <1>0, <1>2 DEF Move, SetReservation, TypeOK, Reservation
<1>3. ASSUME NEW c \in Callers, ReserveNonce(c) PROVE ReservationStep
  BY <1>0, <1>3 DEF ReserveNonce, SetReservation, TypeOK, Reservation, RiteSteps
<1>4. ASSUME NEW c \in Callers, SendRaw(c) PROVE ReservationStep
  BY <1>0, <1>4 DEF SendRaw, db, Ownership, OwnerRow, Follows, TypeOK
<1>5. ASSUME NEW c \in Callers, ~At(c, "idle") PROVE Paying(c) \in Payments
  BY <1>0, <1>5 DEF TypeOK
<1>6. ASSUME NEW c \in Callers,
             ReleasePreSubmit(c) \/ MarkSigned(c) \/ MarkSubmitting(c) \/ MarkSubmitted(c)
      PROVE  ReservationStep
  BY <1>2, <1>5, <1>6 DEF ReleasePreSubmit, MarkSigned, MarkSubmitting, MarkSubmitted, RiteSteps
<1>7. ASSUME NEW c \in Callers, SendUnknown(c) \/ MarkSubmittedFails(c) PROVE ReservationStep
  BY <1>1, <1>2, <1>5, <1>7 DEF SendUnknown, MarkSubmittedFails, MarkUnknown, RiteSteps
<1>8. QED
  BY <1>1, <1>3, <1>4, <1>6, <1>7 DEF Next, vars, db, Quote, Claiming, Expire, Claim, Preparing,
     Submitting, Recording, GetPendingNonce, Reject, SignFails, ReleaseFails, AbandonSigned,
     Acknowledge, RecordFailed, RecordBroadcast, Crash, TakeOurs, TakeOther

\* A reservation only moves along the states evm-nonce.ts lists, keeps its nonce,
\* and reads "submitting" when the first byte leaves.
THEOREM ReservationsFollowTheirRite == Spec => ReservationRite
<1>1. IInv /\ [Next]_vars => [ReservationStep]_vars
  BY ReservationMoves
<1>2. [][ReservationStep]_vars => ReservationRite
  BY PTL DEF ReservationStep, ReservationRite
<1>3. QED
  BY <1>1, <1>2, Inductive, PTL DEF Spec
=============================================================================
