----------------------------- MODULE BtcRailProofs -----------------------------
(***************************************************************************)
(* Theorems about BtcRail, for any payments, coins, callers, TTL and clock *)
(* bound.                                                                  *)
(***************************************************************************)
EXTENDS BtcRail, FiniteSetTheorems, TLAPS

-----------------------------------------------------------------------------
\* What a step that only moves a call does to the calls: to the next stage of
\* its payment, or back to idle.
LEMMA GoType ==
    ASSUME TypeOK, NEW c \in Callers, ~At(c, "idle"), NEW s \in Stages, Go(c, s)
    PROVE  /\ caller' \in [Callers -> [stage : Stages, payment : Payments \cup {NoPayment}]]
           /\ \A d \in Callers : caller'[d].stage # "idle" => caller'[d].payment \in Payments
  BY DEF TypeOK, Go, At, Paying

\* The same for a call that returns.
LEMMA ReturnType ==
    ASSUME TypeOK, NEW c \in Callers, Return(c)
    PROVE  /\ caller' \in [Callers -> [stage : Stages, payment : Payments \cup {NoPayment}]]
           /\ \A d \in Callers : caller'[d].stage # "idle" => caller'[d].payment \in Payments
  BY DEF TypeOK, Return, Idle, Stages, At, Paying

\* What the UPDATEs of one row preserve.
LEMMA RowType ==
    ASSUME TypeOK, NEW p \in Payments
    PROVE  /\ \A status \in Statuses : [row EXCEPT ![p].status = status] \in [Payments -> Row]
           /\ [row EXCEPT ![p].txHash = "txid"] \in [Payments -> Row]
           /\ [row EXCEPT ![p] = [status |-> "broadcast", coins |-> @.coins,
                                  created |-> @.created, txHash |-> "txid"]]
              \in [Payments -> Row]
<1>1. ASSUME NEW status \in Statuses PROVE [row EXCEPT ![p].status = status] \in [Payments -> Row]
  BY DEF TypeOK, Row
<1>2. [row EXCEPT ![p].txHash = "txid"] \in [Payments -> Row]
  BY DEF TypeOK, Row
<1>3. [row EXCEPT ![p] = [status |-> "broadcast", coins |-> @.coins,
                          created |-> @.created, txHash |-> "txid"]]
         \in [Payments -> Row]
  BY DEF TypeOK, Row, Statuses
<1>4. QED
  BY <1>1, <1>2, <1>3

\* Every variable keeps its type: rows, calls and requests stay in the shapes
\* pay.ts and btc.sender.ts assume of one another.
THEOREM TypeCorrect == Spec => []TypeOK
<1>1. Init => TypeOK
  BY DEF Init, TypeOK, NoRow, Row, Statuses, Idle, Stages, At
<1>2. TypeOK /\ [Next]_vars => TypeOK'
  <2> SUFFICES ASSUME TypeOK, [Next]_vars PROVE TypeOK'
    OBVIOUS
  <2> USE DEF At, Paying, db, calls
  <2>0. \A c \in Callers : ~At(c, "idle") => Paying(c) \in Payments
    BY DEF TypeOK
  <2>1. ASSUME NEW p \in Payments, QuoteStart(p) PROVE TypeOK'
    <3>1. raced' \subseteq {{q, r} : q, r \in Payments}
      BY <2>1 DEF TypeOK, QuoteStart
    <3>2. QED
      BY <2>1, <3>1 DEF TypeOK, QuoteStart
  <2>2. ASSUME NEW p \in Payments, QuotePersist(p) PROVE TypeOK'
    BY <2>2 DEF TypeOK, QuotePersist, Selections, Row, Statuses
  <2>3. ASSUME NEW p \in Payments, QuoteAbandon(p) PROVE TypeOK'
    BY <2>3 DEF TypeOK, QuoteAbandon
  <2>4. ASSUME NEW c \in Callers, NEW p \in Payments, ConfirmRead(c, p) PROVE TypeOK'
    BY <2>4 DEF TypeOK, ConfirmRead, Stages
  <2>5. ASSUME NEW c \in Callers, Claiming(c) PROVE TypeOK'
    <3>1. CASE ClaimLost(c) \/ ClaimRolledBack(c)
      BY <3>1, ReturnType DEF TypeOK, ClaimLost, ClaimRolledBack
    <3>2. CASE ClaimExpired(c)
      <4>1. row' \in [Payments -> Row]
        BY <3>2, <2>0, RowType DEF SetStatus, ClaimExpired, Statuses
      <4>2. QED
        BY <3>2, <4>1, ReturnType DEF TypeOK, ClaimExpired, Stages
    <3>3. CASE Claim(c)
      <4>1. row' \in [Payments -> Row]
        BY <3>3, <2>0, RowType DEF SetStatus, Claim, Statuses
      <4>2. QED
        BY <3>3, <4>1, GoType DEF TypeOK, Claim, Stages
    <3>4. QED
      BY <2>5, <3>1, <3>2, <3>3 DEF Claiming
  <2>6. ASSUME NEW c \in Callers, Sending(c) PROVE TypeOK'
    <3>1. CASE SendCheck(c) \/ SendConflict(c) \/ SendReject(c) \/ Accepted(c)
      BY <3>1, GoType DEF TypeOK, SendCheck, SendConflict, SendReject, Accepted, Stages
    <3>2. CASE Ambiguous(c)
      BY <3>2, ReturnType DEF TypeOK, Ambiguous
    <3>3. CASE SignAndRecord(c)
      <4>1. row' \in [Payments -> Row]
        BY <3>3, <2>0, RowType DEF SetStatus, SignAndRecord, Statuses
      <4>2. QED
        BY <3>3, <4>1, GoType DEF TypeOK, SignAndRecord, Stages
    <3>4. CASE Broadcast(c)
      BY <3>4, GoType DEF TypeOK, Broadcast, Stages
    <3>5. QED
      BY <2>6, <3>1, <3>2, <3>3, <3>4 DEF Sending
  <2>7. ASSUME NEW c \in Callers, Recording(c) PROVE TypeOK'
    <3>1. CASE RecordFailed(c)
      <4>1. row' \in [Payments -> Row]
        BY <3>1, <2>0, RowType DEF SetStatus, RecordFailed, Statuses
      <4>2. QED
        BY <3>1, <4>1, ReturnType DEF TypeOK, RecordFailed, Stages
    <3>2. CASE RecordBroadcast(c)
      <4>1. row' \in [Payments -> Row]
        BY <3>2, <2>0, RowType DEF SetStatus, RecordBroadcast, Statuses
      <4>2. QED
        BY <3>2, <4>1, GoType DEF TypeOK, RecordBroadcast, Stages
    <3>3. CASE RecordLedger(c)
      BY <3>3, ReturnType DEF TypeOK, RecordLedger
    <3>4. QED
      BY <2>7, <3>1, <3>2, <3>3 DEF Recording
  <2>8. ASSUME NEW c \in Callers, Crash(c) PROVE TypeOK'
    BY <2>8, ReturnType DEF TypeOK, Crash
  <2>9. CASE Archive
    BY <2>9 DEF TypeOK, Archive
  <2>10. CASE Tick
    BY <2>10 DEF TypeOK, Tick
  <2>11. CASE UNCHANGED vars
    BY <2>11 DEF TypeOK, vars
  <2>12. QED
    BY <2>1, <2>2, <2>3, <2>4, <2>5, <2>6, <2>7, <2>8, <2>9, <2>10, <2>11 DEF Next, Quoting
<1>3. QED
  BY <1>1, <1>2, PTL DEF Spec

-----------------------------------------------------------------------------
(***************************************************************************)
(* Ownership: the claim gives the payment to one call, and the row and the *)
(* network follow the stage that call has reached.                         *)
(***************************************************************************)
Ownership == OneOwner /\ OwnerRow /\ RowHistory

\* Every step keeps ownership: one owner per payment, and a row and requests that
\* agree with the stage of the owner.
LEMMA OwnershipStep == TypeOK /\ Ownership /\ [Next]_vars => Ownership'
<1> SUFFICES ASSUME TypeOK, Ownership, [Next]_vars PROVE Ownership'
  OBVIOUS
<1> USE DEF Ownership, OneOwner, OwnerRow, RowHistory, At, Paying, Owning, Unsigned, Unsent
<1>1. ASSUME NEW p \in Payments, Quoting(p) PROVE Ownership'
  <2>1. CASE QuoteStart(p) \/ QuoteAbandon(p)
    BY <2>1 DEF QuoteStart, QuoteAbandon, db
  <2>2. CASE QuotePersist(p)
    <3>1. \A c \in Callers : caller[c].stage \in Owning => Paying(c) # p
      BY <2>2 DEF QuotePersist, TypeOK
    <3>2. /\ \A q \in Payments : q # p => row'[q] = row[q]
          /\ row'[p].status = "quoted" /\ row'[p].txHash = "null"
          /\ caller' = caller /\ posts' = posts /\ quoting' = quoting \ {p}
      BY <2>2 DEF QuotePersist, TypeOK
    <3>3. row[p].txHash = "null"
      BY <2>2 DEF QuotePersist, TypeOK, Row
    <3>4. QED
      BY <3>1, <3>2, <3>3 DEF TypeOK
  <2>3. QED
    BY <1>1, <2>1, <2>2 DEF Quoting
<1>2. ASSUME NEW c \in Callers, NEW p \in Payments, ConfirmRead(c, p) PROVE Ownership'
  BY <1>2 DEF ConfirmRead, TypeOK, db
<1>3. ASSUME NEW c \in Callers, Claiming(c) PROVE Ownership'
  <2>1. CASE ClaimLost(c) \/ ClaimRolledBack(c)
    <3>1. row' = row /\ posts' = posts /\ quoting' = quoting /\ caller' = [caller EXCEPT ![c] = Idle]
      BY <2>1 DEF ClaimLost, ClaimRolledBack, db, Return
    <3>2. QED
      BY <3>1 DEF TypeOK, Idle
  <2>2. CASE ClaimExpired(c)
    BY <2>2 DEF ClaimExpired, SetStatus, TypeOK, Row, Return, Idle
  <2>3. CASE Claim(c)
    BY <2>3 DEF Claim, SetStatus, TypeOK, Row, Go
  <2>4. QED
    BY <1>3, <2>1, <2>2, <2>3 DEF Claiming
<1>4. ASSUME NEW c \in Callers, Sending(c) PROVE Ownership'
  <2>1. CASE SendCheck(c) \/ SendConflict(c) \/ SendReject(c) \/ Accepted(c)
    <3>1. CASE SendCheck(c) \/ SendConflict(c)
      BY <3>1 DEF SendCheck, SendConflict, TypeOK, db, Go
    <3>2. CASE SendReject(c)
      BY <3>2 DEF SendReject, TypeOK, db, Go
    <3>3. CASE Accepted(c)
      BY <3>3 DEF Accepted, TypeOK, db, Go
    <3>4. QED
      BY <2>1, <3>1, <3>2, <3>3
  <2>2. CASE Ambiguous(c)
    BY <2>2 DEF Ambiguous, TypeOK, db, Return, Idle
  <2>3. CASE SignAndRecord(c)
    BY <2>3 DEF SignAndRecord, TypeOK, Row, Go
  <2>4. CASE Broadcast(c)
    BY <2>4 DEF Broadcast, TypeOK, db, Go
  <2>5. QED
    BY <1>4, <2>1, <2>2, <2>3, <2>4 DEF Sending
<1>5. ASSUME NEW c \in Callers, Recording(c) PROVE Ownership'
  <2>1. CASE RecordFailed(c)
    BY <2>1 DEF RecordFailed, SetStatus, TypeOK, Row, Return, Idle
  <2>2. CASE RecordBroadcast(c)
    BY <2>2 DEF RecordBroadcast, TypeOK, Row, Go
  <2>3. CASE RecordLedger(c)
    BY <2>3 DEF RecordLedger, TypeOK, Return, Idle
  <2>4. QED
    BY <1>5, <2>1, <2>2, <2>3 DEF Recording
<1>6. ASSUME NEW c \in Callers, Crash(c) PROVE Ownership'
  BY <1>6 DEF Crash, TypeOK, db, Return, Idle
<1>7. CASE Archive \/ Tick \/ UNCHANGED vars
  BY <1>7 DEF Archive, Tick, vars, db, calls
<1>8. QED
  BY <1>1, <1>2, <1>3, <1>4, <1>5, <1>6, <1>7 DEF Next

-----------------------------------------------------------------------------
(***************************************************************************)
(* Disjointness: a payment passes the send-time check only when its coins  *)
(* touch no payment that is past it.                                       *)
(***************************************************************************)
\* A guarded payment's row reads confirmed or broadcast: the send-time check of
\* every other payment sees it.
LEMMA GuardedIsReserving ==
    ASSUME TypeOK, Ownership, NEW p \in Payments, Guarded(p)
    PROVE  p \in Reserving({"confirmed", "broadcast"})
<1>1. row[p].status \in {"confirmed", "broadcast"}
  BY DEF Guarded, Ownership, RowHistory, OwnerRow, At, Paying, Owning, Stages, TypeOK
<1>2. QED
  BY <1>1 DEF Reserving

\* A call that passes the send-time check shares no coin with a guarded payment.
LEMMA CheckedIsDisjoint ==
    ASSUME TypeOK, Ownership, NEW c \in Callers, SendCheck(c),
           NEW q \in Payments, q # Paying(c), Guarded(q)
    PROVE  ~Overlap(Paying(c), q)
<1>1. q \in Reserving({"confirmed", "broadcast"}) \ {Paying(c)}
  BY GuardedIsReserving
<1>2. row[q].coins \subseteq Committed(Paying(c))
  BY <1>1 DEF Committed, ReservedOutpoints
<1>3. QED
  BY <1>2 DEF SendCheck, Overlap

\* Every step but SendCheck only shrinks the set of guarded payments and leaves
\* their coins alone.
KeepsGuards == \A p \in Payments : Guarded(p)' => Guarded(p) /\ row'[p].coins = row[p].coins

\* Only SendCheck makes a payment guarded, and no step changes a guarded one's coins.
LEMMA GuardsStep ==
    ASSUME TypeOK, Ownership, [Next]_vars
    PROVE  KeepsGuards \/ \E c \in Callers : SendCheck(c)
<1> USE DEF KeepsGuards, Guarded, At, Paying
<1>1. ASSUME NEW p \in Payments, Quoting(p) PROVE KeepsGuards
  <2>1. CASE QuoteStart(p) \/ QuoteAbandon(p)
    BY <2>1 DEF QuoteStart, QuoteAbandon, db
  <2>2. CASE QuotePersist(p)
    <3>1. \A c \in Callers : caller[c].stage = "checked" => Paying(c) # p
      BY <2>2 DEF QuotePersist, Ownership, OwnerRow, RowHistory, Owning, Stages, TypeOK
    <3>2. /\ \A q \in Payments : q # p => row'[q] = row[q]
          /\ row'[p].txHash = "null"
          /\ caller' = caller
      BY <2>2 DEF QuotePersist, TypeOK
    <3>3. QED
      BY <3>1, <3>2
  <2>3. QED
    BY <1>1, <2>1, <2>2 DEF Quoting
<1>2. ASSUME NEW c \in Callers, NEW p \in Payments, ConfirmRead(c, p) PROVE KeepsGuards
  BY <1>2 DEF ConfirmRead, TypeOK, db
<1>3. ASSUME NEW c \in Callers, Claiming(c) PROVE KeepsGuards
  <2>1. CASE ClaimLost(c) \/ ClaimRolledBack(c)
    BY <2>1 DEF ClaimLost, ClaimRolledBack, TypeOK, db, Return, Idle
  <2>2. CASE ClaimExpired(c)
    BY <2>2 DEF ClaimExpired, SetStatus, TypeOK, Row, Return, Idle
  <2>3. CASE Claim(c)
    BY <2>3 DEF Claim, SetStatus, TypeOK, Row, Go
  <2>4. QED
    BY <1>3, <2>1, <2>2, <2>3 DEF Claiming
<1>4. ASSUME NEW c \in Callers, Sending(c), ~SendCheck(c) PROVE KeepsGuards
  <2>1. CASE SendConflict(c) \/ SendReject(c) \/ Accepted(c)
    BY <2>1 DEF SendConflict, SendReject, Accepted, TypeOK, db, Go
  <2>2. CASE Ambiguous(c)
    BY <2>2 DEF Ambiguous, TypeOK, db, Return, Idle
  <2>3. CASE SignAndRecord(c)
    BY <2>3 DEF SignAndRecord, TypeOK, Row, Go
  <2>4. CASE Broadcast(c)
    BY <2>4 DEF Broadcast, TypeOK, db, Go
  <2>5. QED
    BY <1>4, <2>1, <2>2, <2>3, <2>4 DEF Sending
<1>5. ASSUME NEW c \in Callers, Recording(c) PROVE KeepsGuards
  <2>1. CASE RecordFailed(c)
    BY <2>1 DEF RecordFailed, SetStatus, TypeOK, Row, Return, Idle
  <2>2. CASE RecordBroadcast(c)
    BY <2>2 DEF RecordBroadcast, TypeOK, Row, Go, Ownership, OwnerRow, Owning, Stages, Unsigned
  <2>3. CASE RecordLedger(c)
    BY <2>3 DEF RecordLedger, TypeOK, Return, Idle
  <2>4. QED
    BY <1>5, <2>1, <2>2, <2>3 DEF Recording
<1>6. ASSUME NEW c \in Callers, Crash(c) PROVE KeepsGuards
  BY <1>6 DEF Crash, TypeOK, db, Return, Idle
<1>7. CASE Archive \/ Tick \/ UNCHANGED vars
  BY <1>7 DEF Archive, Tick, vars, db, calls
<1>8. QED
  BY <1>1, <1>2, <1>3, <1>4, <1>5, <1>6, <1>7 DEF Next

\* Guarded payments stay pairwise disjoint.
LEMMA DisjointStep ==
    ASSUME TypeOK, Ownership, GuardedDisjoint, [Next]_vars
    PROVE  GuardedDisjoint'
<1>1. CASE KeepsGuards
  BY <1>1 DEF KeepsGuards, GuardedDisjoint, Overlap
<1>2. ASSUME NEW c \in Callers, SendCheck(c) PROVE GuardedDisjoint'
  <2>1. row' = row
    BY <1>2 DEF SendCheck, db
  <2>2. ASSUME NEW p \in Payments, Guarded(p)', p # Paying(c) PROVE Guarded(p)
    BY <1>2, <2>1, <2>2 DEF SendCheck, Guarded, At, Paying, Go, TypeOK
  <2>3. SUFFICES ASSUME NEW p \in Payments, NEW q \in Payments, p # q,
                        Guarded(p)', Guarded(q)'
                 PROVE  ~Overlap(p, q)
    BY <2>1 DEF GuardedDisjoint, Overlap
  <2>4. CASE p # Paying(c) /\ q # Paying(c)
    BY <2>2, <2>3, <2>4 DEF GuardedDisjoint
  <2>5. CASE p = Paying(c)
    BY <1>2, <2>2, <2>3, <2>5, CheckedIsDisjoint
  <2>6. CASE q = Paying(c)
    BY <1>2, <2>2, <2>3, <2>6, CheckedIsDisjoint DEF Overlap
  <2>7. QED
    BY <2>4, <2>5, <2>6
<1>3. QED
  BY <1>1, <1>2, GuardsStep

-----------------------------------------------------------------------------
\* IInv is an invariant of the rail.
LEMMA Inductive == Spec => []IInv
<1>1. Init => Ownership /\ GuardedDisjoint
  BY DEF Init, Ownership, OneOwner, OwnerRow, RowHistory, GuardedDisjoint, Guarded, At,
         Paying, Idle, NoRow, Owning
<1>2. TypeOK /\ Ownership /\ GuardedDisjoint /\ [Next]_vars => Ownership' /\ GuardedDisjoint'
  BY OwnershipStep, DisjointStep
<1>3. TypeOK /\ Ownership /\ GuardedDisjoint => IInv
  BY DEF IInv, Ownership
<1>4. QED
  BY <1>1, <1>2, <1>3, TypeCorrect, PTL DEF Spec

\* No coin is ever in two Bitcoin transactions that left: the reservations
\* btcSender.send reads after the claim leave at most one of the payments that
\* selected it to be signed, in every interleaving of calls and crashes.
THEOREM NoCoinSpentTwice == Spec => []NoDoubleSpend
<1>1. IInv => NoDoubleSpend
  BY DEF IInv, RowHistory, GuardedDisjoint, Guarded, NoDoubleSpend, Wire
<1>2. QED
  BY <1>1, Inductive, PTL

\* No payment is POSTed twice, whatever calls race and wherever they die: only
\* one caller of confirmPayment gets past the claim of a row.
THEOREM OnePost == Spec => []PostedOnce
<1>1. IInv => PostedOnce
  BY DEF IInv, TypeOK, Row, RowHistory, PostedOnce, Wire
<1>2. QED
  BY <1>1, Inductive, PTL

\* What left is on record: btcSender.send writes the txid before it posts, and
\* no later write of confirmPayment withdraws it.
THEOREM SentStaysReconcilable == Spec => []SentIsReconcilable
<1>1. IInv => SentIsReconcilable
  BY DEF IInv, TypeOK, Row, RowHistory, SentIsReconcilable, Wire
<1>2. QED
  BY <1>1, Inductive, PTL

\* A row that reads failed was never signed: nothing confirmPayment reports as
\* failed can move.
THEOREM FailedStaysUnsigned == Spec => []FailedNeverSigned
<1>1. IInv => FailedNeverSigned
  BY DEF IInv, TypeOK, Row, RowHistory, FailedNeverSigned, Wire
<1>2. QED
  BY <1>1, Inductive, PTL

-----------------------------------------------------------------------------
(***************************************************************************)
(* Refinement: every step of the rail is a step of the rite or a stutter.  *)
(***************************************************************************)
\* The initial states of the rail are initial states of the rite.
LEMMA RiteInit == Init => Rite!Init
  BY DEF Init, Rite!Init, Phase, NoRow

\* The phase of a payment, status by status.
LEMMA PhaseOfRow ==
    ASSUME NEW p \in Payments
    PROVE  /\ row[p].status = "none" => Phase(p) = "absent"
           /\ row[p].status = "quoted" => Phase(p) = "quoted"
           /\ row[p].status = "failed" => Phase(p) = "void"
           /\ row[p].status = "broadcast" => Phase(p) = "settled"
           /\ row[p].status = "confirmed" /\ posts[p] > 0 => Phase(p) = "sent"
           /\ row[p].status = "confirmed" /\ ~(posts[p] > 0) => Phase(p) = "claimed"
  BY DEF Phase

\* Only payment p's row and requests differ after the step.
OnlyMoves(p) == \A q \in Payments : q # p => row'[q] = row[q] /\ posts'[q] = posts[q]

PhaseMap == [p \in Payments |-> Phase(p)]
UsedMap == [p \in Payments |-> IF posts[p] > 0 THEN row[p].coins ELSE {}]

\* A step of one payment's row and requests moves the phase of that payment alone.
LEMMA PhaseMoves ==
    ASSUME NEW p \in Payments, OnlyMoves(p)
    PROVE  PhaseMap' = [PhaseMap EXCEPT ![p] = Phase(p)']
<1>1. \A q \in Payments : q # p => Phase(q)' = Phase(q)
  BY DEF OnlyMoves, Phase
<1>2. QED
  BY <1>1 DEF PhaseMap

\* A step that sends nothing moves one payment between two phases.
LEMMA QuietMove ==
    ASSUME NEW p \in Payments, OnlyMoves(p),
           posts'[p] = posts[p], posts[p] > 0 => row'[p].coins = row[p].coins
    PROVE  PhaseMap' = [PhaseMap EXCEPT ![p] = Phase(p)'] /\ UsedMap' = UsedMap
  BY PhaseMoves DEF UsedMap, OnlyMoves

\* Every step of the rail is a step of the rite or leaves it unchanged.
LEMMA RiteStep == IInv /\ [Next]_vars => [Rite!Next]_(Rite!vars)
<1> SUFFICES ASSUME IInv, [Next]_vars PROVE [Rite!Next]_(Rite!vars)
  OBVIOUS
<1>0. TypeOK /\ OneOwner /\ OwnerRow /\ RowHistory /\ GuardedDisjoint
  BY DEF IInv
<1> USE DEF At, Paying
<1>1. ASSUME NEW p \in Payments, QuotePersist(p) PROVE Rite!Quote(p)
  <2>1. row[p].status = "none" /\ posts[p] = 0 /\ row'[p].status = "quoted"
        /\ OnlyMoves(p) /\ posts' = posts
    BY <1>0, <1>1 DEF QuotePersist, RowHistory, OnlyMoves, TypeOK, Row
  <2>2. Phase(p) = "absent" /\ Phase(p)' = "quoted"
    BY <2>1, PhaseOfRow DEF Phase
  <2>3. PhaseMap' = [PhaseMap EXCEPT ![p] = "quoted"] /\ UsedMap' = UsedMap
    BY <2>1, <2>2, QuietMove
  <2>4. QED
    BY <2>2, <2>3 DEF Rite!Quote, Rite!Become, PhaseMap, UsedMap
<1>2. ASSUME NEW c \in Callers, NEW p \in Payments, p = Paying(c), Claim(c)
      PROVE  Rite!Claim(p)
  <2>1. /\ p \in Payments /\ posts[p] = 0 /\ row[p].status = "quoted"
        /\ row'[p].status = "confirmed" /\ row'[p].coins = row[p].coins
        /\ OnlyMoves(p) /\ posts' = posts
    BY <1>0, <1>2 DEF Claim, SetStatus, RowHistory, OnlyMoves, TypeOK, Row
  <2>2. Phase(p) = "quoted" /\ Phase(p)' = "claimed"
    BY <2>1, PhaseOfRow DEF Phase
  <2>3. PhaseMap' = [PhaseMap EXCEPT ![p] = "claimed"] /\ UsedMap' = UsedMap
    BY <2>1, <2>2, QuietMove
  <2>4. QED
    BY <2>1, <2>2, <2>3 DEF Rite!Claim, Rite!Become, PhaseMap, UsedMap
<1>3. ASSUME NEW c \in Callers, NEW p \in Payments, p = Paying(c), ClaimExpired(c) \/ RecordFailed(c)
      PROVE  Rite!Void(p)
  <2>1. /\ p \in Payments /\ posts[p] = 0 /\ row[p].status \in {"quoted", "confirmed"}
        /\ row'[p].status = "failed" /\ row'[p].coins = row[p].coins
        /\ OnlyMoves(p) /\ posts' = posts
    BY <1>0, <1>3 DEF ClaimExpired, RecordFailed, SetStatus, RowHistory, OwnerRow, Owning,
                      Stages, Unsent, Unsigned, OnlyMoves, TypeOK, Row
  <2>2. Phase(p) \in {"quoted", "claimed"} /\ Phase(p)' = "void"
    BY <2>1, PhaseOfRow DEF Phase
  <2>3. PhaseMap' = [PhaseMap EXCEPT ![p] = "void"] /\ UsedMap' = UsedMap
    BY <2>1, <2>2, QuietMove
  <2>4. QED
    BY <2>1, <2>2, <2>3 DEF Rite!Void, Rite!Become, PhaseMap, UsedMap
<1>4. ASSUME NEW c \in Callers, NEW p \in Payments, p = Paying(c), RecordBroadcast(c)
      PROVE  Rite!Settle(p)
  <2>1. /\ p \in Payments /\ posts[p] = 1 /\ row[p].status = "confirmed"
        /\ row'[p].status = "broadcast" /\ row'[p].coins = row[p].coins
        /\ OnlyMoves(p) /\ posts' = posts
    BY <1>0, <1>4 DEF RecordBroadcast, OwnerRow, Owning, Stages, Unsent, Unsigned,
                      OnlyMoves, TypeOK, Row
  <2>2. Phase(p) = "sent" /\ Phase(p)' = "settled"
    BY <2>1, PhaseOfRow DEF Phase
  <2>3. PhaseMap' = [PhaseMap EXCEPT ![p] = "settled"] /\ UsedMap' = UsedMap
    BY <2>1, <2>2, QuietMove
  <2>4. QED
    BY <2>1, <2>2, <2>3 DEF Rite!Settle, Rite!Become, PhaseMap, UsedMap
<1>5. ASSUME NEW c \in Callers, NEW p \in Payments, p = Paying(c), Broadcast(c)
      PROVE  Rite!Next
  <2>1. /\ p \in Payments /\ posts[p] = 0 /\ posts'[p] = 1 /\ OnlyMoves(p) /\ row' = row
        /\ row[p].status = "confirmed" /\ row[p].txHash = "txid"
    BY <1>0, <1>5 DEF Broadcast, OwnerRow, Owning, Stages, Unsent, Unsigned, OnlyMoves, TypeOK, db
  <2>2. \A q \in Payments : posts[q] > 0 => row[q].coins \cap row[p].coins = {}
    BY <1>0, <2>1 DEF RowHistory, GuardedDisjoint, Guarded, Overlap
  <2>3. Phase(p) = "claimed" /\ Phase(p)' = "sent"
    BY <2>1, PhaseOfRow DEF Phase
  <2>4. PhaseMap' = [PhaseMap EXCEPT ![p] = "sent"]
    BY <2>1, <2>3, PhaseMoves
  <2>5. UsedMap' = [UsedMap EXCEPT ![p] = row[p].coins]
    <3>1. ASSUME NEW q \in Payments
          PROVE  UsedMap'[q] = IF q = p THEN row[p].coins ELSE UsedMap[q]
      BY <2>1 DEF UsedMap, OnlyMoves
    <3>2. QED
      BY <3>1 DEF UsedMap
  <2>6. \A q \in Payments : UsedMap[q] \cap row[p].coins = {}
    BY <2>2 DEF UsedMap
  <2>7. PICK slots \in SUBSET Coins : slots = row[p].coins
    BY <1>0 DEF TypeOK, Row
  <2>8. Rite!Dispatch(p, slots)
    BY <2>1, <2>3, <2>4, <2>5, <2>6, <2>7 DEF Rite!Dispatch, Rite!Dispatched, Rite!Become,
                                               PhaseMap, UsedMap
  <2>9. QED
    BY <2>8 DEF Rite!Next
<1>6. ASSUME posts' = posts,
             \A p \in Payments : /\ row'[p].status = row[p].status
                                 /\ row'[p].coins = row[p].coins
      PROVE  UNCHANGED Rite!vars
  <2>1. \A p \in Payments : Phase(p)' = Phase(p)
    BY <1>6 DEF Phase
  <2>2. QED
    BY <1>6, <2>1 DEF Rite!vars
<1>7. ASSUME NEW c \in Callers, SignAndRecord(c) PROVE UNCHANGED Rite!vars
  BY <1>0, <1>6, <1>7 DEF SignAndRecord, TypeOK, Row
<1>8. ASSUME row' = row, posts' = posts PROVE UNCHANGED Rite!vars
  BY <1>6, <1>8
<1>9. ASSUME NEW p \in Payments, Quoting(p) PROVE [Rite!Next]_(Rite!vars)
  BY <1>1, <1>8, <1>9 DEF Quoting, QuoteStart, QuoteAbandon, db, Rite!Next
<1>10. ASSUME NEW c \in Callers, NEW p \in Payments, ConfirmRead(c, p) PROVE UNCHANGED Rite!vars
  BY <1>8, <1>10 DEF ConfirmRead, db
<1>11. ASSUME NEW c \in Callers, Claiming(c) PROVE [Rite!Next]_(Rite!vars)
  <2>1. CASE Claim(c) \/ ClaimExpired(c)
    BY <1>0, <1>2, <1>3, <2>1 DEF Rite!Next, TypeOK, Claim, ClaimExpired
  <2>2. QED
    BY <1>8, <1>11, <2>1 DEF Claiming, ClaimLost, ClaimRolledBack, db
<1>12. ASSUME NEW c \in Callers, Sending(c) PROVE [Rite!Next]_(Rite!vars)
  <2>1. CASE Broadcast(c)
    <3>1. PICK p \in Payments : p = Paying(c)
      BY <1>0, <2>1 DEF Broadcast, TypeOK
    <3>2. Rite!Next
      BY <1>5, <2>1, <3>1
    <3>3. QED
      BY <3>2
  <2>2. QED
    BY <1>7, <1>8, <1>12, <2>1 DEF Sending, SendCheck, SendConflict, SendReject, Accepted,
                                   Ambiguous, db
<1>13. ASSUME NEW c \in Callers, Recording(c) PROVE [Rite!Next]_(Rite!vars)
  <2>1. CASE RecordFailed(c) \/ RecordBroadcast(c)
    BY <1>0, <1>3, <1>4, <2>1 DEF Rite!Next, TypeOK, RecordFailed, RecordBroadcast
  <2>2. QED
    BY <1>8, <1>13, <2>1 DEF Recording, RecordLedger
<1>14. ASSUME NEW c \in Callers, Crash(c) PROVE UNCHANGED Rite!vars
  BY <1>8, <1>14 DEF Crash, db
<1>15. CASE Archive \/ Tick \/ UNCHANGED vars
  BY <1>8, <1>15 DEF Archive, Tick, vars, db
<1>16. QED
  BY <1>9, <1>10, <1>11, <1>12, <1>13, <1>14, <1>15 DEF Next

\* The Bitcoin rail implements the rite pay.ts documents, for every number of
\* payments, coins and concurrent calls: quoted, claimed once, dispatched at
\* most once over coins of its own, never voided after the dispatch.
THEOREM RailImplementsRite == Spec => ImplementsRite
<1>1. QED
  BY RiteInit, RiteStep, Inductive, PTL DEF Spec, ImplementsRite, Rite!Spec

-----------------------------------------------------------------------------
(***************************************************************************)
(* Reservations: what a quote may select avoids every live payment it did  *)
(* not race.                                                               *)
(***************************************************************************)
\* Only QuotePersist makes a payment live; nothing else revives one.
NoneRevived == \A p \in Payments : Live(p)' => Live(p) /\ row'[p].coins = row[p].coins

SameOffers == offered' = offered /\ quoting' = quoting /\ raced' = raced

\* No step but a quote's own makes a payment live or touches what quotes may select.
LEMMA LiveStep ==
    ASSUME IInv, [Next]_vars
    PROVE  (NoneRevived /\ SameOffers) \/ \E p \in Payments : Quoting(p)
<1> USE DEF NoneRevived, SameOffers, Live, Fresh, At, Paying
<1>0. TypeOK /\ OwnerRow
  BY DEF IInv
<1>1. ASSUME NEW c \in Callers, NEW p \in Payments, ConfirmRead(c, p)
      PROVE  NoneRevived /\ SameOffers
  BY <1>1 DEF ConfirmRead, db
<1>2. ASSUME NEW c \in Callers, Claiming(c) PROVE NoneRevived /\ SameOffers
  <2>1. CASE ClaimLost(c) \/ ClaimRolledBack(c)
    BY <2>1 DEF ClaimLost, ClaimRolledBack, db
  <2>2. CASE ClaimExpired(c)
    BY <1>0, <2>2 DEF ClaimExpired, SetStatus, TypeOK, Row
  <2>3. CASE Claim(c)
    BY <1>0, <2>3 DEF Claim, SetStatus, TypeOK, Row
  <2>4. QED
    BY <1>2, <2>1, <2>2, <2>3 DEF Claiming
<1>3. ASSUME NEW c \in Callers, Sending(c) PROVE NoneRevived /\ SameOffers
  <2>1. CASE SignAndRecord(c)
    BY <1>0, <2>1 DEF SignAndRecord, TypeOK, Row
  <2>2. QED
    BY <1>3, <2>1 DEF Sending, SendCheck, SendConflict, SendReject, Broadcast, Accepted,
                      Ambiguous, db
<1>4. ASSUME NEW c \in Callers, Recording(c) PROVE NoneRevived /\ SameOffers
  <2>1. CASE RecordFailed(c)
    BY <1>0, <2>1 DEF RecordFailed, SetStatus, TypeOK, Row
  <2>2. CASE RecordBroadcast(c)
    BY <1>0, <2>2 DEF RecordBroadcast, OwnerRow, Owning, Stages, TypeOK, Row
  <2>3. CASE RecordLedger(c)
    BY <2>3 DEF RecordLedger
  <2>4. QED
    BY <1>4, <2>1, <2>2, <2>3 DEF Recording
<1>5. ASSUME NEW c \in Callers, Crash(c) PROVE NoneRevived /\ SameOffers
  BY <1>5 DEF Crash, db
<1>6. CASE Tick
  BY <1>0, <1>6, ClockAssumption DEF Tick, TypeOK, Row, db, calls
<1>7. CASE Archive \/ UNCHANGED vars
  BY <1>7 DEF Archive, vars, db, calls
<1>8. QED
  BY <1>1, <1>2, <1>3, <1>4, <1>5, <1>6, <1>7 DEF Next

\* What a quote call is offered when it starts avoids every live payment.
LEMMA StartStep ==
    ASSUME IInv, SerialInv, NEW p \in Payments, QuoteStart(p)
    PROVE  SerialInv'
<1>1. row' = row /\ clock' = clock /\ quoting' = quoting \cup {p}
      /\ raced' = raced \cup {{p, q} : q \in quoting} /\ row[p].status = "none"
  BY DEF QuoteStart, db
<1>2. \A q \in Payments : Live(q)' = Live(q) /\ Overlap(p, q)' = Overlap(p, q)
  BY <1>1 DEF Live, Fresh, Overlap
<1>3. \A q \in Payments : Live(q) => offered'[p] \cap row[q].coins = {}
  <2>1. ASSUME NEW q \in Payments, Live(q)
        PROVE  q \in Reserving({"quoted", "confirmed", "broadcast"})
    BY <2>1 DEF Live, Reserving
  <2>2. offered'[p] = Coins \ ReservedOutpoints({"quoted", "confirmed", "broadcast"}, {})
    BY DEF QuoteStart, IInv, TypeOK
  <2>3. QED
    BY <2>1, <2>2 DEF ReservedOutpoints
<1>4. \A q \in Payments \ {p} : offered'[q] = offered[q]
  BY DEF QuoteStart, IInv, TypeOK
<1>5. OfferClear'
  BY <1>1, <1>2, <1>3, <1>4 DEF OfferClear, SerialInv, IInv, TypeOK
<1>6. SerialQuotesDisjoint'
  BY <1>1 DEF SerialQuotesDisjoint, SerialInv, Live, Fresh, Overlap
<1>7. QED
  BY <1>5, <1>6 DEF SerialInv

\* The row a quote writes shares coins only with payments it raced.
LEMMA PersistStep ==
    ASSUME IInv, SerialInv, NEW p \in Payments, QuotePersist(p)
    PROVE  SerialInv'
<1>1. PICK s \in Selections(offered[p]) :
          row' = [row EXCEPT ![p] = [status |-> "quoted", coins |-> s,
                                     created |-> clock, txHash |-> "null"]]
  BY DEF QuotePersist
<1>2. /\ p \in quoting /\ quoting' = quoting \ {p} /\ clock' = clock /\ raced' = raced
      /\ s \subseteq offered[p] /\ row'[p].coins = s
      /\ \A q \in Payments \ {p} : row'[q] = row[q] /\ offered'[q] = offered[q]
  BY <1>1 DEF QuotePersist, Selections, IInv, TypeOK
<1>3. \A q \in Payments \ {p} : Live(q)' = Live(q)
  BY <1>2 DEF Live, Fresh
<1>4. ASSUME NEW q \in Payments \ {p}, Live(q), {p, q} \notin raced
      PROVE  s \cap row[q].coins = {}
  BY <1>2, <1>4 DEF SerialInv, OfferClear
<1>5. \A q \in quoting \ {p} : {p, q} \in raced /\ {q, p} \in raced
  BY <1>2 DEF SerialInv, OfferClear
<1>6. OfferClear'
  <2> SUFFICES ASSUME NEW q \in quoting', NEW r \in Payments, q # r, Live(r)', {q, r} \notin raced
               PROVE  offered'[q] \cap row'[r].coins = {}
    BY <1>2 DEF OfferClear, SerialInv
  <2>1. q \in quoting /\ q # p /\ r # p
    BY <1>2, <1>5
  <2>2. QED
    BY <1>2, <1>3, <2>1 DEF OfferClear, SerialInv, IInv, TypeOK
<1>7. SerialQuotesDisjoint'
  <2> SUFFICES ASSUME NEW q \in Payments, NEW r \in Payments, q # r,
                      Live(q)', Live(r)', Overlap(q, r)'
               PROVE  {q, r} \in raced
    BY <1>2 DEF SerialQuotesDisjoint
  <2>1. CASE q # p /\ r # p
    BY <1>2, <1>3, <2>1 DEF SerialQuotesDisjoint, SerialInv, Overlap
  <2>2. CASE q = p
    BY <1>2, <1>3, <1>4, <2>2 DEF Overlap
  <2>3. CASE r = p
    <3>1. {q, r} = {p, q}
      BY <2>3
    <3>2. QED
      BY <1>2, <1>3, <1>4, <2>3, <3>1 DEF Overlap
  <2>4. QED
    BY <2>1, <2>2, <2>3
<1>8. QED
  BY <1>6, <1>7 DEF SerialInv

\* A quote call that dies leaves the reservations as they were.
LEMMA AbandonStep ==
    ASSUME IInv, SerialInv, NEW p \in Payments, QuoteAbandon(p)
    PROVE  SerialInv'
<1>1. /\ row' = row /\ clock' = clock /\ quoting' = quoting \ {p}
      /\ raced' = {pair \in raced : p \notin pair}
      /\ \A q \in Payments \ {p} : offered'[q] = offered[q]
      /\ row[p].status = "none"
  BY DEF QuoteAbandon, IInv, TypeOK, RowHistory, db
<1>2. ~Live(p) /\ \A q \in Payments : Live(q)' = Live(q)
  BY <1>1 DEF Live, Fresh
<1>3. OfferClear'
  BY <1>1, <1>2 DEF OfferClear, SerialInv, IInv, TypeOK
<1>4. SerialQuotesDisjoint'
  BY <1>1, <1>2 DEF SerialQuotesDisjoint, SerialInv, Overlap
<1>5. QED
  BY <1>3, <1>4 DEF SerialInv

\* A reservation lasts exactly as long as the quote can be claimed: two live
\* payments share a coin only if their quote calls overlapped in time.
THEOREM SerialQuotesNeverCollide == Spec => []SerialQuotesDisjoint
<1>1. Init => SerialInv
  BY DEF Init, SerialInv, OfferClear, SerialQuotesDisjoint, Live, NoRow
<1>2. IInv /\ SerialInv /\ [Next]_vars => SerialInv'
  <2> SUFFICES ASSUME IInv, SerialInv, [Next]_vars PROVE SerialInv'
    OBVIOUS
  <2>1. ASSUME NEW p \in Payments, Quoting(p) PROVE SerialInv'
    BY <2>1, StartStep, PersistStep, AbandonStep DEF Quoting
  <2>2. CASE NoneRevived /\ SameOffers
    BY <2>2 DEF NoneRevived, SameOffers, SerialInv, OfferClear, SerialQuotesDisjoint, Overlap,
                IInv, TypeOK
  <2>3. QED
    BY <2>1, <2>2, LiveStep
<1>3. SerialInv => SerialQuotesDisjoint
  BY DEF SerialInv
<1>4. QED
  BY <1>1, <1>2, <1>3, Inductive, PTL DEF Spec

-----------------------------------------------------------------------------
RowStep ==
    \A p \in Payments :
        /\ row'[p].status # row[p].status => <<row[p].status, row'[p].status>> \in RiteSteps
        /\ row[p].status # "none" => row'[p].coins = row[p].coins
        /\ row[p].txHash = "txid" => row'[p].txHash = "txid"

\* One step moves a payments row along the rite.
LEMMA RowMoves == IInv /\ [Next]_vars => RowStep
<1> SUFFICES ASSUME IInv, [Next]_vars PROVE RowStep
  OBVIOUS
<1>0. TypeOK /\ OwnerRow /\ RowHistory
  BY DEF IInv
<1> USE DEF RowStep, At, Paying, RiteSteps
<1>1. ASSUME row' = row PROVE RowStep
  BY <1>1
<1>2. ASSUME NEW p \in Payments, QuotePersist(p) PROVE RowStep
  <2>1. row[p].status = "none" /\ row[p].txHash = "null"
    BY <1>0, <1>2 DEF QuotePersist, RowHistory, TypeOK, Row
  <2>2. row'[p].status = "quoted" /\ \A q \in Payments : q # p => row'[q] = row[q]
    BY <1>0, <1>2 DEF QuotePersist, TypeOK
  <2>3. QED
    BY <2>1, <2>2
<1>3. ASSUME NEW c \in Callers, ClaimExpired(c) \/ Claim(c) PROVE RowStep
  <2>1. row[Paying(c)].status = "quoted" /\ Paying(c) \in Payments
    BY <1>0, <1>3 DEF ClaimExpired, Claim, TypeOK
  <2>2. PICK status \in {"failed", "confirmed"} : row' = [row EXCEPT ![Paying(c)].status = status]
    BY <1>3 DEF ClaimExpired, Claim, SetStatus
  <2>3. QED
    BY <1>0, <2>1, <2>2 DEF TypeOK, Row
<1>4. ASSUME NEW c \in Callers, SignAndRecord(c) PROVE RowStep
  BY <1>0, <1>4 DEF SignAndRecord, TypeOK, Row
<1>5. ASSUME NEW c \in Callers, RecordFailed(c) PROVE RowStep
  BY <1>0, <1>5 DEF RecordFailed, SetStatus, OwnerRow, Owning, Stages, TypeOK, Row
<1>6. ASSUME NEW c \in Callers, RecordBroadcast(c) PROVE RowStep
  BY <1>0, <1>6 DEF RecordBroadcast, OwnerRow, Owning, Stages, TypeOK, Row
<1>7. QED
  BY <1>1, <1>2, <1>3, <1>4, <1>5, <1>6 DEF Next, vars, db, Quoting, QuoteStart, QuoteAbandon,
     ConfirmRead, Claiming, ClaimLost, ClaimRolledBack, Sending, SendCheck, SendConflict,
     SendReject, Broadcast, Accepted, Ambiguous, Recording, RecordLedger, Crash, Archive, Tick

\* A payments row only moves forward along the rite, its coins never change once
\* quoted and a recorded txid is never withdrawn.
THEOREM RowsFollowTheRite == Spec => StatusRite
<1>1. IInv /\ [Next]_vars => [RowStep]_vars
  BY RowMoves
<1>2. [][RowStep]_vars => StatusRite
  BY PTL DEF RowStep, StatusRite
<1>3. QED
  BY <1>1, <1>2, Inductive, PTL DEF Spec
=============================================================================
