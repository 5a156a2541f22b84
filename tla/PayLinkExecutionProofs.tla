------------------------ MODULE PayLinkExecutionProofs ------------------------
(***************************************************************************)
(* Theorems about PayLinkExecution for any intents, payments, calls and    *)
(* windows.                                                                *)
(***************************************************************************)
EXTENDS PayLinkExecution, TLAPS

CallerType ==
    caller \in [Callers -> [stage : Stages, intent : Intents \cup {None},
                            payment : Payments \cup {None}]]

-----------------------------------------------------------------------------
(***************************************************************************)
(* Type correctness.                                                       *)
(***************************************************************************)

\* A call moves to another stage, or leaves its slot empty.
LEMMA CallerMoves ==
    ASSUME TypeOK, NEW c \in Callers,
           Return(c) \/ \E stage \in Stages : Go(c, stage)
    PROVE  CallerType'
  BY DEF TypeOK, CallerType, Return, Go, Idle, Stages

\* A row keeps its type when its status becomes another status.
LEMMA StatusType ==
    ASSUME TypeOK, NEW p \in Payments, NEW status \in {"quoted", "confirmed", "broadcast", "failed"},
           SetStatus(p, status)
    PROVE  row' \in [Payments -> Row]
  BY DEF TypeOK, SetStatus, Row

\* A row keeps its type when its txid becomes durable.
LEMMA TxHashType ==
    ASSUME TypeOK, NEW p \in Payments, row' = [row EXCEPT ![p].txHash = "txid"]
    PROVE  row' \in [Payments -> Row]
  BY DEF TypeOK, Row

\* A count of posts stays a count when one is added.
LEMMA PostsType ==
    ASSUME TypeOK, NEW p \in Payments, posts' = [posts EXCEPT ![p] = @ + 1]
    PROVE  posts' \in [Payments -> Nat]
  BY DEF TypeOK

\* The time a review must be confirmed before is a time.
LEMMA WindowType ==
    ASSUME TypeOK, NEW p \in Payments, row[p].intent \in Intents
    PROVE  ConfirmBefore(p) \in Nat
  BY DEF TypeOK, ConfirmBefore, Earlier, Row

\* What a row lets the service say is a set of answers.
LEMMA OutcomeType ==
    ASSUME NEW p
    PROVE  Outcome(p) \in SUBSET Answers
  BY DEF Outcome, Answers

\* The steps of Next, one disjunct per action.
LEMMA Steps ==
    ASSUME [Next]_vars
    PROVE  \/ UNCHANGED vars
           \/ \E c \in Callers, i \in Intents : PrepareRead(c, i)
           \/ \E c \in Callers, p \in Payments : PrepareBind(c, p)
           \/ \E c \in Callers, p \in Payments : ConfirmRead(c, p)
           \/ \E c \in Callers : FindCommitment(c)
           \/ \E c \in Callers : RequestCommitment(c)
           \/ \E c \in Callers : AppendCommitment(c)
           \/ \E c \in Callers : ReuseWinner(c)
           \/ \E c \in Callers : Enter(c)
           \/ \E c \in Callers : Claim(c)
           \/ \E c \in Callers : ClaimExpired(c)
           \/ \E c \in Callers : ClaimRefused(c)
           \/ \E c \in Callers : SendFails(c)
           \/ \E c \in Callers : Sign(c)
           \/ \E c \in Callers : Post(c)
           \/ \E c \in Callers : Ambiguous(c)
           \/ \E c \in Callers : RecordBroadcast(c)
           \/ \E c \in Callers : Reread(c)
           \/ \E c \in Callers : Abandon(c)
           \/ \E p \in Payments : Report(p)
           \/ \E p \in Payments : ReportExpired(p)
           \/ Withdraw
           \/ Restore
           \/ Tick
  BY DEF Next, Preparing, Committing, Claiming, Sending

\* A call past its first read works on a payment of an intent.
LEMMA Working ==
    ASSUME TypeOK, CallInv, RowInv, NEW c \in Callers, caller[c].stage \in Confirming
    PROVE  /\ Paying(c) \in Payments
           /\ caller[c].intent \in Intents
           /\ row[Paying(c)] \in Row
           /\ row[Paying(c)].intent = caller[c].intent
           /\ ConfirmBefore(Paying(c)) \in Nat
<1>1. /\ Paying(c) \in Payments
      /\ row[Paying(c)].status # "none"
      /\ caller[c].intent = row[Paying(c)].intent
  BY DEF CallInv, CallOK
<1>2. caller[c].intent \in Intents \cup {None}
  BY DEF TypeOK
<1>3. caller[c].intent # None
  BY <1>1 DEF RowInv, RowOK
<1>4. QED
  BY <1>1, <1>2, <1>3, WindowType DEF TypeOK

\* The types of a step, from the types and what a call knows of its payment.
LEMMA TypeStep ==
    ASSUME TypeOK, CallInv, RowInv, [Next]_vars
    PROVE  TypeOK'
<1>1. CASE UNCHANGED vars
  BY <1>1 DEF TypeOK, vars
<1>2. ASSUME NEW c \in Callers, NEW i \in Intents, PrepareRead(c, i) PROVE TypeOK'
  <2>1. CallerType'
    BY <1>2 DEF TypeOK, CallerType, PrepareRead, Stages
  <2>2. QED
    BY <1>2, <2>1 DEF TypeOK, CallerType, PrepareRead
<1>3. ASSUME NEW c \in Callers, NEW p \in Payments, PrepareBind(c, p) PROVE TypeOK'
  <2>1. CallerType'
    BY <1>3, CallerMoves DEF PrepareBind, DraftBinding
  <2>2. clock + QuoteTTL \in Nat /\ caller[c].intent \in Intents \cup {None}
    BY ClockAssumption DEF TypeOK
  <2>3. row' \in [Payments -> Row]
    BY <1>3, <2>2 DEF TypeOK, PrepareBind, DraftBinding, Row
  <2>4. QED
    BY <1>3, <2>1, <2>3 DEF TypeOK, CallerType, PrepareBind, DraftBinding
<1>4. ASSUME NEW c \in Callers, NEW p \in Payments, ConfirmRead(c, p) PROVE TypeOK'
  <2>1. row[p].intent \in Intents \cup {None}
    BY DEF TypeOK, Row
  <2>2. CallerType'
    BY <1>4, <2>1 DEF TypeOK, CallerType, ConfirmRead, Stages
  <2>3. QED
    BY <1>4, <2>2 DEF TypeOK, CallerType, ConfirmRead
<1>5. ASSUME NEW c \in Callers,
             \/ FindCommitment(c) \/ RequestCommitment(c) \/ ReuseWinner(c) \/ Enter(c)
             \/ ClaimRefused(c) \/ Ambiguous(c) \/ Abandon(c)
      PROVE TypeOK'
  <2>1. CallerType'
    BY <1>5, CallerMoves DEF FindCommitment, RequestCommitment, ReuseWinner, Enter,
                             ClaimRefused, Ambiguous, Abandon, Stages
  <2>2. QED
    BY <1>5, <2>1 DEF TypeOK, CallerType, FindCommitment, RequestCommitment, ReuseWinner,
                      Enter, ClaimRefused, Ambiguous, Abandon
<1>6. ASSUME NEW c \in Callers, AppendCommitment(c) PROVE TypeOK'
  <2>1. CallerType'
    BY <1>6, CallerMoves DEF AppendCommitment, Stages
  <2>2. caller[c].stage \in Confirming
    BY <1>6 DEF AppendCommitment, At, Confirming, Stages
  <2>3. Signed(c) \in Commitment
    BY <2>2, Working DEF Signed, Commitment
  <2>4. QED
    BY <1>6, <2>1, <2>3 DEF TypeOK, CallerType, AppendCommitment
<1>7. ASSUME NEW c \in Callers,
             Claim(c) \/ ClaimExpired(c) \/ SendFails(c) \/ Sign(c) \/ RecordBroadcast(c)
      PROVE TypeOK'
  <2>1. CallerType'
    BY <1>7, CallerMoves DEF Claim, ClaimExpired, SendFails, Sign, RecordBroadcast, Stages
  <2>2. caller[c].stage \in Confirming
    BY <1>7 DEF Claim, ClaimExpired, SendFails, Sign, RecordBroadcast, At, Confirming, Stages
  <2>3. Paying(c) \in Payments /\ row[Paying(c)] \in Row
    BY <2>2, Working
  <2>4. CASE Claim(c) \/ ClaimExpired(c) \/ SendFails(c)
    BY <2>1, <2>3, <2>4, StatusType
       DEF TypeOK, CallerType, Claim, ClaimExpired, SendFails
  <2>5. CASE Sign(c) \/ RecordBroadcast(c)
    <3>1. Sign(c) => row' \in [Payments -> Row]
      BY <2>3, TxHashType DEF Sign
    <3>2. RecordBroadcast(c) => row' \in [Payments -> Row]
      BY <2>3 DEF TypeOK, RecordBroadcast, Row
    <3>3. row' \in [Payments -> Row]
      BY <2>5, <3>1, <3>2
    <3>4. QED
      BY <2>1, <2>5, <3>3 DEF TypeOK, CallerType, Sign, RecordBroadcast
  <2>6. QED
    BY <1>7, <2>4, <2>5
<1>8. ASSUME NEW c \in Callers, Post(c) PROVE TypeOK'
  <2>1. CallerType'
    BY <1>8, CallerMoves DEF Post, Stages
  <2>2. Paying(c) \in Payments
    BY <1>8, Working DEF Post, At, Confirming, Stages
  <2>3. posts' \in [Payments -> Nat]
    BY <1>8, <2>2, PostsType DEF Post
  <2>4. QED
    BY <1>8, <2>1, <2>3 DEF TypeOK, CallerType, Post
<1>9. ASSUME NEW c \in Callers, Reread(c) PROVE TypeOK'
  <2>1. CallerType'
    BY <1>9, CallerMoves DEF Reread
  <2>2. told' \in [Payments -> SUBSET Answers]
    BY <1>9, OutcomeType DEF TypeOK, Reread, Tell
  <2>3. QED
    BY <1>9, <2>1, <2>2 DEF TypeOK, CallerType, Reread
<1>10. ASSUME NEW p \in Payments, Report(p) \/ ReportExpired(p) PROVE TypeOK'
  <2>1. told' \in [Payments -> SUBSET Answers]
    BY <1>10, OutcomeType DEF TypeOK, Report, ReportExpired, Tell, Answers
  <2>2. QED
    BY <1>10, <2>1 DEF TypeOK, Report, ReportExpired
<1>11. CASE Withdraw \/ Restore \/ Tick
  BY <1>11 DEF TypeOK, Withdraw, Restore, Tick
<1>12. QED
  BY <1>1, <1>2, <1>3, <1>4, <1>5, <1>6, <1>7, <1>8, <1>9, <1>10, <1>11, Steps

-----------------------------------------------------------------------------
(***************************************************************************)
(* What a step may do to a payment: the table that the invariants and the  *)
(* refinement are read from.                                               *)
(***************************************************************************)
Kept(p) == row'[p] = row[p] /\ posts'[p] = posts[p] /\ told'[p] = told[p]

RowBecomes(p, status, txHash) ==
    row'[p] = [status |-> status, intent |-> row[p].intent,
               expires |-> row[p].expires, txHash |-> txHash]

Binds(p) ==
    /\ row[p].status = "none"
    /\ posts'[p] = posts[p]
    /\ \E i \in Intents :
           /\ Bound(i) = {}
           /\ row'[p] = [status |-> "quoted", intent |-> i,
                         expires |-> clock + QuoteTTL, txHash |-> "null"]

Claims(p) ==
    /\ row[p].status = "quoted"
    /\ Committed(p)
    /\ clock < ConfirmBefore(p)
    /\ RowBecomes(p, "confirmed", "null")
    /\ posts'[p] = posts[p]

Fails(p) ==
    /\ row[p].status \in {"quoted", "confirmed"}
    /\ row[p].txHash = "null"
    /\ Committed(p)
    /\ RowBecomes(p, "failed", "null")
    /\ posts'[p] = posts[p]

Signs(p) ==
    /\ row[p].status = "confirmed"
    /\ Committed(p)
    /\ RowBecomes(p, "confirmed", "txid")
    /\ posts'[p] = posts[p]

Posts(p) ==
    /\ row[p].status = "confirmed"
    /\ row[p].txHash = "txid"
    /\ Committed(p)
    /\ row'[p] = row[p]
    /\ posts[p] = 0
    /\ posts'[p] = 1

Records(p) ==
    /\ row[p].status = "confirmed"
    /\ Committed(p)
    /\ RowBecomes(p, "broadcast", "txid")
    /\ posts[p] = 1
    /\ posts'[p] = 1

Tells(p) ==
    /\ row'[p] = row[p]
    /\ posts'[p] = posts[p]
    /\ clock' = clock
    /\ \/ told'[p] = told[p] \cup Outcome(p)
       \/ /\ row[p].status = "quoted"
          /\ clock >= ConfirmBefore(p)
          /\ told'[p] = told[p] \cup {"expired"}

Writes(p) == \/ Binds(p)
             \/ Claims(p)
             \/ Fails(p)
             \/ Signs(p)
             \/ Posts(p)
             \/ Records(p)

PaymentStep ==
    \/ \A p \in Payments : Kept(p)
    \/ \E p \in Payments :
          /\ Tells(p) \/ (Writes(p) /\ told'[p] = told[p])
          /\ commitments' = commitments
          /\ \A q \in Payments \ {p} : Kept(q)

\* A step that changes a row, a post count or an answer does so to one payment,
\* in one of the ways of the table.
LEMMA PaymentSteps ==
    ASSUME TypeOK, CallInv, RowInv, [Next]_vars
    PROVE  PaymentStep
<1> USE DEF TypeOK
<1>1. ASSUME UNCHANGED <<row, posts, told>> PROVE PaymentStep
  BY <1>1 DEF PaymentStep, Kept
<1>2. ASSUME NEW c \in Callers, NEW p \in Payments, PrepareBind(c, p) PROVE PaymentStep
  <2>1. caller[c].intent \in Intents
    BY <1>2 DEF PrepareBind, CallInv, CallOK
  <2>2. Writes(p)
    BY <1>2, <2>1 DEF PrepareBind, DraftBinding, Writes, Binds
  <2>3. \A q \in Payments \ {p} : Kept(q)
    BY <1>2 DEF PrepareBind, DraftBinding, Kept
  <2>4. QED
    BY <1>2, <2>2, <2>3 DEF PrepareBind, PaymentStep
<1>3. ASSUME NEW c \in Callers, NEW p \in Payments, p = Paying(c), Claim(c)
      PROVE PaymentStep
  <2>1. row[p] \in Row /\ row[p].txHash = "null"
    BY <1>3 DEF Claim, RowInv, RowOK
  <2>2. Writes(p)
    BY <1>3, <2>1 DEF Claim, Consented, SetStatus, Writes, Claims, RowBecomes, Row
  <2>3. \A q \in Payments \ {p} : Kept(q)
    BY <1>3 DEF Claim, SetStatus, Kept
  <2>4. QED
    BY <1>3, <2>2, <2>3 DEF Claim, PaymentStep
<1>4. ASSUME NEW c \in Callers, NEW p \in Payments, p = Paying(c),
             ClaimExpired(c) \/ SendFails(c)
      PROVE PaymentStep
  <2>1. /\ row[p] \in Row
        /\ row[p].txHash = "null"
        /\ row[p].status \in {"quoted", "confirmed"}
        /\ Committed(p)
    BY <1>4 DEF ClaimExpired, SendFails, RowInv, RowOK, CallInv, CallOK, At, Owning
  <2>2. Writes(p)
    BY <1>4, <2>1 DEF ClaimExpired, SendFails, SetStatus, Writes, Fails, RowBecomes, Row
  <2>3. \A q \in Payments \ {p} : Kept(q)
    BY <1>4 DEF ClaimExpired, SendFails, SetStatus, Kept
  <2>4. QED
    BY <1>4, <2>2, <2>3 DEF ClaimExpired, SendFails, PaymentStep
<1>5. ASSUME NEW c \in Callers, NEW p \in Payments, p = Paying(c), Sign(c)
      PROVE PaymentStep
  <2>1. row[p] \in Row /\ row[p].status = "confirmed" /\ Committed(p)
    BY <1>5 DEF Sign, CallInv, CallOK, At, Owning
  <2>2. Writes(p)
    BY <1>5, <2>1 DEF Sign, Writes, Signs, RowBecomes, Row
  <2>3. \A q \in Payments \ {p} : Kept(q)
    BY <1>5 DEF Sign, Kept
  <2>4. QED
    BY <1>5, <2>2, <2>3 DEF Sign, PaymentStep
<1>6. ASSUME NEW c \in Callers, NEW p \in Payments, p = Paying(c), Post(c)
      PROVE PaymentStep
  <2>1. /\ row[p].status = "confirmed"
        /\ row[p].txHash = "txid"
        /\ posts[p] = 0
        /\ Committed(p)
    BY <1>6 DEF Post, CallInv, CallOK, At, Owning
  <2>2. Writes(p)
    BY <1>6, <2>1 DEF Post, Writes, Posts
  <2>3. \A q \in Payments \ {p} : Kept(q)
    BY <1>6 DEF Post, Kept
  <2>4. QED
    BY <1>6, <2>2, <2>3 DEF Post, PaymentStep
<1>7. ASSUME NEW c \in Callers, NEW p \in Payments, p = Paying(c), RecordBroadcast(c)
      PROVE PaymentStep
  <2>1. row[p] \in Row /\ row[p].status = "confirmed" /\ posts[p] = 1 /\ Committed(p)
    BY <1>7 DEF RecordBroadcast, CallInv, CallOK, At, Owning
  <2>2. Writes(p)
    BY <1>7, <2>1 DEF RecordBroadcast, Writes, Records, RowBecomes, Row
  <2>3. \A q \in Payments \ {p} : Kept(q)
    BY <1>7 DEF RecordBroadcast, Kept
  <2>4. QED
    BY <1>7, <2>2, <2>3 DEF RecordBroadcast, PaymentStep
<1>8. ASSUME NEW p \in Payments, Tell(p, Outcome(p)),
             UNCHANGED <<row, posts, clock, commitments>>
      PROVE PaymentStep
  BY <1>8 DEF Tell, PaymentStep, Tells, Kept
<1>9. ASSUME NEW p \in Payments, ReportExpired(p) PROVE PaymentStep
  BY <1>9 DEF ReportExpired, Tell, PaymentStep, Tells, Kept
<1>10. ASSUME NEW c \in Callers, Reread(c) PROVE PaymentStep
  <2>1. Paying(c) \in Payments
    BY <1>10, Working DEF Reread, At, Confirming, Stages
  <2>2. QED
    BY <1>1, <1>8, <1>10, <2>1 DEF Reread
<1>11. ASSUME NEW c \in Callers, At(c, "entered") \/ caller[c].stage \in Owning
       PROVE Paying(c) \in Payments
  BY <1>11, Working DEF At, Confirming, Stages, Owning
<1>12. ASSUME NEW c \in Callers,
              \/ Claim(c) \/ ClaimExpired(c) \/ SendFails(c) \/ Sign(c) \/ Post(c)
              \/ RecordBroadcast(c)
       PROVE PaymentStep
  <2>1. At(c, "entered") \/ caller[c].stage \in Owning
    BY <1>12 DEF Claim, ClaimExpired, SendFails, Sign, Post, RecordBroadcast, At, Owning
  <2>2. QED
    BY <1>3, <1>4, <1>5, <1>6, <1>7, <1>11, <1>12, <2>1
<1>13. ASSUME NEW p \in Payments, Report(p) PROVE PaymentStep
  BY <1>8, <1>13 DEF Report
<1>14. ASSUME NEW c \in Callers,
              \/ FindCommitment(c) \/ RequestCommitment(c) \/ AppendCommitment(c)
              \/ ReuseWinner(c) \/ Enter(c) \/ ClaimRefused(c) \/ Ambiguous(c) \/ Abandon(c)
       PROVE UNCHANGED <<row, posts, told>>
  BY <1>14 DEF FindCommitment, RequestCommitment, AppendCommitment, ReuseWinner, Enter,
               ClaimRefused, Ambiguous, Abandon
<1>15. ASSUME NEW c \in Callers,
              \/ \E i \in Intents : PrepareRead(c, i)
              \/ \E p \in Payments : ConfirmRead(c, p)
       PROVE UNCHANGED <<row, posts, told>>
  BY <1>15 DEF PrepareRead, ConfirmRead
<1>16. (UNCHANGED vars \/ Withdraw \/ Restore \/ Tick) => UNCHANGED <<row, posts, told>>
  BY DEF vars, Withdraw, Restore, Tick
<1>17. QED
  BY <1>1, <1>2, <1>9, <1>10, <1>12, <1>13, <1>14, <1>15, <1>16, Steps

\* Deadlines do not move, commitments are never deleted, time does not go back.
LEMMA Frozen ==
    ASSUME TypeOK, [Next]_vars
    PROVE  ends' = ends /\ commitments \subseteq commitments' /\ clock' >= clock
<1>1. (UNCHANGED vars \/ Withdraw \/ Restore \/ Tick)
          => ends' = ends /\ commitments' = commitments /\ clock' >= clock
  BY DEF TypeOK, vars, Withdraw, Restore, Tick
<1>2. ASSUME NEW c \in Callers,
             \/ \E i \in Intents : PrepareRead(c, i)
             \/ \E p \in Payments : PrepareBind(c, p) \/ ConfirmRead(c, p)
             \/ FindCommitment(c) \/ RequestCommitment(c) \/ ReuseWinner(c) \/ Enter(c)
             \/ Claim(c) \/ ClaimExpired(c) \/ ClaimRefused(c) \/ SendFails(c) \/ Sign(c)
             \/ Post(c) \/ Ambiguous(c) \/ RecordBroadcast(c) \/ Reread(c) \/ Abandon(c)
      PROVE ends' = ends /\ commitments' = commitments /\ clock' = clock
  BY <1>2 DEF PrepareRead, PrepareBind, ConfirmRead, FindCommitment, RequestCommitment,
              ReuseWinner, Enter, Claim, ClaimExpired, ClaimRefused, SendFails, Sign, Post,
              Ambiguous, RecordBroadcast, Reread, Abandon
<1>3. ASSUME NEW c \in Callers, AppendCommitment(c)
      PROVE ends' = ends /\ commitments \subseteq commitments' /\ clock' = clock
  BY <1>3 DEF AppendCommitment
<1>4. ASSUME NEW p \in Payments, Report(p) \/ ReportExpired(p)
      PROVE ends' = ends /\ commitments' = commitments /\ clock' = clock
  BY <1>4 DEF Report, ReportExpired
<1>5. QED
  BY <1>1, <1>2, <1>3, <1>4, Steps DEF TypeOK

\* The row of a payment keeps its intent and its window, and is never removed.
LEMMA RowSticks ==
    ASSUME TypeOK, PaymentStep, NEW p \in Payments, row[p].status # "none"
    PROVE  /\ row'[p].status # "none"
           /\ row'[p].intent = row[p].intent
           /\ row'[p].expires = row[p].expires
<1>1. (Kept(p) \/ Tells(p) \/ Posts(p)) => row'[p] = row[p]
  BY DEF Kept, Tells, Posts
<1>2. ~Binds(p)
  BY DEF Binds
<1>3. (Claims(p) \/ Fails(p) \/ Signs(p) \/ Records(p))
          => \E status \in {"confirmed", "failed", "broadcast"}, txHash \in {"null", "txid"} :
                 RowBecomes(p, status, txHash)
  BY DEF Claims, Fails, Signs, Records
<1>4. QED
  BY <1>1, <1>2, <1>3 DEF PaymentStep, Writes, RowBecomes

\* So the window of a review never moves, and its commitment stays its own.
LEMMA WindowSticks ==
    ASSUME TypeOK, PaymentStep, ends' = ends, commitments \subseteq commitments',
           NEW p \in Payments, row[p].status # "none"
    PROVE  /\ ConfirmBefore(p)' = ConfirmBefore(p)
           /\ \A k : Matches(k, p) => Matches(k, p)'
           /\ Committed(p) => Committed(p)'
<1>1. row'[p].intent = row[p].intent /\ row'[p].expires = row[p].expires
  BY RowSticks
<1>2. ConfirmBefore(p)' = ConfirmBefore(p)
  BY <1>1 DEF ConfirmBefore, Earlier
<1>3. \A k : Matches(k, p) => Matches(k, p)'
  BY <1>1, <1>2 DEF Matches
<1>4. QED
  BY <1>2, <1>3 DEF Committed

-----------------------------------------------------------------------------
(***************************************************************************)
(* The parts of the inductive invariant that speak of rows, answers and    *)
(* commitments.                                                            *)
(***************************************************************************)

\* Rows go on saying the truth about the wire.
LEMMA RowStep ==
    ASSUME TypeOK, RowInv, PaymentStep
    PROVE  RowInv'
<1> SUFFICES ASSUME NEW p \in Payments PROVE RowOK(p)'
  BY DEF RowInv
<1>1. RowOK(p) /\ row[p] \in Row /\ posts[p] \in Nat
  BY DEF RowInv, TypeOK
<1>2. CASE Kept(p)
  BY <1>1, <1>2 DEF RowOK, Kept
<1>3. CASE Tells(p)
  BY <1>1, <1>3 DEF RowOK, Tells
<1>4. CASE Writes(p)
  <2>1. CASE Binds(p)
    BY <1>1, <2>1, NoneAssumption DEF RowOK, Binds, Row
  <2>2. CASE Claims(p) \/ Fails(p) \/ Signs(p) \/ Records(p)
    BY <1>1, <2>2 DEF RowOK, Claims, Fails, Signs, Records, RowBecomes, Row
  <2>3. CASE Posts(p)
    BY <1>1, <2>3 DEF RowOK, Posts, Row
  <2>4. QED
    BY <1>4, <2>1, <2>2, <2>3 DEF Writes
<1>5. QED
  BY <1>2, <1>3, <1>4 DEF PaymentStep

\* What was told goes on being what the row says.
LEMMA ToldStep ==
    ASSUME TypeOK, RowInv, ToldInv, PaymentStep, ends' = ends, clock' \in Nat, clock' >= clock,
           commitments \subseteq commitments'
    PROVE  ToldInv'
<1> SUFFICES ASSUME NEW p \in Payments PROVE ToldOK(p)'
  BY DEF ToldInv
<1>1. RowOK(p) /\ ToldOK(p) /\ row[p] \in Row
  BY DEF ToldInv, RowInv, TypeOK
<1>2. row[p].status # "none" =>
          ConfirmBefore(p) \in Nat /\ ConfirmBefore(p)' = ConfirmBefore(p)
  BY <1>1, WindowSticks, WindowType DEF RowOK, Row
<1>3. "expired" \in told[p] => clock' >= ConfirmBefore(p)'
  BY <1>1, <1>2 DEF ToldOK, TypeOK
<1>4. CASE Kept(p)
  BY <1>1, <1>3, <1>4 DEF ToldOK, Kept
<1>5. CASE Tells(p)
  BY <1>1, <1>2, <1>3, <1>5 DEF ToldOK, Tells, Outcome
<1>6. CASE Writes(p) /\ told'[p] = told[p]
  <2>1. CASE Binds(p)
    BY <1>1, <1>6, <2>1 DEF ToldOK, Binds
  <2>2. CASE Claims(p)
    BY <1>1, <1>2, <1>6, <2>2 DEF ToldOK, Claims, TypeOK
  <2>3. CASE Fails(p)
    BY <1>1, <1>3, <1>6, <2>3 DEF ToldOK, Fails, RowBecomes
  <2>4. CASE Signs(p) \/ Posts(p) \/ Records(p)
    BY <1>1, <1>6, <2>4 DEF ToldOK, Signs, Posts, Records, RowBecomes
  <2>5. QED
    BY <1>6, <2>1, <2>2, <2>3, <2>4 DEF Writes
<1>7. QED
  BY <1>4, <1>5, <1>6 DEF PaymentStep

\* A quote is bound only to an intent that is bound to nothing.
LEMMA OnePaymentStep ==
    ASSUME TypeOK, RowInv, OnePaymentPerIntent, PaymentStep
    PROVE  OnePaymentPerIntent'
<1> SUFFICES ASSUME NEW p \in Payments, NEW q \in Payments, p # q,
                    row'[p].status # "none", row'[q].status # "none"
             PROVE  row'[p].intent # row'[q].intent
  BY DEF OnePaymentPerIntent
<1>1. CASE row[p].status # "none" /\ row[q].status # "none"
  BY <1>1, RowSticks DEF OnePaymentPerIntent
<1>2. ASSUME NEW b \in Payments, row[b].status = "none", row'[b].status # "none"
      PROVE  /\ Binds(b)
             /\ \A r \in Payments \ {b} : row'[r] = row[r]
  BY <1>2 DEF PaymentStep, Kept, Tells, Writes, Claims, Fails, Signs, Posts, Records
<1>3. ASSUME NEW b \in Payments, NEW r \in Payments, r # b, Binds(b), row'[r] = row[r]
      PROVE  row'[b].intent # row'[r].intent
  BY <1>3 DEF Binds, Bound
<1>4. CASE row[p].status = "none"
  BY <1>2, <1>3, <1>4
<1>5. CASE row[q].status = "none"
  BY <1>2, <1>3, <1>5
<1>6. QED
  BY <1>1, <1>4, <1>5

\* The commitments of a step: the old ones, or one more of an intent that had none.
LEMMA CommitmentSteps ==
    ASSUME [Next]_vars
    PROVE  \/ commitments' = commitments
           \/ \E c \in Callers : AppendCommitment(c)
<1>1. (UNCHANGED vars \/ Withdraw \/ Restore \/ Tick) => commitments' = commitments
  BY DEF vars, Withdraw, Restore, Tick
<1>2. ASSUME NEW c \in Callers,
             \/ \E i \in Intents : PrepareRead(c, i)
             \/ \E p \in Payments : PrepareBind(c, p) \/ ConfirmRead(c, p)
             \/ FindCommitment(c) \/ RequestCommitment(c) \/ ReuseWinner(c) \/ Enter(c)
             \/ Claim(c) \/ ClaimExpired(c) \/ ClaimRefused(c) \/ SendFails(c) \/ Sign(c)
             \/ Post(c) \/ Ambiguous(c) \/ RecordBroadcast(c) \/ Reread(c) \/ Abandon(c)
      PROVE commitments' = commitments
  BY <1>2 DEF PrepareRead, PrepareBind, ConfirmRead, FindCommitment, RequestCommitment,
              ReuseWinner, Enter, Claim, ClaimExpired, ClaimRefused, SendFails, Sign, Post,
              Ambiguous, RecordBroadcast, Reread, Abandon
<1>3. ASSUME NEW p \in Payments, Report(p) \/ ReportExpired(p)
      PROVE commitments' = commitments
  BY <1>3 DEF Report, ReportExpired
<1>4. QED
  BY <1>1, <1>2, <1>3, Steps

\* The record a call signs is the commitment of the payment it works on.
LEMMA SignedShape ==
    ASSUME TypeOK, CallInv, RowInv, NEW c \in Callers, AppendCommitment(c)
    PROVE  /\ commitments' = commitments \cup {Signed(c)}
           /\ \A k \in commitments : k.intent # Signed(c).intent
           /\ Signed(c).payment \in Payments
           /\ row[Signed(c).payment].status # "none"
           /\ Matches(Signed(c), Signed(c).payment)
<1>1. caller[c].stage \in Confirming
  BY DEF AppendCommitment, At, Confirming, Stages
<1>2. row[Paying(c)].status # "none"
  BY <1>1 DEF CallInv, CallOK
<1>3. QED
  BY <1>1, <1>2, Working DEF AppendCommitment, Signed, CommitmentsFor, Matches

\* Commitments go on being of a row, exact, and one of an intent.
LEMMA CommitmentStep ==
    ASSUME TypeOK, CallInv, RowInv, CommitmentInv, OneCommitmentPerIntent, PaymentStep,
           [Next]_vars
    PROVE  CommitmentInv' /\ OneCommitmentPerIntent'
<1>1. /\ ends' = ends
      /\ commitments \subseteq commitments'
  BY Frozen
<1>2. \A k \in commitments : /\ k.payment \in Payments
                             /\ row[k.payment].status # "none"
                             /\ Matches(k, k.payment)
  BY DEF CommitmentInv, OneCommitmentPerIntent
<1>3. ASSUME NEW k, k.payment \in Payments, row[k.payment].status # "none",
             Matches(k, k.payment)
      PROVE  /\ row'[k.payment].status # "none"
             /\ Matches(k, k.payment)'
  BY <1>1, <1>3, RowSticks, WindowSticks
<1>4. CASE commitments' = commitments
  BY <1>2, <1>3, <1>4 DEF CommitmentInv, OneCommitmentPerIntent
<1>5. ASSUME NEW c \in Callers, AppendCommitment(c)
      PROVE  CommitmentInv' /\ OneCommitmentPerIntent'
  BY <1>2, <1>3, <1>5, SignedShape DEF CommitmentInv, OneCommitmentPerIntent
<1>6. QED
  BY <1>4, <1>5, CommitmentSteps

\* A row leaves quoted only with its commitment, which it never loses.
LEMMA OutcomeStep ==
    ASSUME TypeOK, OutcomeIsRecoverable, PaymentStep, ends' = ends,
           commitments \subseteq commitments'
    PROVE  OutcomeIsRecoverable'
<1> SUFFICES ASSUME NEW p \in Payments, row'[p].status \notin {"none", "quoted"}
             PROVE  Committed(p)'
  BY DEF OutcomeIsRecoverable
<1>1. ASSUME row'[p] = row[p] PROVE row[p].status # "none" /\ Committed(p)
  BY <1>1 DEF OutcomeIsRecoverable
<1>2. (Kept(p) \/ Tells(p)) => row'[p] = row[p]
  BY DEF Kept, Tells
<1>3. Binds(p) => row'[p].status = "quoted"
  BY DEF Binds
<1>4. (Claims(p) \/ Fails(p) \/ Signs(p) \/ Posts(p) \/ Records(p))
          => row[p].status # "none" /\ Committed(p)
  BY DEF Claims, Fails, Signs, Posts, Records
<1>5. QED
  BY <1>1, <1>2, <1>3, <1>4, WindowSticks DEF PaymentStep, Writes

-----------------------------------------------------------------------------
(***************************************************************************)
(* The parts that speak of the calls.                                      *)
(***************************************************************************)

\* A call that does not move stays right as long as the payment it owns, if it
\* owns one, is left alone.
LEMMA OtherCall ==
    ASSUME TypeOK, CallInv, PaymentStep, ends' = ends, commitments \subseteq commitments',
           NEW d \in Callers, caller'[d] = caller[d],
           caller[d].stage \in Owning =>
               /\ row'[Paying(d)] = row[Paying(d)]
               /\ posts'[Paying(d)] = posts[Paying(d)]
    PROVE  CallOK(d)'
<1>1. CallOK(d) /\ Paying(d)' = Paying(d)
  BY DEF CallInv, Paying
<1>2. CASE caller[d].stage \notin Confirming
  BY <1>1, <1>2 DEF CallOK, At, Owning, Confirming, Stages
<1>3. CASE caller[d].stage \in Confirming
  <2>1. PICK p \in Payments : p = Paying(d)
    BY <1>1, <1>3 DEF CallOK
  <2>2. /\ row[p].status # "none"
        /\ row'[p].status # "none"
        /\ row'[p].intent = row[p].intent
        /\ Committed(p) => Committed(p)'
    BY <1>1, <1>3, <2>1, RowSticks, WindowSticks DEF CallOK
  <2>3. Committed(p)' => Committed(Paying(d))'
    BY <1>1, <2>1 DEF Committed, Matches, ConfirmBefore
  <2>4. QED
    BY <1>1, <1>3, <2>1, <2>2, <2>3 DEF CallOK, At
<1>4. QED
  BY <1>2, <1>3

\* A call that moves on after its first read, to a stage that owns nothing, stays
\* right; so does one that enters confirmPayment with its commitment.
LEMMA MovedCall ==
    ASSUME TypeOK, CallInv, RowInv, PaymentStep, ends' = ends, commitments \subseteq commitments',
           NEW c \in Callers, caller[c].stage \in Confirming,
           NEW stage \in Confirming \ Owning, Go(c, stage),
           stage = "entered" => Committed(Paying(c))
    PROVE  CallOK(c)'
<1>1. /\ caller'[c].stage = stage
      /\ caller'[c].payment = caller[c].payment
      /\ caller'[c].intent = caller[c].intent
  BY DEF TypeOK, Go
<1>2. PICK p \in Payments : /\ p = Paying(c)
                           /\ row[p].status # "none"
                           /\ row[p].intent = caller[c].intent
  BY Working DEF CallInv, CallOK
<1>3. /\ row'[p].status # "none"
      /\ row'[p].intent = caller[c].intent
      /\ Committed(p) => Committed(p)'
  BY <1>2, RowSticks, WindowSticks
<1>4. Paying(c)' = p
  BY <1>1, <1>2 DEF Paying
<1>5. Committed(p)' => Committed(Paying(c))'
  BY <1>4 DEF Committed, Matches, ConfirmBefore
<1>6. stage \notin {"idle", "quoting"} /\ stage \notin Owning
  BY DEF Confirming
<1>7. QED
  BY <1>1, <1>2, <1>3, <1>4, <1>5, <1>6 DEF CallOK, At

\* A call that has returned has nothing to be right about.
LEMMA ReturnedCall ==
    ASSUME TypeOK, NEW c \in Callers, Return(c)
    PROVE  CallOK(c)'
<1>1. caller'[c].stage = "idle"
  BY DEF TypeOK, Return, Idle
<1>2. QED
  BY <1>1 DEF CallOK, At, Confirming, Owning

\* What a step of one call has to show, of itself and of the other calls.
LEMMA CallsFrom ==
    ASSUME TypeOK, CallInv, PaymentStep, ends' = ends, commitments \subseteq commitments',
           NEW c \in Callers, CallOK(c)',
           \A d \in Callers \ {c} :
               /\ caller'[d] = caller[d]
               /\ caller[d].stage \in Owning =>
                      /\ row'[Paying(d)] = row[Paying(d)]
                      /\ posts'[Paying(d)] = posts[Paying(d)]
    PROVE  CallInv'
  BY OtherCall DEF CallInv

\* The calls after a step that moves one of them and writes nothing.
LEMMA SilentCallStep ==
    ASSUME TypeOK, CallInv, RowInv, PaymentStep, ends' = ends,
           commitments \subseteq commitments',
           NEW c \in Callers, UNCHANGED <<row, posts>>,
           \/ Return(c)
           \/ /\ caller[c].stage \in Confirming
              /\ \E stage \in Confirming \ Owning :
                     /\ Go(c, stage)
                     /\ stage = "entered" => Committed(Paying(c))
    PROVE  CallInv'
<1>1. CallOK(c)'
  BY MovedCall, ReturnedCall
<1>2. \A d \in Callers \ {c} : caller'[d] = caller[d]
  BY DEF TypeOK, Return, Go
<1>3. QED
  BY <1>1, <1>2, CallsFrom

\* A write to one payment leaves the payments that other calls own alone: the
\* writer owns it, or nobody does.
LEMMA OwnersElsewhere ==
    ASSUME CallInv, OneOwner, NEW c \in Callers, NEW p \in Payments,
           \/ row[p].status # "confirmed"
           \/ caller[c].stage \in Owning /\ Paying(c) = p,
           \A q \in Payments \ {p} : row'[q] = row[q] /\ posts'[q] = posts[q],
           NEW d \in Callers \ {c}, caller[d].stage \in Owning
    PROVE  /\ row'[Paying(d)] = row[Paying(d)]
           /\ posts'[Paying(d)] = posts[Paying(d)]
<1>1. Paying(d) \in Payments /\ row[Paying(d)].status = "confirmed"
  BY DEF CallInv, CallOK, Confirming, Stages, Owning
<1>2. Paying(d) # p
  BY <1>1 DEF OneOwner
<1>3. QED
  BY <1>1, <1>2

\* Every step keeps every call right.
LEMMA CallStep ==
    ASSUME TypeOK, CallInv, OneOwner, RowInv, [Next]_vars
    PROVE  CallInv'
<1> DEFINE Silent == UNCHANGED <<row, posts>>
<1> USE PaymentSteps, Frozen
<1>1. ASSUME UNCHANGED <<caller, row, posts>> PROVE CallInv'
  BY <1>1, OtherCall DEF CallInv
<1>2. ASSUME NEW c \in Callers, NEW i \in Intents, PrepareRead(c, i) PROVE CallInv'
  <2>1. CallOK(c)'
    BY <1>2 DEF TypeOK, PrepareRead, CallOK, At, Confirming, Owning
  <2>2. \A d \in Callers \ {c} : caller'[d] = caller[d]
    BY <1>2 DEF TypeOK, PrepareRead
  <2>3. Silent
    BY <1>2 DEF PrepareRead
  <2>4. QED
    BY <2>1, <2>2, <2>3, CallsFrom
<1>3. ASSUME NEW c \in Callers, NEW p \in Payments, PrepareBind(c, p) PROVE CallInv'
  <2>1. CallOK(c)'
    BY <1>3, ReturnedCall DEF PrepareBind
  <2>2. \A d \in Callers \ {c} : caller'[d] = caller[d]
    BY <1>3 DEF TypeOK, PrepareBind, DraftBinding, Return
  <2>3. \A q \in Payments \ {p} : row'[q] = row[q] /\ posts'[q] = posts[q]
    BY <1>3 DEF TypeOK, PrepareBind
  <2>4. row[p].status # "confirmed"
    BY <1>3 DEF PrepareBind
  <2>5. QED
    BY <2>1, <2>2, <2>3, <2>4, OwnersElsewhere, CallsFrom
<1>4. ASSUME NEW c \in Callers, NEW p \in Payments, ConfirmRead(c, p) PROVE CallInv'
  <2>1. /\ caller'[c].stage = "read"
        /\ caller'[c].payment = p
        /\ caller'[c].intent = row[p].intent
        /\ row'[p] = row[p]
        /\ row[p].status = "quoted"
    BY <1>4 DEF TypeOK, ConfirmRead
  <2>2. CallOK(c)'
    BY <2>1 DEF CallOK, At, Paying, Confirming, Owning
  <2>3. \A d \in Callers \ {c} : caller'[d] = caller[d]
    BY <1>4 DEF TypeOK, ConfirmRead
  <2>4. Silent
    BY <1>4 DEF ConfirmRead
  <2>5. QED
    BY <2>2, <2>3, <2>4, CallsFrom
<1>5. ASSUME NEW c \in Callers,
             \/ FindCommitment(c) \/ RequestCommitment(c) \/ AppendCommitment(c)
             \/ ReuseWinner(c) \/ Enter(c) \/ ClaimRefused(c) \/ Ambiguous(c)
             \/ Reread(c) \/ Abandon(c)
      PROVE CallInv'
  <2>1. Silent
    BY <1>5 DEF FindCommitment, RequestCommitment, AppendCommitment, ReuseWinner, Enter,
                ClaimRefused, Ambiguous, Reread, Abandon
  <2>2. CASE Reread(c) \/ Abandon(c)
    BY <2>1, <2>2, SilentCallStep DEF Reread, Abandon
  <2>3. CASE FindCommitment(c) \/ RequestCommitment(c) \/ AppendCommitment(c) \/ ReuseWinner(c)
    BY <2>1, <2>3, SilentCallStep
       DEF FindCommitment, RequestCommitment, AppendCommitment, ReuseWinner,
           At, Confirming, Owning, Stages
  <2>4. CASE Enter(c)
    <3>1. /\ caller[c].stage = "committed"
          /\ Committed(Paying(c))
          /\ Go(c, "entered") \/ Go(c, "reread")
      BY <2>4 DEF Enter, At
    <3>2. QED
      BY <2>1, <3>1, SilentCallStep DEF Confirming, Owning, Stages
  <2>5. CASE ClaimRefused(c) \/ Ambiguous(c)
    BY <2>1, <2>5, SilentCallStep DEF ClaimRefused, Ambiguous, At, Confirming, Owning, Stages
  <2>6. QED
    BY <1>5, <2>2, <2>3, <2>4, <2>5
<1>6. ASSUME NEW c \in Callers,
             \/ Claim(c) \/ ClaimExpired(c) \/ SendFails(c) \/ Sign(c) \/ Post(c)
             \/ RecordBroadcast(c)
      PROVE CallInv'
  <2>1. caller[c].stage \in Owning \cup {"entered"}
    BY <1>6 DEF Claim, ClaimExpired, SendFails, Sign, Post, RecordBroadcast, At, Owning
  <2>2. caller[c].stage \in Confirming /\ CallOK(c)
    BY <2>1 DEF Owning, Confirming, Stages, CallInv
  <2>3. PICK p \in Payments : p = Paying(c)
    BY <2>2, Working
  <2>4. /\ row[p] \in Row
        /\ row[p].status # "none"
        /\ row[p].intent = caller[c].intent
        /\ Committed(p)
        /\ RowOK(p)
    BY <2>1, <2>2, <2>3, Working DEF CallOK, RowInv
  <2>5. row[p].status # "confirmed" \/ (caller[c].stage \in Owning /\ Paying(c) = p)
    BY <1>6, <2>3 DEF Claim, ClaimExpired, SendFails, Sign, Post, RecordBroadcast, At, Owning
  <2>6. \A q \in Payments \ {p} : row'[q] = row[q] /\ posts'[q] = posts[q]
    BY <1>6, <2>3 DEF TypeOK, Claim, ClaimExpired, SendFails, Sign, Post, RecordBroadcast,
                      SetStatus
  <2>7. \A d \in Callers \ {c} : caller'[d] = caller[d]
    BY <1>6 DEF TypeOK, Claim, ClaimExpired, SendFails, Sign, Post, RecordBroadcast, Go
  <2>8. CallOK(c)' => CallInv'
    BY <2>5, <2>6, <2>7, OwnersElsewhere, CallsFrom
  <2>9. CASE ClaimExpired(c) \/ SendFails(c) \/ RecordBroadcast(c)
    BY <2>2, <2>8, <2>9, MovedCall
       DEF ClaimExpired, SendFails, RecordBroadcast, Confirming, Owning, Stages
  <2>10. row'[p].intent = caller[c].intent /\ row'[p].status # "none" /\ Committed(p)'
    BY <2>4, RowSticks, WindowSticks
  <2>11. ASSUME NEW stage \in Owning, Go(c, stage),
                row'[p].status = "confirmed",
                row'[p].txHash = IF stage = "claimed" THEN "null" ELSE "txid",
                posts'[p] = IF stage = "posted" THEN 1 ELSE 0
         PROVE  CallInv'
    <3>1. /\ caller'[c].stage = stage
          /\ caller'[c].intent = caller[c].intent
          /\ Paying(c)' = p
      BY <2>3, <2>11 DEF TypeOK, Go, Paying
    <3>2. Committed(Paying(c))'
      BY <2>10, <3>1 DEF Committed, Matches, ConfirmBefore
    <3>3. CallOK(c)'
      BY <2>10, <2>11, <3>1, <3>2 DEF CallOK, At, Owning
    <3>4. QED
      BY <2>8, <3>3
  <2>12. CASE Claim(c)
    <3>1. row[p].txHash = "null" /\ posts[p] = 0
      BY <2>3, <2>4, <2>12 DEF Claim, RowOK
    <3>2. row'[p].status = "confirmed" /\ row'[p].txHash = "null" /\ posts'[p] = 0
      BY <2>3, <2>12, <3>1 DEF TypeOK, Claim, SetStatus, Row
    <3>3. QED
      BY <2>11, <2>12, <3>2 DEF Claim, Owning
  <2>13. CASE Sign(c)
    <3>1. row[p].status = "confirmed" /\ posts[p] = 0
      BY <2>2, <2>3, <2>13 DEF Sign, CallOK, At, Owning
    <3>2. row'[p].status = "confirmed" /\ row'[p].txHash = "txid" /\ posts'[p] = 0
      BY <2>3, <2>13, <3>1 DEF TypeOK, Sign, Row
    <3>3. QED
      BY <2>11, <2>13, <3>2 DEF Sign, Owning
  <2>14. CASE Post(c)
    <3>1. row[p].status = "confirmed" /\ row[p].txHash = "txid" /\ posts[p] = 0
      BY <2>2, <2>3, <2>14 DEF Post, CallOK, At, Owning
    <3>2. row'[p] = row[p] /\ posts'[p] = 1
      BY <2>3, <2>14, <3>1 DEF TypeOK, Post
    <3>3. QED
      BY <2>11, <2>14, <3>1, <3>2 DEF Post, Owning
  <2>15. QED
    BY <1>6, <2>9, <2>12, <2>13, <2>14
<1>7. (UNCHANGED vars \/ Withdraw \/ Restore \/ Tick) => UNCHANGED <<caller, row, posts>>
  BY DEF vars, Withdraw, Restore, Tick
<1>8. ASSUME NEW p \in Payments, Report(p) \/ ReportExpired(p)
      PROVE UNCHANGED <<caller, row, posts>>
  BY <1>8 DEF Report, ReportExpired
<1>9. QED
  BY <1>1, <1>2, <1>3, <1>4, <1>5, <1>6, <1>7, <1>8, Steps

\* A payment has one owner: the claim is a compare-and-set from quoted, which no
\* owned payment is.
LEMMA OwnerStep ==
    ASSUME TypeOK, CallInv, OneOwner, RowInv, [Next]_vars
    PROVE  OneOwner'
<1>1. ASSUME \A d \in Callers : caller'[d].stage \in Owning =>
                 caller[d].stage \in Owning /\ caller'[d].payment = caller[d].payment
      PROVE  OneOwner'
  BY <1>1 DEF OneOwner, Paying
<1>2. ASSUME NEW c \in Callers, Return(c) \/ \E stage \in Stages \ Owning : Go(c, stage)
      PROVE  OneOwner'
  BY <1>1, <1>2 DEF TypeOK, Return, Go, Idle, Owning
<1>3. ASSUME NEW c \in Callers, caller[c].stage \in Owning, \E stage \in Stages : Go(c, stage)
      PROVE  OneOwner'
  BY <1>1, <1>3 DEF TypeOK, Go
<1>4. ASSUME NEW c \in Callers, NEW i \in Intents, PrepareRead(c, i) PROVE OneOwner'
  BY <1>1, <1>4 DEF TypeOK, PrepareRead, Owning
<1>5. ASSUME NEW c \in Callers, NEW p \in Payments, ConfirmRead(c, p) PROVE OneOwner'
  BY <1>1, <1>5 DEF TypeOK, ConfirmRead, Owning
<1>6. ASSUME NEW c \in Callers,
             \/ \E p \in Payments : PrepareBind(c, p)
             \/ FindCommitment(c) \/ RequestCommitment(c) \/ AppendCommitment(c)
             \/ ReuseWinner(c) \/ Enter(c) \/ ClaimExpired(c) \/ ClaimRefused(c)
             \/ SendFails(c) \/ Ambiguous(c) \/ RecordBroadcast(c) \/ Reread(c) \/ Abandon(c)
      PROVE OneOwner'
  <2>1. Return(c) \/ \E stage \in Stages \ Owning : Go(c, stage)
    BY <1>6 DEF PrepareBind, FindCommitment, RequestCommitment, AppendCommitment, ReuseWinner,
                Enter, ClaimExpired, ClaimRefused, SendFails, Ambiguous, RecordBroadcast,
                Reread, Abandon, Stages, Owning
  <2>2. QED
    BY <1>2, <2>1
<1>7. ASSUME NEW c \in Callers, Sign(c) \/ Post(c) PROVE OneOwner'
  BY <1>3, <1>7 DEF Sign, Post, At, Stages, Owning
<1>8. ASSUME NEW c \in Callers, Claim(c) PROVE OneOwner'
  <2>1. \A d \in Callers \ {c} : caller'[d] = caller[d]
    BY <1>8 DEF TypeOK, Claim, Go
  <2>2. caller'[c].payment = caller[c].payment
    BY <1>8 DEF TypeOK, Claim, Go
  <2>3. ASSUME NEW d \in Callers, caller[d].stage \in Owning PROVE Paying(d) # Paying(c)
    BY <1>8, <2>3 DEF Claim, CallInv, CallOK
  <2>4. QED
    BY <2>1, <2>2, <2>3 DEF OneOwner, Paying
<1>9. (UNCHANGED vars \/ Withdraw \/ Restore \/ Tick) => OneOwner'
  BY <1>1 DEF vars, Withdraw, Restore, Tick
<1>10. ASSUME NEW p \in Payments, Report(p) \/ ReportExpired(p) PROVE OneOwner'
  BY <1>1, <1>10 DEF Report, ReportExpired
<1>11. QED
  BY <1>4, <1>5, <1>6, <1>7, <1>8, <1>9, <1>10, Steps

-----------------------------------------------------------------------------
(***************************************************************************)
(* The theorems.                                                           *)
(***************************************************************************)

\* Before the first call nothing is bound, signed, sent or told.
LEMMA InitIInv == Init => IInv
<1> SUFFICES ASSUME Init PROVE IInv
  OBVIOUS
<1>1. TypeOK
  BY NoneAssumption, ClockAssumption DEF Init, TypeOK, Row, NoRow, Idle, Stages
<1>2. \A p \in Payments : row[p] = NoRow /\ posts[p] = 0 /\ told[p] = {}
  BY DEF Init
<1>3. \A c \in Callers : caller[c].stage = "idle"
  BY DEF Init, Idle
<1>4. CallInv /\ OneOwner
  BY <1>3 DEF CallInv, CallOK, OneOwner, At, Owning, Confirming
<1>5. RowInv /\ ToldInv /\ OnePaymentPerIntent /\ OutcomeIsRecoverable
  BY <1>2 DEF RowInv, RowOK, ToldInv, ToldOK, OnePaymentPerIntent, OutcomeIsRecoverable, NoRow
<1>6. CommitmentInv /\ OneCommitmentPerIntent
  BY DEF Init, CommitmentInv, OneCommitmentPerIntent
<1>7. QED
  BY <1>1, <1>4, <1>5, <1>6 DEF IInv

\* Every step keeps the inductive invariant.
LEMMA NextIInv == IInv /\ [Next]_vars => IInv'
<1> SUFFICES ASSUME IInv, [Next]_vars PROVE IInv'
  OBVIOUS
<1>1. TypeOK /\ TypeOK' /\ PaymentStep
  BY TypeStep, PaymentSteps DEF IInv
<1>2. ends' = ends /\ commitments \subseteq commitments' /\ clock' >= clock /\ clock' \in Nat
  BY <1>1, Frozen DEF TypeOK
<1>3. CallInv' /\ OneOwner'
  BY CallStep, OwnerStep DEF IInv
<1>4. RowInv' /\ OnePaymentPerIntent' /\ OutcomeIsRecoverable'
  BY <1>1, <1>2, RowStep, OnePaymentStep, OutcomeStep DEF IInv
<1>5. ToldInv'
  BY <1>1, <1>2, ToldStep DEF IInv
<1>6. CommitmentInv' /\ OneCommitmentPerIntent'
  BY <1>1, CommitmentStep DEF IInv
<1>7. QED
  BY <1>1, <1>3, <1>4, <1>5, <1>6 DEF IInv

\* The inductive invariant: who owns which payment, what its row says of the wire,
\* and what has been told about it.
THEOREM Inductive == Spec => []IInv
  BY InitIInv, NextIInv, PTL DEF Spec

\* Every variable keeps its type, whatever the calls do.
THEOREM TypeCorrect == Spec => []TypeOK
<1>1. IInv => TypeOK
  BY DEF IInv
<1>2. QED
  BY <1>1, Inductive, PTL

\* However many prepare calls race, an intent is bound to one payments row.
THEOREM OnePayment == Spec => []OnePaymentPerIntent
<1>1. IInv => OnePaymentPerIntent
  BY DEF IInv
<1>2. QED
  BY <1>1, Inductive, PTL

\* However many confirmations race to sign, an intent has one execution commitment,
\* exact for the payment it is bound to.
THEOREM OneCommitment == Spec => []OneCommitmentPerIntent
<1>1. IInv => OneCommitmentPerIntent
  BY DEF IInv
<1>2. QED
  BY <1>1, Inductive, PTL

\* No payment that left quoted is ever without the commitment recovery asks for.
THEOREM OutcomeRecoverable == Spec => []OutcomeIsRecoverable
<1>1. IInv => OutcomeIsRecoverable
  BY DEF IInv
<1>2. QED
  BY <1>1, Inductive, PTL

\* A payment reported as expired or failed never leaves; one reported as broadcast
\* left, once.
THEOREM AnswersStay == Spec => []AnswersHold
<1>1. IInv => AnswersHold
  BY DEF IInv, AnswersHold, RowInv, RowOK, ToldInv, ToldOK, TypeOK
<1>2. QED
  BY <1>1, Inductive, PTL

-----------------------------------------------------------------------------
(***************************************************************************)
(* The refinement of IntentConsent.                                        *)
(***************************************************************************)

\* The phase of an intent is the phase of the one payment bound to it.
LEMMA PhaseBound ==
    ASSUME RowInv, OnePaymentPerIntent, NEW i \in Intents,
           NEW p \in Payments, row[p].intent = i
    PROVE  Phase(i) = PhaseOf(p)
<1>1. \A q \in Payments : row[q].intent = i => q = p
  BY NoneAssumption DEF RowInv, RowOK, OnePaymentPerIntent
<1>2. (CHOOSE q \in Payments : row[q].intent = i) = p
  BY <1>1
<1>3. Bound(i) # {}
  BY DEF Bound
<1>4. QED
  BY <1>2, <1>3 DEF Phase

\* The same, after a step.
LEMMA PhaseBoundNext ==
    ASSUME RowInv', OnePaymentPerIntent', NEW i \in Intents,
           NEW p \in Payments, row'[p].intent = i
    PROVE  Phase(i)' = PhaseOf(p)'
<1>1. \A q \in Payments : row'[q].intent = i => q = p
  BY NoneAssumption DEF RowInv, RowOK, OnePaymentPerIntent
<1>2. (CHOOSE q \in Payments : row'[q].intent = i) = p
  BY <1>1
<1>3. Bound(i)' # {}
  BY DEF Bound
<1>4. QED
  BY <1>2, <1>3 DEF Phase

\* An intent whose payments a step does not touch, and whose payment gains no
\* commitment in it, stays in its phase.
LEMMA PhaseKept ==
    ASSUME IInv, IInv', NEW i \in Intents,
           \A p \in Payments : row[p].intent = i \/ row'[p].intent = i =>
               Kept(p) /\ (Committed(p)' <=> Committed(p))
    PROVE  Phase(i)' = Phase(i)
<1>1. CASE \E p \in Payments : row[p].intent = i
  <2>1. PICK p \in Payments : row[p].intent = i
    BY <1>1
  <2>2. row'[p].intent = i
    BY <2>1 DEF Kept
  <2>3. PhaseOf(p)' = PhaseOf(p)
    BY <2>1 DEF PhaseOf, Kept
  <2>4. QED
    BY <2>1, <2>2, <2>3, PhaseBound, PhaseBoundNext DEF IInv
<1>2. CASE \A p \in Payments : row[p].intent # i
  <2>1. \A p \in Payments : row'[p].intent # i
    BY <1>2 DEF Kept
  <2>2. Phase(i) = "open" /\ Phase(i)' = "open"
    BY <1>2, <2>1 DEF Phase, Bound
  <2>3. QED
    BY <2>2
<1>3. QED
  BY <1>1, <1>2

\* A row that no quote fills yet has no commitment; a row keeps having or not
\* having one while no commitment is appended.
LEMMA CommittedKept ==
    ASSUME IInv, PaymentStep, ends' = ends, commitments' = commitments, NEW p \in Payments
    PROVE  /\ row[p].status = "none" => ~Committed(p) /\ ~Committed(p)'
           /\ row[p].status # "none" => (Committed(p)' <=> Committed(p))
<1>1. ASSUME row[p].status = "none" PROVE ~Committed(p) /\ ~Committed(p)'
  BY <1>1 DEF IInv, CommitmentInv, Committed, Matches
<1>2. ASSUME row[p].status # "none" PROVE Committed(p)' <=> Committed(p)
  <2>1. row'[p].intent = row[p].intent /\ row'[p].expires = row[p].expires
    BY <1>2, RowSticks DEF IInv
  <2>2. QED
    BY <2>1 DEF Committed, Matches, ConfirmBefore, Earlier
<1>3. QED
  BY <1>1, <1>2

\* An append commits the intent of its signer, and no other.
LEMMA CommittedOnce ==
    ASSUME IInv, NEW c \in Callers, AppendCommitment(c)
    PROVE  /\ Paying(c) \in Payments
           /\ row[Paying(c)].intent = caller[c].intent
           /\ caller[c].intent \in Intents
           /\ \A q \in Payments : row[q].intent # caller[c].intent =>
                  (Committed(q)' <=> Committed(q))
           /\ \A q \in Payments : q = Paying(c) => Committed(q)'
<1>1. caller[c].stage \in Confirming
  BY DEF AppendCommitment, At, Confirming, Stages
<1>2. /\ Paying(c) \in Payments
      /\ row[Paying(c)].intent = caller[c].intent
      /\ caller[c].intent \in Intents
  BY <1>1, Working DEF IInv
<1>3. /\ commitments' = commitments \cup {Signed(c)}
      /\ Signed(c).intent = caller[c].intent
      /\ Signed(c).payment = Paying(c)
      /\ Signed(c).expires = ConfirmBefore(Paying(c))
  BY DEF AppendCommitment, Signed
<1>4. ends' = ends /\ row' = row
  BY DEF AppendCommitment
<1>5. \A q \in Payments : row[q].intent # caller[c].intent =>
          (Committed(q)' <=> Committed(q))
  BY <1>3, <1>4 DEF Committed, Matches, ConfirmBefore
<1>6. \A q \in Payments : q = Paying(c) => Committed(q)'
  BY <1>2, <1>3, <1>4 DEF Committed, Matches, ConfirmBefore
<1>7. QED
  BY <1>2, <1>5, <1>6

\* One intent moves from a phase to a phase, and the others stay.
LEMMA ConsentMoves ==
    ASSUME NEW i \in Intents, NEW from, NEW to, Phase(i) \in from, Phase(i)' = to,
           \A j \in Intents \ {i} : Phase(j)' = Phase(j)
    PROVE  Consent!Step(i, from, to)
  BY DEF Consent!Step

\* How the phase of a payment's intent moves when the payment is written to.
LEMMA PhaseMoves ==
    ASSUME IInv, NEW p \in Payments, row[p].status # "none", Committed(p)' <=> Committed(p),
           \/ Tells(p)
           \/ (Claims(p) \/ Fails(p) \/ Signs(p) \/ Posts(p) \/ Records(p)) /\ told'[p] = told[p]
    PROVE  \/ PhaseOf(p)' = PhaseOf(p)
           \/ PhaseOf(p) \in {"bound", "committed"} /\ PhaseOf(p)' = "lapsed"
           \/ PhaseOf(p) = "committed" /\ PhaseOf(p)' = "claimed"
           \/ PhaseOf(p) = "claimed" /\ PhaseOf(p)' = "spent"
           \/ PhaseOf(p) \in {"committed", "claimed", "lapsed"} /\ PhaseOf(p)' = "closed"
<1>1. RowOK(p) /\ ToldOK(p) /\ row[p] \in Row /\ posts[p] \in Nat
  BY DEF IInv, RowInv, ToldInv, TypeOK
<1>2. CASE Tells(p)
  <2>1. "expired" \notin Outcome(p)
    BY DEF Outcome
  <2>2. CASE told'[p] = told[p] \cup Outcome(p)
    BY <1>2, <2>1, <2>2 DEF Tells, PhaseOf
  <2>3. CASE row[p].status = "quoted" /\ told'[p] = told[p] \cup {"expired"}
    BY <1>1, <1>2, <2>3 DEF Tells, PhaseOf, RowOK
  <2>4. QED
    BY <1>2, <2>2, <2>3 DEF Tells
<1>3. CASE Claims(p) /\ told'[p] = told[p]
  <2>1. ConfirmBefore(p) \in Nat /\ clock \in Nat
    BY <1>1, WindowType DEF IInv, RowOK, Row, TypeOK
  <2>2. "expired" \notin told[p] /\ posts[p] = 0
    BY <1>1, <1>3, <2>1 DEF Claims, ToldOK, RowOK
  <2>3. PhaseOf(p) = "committed"
    BY <1>3, <2>2 DEF Claims, PhaseOf
  <2>4. row'[p].status = "confirmed" /\ posts'[p] = 0 /\ "expired" \notin told'[p]
    BY <1>3, <2>2 DEF Claims, RowBecomes
  <2>5. ~(posts'[p] > 0)
    BY <2>4
  <2>6. PhaseOf(p)' = "claimed"
    BY <2>4, <2>5 DEF PhaseOf
  <2>7. QED
    BY <2>3, <2>6
<1>4. CASE Fails(p) /\ told'[p] = told[p]
  <2>1. posts[p] = 0
    BY <1>1, <1>4 DEF Fails, RowOK
  <2>2. PhaseOf(p) \in {"committed", "claimed", "lapsed"}
    BY <1>4, <2>1 DEF Fails, PhaseOf
  <2>3. row'[p].status = "failed"
    BY <1>4 DEF Fails, RowBecomes
  <2>4. PhaseOf(p)' = "closed"
    BY <2>3 DEF PhaseOf
  <2>5. QED
    BY <2>2, <2>4
<1>5. CASE Signs(p) /\ told'[p] = told[p]
  BY <1>5 DEF Signs, RowBecomes, PhaseOf
<1>6. CASE Posts(p) /\ told'[p] = told[p]
  BY <1>6 DEF Posts, PhaseOf
<1>7. CASE Records(p) /\ told'[p] = told[p]
  BY <1>7 DEF Records, RowBecomes, PhaseOf
<1>8. QED
  BY <1>2, <1>3, <1>4, <1>5, <1>6, <1>7

\* Before the first call every intent is open.
LEMMA ConsentInit == Init => Consent!Init
<1> SUFFICES ASSUME Init, NEW i \in Intents PROVE Phase(i) = "open"
  BY DEF Consent!Init
<1>1. \A p \in Payments : row[p].intent # i
  BY NoneAssumption DEF Init, NoRow
<1>2. QED
  BY <1>1 DEF Phase, Bound

\* Every step moves one intent one phase on, or none.
LEMMA ConsentStep ==
    ASSUME IInv, IInv', [Next]_vars
    PROVE  Consent!Next \/ \A i \in Intents : Phase(i)' = Phase(i)
<1>1. PaymentStep /\ ends' = ends /\ commitments \subseteq commitments'
  BY PaymentSteps, Frozen DEF IInv
<1>2. ASSUME commitments' = commitments, \A p \in Payments : Kept(p)
      PROVE  \A i \in Intents : Phase(i)' = Phase(i)
  <2>1. \A p \in Payments : Committed(p)' <=> Committed(p)
    BY <1>1, <1>2, CommittedKept
  <2>2. QED
    BY <1>2, <2>1, PhaseKept
<1>3. ASSUME NEW c \in Callers, AppendCommitment(c) PROVE Consent!Next \/ \A i \in Intents : Phase(i)' = Phase(i)
  <2>1. PICK p \in Payments : p = Paying(c)
    BY <1>3, CommittedOnce
  <2>2. PICK i \in Intents : i = caller[c].intent /\ row[p].intent = i
    BY <1>3, <2>1, CommittedOnce
  <2>3. \A q \in Payments : Kept(q)
    BY <1>3 DEF AppendCommitment, Kept
  <2>4. ASSUME NEW j \in Intents, j # i PROVE Phase(j)' = Phase(j)
    <3>1. \A q \in Payments : row[q].intent = j \/ row'[q].intent = j
              => Kept(q) /\ (Committed(q)' <=> Committed(q))
      BY <1>3, <2>2, <2>3, <2>4, CommittedOnce DEF Kept
    <3>2. QED
      BY <3>1, PhaseKept
  <2>5. Phase(i) = PhaseOf(p) /\ Phase(i)' = PhaseOf(p)'
    BY <2>2, <2>3, PhaseBound, PhaseBoundNext DEF IInv, Kept
  <2>6. Committed(p)'
    BY <1>3, <2>1, CommittedOnce
  <2>7. PhaseOf(p)' = PhaseOf(p) \/ (PhaseOf(p) = "bound" /\ PhaseOf(p)' = "committed")
    BY <2>3, <2>6 DEF PhaseOf, Kept
  <2>8. CASE PhaseOf(p)' = PhaseOf(p)
    BY <2>4, <2>5, <2>8
  <2>9. CASE PhaseOf(p) = "bound" /\ PhaseOf(p)' = "committed"
    <3>1. Consent!Commit(i)
      BY <2>4, <2>5, <2>9, ConsentMoves DEF Consent!Commit
    <3>2. QED
      BY <3>1 DEF Consent!Next
  <2>10. QED
    BY <2>7, <2>8, <2>9
<1>4. ASSUME commitments' = commitments, NEW p \in Payments,
             Tells(p) \/ (Writes(p) /\ told'[p] = told[p]),
             \A q \in Payments \ {p} : Kept(q)
      PROVE  Consent!Next \/ \A i \in Intents : Phase(i)' = Phase(i)
  <2>1. ASSUME NEW j \in Intents, row[p].intent # j, row'[p].intent # j
        PROVE  Phase(j)' = Phase(j)
    <3>1. \A q \in Payments : row[q].intent = j \/ row'[q].intent = j
              => /\ Kept(q)
                 /\ Committed(q)' <=> Committed(q)
      BY <1>1, <1>4, <2>1, CommittedKept
    <3>2. QED
      BY <3>1, PhaseKept
  <2>2. CASE Binds(p) /\ told'[p] = told[p]
    <3>1. RowOK(p) /\ ToldOK(p) /\ ~Committed(p)'
      BY <1>1, <1>4, <2>2, CommittedKept DEF Binds, IInv, RowInv, ToldInv
    <3>2. PICK i \in Intents : Bound(i) = {} /\ row'[p].intent = i /\ row'[p].status = "quoted"
      BY <2>2 DEF Binds
    <3>3. Phase(i) = "open"
      BY <3>2 DEF Phase
    <3>4. "expired" \notin told'[p]
      BY <2>2, <3>1 DEF ToldOK, Binds
    <3>5. Phase(i)' = "bound"
      BY <3>1, <3>2, <3>4, PhaseBoundNext DEF IInv, PhaseOf
    <3>6. ASSUME NEW j \in Intents \ {i} PROVE Phase(j)' = Phase(j)
      BY <2>1, <2>2, <3>1, <3>2, NoneAssumption DEF Binds, RowOK
    <3>7. Consent!Bind(i)
      BY <3>3, <3>5, <3>6, ConsentMoves DEF Consent!Bind
    <3>8. QED
      BY <3>7 DEF Consent!Next
  <2>3. CASE \/ Tells(p) /\ row[p].status # "none"
             \/ /\ Claims(p) \/ Fails(p) \/ Signs(p) \/ Posts(p) \/ Records(p)
                /\ told'[p] = told[p]
    <3>1. row[p].status # "none"
      BY <2>3 DEF Claims, Fails, Signs, Posts, Records
    <3>2. PICK i \in Intents : row[p].intent = i /\ row'[p].intent = i
      BY <1>1, <3>1, RowSticks DEF IInv, TypeOK, Row, RowInv, RowOK
    <3>3. \A j \in Intents \ {i} : Phase(j)' = Phase(j)
      BY <2>1, <3>2
    <3>4. Phase(i) = PhaseOf(p) /\ Phase(i)' = PhaseOf(p)'
      BY <3>2, PhaseBound, PhaseBoundNext DEF IInv
    <3>5. Committed(p)' <=> Committed(p)
      BY <1>1, <1>4, <3>1, CommittedKept
    <3>6. \/ Phase(i)' = Phase(i)
          \/ Phase(i) \in {"bound", "committed"} /\ Phase(i)' = "lapsed"
          \/ Phase(i) \in {"committed"} /\ Phase(i)' = "claimed"
          \/ Phase(i) \in {"claimed"} /\ Phase(i)' = "spent"
          \/ Phase(i) \in {"committed", "claimed", "lapsed"} /\ Phase(i)' = "closed"
      BY <2>3, <3>1, <3>4, <3>5, PhaseMoves
    <3>7. CASE Phase(i)' = Phase(i)
      BY <3>3, <3>7
    <3>8. CASE Phase(i)' # Phase(i)
      <4>1. Consent!Lapse(i) \/ Consent!Claim(i) \/ Consent!Spend(i) \/ Consent!Close(i)
        BY <3>3, <3>6, <3>8, ConsentMoves
           DEF Consent!Lapse, Consent!Claim, Consent!Spend, Consent!Close
      <4>2. QED
        BY <4>1 DEF Consent!Next
    <3>9. QED
      BY <3>7, <3>8
  <2>4. CASE Tells(p) /\ row[p].status = "none"
    <3>1. row[p].intent = None /\ row'[p].intent = None
      BY <2>4 DEF IInv, RowInv, RowOK, Tells
    <3>2. QED
      BY <2>1, <3>1, NoneAssumption
  <2>5. QED
    BY <1>4, <2>2, <2>3, <2>4 DEF Writes
<1>5. CASE \E c \in Callers : AppendCommitment(c)
  BY <1>3, <1>5
<1>6. CASE commitments' = commitments
  BY <1>1, <1>2, <1>4, <1>6 DEF PaymentStep
<1>7. QED
  BY <1>5, <1>6, CommitmentSteps

\* PayLinkExecution implements IntentConsent: an intent is bound, committed, claimed
\* and spent at most once, in that order, and never spent after its review was
\* reported as lapsed.
THEOREM Refinement == Spec => ImplementsConsent
<1>1. IInv /\ IInv' /\ [Next]_vars => [Consent!Next]_([i \in Intents |-> Phase(i)])
  BY ConsentStep
<1>2. QED
  BY <1>1, ConsentInit, Inductive, PTL DEF Spec, ImplementsConsent, Consent!Spec
=============================================================================
