---------------------------- MODULE LedgerSyncProofs ----------------------------
(***************************************************************************)
(* Theorems of module LedgerSync, for any transactions, calls, dates,      *)
(* window constants, page ceiling and bounds.                              *)
(*                                                                         *)
(* A transaction is lost when the window passes over it, and the window    *)
(* moves with the newest row of any other transaction.  So what has to be  *)
(* known of a call is that whatever lies a whole overlap behind a row it   *)
(* imported, or behind the start of its window, has been taken care of.    *)
(***************************************************************************)
EXTENDS LedgerSync, TLAPS, WellFoundedInduction

(* Recorded, about to be, passed over for a reason that is not lateness, or *)
(* behind a row that says nothing of the rail.                              *)
Handled(t) ==
    \/ t \in Recorded
    \/ \E c \in Calls : t \in call[c].batch
    \/ passed[t] \cap {"lookback", "ceiling", "interrupted"} # {}
    \/ PushedPast(t)

Imported(u) == \/ entry[u].source = "CONNECTOR"
               \/ \E c \in Calls : u \in call[c].batch

(* The user's dates, future ones included, have a bound. *)
ManualBounded == \E b \in Nat : \A d \in manual : d <= b

(* A shallow transaction is at most MaxLag behind. *)
RailDates ==
    \A t \in Txs : rail[t].state # "absent" =>
        /\ rail[t].date <= clock
        /\ rail[t].state = "shallow" => clock <= rail[t].date + MaxLag

EntryDates ==
    \A t \in Txs :
        /\ entry[t].date <= clock
        /\ entry[t].source = "CONNECTOR" => /\ rail[t].state = "final"
                                            /\ entry[t].date = rail[t].date

BatchesFinal == \A c \in Calls : \A t \in call[c].batch : rail[t].state = "final"

(* A window starts in the future only behind a future MANUAL row. *)
SinceBound ==
    \A c \in Calls : call[c].stage # "idle" =>
        \/ call[c].since <= clock
        \/ \E d \in manual : call[c].since <= d - Overlap

(* What is an overlap behind an imported transaction has been handled. *)
ImportsCovered ==
    \A u, t \in Txs :
        Imported(u) /\ rail[t].state # "absent" /\ rail[u].date > rail[t].date + Overlap
            => Handled(t)

(* And so has what is before the start of a window. *)
WindowsCovered ==
    \A c \in Calls, t \in Txs :
        call[c].stage # "idle" /\ rail[t].state # "absent" /\ rail[t].date < call[c].since
            => Handled(t)

Dated == ManualBounded /\ RailDates /\ EntryDates /\ BatchesFinal /\ SinceBound

IInv == TypeOK /\ Dated /\ ImportsCovered /\ WindowsCovered

-----------------------------------------------------------------------------
(* The newest date exists. *)

(* A nonempty set of naturals has a least element. *)
LEMMA LeastOf ==
    ASSUME NEW S, S \subseteq Nat, S # {}
    PROVE  \E m \in S : \A e \in S : m <= e
<1>1. PICK m \in S : \A e \in S : ~(<<e, m>> \in OpToRel(<, Nat))
  BY WFMin, NatLessThanWellFounded, Zenon
<1>2. \A x, y \in Nat : (<<x, y>> \in OpToRel(<, Nat)) <=> x < y
  BY Zenon DEF OpToRel
<1>3. \A e \in S : ~(e < m)
  BY <1>1, <1>2, Zenon
<1> QED
  BY <1>3, SMT

(* A nonempty bounded set of naturals has a greatest one. *)
LEMMA GreatestOf ==
    ASSUME NEW S, S \subseteq Nat, S # {}, NEW b \in Nat, \A d \in S : d <= b
    PROVE  \E m \in S : \A e \in S : e <= m
<1> DEFINE Gaps == {b - d : d \in S}
<1>1. Gaps \subseteq Nat /\ Gaps # {}
  <2>1. \A d \in S : b - d \in Nat
    OBVIOUS
  <2> QED
    BY <2>1
<1>2. PICK g \in Gaps : \A h \in Gaps : g <= h
  BY <1>1, LeastOf
<1>3. PICK m \in S : g = b - m
  BY <1>2
<1>4. \A e \in S : b - e \in Gaps
  OBVIOUS
<1>5. \A e \in S : b - m <= b - e
  BY <1>2, <1>3, <1>4
<1> HIDE DEF Gaps
<1> QED
  BY <1>5

(* The window of sync.ts:60 is read from a row that exists. *)
LEMMA NewestIsRow ==
    ASSUME TypeOK, Dated, Dates # {}
    PROVE  Newest \in Dates /\ Newest \in Nat /\ \A e \in Dates : e <= Newest
<1>1. Dates \subseteq Nat
  BY TxsAssumption DEF TypeOK, Dates, Recorded
<1>2. PICK b \in Nat : \A d \in manual : d <= b
  BY DEF Dated, ManualBounded
<1>3. \A d \in Dates : d <= b + clock
  BY <1>1, <1>2, TxsAssumption DEF Dated, EntryDates, Dates, Recorded, TypeOK
<1>4. b + clock \in Nat
  BY <1>2 DEF TypeOK
<1>5. \E m \in Dates : \A e \in Dates : e <= m
  BY <1>1, <1>3, <1>4, GreatestOf
<1>6. Newest \in Dates /\ \A e \in Dates : e <= Newest
  BY <1>5, Zenon DEF Newest
<1> QED
  BY <1>1, <1>6

LEMMA WindowType == ASSUME TypeOK, Dated PROVE WindowStart \in Int
  BY NewestIsRow, WindowAssumption DEF WindowStart, TypeOK

-----------------------------------------------------------------------------
(* The initial state. *)
LEMMA InitIInv == Init => IInv
<1> SUFFICES ASSUME Init PROVE IInv
  OBVIOUS
<1>1. TypeOK
  BY DEF Init, TypeOK, NoEntry, Idle, Stages
<1>2. ManualBounded
  <2>1. \A d \in manual : d <= 0
    BY DEF Init
  <2> QED
    BY <2>1 DEF ManualBounded
<1>3. RailDates /\ EntryDates /\ BatchesFinal /\ SinceBound
  BY DEF Init, RailDates, EntryDates, BatchesFinal, SinceBound, NoEntry, Idle
<1>4. ImportsCovered /\ WindowsCovered
  BY DEF Init, ImportsCovered, WindowsCovered, Imported, NoEntry, Idle
<1> QED
  BY <1>1, <1>2, <1>3, <1>4 DEF IInv, Dated

-----------------------------------------------------------------------------
(* What a step keeps. *)

(* Nothing known of a transaction is taken back: its date, its row, the     *)
(* reasons it was passed over; a batch is recorded or interrupted.          *)
Keeps ==
    /\ \A t \in Txs : rail[t].state # "absent" =>
           /\ rail'[t].date = rail[t].date /\ rail'[t].state # "absent"
           /\ rail[t].state = "final" => rail'[t].state = "final"
    /\ \A t \in Txs : entry[t].source # "none" => entry'[t] = entry[t]
    /\ manual \subseteq manual'
    /\ \A t \in Txs : passed[t] \subseteq passed'[t]
    /\ \A c \in Calls : \A t \in call[c].batch :
           t \in call'[c].batch \/ t \in Recorded' \/ "interrupted" \in passed'[t]

(* INSERT OR IGNORE. *)
LEMMA RecordKeeps ==
    ASSUME TypeOK, NEW t \in Txs, NEW source \in {"CONNECTOR", "PAYMENT"}, NEW date \in Nat,
           Record(t, source, date)
    PROVE  /\ entry' \in [Txs -> [source : {"none", "CONNECTOR", "PAYMENT"}, date : Nat]]
           /\ \A u \in Txs : entry[u].source # "none" => entry'[u] = entry[u]
           /\ \A u \in Txs : entry'[u] # entry[u] =>
                  u = t /\ entry'[u] = [source |-> source, date |-> date]
           /\ t \in Recorded'
<1>1. CASE t \in Recorded
  BY <1>1 DEF TypeOK, Record, Recorded
<1>2. CASE t \notin Recorded
  BY <1>2 DEF TypeOK, Record, Recorded
<1> QED
  BY <1>1, <1>2

LEMMA BookKeeps == ASSUME TypeOK, NEW t \in Txs, Book(t) PROVE TypeOK' /\ Keeps
  BY DEF TypeOK, Book, Keeps, rows, At

LEMMA DeepenKeeps == ASSUME TypeOK, NEW t \in Txs, Deepen(t) PROVE TypeOK' /\ Keeps
  BY DEF TypeOK, Deepen, Keeps, rows, At

LEMMA TickKeeps == ASSUME TypeOK, Tick PROVE TypeOK' /\ Keeps
  BY DEF TypeOK, Tick, Keeps, rows, At

LEMMA PaymentKeeps == ASSUME TypeOK, NEW t \in Txs, RecordPayment(t) PROVE TypeOK' /\ Keeps
<1>1. clock \in Nat /\ Record(t, "PAYMENT", clock)
  BY DEF TypeOK, RecordPayment
<1>2. /\ entry' \in [Txs -> [source : {"none", "CONNECTOR", "PAYMENT"}, date : Nat]]
      /\ \A u \in Txs : entry[u].source # "none" => entry'[u] = entry[u]
  BY <1>1, RecordKeeps
<1> QED
  BY <1>2 DEF TypeOK, RecordPayment, Keeps, At

LEMMA ManualKeeps ==
    ASSUME TypeOK, NEW d \in ManualDates, RecordManual(d) PROVE TypeOK' /\ Keeps
  BY DEF TypeOK, RecordManual, Keeps, At

LEMMA StartKeeps ==
    ASSUME TypeOK, Dated, NEW c \in Calls, SyncStart(c) PROVE TypeOK' /\ Keeps
<1>1. WindowStart \in Int
  BY WindowType
<1>2. passed' \in [Txs -> SUBSET Reasons] /\ \A t \in Txs : passed[t] \subseteq passed'[t]
  BY DEF TypeOK, SyncStart, Add, Reasons
<1>3. call[c].batch = {}
  BY DEF SyncStart, TypeOK, At
<1> QED
  BY <1>1, <1>2, <1>3 DEF TypeOK, SyncStart, Keeps, At, Stages, rows

LEMMA ListingKeeps ==
    ASSUME TypeOK, NEW c \in Calls, ListingArrives(c) PROVE TypeOK' /\ Keeps
<1>1. PICK page \in SUBSET Booked :
        /\ call' = [call EXCEPT ![c] = [stage |-> "importing", since |-> @.since,
                                        batch |-> page \cap Deep \cap InWindow(c)]]
        /\ passed' = [t \in Txs |-> passed[t]
               \cup (IF t \in page \ Deep THEN {"shallow"} ELSE {})
               \cup (IF t \in (Deep \cap InWindow(c)) \ page THEN {"ceiling"} ELSE {})]
  BY DEF ListingArrives
<1>2. passed' \in [Txs -> SUBSET Reasons] /\ \A t \in Txs : passed[t] \subseteq passed'[t]
  BY <1>1 DEF TypeOK, Reasons
<1>3. call[c].batch = {}
  BY DEF ListingArrives, TypeOK, At
<1>4. page \cap Deep \cap InWindow(c) \subseteq Txs
  BY DEF Deep
<1> QED
  BY <1>1, <1>2, <1>3, <1>4 DEF TypeOK, ListingArrives, Keeps, At, Stages, rows

LEMMA ImportKeeps == ASSUME TypeOK, NEW c \in Calls, Import(c) PROVE TypeOK' /\ Keeps
<1>1. PICK u \in call[c].batch : /\ Record(u, "CONNECTOR", rail[u].date)
                                 /\ call' = [call EXCEPT ![c].batch = @ \ {u}]
  BY DEF Import
<1>2. u \in Txs /\ rail[u].date \in Nat
  BY DEF TypeOK
<1>3. /\ entry' \in [Txs -> [source : {"none", "CONNECTOR", "PAYMENT"}, date : Nat]]
      /\ \A t \in Txs : entry[t].source # "none" => entry'[t] = entry[t]
      /\ u \in Recorded'
  BY <1>1, <1>2, RecordKeeps
<1>4. call' \in [Calls -> [stage : Stages, since : Int, batch : SUBSET Txs]]
  BY <1>1 DEF TypeOK
<1>5. TypeOK'
  BY <1>1, <1>3, <1>4 DEF TypeOK, Import, At
<1>6. Keeps
  <2>1. \A k \in Calls : \A t \in call[k].batch : t \in call'[k].batch \/ t \in Recorded'
    BY <1>1, <1>3 DEF TypeOK
  <2> QED
    BY <1>3, <2>1 DEF TypeOK, Import, Keeps
<1> QED
  BY <1>5, <1>6

LEMMA FinishKeeps == ASSUME TypeOK, NEW c \in Calls, SyncFinish(c) PROVE TypeOK' /\ Keeps
  BY DEF TypeOK, SyncFinish, Keeps, At, Idle, Stages

LEMMA DiesKeeps == ASSUME TypeOK, NEW c \in Calls, SyncDies(c) PROVE TypeOK' /\ Keeps
<1>1. passed' \in [Txs -> SUBSET Reasons] /\ \A t \in Txs : passed[t] \subseteq passed'[t]
  BY DEF TypeOK, SyncDies, Add, Reasons
<1>2. \A t \in call[c].batch : "interrupted" \in passed'[t]
  BY DEF TypeOK, SyncDies, Add
<1> QED
  BY <1>1, <1>2 DEF TypeOK, SyncDies, Keeps, At, Idle, Stages, rows

LEMMA NextKeeps == ASSUME TypeOK, Dated, [Next]_vars PROVE TypeOK' /\ Keeps
<1>1. CASE UNCHANGED vars
  BY <1>1 DEF vars, rows, TypeOK, Keeps, At
<1>2. CASE Next
  BY <1>2, BookKeeps, DeepenKeeps, TickKeeps, PaymentKeeps, ManualKeeps, StartKeeps,
     ListingKeeps, ImportKeeps, FinishKeeps, DiesKeeps DEF Next, Sync
<1> QED
  BY <1>1, <1>2

(* What was taken care of stays so. *)
LEMMA HandledStays ==
    ASSUME TypeOK, Keeps, NEW t \in Txs, rail[t].state # "absent", Handled(t)
    PROVE  Handled(t)'
<1>1. CASE t \in Recorded
  BY <1>1 DEF Keeps, Recorded, Handled
<1>2. CASE \E c \in Calls : t \in call[c].batch
  <2>1. PICK c \in Calls : t \in call[c].batch
    BY <1>2
  <2>2. t \in call'[c].batch \/ t \in Recorded' \/ "interrupted" \in passed'[t]
    BY <2>1 DEF Keeps
  <2> QED
    BY <2>2 DEF Handled
<1>3. CASE passed[t] \cap {"lookback", "ceiling", "interrupted"} # {}
  BY <1>3 DEF Keeps, Handled
<1>4. CASE PushedPast(t)
  <2>1. rail'[t].date = rail[t].date
    BY DEF Keeps
  <2>2. \A u \in Recorded : u \in Recorded' /\ entry'[u] = entry[u]
    BY DEF Keeps, Recorded
  <2>3. manual \subseteq manual'
    BY DEF Keeps
  <2> QED
    BY <1>4, <2>1, <2>2, <2>3 DEF PushedPast, Handled
<1> QED
  BY <1>1, <1>2, <1>3, <1>4 DEF Handled

-----------------------------------------------------------------------------
(* Dates and windows. *)

LEMMA ManualBoundedStep ==
    ASSUME TypeOK, Dated, [Next]_vars PROVE ManualBounded'
<1>1. PICK b \in Nat : \A d \in manual : d <= b
  BY DEF Dated, ManualBounded
<1>2. CASE manual' = manual
  BY <1>1, <1>2 DEF ManualBounded
<1>3. ASSUME NEW e \in ManualDates, manual' = manual \cup {e} PROVE ManualBounded'
  <2>1. e \in Nat /\ \A d \in manual : d \in Nat
    BY TxsAssumption DEF TypeOK
  <2>2. b + e \in Nat /\ \A d \in manual' : d <= b + e
    BY <1>1, <1>3, <2>1
  <2> QED
    BY <2>2 DEF ManualBounded
<1>4. manual' = manual \/ \E e \in ManualDates : manual' = manual \cup {e}
  BY DEF vars, rows, Next, Sync, Book, Deepen, RecordPayment, RecordManual, SyncStart,
         ListingArrives, Import, SyncFinish, SyncDies, Tick
<1> QED
  BY <1>2, <1>3, <1>4

(* Only the clock's own guard lets a shallow transaction age. *)
LEMMA RailDatesStep ==
    ASSUME TypeOK, Dated, [Next]_vars PROVE RailDates'
<1> USE WindowAssumption DEF Dated, RailDates
<1>1. CASE UNCHANGED <<rail, clock>>
  BY <1>1
<1>2. ASSUME NEW t \in Txs, Book(t) PROVE RailDates'
  BY <1>2 DEF Book, TypeOK
<1>3. ASSUME NEW t \in Txs, Deepen(t) PROVE RailDates'
  BY <1>3 DEF Deepen, TypeOK
<1>4. CASE Tick
  BY <1>4 DEF Tick, TypeOK
<1>5. \/ UNCHANGED <<rail, clock>> \/ Tick \/ \E t \in Txs : Book(t) \/ Deepen(t)
  BY DEF vars, rows, Next, Sync, RecordPayment, RecordManual, SyncStart,
         ListingArrives, Import, SyncFinish, SyncDies
<1> QED
  BY <1>1, <1>2, <1>3, <1>4, <1>5

LEMMA EntryDatesStep ==
    ASSUME TypeOK, Dated, [Next]_vars PROVE EntryDates'
<1>1. TypeOK' /\ Keeps
  BY NextKeeps
<1>2. clock \in Nat /\ clock' \in Nat /\ clock <= clock'
  <2>1. clock' = clock \/ clock' = clock + 1
    BY DEF vars, rows, Next, Sync, Book, Deepen, RecordPayment, RecordManual,
           SyncStart, ListingArrives, Import, SyncFinish, SyncDies, Tick
  <2> QED
    BY <1>1, <2>1 DEF TypeOK
<1>3. CASE entry' = entry
  BY <1>1, <1>2, <1>3 DEF Dated, EntryDates, Keeps, TypeOK
<1>4. ASSUME NEW t \in Txs, RecordPayment(t) PROVE EntryDates'
  <2>1. \A u \in Txs : entry'[u] # entry[u] =>
           entry'[u] = [source |-> "PAYMENT", date |-> clock]
    BY <1>2, <1>4, RecordKeeps DEF RecordPayment
  <2> QED
    BY <1>1, <1>2, <1>4, <2>1 DEF Dated, EntryDates, Keeps, TypeOK, RecordPayment
<1>5. ASSUME NEW c \in Calls, Import(c) PROVE EntryDates'
  <2>1. PICK t \in call[c].batch : Record(t, "CONNECTOR", rail[t].date)
    BY <1>5 DEF Import
  <2>2. t \in Txs /\ rail[t].state = "final" /\ rail[t].date \in Nat
    BY DEF TypeOK, Dated, BatchesFinal
  <2>3. \A u \in Txs : entry'[u] # entry[u] =>
           u = t /\ entry'[u] = [source |-> "CONNECTOR", date |-> rail[t].date]
    BY <2>1, <2>2, RecordKeeps
  <2>4. rail[t].date <= clock
    BY <2>2 DEF Dated, RailDates
  <2> QED
    BY <1>1, <1>2, <1>5, <2>2, <2>3, <2>4 DEF Dated, EntryDates, Keeps, TypeOK, Import
<1>6. entry' = entry \/ (\E t \in Txs : RecordPayment(t)) \/ \E c \in Calls : Import(c)
  BY DEF vars, rows, Next, Sync, Book, Deepen, RecordManual,
         SyncStart, ListingArrives, SyncFinish, SyncDies, Tick
<1> QED
  BY <1>3, <1>4, <1>5, <1>6

(* A batch and a window change only with their call. *)
LEMMA CallMoves ==
    ASSUME TypeOK, [Next]_vars, NEW c \in Calls
    PROVE  \/ call'[c] = call[c]
           \/ SyncStart(c) \/ ListingArrives(c)
           \/ call'[c].since = call[c].since /\ call'[c].batch \subseteq call[c].batch
              /\ call'[c].stage = call[c].stage
           \/ call'[c] = Idle
<1>1. CASE UNCHANGED call
  BY <1>1
<1>2. ASSUME NEW d \in Calls, Sync(d), d # c PROVE call'[c] = call[c]
  BY <1>2 DEF TypeOK, Sync, SyncStart, ListingArrives, Import, SyncFinish, SyncDies
<1>3. ASSUME Import(c)
      PROVE  call'[c].since = call[c].since /\ call'[c].batch \subseteq call[c].batch
             /\ call'[c].stage = call[c].stage
  BY <1>3 DEF TypeOK, Import
<1>4. ASSUME SyncFinish(c) \/ SyncDies(c) PROVE call'[c] = Idle
  BY <1>4 DEF TypeOK, SyncFinish, SyncDies
<1>5. UNCHANGED call \/ \E d \in Calls : Sync(d)
  BY DEF vars, rows, Next, Book, Deepen, RecordPayment, RecordManual, Tick
<1> QED
  BY <1>1, <1>2, <1>3, <1>4, <1>5 DEF Sync

LEMMA BatchesFinalStep ==
    ASSUME TypeOK, Dated, [Next]_vars PROVE BatchesFinal'
<1>1. TypeOK' /\ Keeps
  BY NextKeeps
<1> SUFFICES ASSUME NEW c \in Calls, NEW t \in call'[c].batch
             PROVE  rail'[t].state = "final"
  BY DEF BatchesFinal
<1>2. t \in Txs
  BY <1>1 DEF TypeOK
<1>3. CASE t \in call[c].batch
  BY <1>1, <1>2, <1>3 DEF Dated, BatchesFinal, Keeps
<1>4. CASE ListingArrives(c)
  BY <1>2, <1>4 DEF ListingArrives, Deep, TypeOK
<1>5. CASE SyncStart(c)
  BY <1>5 DEF SyncStart, TypeOK
<1>6. CASE call'[c] = Idle
  BY <1>6 DEF Idle
<1> QED
  BY <1>3, <1>4, <1>5, <1>6, CallMoves

LEMMA SinceBoundStep ==
    ASSUME TypeOK, Dated, [Next]_vars PROVE SinceBound'
<1>1. TypeOK' /\ Keeps
  BY NextKeeps
<1>2. clock \in Nat /\ clock' \in Nat /\ clock <= clock'
  <2>1. clock' = clock \/ clock' = clock + 1
    BY DEF vars, rows, Next, Sync, Book, Deepen, RecordPayment, RecordManual,
           SyncStart, ListingArrives, Import, SyncFinish, SyncDies, Tick
  <2> QED
    BY <1>1, <2>1 DEF TypeOK
<1> SUFFICES ASSUME NEW c \in Calls, call'[c].stage # "idle"
             PROVE  \/ call'[c].since <= clock'
                    \/ \E d \in manual' : call'[c].since <= d - Overlap
  BY DEF SinceBound
<1>3. CASE call[c].stage # "idle" /\ call'[c].since = call[c].since
  <2>1. CASE call[c].since <= clock
    BY <1>1, <1>2, <1>3, <2>1 DEF TypeOK
  <2>2. CASE \E d \in manual : call[c].since <= d - Overlap
    BY <1>1, <1>3, <2>2 DEF Keeps
  <2> QED
    BY <1>3, <2>1, <2>2 DEF Dated, SinceBound
<1>4. CASE SyncStart(c)
  <2>1. call'[c].since = WindowStart /\ manual' = manual
    BY <1>4 DEF SyncStart, TypeOK, rows
  <2>2. CASE Dates = {}
    BY <1>2, <2>1, <2>2, WindowAssumption DEF WindowStart
  <2>3. CASE Dates # {}
    <3>1. Newest \in Dates /\ Newest \in Nat
      BY <2>3, NewestIsRow
    <3>2. CASE Newest \in manual
      BY <2>1, <2>3, <3>1, <3>2, WindowAssumption DEF WindowStart
    <3>3. CASE Newest \notin manual
      <4>1. Newest <= clock
        BY <3>1, <3>3 DEF Dates, Recorded, Dated, EntryDates
      <4> QED
        BY <1>2, <2>1, <2>3, <3>1, <4>1, WindowAssumption DEF WindowStart
    <3> QED
      BY <3>2, <3>3
  <2> QED
    BY <2>2, <2>3
<1>5. CASE ListingArrives(c)
  <2>1. call[c].stage # "idle" /\ call'[c].since = call[c].since
    BY <1>5 DEF ListingArrives, TypeOK, At
  <2> QED
    BY <1>3, <2>1
<1>6. call'[c] # Idle
  BY DEF Idle
<1>7. CASE call'[c] = call[c]
  BY <1>3, <1>7
<1>8. CASE call'[c].since = call[c].since /\ call'[c].stage = call[c].stage
  BY <1>3, <1>8
<1> QED
  BY <1>4, <1>5, <1>6, <1>7, <1>8, CallMoves

LEMMA DatedStep == ASSUME TypeOK, Dated, [Next]_vars PROVE Dated'
  BY ManualBoundedStep, RailDatesStep, EntryDatesStep, BatchesFinalStep, SinceBoundStep
     DEF Dated

-----------------------------------------------------------------------------
(* What the window and the imports leave behind. *)

(* Behind the newest row by more than the overlap, a transaction has been   *)
(* handled.                                                                 *)
LEMMA BehindNewest ==
    ASSUME IInv, Dates # {}, NEW t \in Txs, rail[t].state # "absent",
           rail[t].date < WindowStart
    PROVE  Handled(t)
<1> USE WindowAssumption
<1>1. Newest \in Dates /\ Newest \in Nat
  BY NewestIsRow DEF IInv
<1>2. rail[t].date \in Nat
  BY DEF IInv, TypeOK
<1>3. Newest > rail[t].date + Overlap
  BY <1>1, <1>2 DEF WindowStart
<1>4. CASE Newest \in manual
  BY <1>3, <1>4 DEF Handled, PushedPast
<1>5. ASSUME NEW u \in Recorded, Newest = entry[u].date PROVE Handled(t)
  <2>1. entry[u].source \in {"CONNECTOR", "PAYMENT"} /\ u \in Txs
    BY DEF Recorded, IInv, TypeOK
  <2>2. CASE entry[u].source = "PAYMENT"
    BY <1>3, <1>5, <2>2 DEF Handled, PushedPast
  <2>3. CASE entry[u].source = "CONNECTOR"
    <3>1. rail[u].date > rail[t].date + Overlap
      BY <1>3, <1>5, <2>1, <2>3 DEF IInv, Dated, EntryDates
    <3> QED
      BY <2>1, <2>3, <3>1 DEF IInv, ImportsCovered, Imported
  <2> QED
    BY <2>1, <2>2, <2>3
<1> QED
  BY <1>1, <1>4, <1>5 DEF Dates

(* A transaction that is not booked yet is booked with a date at or after   *)
(* the clock.                                                               *)
LEMMA BookedLate ==
    ASSUME TypeOK, [Next]_vars, NEW t \in Txs, rail[t].state = "absent",
           rail'[t].state # "absent"
    PROVE  rail'[t].date = clock /\ Book(t)
<1>1. rail' # rail
  OBVIOUS
<1>2. \E u \in Txs : Book(u) \/ Deepen(u)
  BY <1>1 DEF vars, rows, Next, Sync, RecordPayment, RecordManual, SyncStart,
         ListingArrives, Import, SyncFinish, SyncDies, Tick
<1> QED
  BY <1>2 DEF TypeOK, Book, Deepen

LEMMA WindowsCoveredStep == ASSUME IInv, [Next]_vars PROVE WindowsCovered'
<1>1. TypeOK /\ Dated /\ TypeOK' /\ Keeps
  BY NextKeeps DEF IInv
<1> SUFFICES ASSUME NEW c \in Calls, NEW t \in Txs, call'[c].stage # "idle",
                    rail'[t].state # "absent", rail'[t].date < call'[c].since
             PROVE  Handled(t)'
  BY DEF WindowsCovered
<1>2. CASE rail[t].state = "absent"
  <2>1. rail'[t].date = clock /\ Book(t)
    BY <1>1, <1>2, BookedLate
  <2>2. call' = call /\ manual' = manual
    BY <2>1 DEF Book, rows
  <2>3. PICK d \in manual : call[c].since <= d - Overlap
    BY <1>1, <2>1, <2>2 DEF Dated, SinceBound, TypeOK
  <2>4. d > rail'[t].date + Overlap
    BY <1>1, <2>2, <2>3, TxsAssumption, WindowAssumption DEF TypeOK
  <2> QED
    BY <2>2, <2>4 DEF Handled, PushedPast
<1>3. ASSUME rail[t].state # "absent", Handled(t) PROVE Handled(t)'
  BY <1>1, <1>3, HandledStays
<1>4. CASE rail[t].state # "absent" /\ call[c].stage # "idle" /\ call'[c].since = call[c].since
  <2>1. rail[t].date < call[c].since
    BY <1>1, <1>4 DEF Keeps
  <2>2. Handled(t)
    BY <1>4, <2>1 DEF IInv, WindowsCovered
  <2> QED
    BY <1>3, <1>4, <2>2
<1>5. CASE rail[t].state # "absent" /\ SyncStart(c)
  <2>1. call'[c].since = WindowStart /\ rail[t].date < WindowStart
    BY <1>1, <1>5 DEF SyncStart, TypeOK, Keeps
  <2>2. CASE Dates = {}
    <3>1. t \in {u \in Booked : Dates = {} /\ rail[u].date < WindowStart}
      BY <1>5, <2>1, <2>2 DEF Booked
    <3>2. "lookback" \in passed'[t]
      BY <1>5, <3>1 DEF SyncStart, Add
    <3> QED
      BY <3>2 DEF Handled
  <2>3. CASE Dates # {}
    BY <1>3, <1>5, <2>1, <2>3, BehindNewest
  <2> QED
    BY <2>2, <2>3
<1>6. CASE ListingArrives(c)
  <2>1. call[c].stage # "idle" /\ call'[c].since = call[c].since
    BY <1>1, <1>6 DEF ListingArrives, TypeOK, At
  <2> QED
    BY <1>2, <1>4, <2>1
<1>7. CASE call'[c].since = call[c].since /\ call'[c].stage = call[c].stage
  BY <1>2, <1>4, <1>7
<1>8. call'[c] # Idle
  BY DEF Idle
<1>9. CASE call'[c] = call[c]
  BY <1>7, <1>9
<1> QED
  BY <1>1, <1>2, <1>5, <1>6, <1>7, <1>8, <1>9, CallMoves

(* A transaction that is imported now was asked for after everything an     *)
(* overlap older had become importable.                                     *)
LEMMA ListingCovers ==
    ASSUME IInv, NEW c \in Calls, ListingArrives(c), NEW u \in call'[c].batch,
           NEW t \in Txs, rail[t].state # "absent", rail[u].date > rail[t].date + Overlap
    PROVE  Handled(t) \/ Handled(t)'
<1>1. PICK page \in SUBSET Booked :
        /\ call' = [call EXCEPT ![c] = [stage |-> "importing", since |-> @.since,
                                        batch |-> page \cap Deep \cap InWindow(c)]]
        /\ passed' = [v \in Txs |-> passed[v]
               \cup (IF v \in page \ Deep THEN {"shallow"} ELSE {})
               \cup (IF v \in (Deep \cap InWindow(c)) \ page THEN {"ceiling"} ELSE {})]
  BY DEF ListingArrives
<1>2. call[c].stage # "idle" /\ call'[c].batch = page \cap Deep \cap InWindow(c)
  BY <1>1 DEF ListingArrives, At, IInv, TypeOK
<1>3. u \in Txs /\ rail[u].state = "final"
  BY <1>2 DEF Deep
<1>4. rail[u].date <= clock /\ rail[u].date \in Nat /\ rail[t].date \in Nat /\ clock \in Nat
  BY <1>3 DEF IInv, Dated, RailDates, TypeOK
<1>5. rail[t].state = "final"
  BY <1>4, WindowAssumption DEF IInv, Dated, RailDates, TypeOK
<1>6. CASE rail[t].date < call[c].since
  BY <1>2, <1>6 DEF IInv, WindowsCovered
<1>7. CASE ~(rail[t].date < call[c].since)
  <2>1. call[c].since \in Int
    BY DEF IInv, TypeOK
  <2>2. t \in Deep \cap InWindow(c)
    BY <1>4, <1>5, <1>7, <2>1 DEF Deep, InWindow, Booked
  <2>3. CASE t \in page
    <3>1. t \in call'[c].batch
      BY <1>2, <2>2, <2>3
    <3> QED
      BY <3>1 DEF Handled
  <2>4. CASE t \notin page
    <3>1. "ceiling" \in passed'[t]
      BY <1>1, <2>2, <2>4
    <3> QED
      BY <3>1 DEF Handled
  <2> QED
    BY <2>3, <2>4
<1> QED
  BY <1>6, <1>7

LEMMA ImportsCoveredStep == ASSUME IInv, [Next]_vars PROVE ImportsCovered'
<1>1. TypeOK /\ Dated /\ TypeOK' /\ Keeps
  BY NextKeeps DEF IInv
<1> SUFFICES ASSUME NEW u \in Txs, NEW t \in Txs, Imported(u)', rail'[t].state # "absent",
                    rail'[u].date > rail'[t].date + Overlap
             PROVE  Handled(t)'
  BY DEF ImportsCovered
<1>2. CASE Imported(u)
  <2>1. rail[u].state = "final"
    BY <1>1, <1>2 DEF Imported, Dated, EntryDates, BatchesFinal
  <2>2. rail'[u].date = rail[u].date
    BY <1>1, <2>1 DEF Keeps
  <2>3. CASE rail[t].state = "absent"
    <3>1. rail'[t].date = clock
      BY <1>1, <2>3, BookedLate
    <3>2. rail[u].date <= clock /\ rail[u].date \in Nat /\ clock \in Nat
      BY <1>1, <2>1 DEF Dated, RailDates, TypeOK
    <3> QED
      BY <2>2, <3>1, <3>2, WindowAssumption
  <2>4. CASE rail[t].state # "absent"
    <3>1. rail[u].date > rail[t].date + Overlap
      BY <1>1, <2>2, <2>4 DEF Keeps
    <3>2. Handled(t)
      BY <1>2, <2>4, <3>1 DEF IInv, ImportsCovered
    <3> QED
      BY <1>1, <2>4, <3>2, HandledStays
  <2> QED
    BY <2>3, <2>4
<1>3. ASSUME ~Imported(u), entry'[u].source = "CONNECTOR" PROVE FALSE
  <2>1. entry' # entry
    BY <1>3 DEF Imported
  <2>2. (\E v \in Txs : RecordPayment(v)) \/ \E c \in Calls : Import(c)
    BY <2>1 DEF vars, rows, Next, Sync, Book, Deepen, RecordManual,
           SyncStart, ListingArrives, SyncFinish, SyncDies, Tick
  <2>3. ASSUME NEW v \in Txs, RecordPayment(v) PROVE FALSE
    <3>1. \A w \in Txs : entry'[w] # entry[w] => entry'[w] = [source |-> "PAYMENT", date |-> clock]
      BY <1>1, <2>3, RecordKeeps DEF RecordPayment, TypeOK
    <3> QED
      BY <1>3, <3>1 DEF Imported
  <2>4. ASSUME NEW c \in Calls, Import(c) PROVE FALSE
    <3>1. PICK v \in call[c].batch : Record(v, "CONNECTOR", rail[v].date)
      BY <2>4 DEF Import
    <3>2. v \in Txs /\ rail[v].date \in Nat /\ u # v
      BY <1>1, <1>3, <3>1 DEF TypeOK, Imported
    <3>3. \A w \in Txs : entry'[w] # entry[w] =>
             w = v /\ entry'[w] = [source |-> "CONNECTOR", date |-> rail[v].date]
      BY <1>1, <3>1, <3>2, RecordKeeps
    <3> QED
      BY <1>3, <3>2, <3>3 DEF Imported
  <2> QED
    BY <2>2, <2>3, <2>4
<1>4. ASSUME NEW c \in Calls, ~Imported(u), u \in call'[c].batch PROVE Handled(t)'
  <2>1. u \notin call[c].batch
    BY <1>4 DEF Imported
  <2>2. ListingArrives(c)
    <3>1. ~SyncStart(c) /\ call'[c] # Idle
      BY <1>1, <1>4 DEF SyncStart, TypeOK, Idle
    <3> QED
      BY <1>1, <1>4, <2>1, <3>1, CallMoves
  <2>3. rail' = rail
    BY <2>2 DEF ListingArrives
  <2>4. Handled(t) \/ Handled(t)'
    BY <1>4, <2>2, <2>3, ListingCovers
  <2> QED
    BY <1>1, <2>3, <2>4, HandledStays
<1> QED
  BY <1>2, <1>3, <1>4 DEF Imported

-----------------------------------------------------------------------------
(* The theorems. *)

THEOREM Invariance == Spec => []IInv
<1>1. Init => IInv
  BY InitIInv
<1>2. IInv /\ [Next]_vars => IInv'
  <2> SUFFICES ASSUME IInv, [Next]_vars PROVE IInv'
    OBVIOUS
  <2>1. TypeOK' /\ Dated'
    BY NextKeeps, DatedStep DEF IInv
  <2> QED
    BY <2>1, ImportsCoveredStep, WindowsCoveredStep DEF IInv
<1> QED
  BY <1>1, <1>2, PTL DEF Spec

(* Type correctness of syncAccount and of the table it shares. *)
THEOREM TypeCorrect == Spec => []TypeOK
<1>1. IInv => TypeOK
  BY DEF IInv
<1> QED
  BY <1>1, Invariance, PTL

(* However syncs overlap and die, sync.ts loses a transaction only behind a *)
(* row that is not the rail's, or to a first sync's lookback, a page        *)
(* ceiling or a dead import: the overlap is enough for what comes late.     *)
THEOREM LatenessLosesNothing == Spec => []LostOnlyForReason
<1>1. IInv => LostOnlyForReason
  <2> SUFFICES ASSUME IInv, NEW t \in Txs, Lost(t)
               PROVE  PushedPast(t) \/ passed[t] \cap {"lookback", "ceiling", "interrupted"} # {}
    BY DEF LostOnlyForReason
  <2>1. Handled(t)
    BY BehindNewest DEF Lost
  <2> QED
    BY <2>1 DEF Handled, Lost
<1> QED
  BY <1>1, Invariance, PTL
=============================================================================
