------------------------------- MODULE LedgerSync -------------------------------
(***************************************************************************)
(* syncAccount of sovereign/src/sync.ts: one account's rail transactions   *)
(* pulled into the local transactions table, over the window rule of       *)
(* sync.ts, the paging and depth rules of the connectors (those of         *)
(* esplora.connector.ts), and the rows the other writers of the table put  *)
(* beside them: confirmPayment's PAYMENT rows and the user's MANUAL rows.  *)
(*                                                                         *)
(* Sync calls overlap one another and die at any await or statement; the   *)
(* inserts of one import are statements of their own.  The rail is         *)
(* external: a transaction gets a date when it is booked and becomes       *)
(* importable, deep enough, at most MaxLag later.  Amounts, the account's  *)
(* balance columns, titles and the refusals of a call that writes nothing  *)
(* are left out.                                                           *)
(***************************************************************************)
EXTENDS Integers, FiniteSets

CONSTANTS Txs,          \* transactions of the address, by external id
          Own,          \* those of them this node pays
          Calls,        \* syncAccount calls in progress at once
          ManualDates,  \* dates a user may give a row by hand, future ones too
          Overlap,      \* OVERLAP_MS, in ticks
          Lookback,     \* FIRST_SYNC_LOOKBACK_MS
          MaxLag,       \* how late the rail makes a booked transaction importable
          Ceiling,      \* transactions in the MAX_PAGES pages of one fetch
          MaxClock      \* bound of the model on the clock

ASSUME TxsAssumption == Own \subseteq Txs /\ ManualDates \subseteq Nat
ASSUME WindowAssumption == /\ Overlap \in Nat /\ Lookback \in Nat /\ MaxLag \in Nat
                           /\ MaxLag <= Overlap /\ Overlap <= Lookback
ASSUME BoundAssumption == Ceiling \in Nat /\ MaxClock \in Nat

VARIABLES rail,       \* what the rail knows of each transaction
          entry,      \* its transactions row, by UNIQUE(account_id, external_id)
          manual,     \* dates of the MANUAL rows, which have no external id
          call,       \* sync calls: stage, window start, rows to insert
          clock,
          passed      \* history: why fetches passed over a transaction

rows == <<entry, manual>>
vars == <<rail, entry, manual, call, clock, passed>>

Reasons == {"shallow", "lookback", "ceiling", "interrupted"}

NoEntry == [source |-> "none", date |-> 0]
Idle == [stage |-> "idle", since |-> 0, batch |-> {}]

Init == /\ rail = [t \in Txs |-> [state |-> "absent", date |-> 0]]
        /\ entry = [t \in Txs |-> NoEntry]
        /\ manual = {}
        /\ call = [c \in Calls |-> Idle]
        /\ clock = 0
        /\ passed = [t \in Txs |-> {}]

-----------------------------------------------------------------------------
\* The rail.
Book(t) ==
    /\ rail[t].state = "absent"
    /\ rail' = [rail EXCEPT ![t] = [state |-> "shallow", date |-> clock]]
    /\ UNCHANGED <<rows, call, clock, passed>>

Deepen(t) ==
    /\ rail[t].state = "shallow"
    /\ rail' = [rail EXCEPT ![t].state = "final"]
    /\ UNCHANGED <<rows, call, clock, passed>>

Tick ==
    /\ clock < MaxClock
    /\ \A t \in Txs : rail[t].state = "shallow" => clock < rail[t].date + MaxLag
    /\ clock' = clock + 1
    /\ UNCHANGED <<rail, rows, call, passed>>

-----------------------------------------------------------------------------
\* The other writers of the table.
Recorded == {t \in Txs : entry[t].source # "none"}

\* INSERT OR IGNORE: the first row of an external id stays.
Record(t, source, date) ==
    entry' = IF t \in Recorded THEN entry
             ELSE [entry EXCEPT ![t] = [source |-> source, date |-> date]]

\* confirmPayment records its broadcast at once, dated now.
RecordPayment(t) ==
    /\ t \in Own
    /\ Record(t, "PAYMENT", clock)
    /\ UNCHANGED <<rail, manual, call, clock, passed>>

\* POST /api/transactions takes the date it is given.
RecordManual(date) ==
    /\ manual' = manual \cup {date}
    /\ UNCHANGED <<rail, entry, call, clock, passed>>

-----------------------------------------------------------------------------
\* MAX(date) over every row of the account, whoever wrote it.
Dates == {entry[t].date : t \in Recorded} \cup manual
Newest == CHOOSE d \in Dates : \A e \in Dates : e <= d

\* Mutant of WindowStart: no overlap behind the newest row.
WindowAtNewest == IF Dates # {} THEN Newest ELSE clock - Lookback

WindowStart == IF Dates # {} THEN Newest - Overlap ELSE clock - Lookback

At(c, stage) == call[c].stage = stage
Booked == {t \in Txs : rail[t].state # "absent"}

Add(reason, ts) == [t \in Txs |-> IF t \in ts THEN passed[t] \cup {reason} ELSE passed[t]]

\* syncAccount up to its second await: the account is active, its balance has
\* arrived, and the window is read from the table.  The first sync of an empty
\* table looks a fixed time back.
SyncStart(c) ==
    /\ At(c, "idle")
    /\ call' = [call EXCEPT ![c] = [stage |-> "listing", since |-> WindowStart, batch |-> {}]]
    /\ passed' = Add("lookback", {t \in Booked : Dates = {} /\ rail[t].date < WindowStart})
    /\ UNCHANGED <<rail, rows, clock>>

\* The pages of one fetch: the newest booked transactions, up to the ceiling.
Pages(s) ==
    /\ s \subseteq Booked
    /\ Cardinality(s) = IF Cardinality(Booked) < Ceiling THEN Cardinality(Booked) ELSE Ceiling
    /\ \A t \in s, u \in Booked \ s : rail[u].date <= rail[t].date

Deep == {t \in Txs : rail[t].state = "final"}
InWindow(c) == {t \in Booked : rail[t].date >= call[c].since}

\* The listing arrives: deep enough, inside the window, within the ceiling.
ListingArrives(c) ==
    /\ At(c, "listing")
    /\ \E page \in SUBSET Booked :
           /\ Pages(page)
           /\ call' = [call EXCEPT ![c] = [stage |-> "importing", since |-> @.since,
                                          batch |-> page \cap Deep \cap InWindow(c)]]
           /\ passed' = [t \in Txs |-> passed[t]
                  \cup (IF t \in page \ Deep THEN {"shallow"} ELSE {})
                  \cup (IF t \in (Deep \cap InWindow(c)) \ page THEN {"ceiling"} ELSE {})]
    /\ UNCHANGED <<rail, rows, clock>>

\* One insert of the loop, in the order the connector chose.
Import(c) ==
    /\ At(c, "importing")
    /\ \E t \in call[c].batch :
           /\ Record(t, "CONNECTOR", rail[t].date)
           /\ call' = [call EXCEPT ![c].batch = @ \ {t}]
    /\ UNCHANGED <<rail, manual, clock, passed>>

\* The loop is done; the account's balance columns, written last and whatever a
\* faster call wrote meanwhile, are left out.
SyncFinish(c) ==
    /\ At(c, "importing")
    /\ call[c].batch = {}
    /\ call' = [call EXCEPT ![c] = Idle]
    /\ UNCHANGED <<rail, entry, manual, clock, passed>>

\* Mutant of SyncDies: the dead call's rows are still counted as being imported.
SyncDiesHalfway(c) ==
    /\ ~At(c, "idle")
    /\ call' = [call EXCEPT ![c].stage = "idle"]
    /\ UNCHANGED <<rail, rows, clock, passed>>

\* The connector or a statement throws, or the process dies.
SyncDies(c) ==
    /\ ~At(c, "idle")
    /\ call' = [call EXCEPT ![c] = Idle]
    /\ passed' = Add("interrupted", call[c].batch)
    /\ UNCHANGED <<rail, rows, clock>>

Sync(c) == \/ SyncStart(c) \/ ListingArrives(c) \/ Import(c)
           \/ SyncFinish(c) \/ SyncDies(c)

Next == \/ \E t \in Txs : Book(t) \/ Deepen(t) \/ RecordPayment(t)
        \/ \E d \in ManualDates : RecordManual(d)
        \/ \E c \in Calls : Sync(c)
        \/ Tick

Spec == Init /\ [][Next]_vars

-----------------------------------------------------------------------------
(***************************************************************************)
(* Properties.                                                             *)
(***************************************************************************)
Stages == {"idle", "listing", "importing"}

\* Every variable keeps its type, and only a call that imports holds rows.
TypeOK ==
    /\ rail \in [Txs -> [state : {"absent", "shallow", "final"}, date : Nat]]
    /\ entry \in [Txs -> [source : {"none", "CONNECTOR", "PAYMENT"}, date : Nat]]
    /\ manual \subseteq ManualDates
    /\ call \in [Calls -> [stage : Stages, since : Int, batch : SUBSET Txs]]
    /\ \A c \in Calls : call[c].batch # {} => At(c, "importing")
    /\ clock \in Nat
    /\ passed \in [Txs -> SUBSET Reasons]

\* A transaction no later sync will ever ask for: it is deep enough, it has no
\* row, no call is about to insert it, and the window starts after it.
Lost(t) == /\ rail[t].state = "final"
           /\ t \notin Recorded
           /\ \A c \in Calls : t \notin call[c].batch
           /\ Dates # {} /\ rail[t].date < WindowStart

\* Rows that say nothing of how far the rail was read, dated beyond the overlap.
PushedPast(t) == \/ \E u \in Recorded : /\ entry[u].source = "PAYMENT"
                                        /\ entry[u].date > rail[t].date + Overlap
                 \/ \E d \in manual : d > rail[t].date + Overlap

\* The overlap is enough for the rail's lateness: however sync calls overlap, a
\* transaction is lost only behind a payment's or the user's own row, or because
\* the first sync looked no further back, a fetch hit its page ceiling, or an
\* import died half way.
LostOnlyForReason ==
    \A t \in Txs :
        Lost(t) => PushedPast(t) \/ passed[t] \cap {"lookback", "ceiling", "interrupted"} # {}

\* esplora.connector.ts:397 says of a transaction it skips as too shallow that "it
\* will import on a later sync, post-depth": it never falls behind the window.
SkippedImportsLater == \A t \in Txs : "shallow" \in passed[t] => ~Lost(t)

\* esplora.connector.ts:338 says that stopping at the MAX_PAGES ceiling is safe
\* "because callers dedupe on externalId": what it cut off is asked for again.
CeilingIsSafe == \A t \in Txs : "ceiling" \in passed[t] => ~Lost(t)
=============================================================================
