---------------------------- MODULE RecordStore ----------------------------
(***************************************************************************)
(* The append-only record store of protocol/v2/record-store.ts over the    *)
(* tables of protocol/v2/schema.ts, shared by the handles (processes or    *)
(* store objects) that open one database file.                             *)
(*                                                                         *)
(* A call verifies its records before it opens a writer transaction; BEGIN *)
(* IMMEDIATE admits one writer at a time, and everything a call decides -- *)
(* replay, ancestry, successors, quota -- it decides inside.  append() is  *)
(* a batch of one; appendBatch() runs its appends in order in one outer    *)
(* transaction, so a late refusal undoes the early ones.                   *)
(***************************************************************************)
EXTENDS RecordTables

CONSTANTS
    Handles,   \* the writers
    NoHandle,
    Offers     \* per handle, the calls made of it: sequences of entries

(* An entry is a record with the door it came through. *)
Batches == UNION {Offers[h] : h \in Handles}

Entries == UNION {{b[i] : i \in DOMAIN b} : b \in Batches}

ASSUME StoreAssumption ==
    /\ NoHandle \notin Handles
    /\ \A e \in Entries : e.record # NoRecord
    /\ MaxRemoteCount \in Nat
    /\ MaxRemoteBytes \in Nat
    /\ \A b \in Batches : b \in Seq(Entries)
    /\ \A e \in Entries : e.source \in {"local", "remote"} /\ e.record.bytes \in Nat

VARIABLES
    rows,    \* cashloom_v2_records as committed: [record, source, rank]
    usage,   \* the ingest budget row as committed: [count, bytes]
    draft,   \* what the open transaction sees: [rows, usage]
    writer,  \* the handle in a transaction, or NoHandle
    call     \* per handle: [phase, entries, todo, answer]

vars == <<rows, usage, draft, writer, call>>

-----------------------------------------------------------------------------
NoCall(answer) == [phase |-> "idle", entries |-> <<>>, todo |-> <<>>, answer |-> answer]

Init ==
    /\ rows = {}
    /\ usage = [count |-> 0, bytes |-> 0]
    /\ draft = [rows |-> {}, usage |-> [count |-> 0, bytes |-> 0]]
    /\ writer = NoHandle
    /\ call = [h \in Handles |-> NoCall("none")]

(* A caller hands over bytes; all of them verify before any transaction. *)
Submit(h, b) ==
    /\ call[h].phase = "idle"
    /\ IF \A i \in DOMAIN b : Verified(b[i].record)
         THEN call' = [call EXCEPT ![h] = [phase |-> "ready", entries |-> b,
                                           todo |-> b, answer |-> "none"]]
         ELSE call' = [call EXCEPT ![h] = NoCall("INVALID")]
    /\ UNCHANGED <<rows, usage, draft, writer>>

(* BEGIN IMMEDIATE. *)
Begin(h) ==
    /\ call[h].phase = "ready"
    /\ writer = NoHandle
    /\ writer' = h
    /\ draft' = [rows |-> rows, usage |-> usage]
    /\ call' = [call EXCEPT ![h] = [phase |-> "writing", entries |-> @.entries,
                                    todo |-> @.todo, answer |-> "none"]]
    /\ UNCHANGED <<rows, usage>>

(* Another writer outlasts the busy timeout of db.ts. *)
Busy(h) ==
    /\ call[h].phase = "ready"
    /\ writer # NoHandle
    /\ call' = [call EXCEPT ![h] = NoCall("SQLITE_BUSY")]
    /\ UNCHANGED <<rows, usage, draft, writer>>

Writing(h) == call[h].phase = "writing" /\ call[h].todo # <<>>

Advanced(h) ==
    [phase |-> "writing", entries |-> call[h].entries,
     todo |-> Tail(call[h].todo), answer |-> "none"]

(* Mutant of Replay: a redelivery is charged like a new record. *)
ReplayCharged(h) ==
    /\ Writing(h)
    /\ Redelivered(draft.rows, Head(call[h].todo))
    /\ call' = [call EXCEPT ![h] = Advanced(h)]
    /\ draft' = [rows |-> draft.rows, usage |-> Charge(draft.usage, Head(call[h].todo))]
    /\ UNCHANGED <<rows, usage, writer>>

(* Exact redelivery inserts nothing and charges nothing. *)
Replay(h) ==
    /\ Writing(h)
    /\ Redelivered(draft.rows, Head(call[h].todo))
    /\ call' = [call EXCEPT ![h] = Advanced(h)]
    /\ UNCHANGED <<rows, usage, draft, writer>>

Admit(h) ==
    /\ Writing(h)
    /\ ~Redelivered(draft.rows, Head(call[h].todo))
    /\ Refusal(draft.rows, draft.usage, Head(call[h].todo)) = "none"
    /\ draft' = [rows |-> Insert(draft.rows, Head(call[h].todo)),
                 usage |-> Charge(draft.usage, Head(call[h].todo))]
    /\ call' = [call EXCEPT ![h] = Advanced(h)]
    /\ UNCHANGED <<rows, usage, writer>>

(* Mutant of Refuse: the batch has no outer transaction, so what preceded a refusal stays. *)
RefuseHalfway(h) ==
    /\ Writing(h)
    /\ ~Redelivered(draft.rows, Head(call[h].todo))
    /\ LET code == Refusal(draft.rows, draft.usage, Head(call[h].todo)) IN
         /\ code # "none"
         /\ call' = [call EXCEPT ![h] = NoCall(code)]
    /\ writer' = NoHandle
    /\ rows' = draft.rows
    /\ usage' = draft.usage
    /\ UNCHANGED draft

(* Mutant of Refuse: a refusal releases the lock and leaves its writes to the next. *)
RefuseWithoutRollback(h) ==
    /\ Writing(h)
    /\ ~Redelivered(draft.rows, Head(call[h].todo))
    /\ LET code == Refusal(draft.rows, draft.usage, Head(call[h].todo)) IN
         /\ code # "none"
         /\ call' = [call EXCEPT ![h] = NoCall(code)]
    /\ writer' = NoHandle
    /\ UNCHANGED <<rows, usage, draft>>

(* A refused append throws: the outer transaction rolls the batch back. *)
Refuse(h) ==
    /\ Writing(h)
    /\ ~Redelivered(draft.rows, Head(call[h].todo))
    /\ LET code == Refusal(draft.rows, draft.usage, Head(call[h].todo)) IN
         /\ code # "none"
         /\ call' = [call EXCEPT ![h] = NoCall(code)]
    /\ writer' = NoHandle
    /\ draft' = [rows |-> rows, usage |-> usage]
    /\ UNCHANGED <<rows, usage>>

Commit(h) ==
    /\ call[h].phase = "writing"
    /\ call[h].todo = <<>>
    /\ rows' = draft.rows
    /\ usage' = draft.usage
    /\ writer' = NoHandle
    /\ call' = [call EXCEPT ![h] = NoCall("ok")]
    /\ UNCHANGED draft

(* The process of a handle dies; SQLite rolls its transaction back. *)
Crash(h) ==
    /\ call[h].phase # "idle"
    /\ call' = [call EXCEPT ![h] = NoCall("none")]
    /\ writer' = IF writer = h THEN NoHandle ELSE writer
    /\ draft' = IF writer = h THEN [rows |-> rows, usage |-> usage] ELSE draft
    /\ UNCHANGED <<rows, usage>>

Next ==
    \E h \in Handles :
        \/ \E b \in Offers[h] : Submit(h, b)
        \/ Begin(h)
        \/ Busy(h)
        \/ Replay(h)
        \/ Admit(h)
        \/ Refuse(h)
        \/ Commit(h)
        \/ Crash(h)

Spec == Init /\ [][Next]_vars

-----------------------------------------------------------------------------
Sources == {"local", "remote"}

Codes ==
    {"none", "ok", "INVALID", "SQLITE_BUSY", "PRIVATE_AUDIENCE_MISMATCH",
     "ISSUER_NONCE_CONFLICT", "PARENT_NOT_FOUND", "INVALID_LINK",
     "TRANSITION_CONFLICT", "REMOTE_LIMIT_EXCEEDED"}

Tables == SUBSET [record : {e.record : e \in Entries}, source : Sources, rank : Nat]

(* Every variable has its shape; an open transaction has one owner, and   *)
(* outside of a transaction the draft is what is committed.               *)
TypeOK ==
    /\ rows \in Tables
    /\ usage \in [count : Nat, bytes : Nat]
    /\ draft \in [rows : Tables, usage : [count : Nat, bytes : Nat]]
    /\ writer \in Handles \cup {NoHandle}
    /\ call \in [Handles -> [phase : {"idle", "ready", "writing"},
                             entries : Seq(Entries), todo : Seq(Entries),
                             answer : Codes]]
    /\ \A h \in Handles : call[h].phase = "writing" <=> writer = h
    /\ writer = NoHandle => draft = [rows |-> rows, usage |-> usage]

(* The six records that end in a settlement. *)
ChainVerifies(t) ==
    VerifiedChain(t.parent.parent.parent.parent.parent,
                  t.parent.parent.parent.parent, t.parent.parent.parent,
                  t.parent.parent, t.parent, t)

ChainsIn(table) ==
    \A t \in Stored(table) : t.schema = "settlement_receipt" => ChainVerifies(t)

PublicAncestryIn(table) ==
    \A row \in PublicRows(table) :
        row.record.parent # NoRecord =>
            \E p \in PublicRows(table) : p.record = row.record.parent

EdgesHold(table) ==
    \A x \in Stored(table) :
        x.parent # NoRecord => x.parent \in Stored(table) /\ Linked(x, x.parent)

(* Every record, public or private, is stored with its parent, whose      *)
(* terms it meets.  So, although append() checks one edge at a time and   *)
(* the store holds no chain, every settlement it ever admits ends a chain *)
(* that verifyV2RecordChain accepts: authorities, audiences, terms and    *)
(* nonces agree from end to end.  And what a peer may fetch, it may fetch *)
(* with its whole ancestry.                                               *)
AncestryHolds == EdgesHold(rows) /\ ChainsIn(rows) /\ PublicAncestryIn(rows)

SuccessorsIn(table) ==
    \A x, y \in table :
        /\ x.record.parent = y.record.parent
        /\ x.record.parent # NoRecord
        /\ x.record.schema = y.record.schema
        /\ \/ x.record.schema \in LeafSchemas
           \/ /\ x.record.schema = "payment_intent"
              /\ x.record.authority.key_id = y.record.authority.key_id
        => x = y

LookupsIn(table) ==
    \A x \in table : x.record.schema = "payment_intent" =>
        \A y, z \in ChildRows(table, x.record) : y = z

(* No two stored records contend, through whichever handle they came.  A  *)
(* request has one intent per payer and every later record one successor; *)
(* so the joins the local service reads through never meet a second row   *)
(* and never report a corrupted index (they count every child of an       *)
(* intent, of any schema).  And no issuer has two records under a nonce.  *)
NoRivals ==
    /\ SuccessorsIn(rows)
    /\ LookupsIn(rows)
    /\ NoncesDistinct(Stored(rows))

RemoteRows(table) == {row \in table : row.source = "remote"}

CountExact(table, used) == used.count = Cardinality(RemoteRows(table))

BytesExact(table, used) ==
    used.bytes = MapThenSumSet(LAMBDA row : row.record.bytes, RemoteRows(table))

WithinBudget(used) == used.count <= MaxRemoteCount /\ used.bytes <= MaxRemoteBytes

(* The budget row, which redelivery, rollback and a second handle could   *)
(* all put out of step, says exactly what remote records cost, and that   *)
(* cost never passes the limits.                                          *)
BudgetExact ==
    /\ CountExact(rows, usage)
    /\ BytesExact(rows, usage)
    /\ WithinBudget(usage)

(* The table changes only by a whole call: after the step all of the      *)
(* call's records are stored and no other record is new, whatever the     *)
(* other handle or a crash did in between.                                *)
BatchAtomic ==
    [][rows' # rows =>
         /\ rows \subseteq rows'
         /\ \E h \in Handles :
               Stored(rows') = Stored(rows)
                   \cup {call[h].entries[i].record : i \in DOMAIN call[h].entries}]_vars

=============================================================================
