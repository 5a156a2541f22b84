---------------------------- MODULE RecordTables ----------------------------
(***************************************************************************)
(* What protocol/v2/record-store.ts decides about one record over the      *)
(* tables of one node, and what it reads back from them.  A row is         *)
(* [record, source, rank]; the usage of the ingest budget is [count,       *)
(* bytes]; an entry is a record with the door it came through.             *)
(***************************************************************************)
EXTENDS Records, FiniteSetsExt

CONSTANTS
    LocalKey,        \* localNodeKeyId: a key id, or NoRecord before activation
    MaxRemoteCount,  \* remoteLimits.maxRecordCount
    MaxRemoteBytes   \* remoteLimits.maxCanonicalBytes

-----------------------------------------------------------------------------
(* The decision of one append, over the table and the usage it reads. *)

Stored(table) == {row.record : row \in table}

(* A new private remote record is only admitted by its named audience. *)
PrivateElsewhere(e) ==
    /\ e.source = "remote"
    /\ e.record.disclosure = "private"
    /\ LocalKey = NoRecord \/ e.record.audience # LocalKey

(* The index idx_cashloom_v2_issuer_nonce: one record per issuer and nonce. *)
NonceTaken(table, r) ==
    \E x \in Stored(table) :
        /\ x.authority.key_id = r.authority.key_id
        /\ x.nonce = r.nonce

ParentMissing(table, r) == r.parent # NoRecord /\ r.parent \notin Stored(table)

BrokenLink(r) == r.parent # NoRecord /\ ~Linked(r, r.parent)

(* Mutant of Rival: a payer may answer a request twice. *)
RivalEvidence(table, r) ==
    /\ r.parent # NoRecord
    /\ \E x \in Stored(table) :
           /\ x.parent = r.parent
           /\ x.schema = r.schema
           /\ r.schema \in LeafSchemas

(* One intent per request and payer; one evidence record per parent. *)
Rival(table, r) ==
    /\ r.parent # NoRecord
    /\ \E x \in Stored(table) :
           /\ x.parent = r.parent
           /\ x.schema = r.schema
           /\ \/ r.schema \in LeafSchemas
              \/ /\ r.schema = "payment_intent"
                 /\ x.authority.key_id = r.authority.key_id

OverBudget(used, e) ==
    /\ e.source = "remote"
    /\ \/ used.count + 1 > MaxRemoteCount
       \/ used.bytes + e.record.bytes > MaxRemoteBytes

(* The checks in the order append() makes them, after exact redelivery. *)
Refusal(table, used, e) ==
    IF PrivateElsewhere(e) THEN "PRIVATE_AUDIENCE_MISMATCH"
    ELSE IF NonceTaken(table, e.record) THEN "ISSUER_NONCE_CONFLICT"
    ELSE IF ParentMissing(table, e.record) THEN "PARENT_NOT_FOUND"
    ELSE IF BrokenLink(e.record) THEN "INVALID_LINK"
    ELSE IF Rival(table, e.record) THEN "TRANSITION_CONFLICT"
    ELSE IF OverBudget(used, e) THEN "REMOTE_LIMIT_EXCEEDED"
    ELSE "none"

Redelivered(table, e) == e.record \in Stored(table)

(* Row order is only ever read among node descriptors: the rank of a new *)
(* one is its place among them, and other rows carry none.                *)
Rank(table, r) ==
    IF r.schema = "node_descriptor"
      THEN Cardinality({row \in table : row.record.schema = "node_descriptor"}) + 1
      ELSE 0

Insert(table, e) ==
    table \cup {[record |-> e.record, source |-> e.source,
                 rank |-> Rank(table, e.record)]}

Charge(used, e) ==
    IF e.source = "remote"
      THEN [count |-> used.count + 1, bytes |-> used.bytes + e.record.bytes]
      ELSE used

-----------------------------------------------------------------------------
(* Reads. *)

(* The rows two lookups of the local service join on. *)
LocalIntents(table, request, issuer) ==
    {row \in table : /\ row.record.parent = request
                     /\ row.record.schema = "payment_intent"
                     /\ row.record.authority.key_id = issuer
                     /\ row.source = "local"}

ChildRows(table, parent) == {row \in table : row.record.parent = parent}

(* getPublic serves a record only if it was signed for disclosure. *)
PublicRows(table) == {row \in table : row.record.disclosure = "public"}

(* This node's own public descriptors, of which the newest is its root. *)
LocalDescriptors(table) ==
    {row \in PublicRows(table) : /\ row.record.schema = "node_descriptor"
                                 /\ row.record.authority.key_id = LocalKey
                                 /\ row.source = "local"}

LatestDescriptor(table) ==
    CHOOSE row \in LocalDescriptors(table) :
        \A other \in LocalDescriptors(table) :
            \/ other.record.issued_at < row.record.issued_at
            \/ /\ other.record.issued_at = row.record.issued_at
               /\ other.rank <= row.rank

=============================================================================
