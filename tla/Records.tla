------------------------------ MODULE Records ------------------------------
(***************************************************************************)
(* The signed records of protocol/v2/records.ts: which wire values are     *)
(* verified records, when one is active, which parent edges hold, and      *)
(* when six records are a complete merchant-payer-merchant chain.          *)
(*                                                                         *)
(* A record is its own content identifier: record_id is the hash of every  *)
(* other field, so two records have one identifier exactly when they are   *)
(* equal, and parent_record_id is the parent itself (or NoRecord).  Times  *)
(* are integers.  signed_by is the key under which the signature verifies, *)
(* named_id says whether the record_id on the wire is that hash, and bytes *)
(* is the length of the canonical encoding.                                *)
(***************************************************************************)
EXTENDS AssetTrust

CONSTANTS
    MaxLifetime,     \* per schema, the longest validity a record may claim
    MaxRecordBytes,  \* V2_MAX_RECORD_BYTES
    NoRecord,        \* a null parent
    Public           \* the audience that is no key: everyone

RootSchemas == {"node_descriptor", "asset_trust_manifest"}

LeafSchemas == {"execution_commitment", "submission_receipt", "settlement_receipt"}

Schemas == RootSchemas \cup {"payment_request", "payment_intent"} \cup LeafSchemas

NodeRoles == {"merchant", "payer", "relay", "watcher"}

EndpointRels == {"record_read", "records_ingest"}

MaxEndpoints == 8

(* The fields every schema shares, with the signature and the identifier. *)
CommonFields ==
    {"schema", "authority", "audience", "disclosure", "nonce", "issued_at",
     "expires_at", "parent", "signed_by", "named_id", "bytes"}

Terms == {"rail", "destination", "asset_id", "amount_atomic"}

Spending == {"source_account", "fee_asset_id", "max_fee_atomic"}

BodyFields ==
    [node_descriptor      |-> {"roles", "endpoints"},
     payment_request      |-> Terms \cup {"purpose_hash", "asset_trust"},
     payment_intent       |-> Terms \cup Spending
                                \cup {"payment_asset_trust", "fee_asset_trust"},
     execution_commitment |-> Terms \cup Spending
                                \cup {"reservation_id", "unsigned_payload_hash"},
     submission_receipt   |-> {"signed_payload_hash", "operation_id", "state",
                               "submitted_at"},
     settlement_receipt   |-> {"asserted_outcome", "evidence_kind",
                               "evidence_hash", "observed_at"},
     asset_trust_manifest |-> {"manifest"}]

(* The identifier a public key certifies for itself. *)
KeyId(public_key) == [sha256 |-> public_key]

SelfCertifying(a) == a.key_id = KeyId(a.public_key)

-----------------------------------------------------------------------------
(* Well-formed cores, one definition per validator. *)

ValidCommon(r) ==
    /\ r.expires_at > r.issued_at
    /\ r.expires_at - r.issued_at <= MaxLifetime[r.schema]
    /\ SelfCertifying(r.authority)
    /\ r.disclosure \in {"public", "private"}

(* Both relations are offered exactly once, on canonical local paths. *)
ValidEndpoints(endpoints) ==
    /\ Cardinality(endpoints) \in 1..MaxEndpoints
    /\ \A e \in endpoints : e.rel \in EndpointRels /\ e.path = "canonical"
    /\ \A rel \in EndpointRels : Cardinality({e \in endpoints : e.rel = rel}) = 1

(* A binding embeds a policy that parses, under that policy's own hash. *)
ValidBinding(b) ==
    /\ ValidPolicy(b.policy)
    /\ b.policy_hash = PolicyHash(b.policy)

ValidNodeDescriptor(r) ==
    /\ r.audience = Public
    /\ r.disclosure = "public"
    /\ r.parent = NoRecord
    /\ r.roles \in (SUBSET NodeRoles) \ {{}}
    /\ ValidEndpoints(r.endpoints)

ValidPaymentRequest(r) ==
    /\ r.parent # NoRecord
    /\ r.amount_atomic > 0
    /\ ValidBinding(r.asset_trust)

(* What every record of the payer, and the settlement, must name. *)
Targeted(r) == r.audience # Public /\ r.parent # NoRecord

ValidPaymentIntent(r) ==
    /\ Targeted(r)
    /\ r.amount_atomic > 0
    /\ r.max_fee_atomic >= 0
    /\ ValidBinding(r.payment_asset_trust)
    /\ ValidBinding(r.fee_asset_trust)

ValidExecutionCommitment(r) ==
    /\ Targeted(r)
    /\ r.amount_atomic > 0
    /\ r.max_fee_atomic >= 0

ValidSubmissionReceipt(r) ==
    /\ Targeted(r)
    /\ r.submitted_at <= r.issued_at
    /\ r.state \in {"submitted", "submission_unknown"}

ValidSettlementReceipt(r) ==
    /\ Targeted(r)
    /\ r.observed_at <= r.issued_at
    /\ r.asserted_outcome = "settled"
    /\ r.evidence_kind \in {"chain_finality_reference",
                            "provider_event_reference", "merchant_observation"}

ValidManifestRecord(r) ==
    /\ r.parent = NoRecord
    /\ ValidManifest(r.manifest)
    /\ r.manifest.assessed_at <= r.issued_at

ValidCore(r) ==
    /\ r.schema \in Schemas
    /\ DOMAIN r = CommonFields \cup BodyFields[r.schema]
    /\ ValidCommon(r)
    /\ r.schema = "node_descriptor" => ValidNodeDescriptor(r)
    /\ r.schema = "payment_request" => ValidPaymentRequest(r)
    /\ r.schema = "payment_intent" => ValidPaymentIntent(r)
    /\ r.schema = "execution_commitment" => ValidExecutionCommitment(r)
    /\ r.schema = "submission_receipt" => ValidSubmissionReceipt(r)
    /\ r.schema = "settlement_receipt" => ValidSettlementReceipt(r)
    /\ r.schema = "asset_trust_manifest" => ValidManifestRecord(r)

(* verifyV2Record without a time: bounded, well formed, named by its own *)
(* hash and signed by the authority it names.                            *)
Verified(r) ==
    /\ r.bytes <= MaxRecordBytes
    /\ ValidCore(r)
    /\ r.named_id = "own"
    /\ r.signed_by = r.authority.public_key

ActiveAt(r, now) == r.issued_at <= now /\ now < r.expires_at

VerifiedAt(r, now) == Verified(r) /\ ActiveAt(r, now)

-----------------------------------------------------------------------------
(* Parent edges. *)

SameAuthority(a, b) == a.key_id = b.key_id /\ a.public_key = b.public_key

(* The child names the parent and was issued while the parent held. *)
ParentOf(child, parent) ==
    /\ child.parent = parent
    /\ child.issued_at >= parent.issued_at
    /\ child.issued_at < parent.expires_at

(* A settlement may be observed after the submission receipt expired. *)
LateParentOf(child, parent) ==
    /\ child.parent = parent
    /\ child.issued_at >= parent.issued_at

SameTerms(a, b) ==
    /\ a.rail = b.rail
    /\ a.destination = b.destination
    /\ a.asset_id = b.asset_id
    /\ a.amount_atomic = b.amount_atomic

SameSpending(a, b) ==
    /\ a.source_account = b.source_account
    /\ a.fee_asset_id = b.fee_asset_id
    /\ a.max_fee_atomic = b.max_fee_atomic

RequestLink(request, descriptor) ==
    /\ descriptor.schema = "node_descriptor"
    /\ ParentOf(request, descriptor)
    /\ "merchant" \in descriptor.roles
    /\ SameAuthority(request.authority, descriptor.authority)

IntentLink(intent, request) ==
    /\ request.schema = "payment_request"
    /\ ParentOf(intent, request)
    /\ intent.audience = request.authority.key_id
    /\ request.audience \in {Public, intent.authority.key_id}
    /\ SameTerms(request, intent)

CommitmentLink(commitment, intent) ==
    /\ intent.schema = "payment_intent"
    /\ ParentOf(commitment, intent)
    /\ SameAuthority(commitment.authority, intent.authority)
    /\ commitment.audience = intent.audience
    /\ SameTerms(intent, commitment)
    /\ SameSpending(intent, commitment)

SubmissionLink(submission, commitment) ==
    /\ commitment.schema = "execution_commitment"
    /\ ParentOf(submission, commitment)
    /\ submission.submitted_at >= commitment.issued_at
    /\ SameAuthority(submission.authority, commitment.authority)
    /\ submission.audience = commitment.audience

(* Mutant of SettlementLink: whoever holds the submission may settle it. *)
SettlementLinkOpen(settlement, submission) ==
    /\ submission.schema = "submission_receipt"
    /\ LateParentOf(settlement, submission)
    /\ settlement.observed_at >= submission.submitted_at

SettlementLink(settlement, submission) ==
    /\ submission.schema = "submission_receipt"
    /\ LateParentOf(settlement, submission)
    /\ settlement.observed_at >= submission.submitted_at
    /\ settlement.authority.key_id = submission.audience
    /\ settlement.audience = submission.authority.key_id

(* assertImmediateLink: privacy, replay, then the edge its schema allows; *)
(* the root schemas are nobody's children.                                *)
Linked(child, parent) ==
    /\ child.disclosure = "public" => parent.disclosure = "public"
    /\ child.authority.key_id = parent.authority.key_id
           => child.nonce # parent.nonce
    /\ child.schema \notin RootSchemas
    /\ child.schema = "payment_request" => RequestLink(child, parent)
    /\ child.schema = "payment_intent" => IntentLink(child, parent)
    /\ child.schema = "execution_commitment" => CommitmentLink(child, parent)
    /\ child.schema = "submission_receipt" => SubmissionLink(child, parent)
    /\ child.schema = "settlement_receipt" => SettlementLink(child, parent)

-----------------------------------------------------------------------------
(* The whole chain, as verifyV2RecordChain replays it without any store. *)

ChainAuthorities(d, r, i, c, s, t) ==
    /\ SameAuthority(r.authority, d.authority)
    /\ r.audience \in {Public, i.authority.key_id}
    /\ i.audience = d.authority.key_id
    /\ SameAuthority(c.authority, i.authority)
    /\ SameAuthority(s.authority, i.authority)
    /\ c.audience = d.authority.key_id
    /\ s.audience = d.authority.key_id
    /\ SameAuthority(t.authority, d.authority)
    /\ t.audience = i.authority.key_id

ChainTerms(r, i, c) ==
    /\ SameTerms(r, i)
    /\ SameTerms(r, c)
    /\ SameSpending(i, c)

(* No authority spends one replay nonce twice among distinct records. *)
NoncesDistinct(records) ==
    \A x, y \in records :
        /\ x.authority.key_id = y.authority.key_id
        /\ x.nonce = y.nonce
        => x = y

VerifiedChain(d, r, i, c, s, t) ==
    /\ \A x \in {d, r, i, c, s, t} : Verified(x)
    /\ d.schema = "node_descriptor"
    /\ r.schema = "payment_request"
    /\ i.schema = "payment_intent"
    /\ c.schema = "execution_commitment"
    /\ s.schema = "submission_receipt"
    /\ t.schema = "settlement_receipt"
    /\ "merchant" \in d.roles
    /\ Linked(r, d) /\ Linked(i, r) /\ Linked(c, i) /\ Linked(s, c) /\ Linked(t, s)
    /\ ChainAuthorities(d, r, i, c, s, t)
    /\ ChainTerms(r, i, c)
    /\ NoncesDistinct({d, r, i, c, s, t})

-----------------------------------------------------------------------------
(* verifyV2AssetTrustBinding: the manifest record a binding resolves to is  *)
(* the one it names, by the pinned issuer, about this asset on this rail,   *)
(* and the embedded policy accepts it.                                      *)
BindingHolds(b, manifestRecord, asset, rail) ==
    /\ ValidBinding(b)
    /\ manifestRecord.schema = "asset_trust_manifest"
    /\ manifestRecord = b.manifest_record
    /\ manifestRecord.authority.key_id = b.manifest_authority
    /\ manifestRecord.manifest.asset_id = asset
    /\ manifestRecord.manifest.rail = rail
    /\ Accepted(manifestRecord.manifest, b.policy)

BindingHoldsAt(b, manifestRecord, asset, rail, now) ==
    /\ VerifiedAt(manifestRecord, now)
    /\ BindingHolds(b, manifestRecord, asset, rail)

=============================================================================
