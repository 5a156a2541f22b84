--------------------------- MODULE MCRecordStore ---------------------------
(* One merchant node's store, a payer and a stranger who know its peers. *)
EXTENDS RecordStore, TLC

MCLifetime == [s \in Schemas |-> 6]

Authority(k) == [key_id |-> KeyId(k), public_key |-> k]

BTC == [chain |-> "bip122", token |-> "btc"]

Facts ==
    [rail |-> "bitcoin", asset_id |-> BTC, chain_id |-> "bip122", assessed_at |-> 0,
     settlement_model |-> "layer-1-proof-of-work", finality |-> "probabilistic",
     single_sequencer |-> "false", provider_required |-> "false",
     provider_role |-> "none", issuer_controls |-> [c \in IssuerControls |-> "false"],
     bridge |-> "none", identity |-> "none", custody |-> "self-custody-capable",
     self_hostable_read |-> "true", self_hostable_broadcast |-> "true",
     egress |-> {"public-ledger", "peer-network"}, evidence |-> <<>>]

Base(schema, k, to, shown, n, at, parent, bytes) ==
    [schema |-> schema, authority |-> Authority(k), audience |-> to,
     disclosure |-> shown, nonce |-> n, issued_at |-> at, expires_at |-> at + 4,
     parent |-> parent, signed_by |-> k, named_id |-> "own", bytes |-> bytes]

M == KeyId("merchant")
P == KeyId("payer")
Q == KeyId("stranger")

Descriptor ==
    [roles |-> {"merchant"},
     endpoints |-> {[rel |-> r, path |-> "canonical"] : r \in EndpointRels}]
      @@ Base("node_descriptor", "merchant", Public, "public", 1, 0, NoRecord, 1)

RelayDescriptor == [Descriptor EXCEPT !.roles = {"relay"}, !.nonce = 9]

Manifest == [manifest |-> Facts]
    @@ Base("asset_trust_manifest", "merchant", Public, "public", 2, 0, NoRecord, 1)

Binding(m) ==
    [manifest_record |-> m, manifest_authority |-> m.authority.key_id,
     policy |-> FailClosed, policy_hash |-> PolicyHash(FailClosed)]

TheTerms == [rail |-> "bitcoin", destination |-> "addr", asset_id |-> BTC, amount_atomic |-> 3]
TheSpending == [source_account |-> "coins", fee_asset_id |-> BTC, max_fee_atomic |-> 1]

Request == [purpose_hash |-> "purpose", asset_trust |-> Binding(Manifest)]
    @@ TheTerms @@ Base("payment_request", "merchant", Public, "public", 3, 1, Descriptor, 1)

PrivateRequest == [Request EXCEPT !.disclosure = "private", !.audience = P, !.nonce = 4]
ReplayedRequest == [Request EXCEPT !.amount_atomic = 2]
StrayRequest == [Request EXCEPT !.parent = RelayDescriptor, !.nonce = 5]

IntentOf(request, k, n) == [payment_asset_trust |-> Binding(Manifest),
                            fee_asset_trust |-> Binding(Manifest)]
    @@ TheTerms @@ TheSpending
    @@ Base("payment_intent", k, M, "private", n, 2, request, 1)

Intent == IntentOf(Request, "payer", 1)
SecondIntent == [Intent EXCEPT !.nonce = 2, !.source_account = "savings"]
StrangerIntent == IntentOf(Request, "stranger", 1)
TargetedIntent == IntentOf(PrivateRequest, "payer", 3)
MistakenIntent == IntentOf(PrivateRequest, "stranger", 3)
LeakyIntent == [TargetedIntent EXCEPT !.disclosure = "public"]
ChangedIntent == [Intent EXCEPT !.amount_atomic = 2, !.nonce = 6]

Commitment == [reservation_id |-> "reserved", unsigned_payload_hash |-> "unsigned"]
    @@ TheTerms @@ TheSpending
    @@ Base("execution_commitment", "payer", M, "private", 4, 3, Intent, 2)

SecondCommitment == [Commitment EXCEPT !.nonce = 5, !.reservation_id = "again"]
LateCommitment == [Commitment EXCEPT !.issued_at = 6, !.expires_at = 7, !.nonce = 7]
DearCommitment == [Commitment EXCEPT !.max_fee_atomic = 2, !.nonce = 8]

Submission == [signed_payload_hash |-> "signed", operation_id |-> "txid",
               state |-> "submitted", submitted_at |-> 4]
    @@ Base("submission_receipt", "payer", M, "private", 10, 4, Commitment, 1)

EarlySubmission == [Submission EXCEPT !.submitted_at = 2, !.nonce = 11]

Settlement == [asserted_outcome |-> "settled", evidence_kind |-> "merchant_observation",
               evidence_hash |-> "seen", observed_at |-> 9]
    @@ Base("settlement_receipt", "merchant", P, "private", 6, 9, Submission, 1)

SelfSettlement == [Settlement EXCEPT !.authority = Authority("payer"),
                                     !.signed_by = "payer", !.nonce = 12]
SecondSettlement == [Settlement EXCEPT !.nonce = 7, !.evidence_hash = "reorg"]

Forged == [Settlement EXCEPT !.signed_by = "payer", !.nonce = 8]
Elsewhere == [Manifest EXCEPT !.authority = Authority("stranger"), !.audience = P,
                              !.signed_by = "stranger", !.disclosure = "private"]

Local(r) == [record |-> r, source |-> "local"]
Remote(r) == [record |-> r, source |-> "remote"]

(* Handle a is the local workflows, handle b the door for peers. *)
MCOffers ==
    [a |-> {<<Local(r)>> : r \in {Descriptor, Request, ReplayedRequest, Settlement,
                                  SelfSettlement, SecondSettlement, Forged}}
           \cup {<<Local(RelayDescriptor), Local(StrayRequest)>>,
                 <<Local(PrivateRequest), Remote(LeakyIntent)>>,
                 <<Local(PrivateRequest), Remote(TargetedIntent)>>,
                 <<Local(PrivateRequest), Remote(MistakenIntent)>>},
     b |-> {<<Remote(r)>> : r \in {Intent, SecondIntent, StrangerIntent, ChangedIntent,
                                   Commitment, SecondCommitment, LateCommitment,
                                   DearCommitment, Submission, EarlySubmission,
                                   Elsewhere}}
           \cup {<<Remote(Descriptor), Remote(Manifest), Remote(Request)>>,
                 <<Remote(Intent), Remote(Commitment), Remote(SecondCommitment)>>}]
=============================================================================
