--------------------------- MODULE PayLinkCarrier ---------------------------
(***************************************************************************)
(* The two files that carry a human payment between nodes: the pay link a  *)
(* merchant hands out (pay-link.ts) and the acceptance a payer hands back  *)
(* (pay-link-acceptance.ts), under the one Bitcoin profile both sides      *)
(* speak (bitcoin-profile.ts).  A pay link carries the merchant's          *)
(* descriptor, manifest and request with the preimage of its purpose; an   *)
(* acceptance carries the whole link, the payer's manifest and the intent. *)
(*                                                                         *)
(* An address is [type, spelling]: parsing gives the canonical spelling.   *)
(* A carrier's bytes are the sum of its records'.  A file is               *)
(* [text, carrier]: its text is "canonical" when it is the one canonical   *)
(* encoding of the closed schema, within the nesting limit.                *)
(***************************************************************************)
EXTENDS Records, FiniteSetsExt

CONSTANTS
    MaxSatoshis,      \* BITCOIN_MAX_SATOSHIS
    MaxFeeSatoshis,   \* BITCOIN_PAY_LINK_MAX_FEE_SATOSHIS
    MaxNoteBytes,     \* V2_PAY_LINK_NOTE_MAX_BYTES
    MaxLinkBytes,     \* V2_PAY_LINK_MAX_BYTES
    MaxReplyBytes     \* V2_PAY_LINK_ACCEPTANCE_MAX_BYTES

-----------------------------------------------------------------------------
(* The Bitcoin profile. *)

Rail == "bitcoin-mainnet"

BitcoinAsset == [chain |-> "bip122:bitcoin", token |-> "slip44:0"]

(* bitcoinMainnetTrustManifest: what either node asserts about bitcoin. *)
BitcoinManifest(at) ==
    [rail |-> Rail, asset_id |-> BitcoinAsset, chain_id |-> BitcoinAsset.chain,
     assessed_at |-> at, settlement_model |-> "layer-1-proof-of-work",
     finality |-> "probabilistic", single_sequencer |-> "false",
     provider_required |-> "false", provider_role |-> "none",
     issuer_controls |-> [c \in IssuerControls |-> "false"],
     bridge |-> "none", identity |-> "none", custody |-> "self-custody-capable",
     self_hostable_read |-> "true", self_hostable_broadcast |-> "true",
     egress |-> {"public-ledger", "peer-network"}, evidence |-> <<>>]

(* The least amount that relays, by the type of output it pays. *)
Dust == [wpkh |-> 294, wsh |-> 330, tr |-> 330, sh |-> 540, pkh |-> 546]

ParsedAddress(address) == [address EXCEPT !.spelling = "canonical"]

ValidAddress(address) == address.type \in DOMAIN Dust

(* The spelling a signed record must use already. *)
CanonicalAddress(address) == ValidAddress(address) /\ ParsedAddress(address) = address

ValidSatoshis(amount) == amount \in 1..MaxSatoshis

ValidMaxFee(amount) == amount \in 0..MaxFeeSatoshis

ValidTerms(address, amount) ==
    /\ ValidAddress(address)
    /\ ValidSatoshis(amount)
    /\ amount >= Dust[address.type]

-----------------------------------------------------------------------------
(* The pay link: [purpose, descriptor, manifest, request]. *)

(* A note is NoNote or its length in bytes; the reply travels offline. *)
NoNote == 0

ValidPurpose(purpose) == purpose.note \in NoNote..MaxNoteBytes /\ purpose.reply_to = "offline"

PurposeHash(purpose) == <<"sha256", purpose>>

LinkRecords(link) == {link.descriptor, link.manifest, link.request}

SumOfBytes(records) == MapThenSumSet(LAMBDA r : r.bytes, records)

(* No record twice, and no authority with one nonce twice. *)
DistinctIn(records, count) == Cardinality(records) = count /\ NoncesDistinct(records)

UsableUntil(link) ==
    CHOOSE t \in {r.expires_at : r \in LinkRecords(link)} :
        \A r \in LinkRecords(link) : t <= r.expires_at

(* inputSnapshot and parseBundle: of all texts with this content one is read. *)
ReadableLink(file) ==
    /\ file.text = "canonical"
    /\ SumOfBytes(LinkRecords(file.carrier)) <= MaxLinkBytes

AllPublic(records) == \A r \in records : r.disclosure = "public" /\ r.audience = Public

AllFor(records, key) == \A r \in records : r.disclosure = "private" /\ r.audience = key

(* Mutant of VerifiedLink: the request alone has to be active, and its purpose goes unread. *)
VerifiedLinkByRequest(link, now, pin) ==
    /\ ValidPurpose(link.purpose)
    /\ \A r \in LinkRecords(link) : Verified(r)
    /\ ActiveAt(link.request, now)
    /\ RequestLink(link.request, link.descriptor)
    /\ pin \in {NoRecord, link.descriptor.authority.key_id}

(* verifyV2PayLinkBundle; pin is the expected merchant key, or NoRecord. *)
VerifiedLink(link, now, pin) ==
    /\ pin \in {NoRecord, link.descriptor.authority.key_id}
    /\ ValidPurpose(link.purpose)
    /\ link.request.purpose_hash = PurposeHash(link.purpose)
    /\ \A r \in LinkRecords(link) : VerifiedAt(r, now)
    /\ DistinctIn(LinkRecords(link), 3)
    /\ link.descriptor.schema = "node_descriptor"
    /\ link.manifest.schema = "asset_trust_manifest"
    /\ link.request.schema = "payment_request"
    /\ AllPublic(LinkRecords(link))
    /\ Linked(link.request, link.descriptor)
    /\ BindingHoldsAt(link.request.asset_trust, link.manifest,
                      link.request.asset_id, link.request.rail, now)
    /\ SumOfBytes(LinkRecords(link)) <= MaxLinkBytes

(* assertBitcoinOffer: what this node asks of a link beyond its signatures. *)
BitcoinOffer(link) ==
    /\ link.request.rail = Rail
    /\ link.request.asset_id = BitcoinAsset
    /\ ValidTerms(link.request.destination, link.request.amount_atomic)
    /\ CanonicalAddress(link.request.destination)
    /\ Accepted(link.manifest.manifest, FailClosed)

-----------------------------------------------------------------------------
(* The acceptance: [link, manifest, intent], judged as of the intent's own  *)
(* issuance, so that it stays evidence after everything in it has expired.  *)

ReplyRecords(reply) == LinkRecords(reply.link) \cup {reply.manifest, reply.intent}

ReadableReply(file) ==
    /\ file.text = "canonical"
    /\ SumOfBytes(ReplyRecords(file.carrier)) <= MaxReplyBytes

(* Both trust decisions of the intent rest on the one manifest it carries. *)
OwnManifest(reply) ==
    \A b \in {reply.intent.payment_asset_trust, reply.intent.fee_asset_trust} :
        /\ b.manifest_record = reply.manifest
        /\ b.manifest_authority = reply.manifest.authority.key_id

(* Mutant of VerifiedReply: judged as of the import instead of the issuance. *)
VerifiedReplyToday(reply, now, merchant) ==
    LET intent == reply.intent
    IN  /\ VerifiedAt(intent, now)
        /\ VerifiedLink(reply.link, now, merchant)
        /\ BitcoinOffer(reply.link)
        /\ Linked(intent, reply.link.request)
        /\ OwnManifest(reply)

VerifiedReply(reply, now, merchant) ==
    LET intent == reply.intent
        manifest == reply.manifest
        at == intent.issued_at
    IN  /\ AllFor({intent, manifest}, merchant)
        /\ Verified(intent) /\ intent.schema = "payment_intent"
        /\ now >= at
        /\ VerifiedAt(intent, at)
        /\ manifest.schema = "asset_trust_manifest" /\ VerifiedAt(manifest, at)
        /\ VerifiedLink(reply.link, at, merchant)
        /\ BitcoinOffer(reply.link)
        /\ CanonicalAddress(intent.source_account)
        /\ ValidMaxFee(intent.max_fee_atomic)
        /\ Accepted(manifest.manifest, FailClosed)
        /\ SameAuthority(intent.authority, manifest.authority)
        /\ intent.nonce # manifest.nonce
        /\ DistinctIn(ReplyRecords(reply), 5)
        /\ Linked(intent, reply.link.request)
        /\ OwnManifest(reply)
        /\ intent.fee_asset_id = reply.link.request.asset_id
        /\ BindingHoldsAt(intent.payment_asset_trust, manifest,
                          intent.asset_id, intent.rail, at)
        /\ BindingHoldsAt(intent.fee_asset_trust, manifest,
                          intent.fee_asset_id, intent.rail, at)
        /\ SumOfBytes(ReplyRecords(reply)) <= MaxReplyBytes

(* intent_active_at_verification, which the import shows beside the rest. *)
StillActive(reply, now) == now < reply.intent.expires_at

=============================================================================
