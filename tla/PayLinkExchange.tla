-------------------------- MODULE PayLinkExchange --------------------------
(***************************************************************************)
(* The human workflow of protocol/v2/pay-link-service.ts over the local    *)
(* service of protocol/v2/local-service.ts: a merchant node offers a pay   *)
(* link, a payer node answers it with a signed acceptance, the merchant    *)
(* node imports the answer.  No money moves.                               *)
(*                                                                         *)
(* Every node has its own record table and its own callers: requests of    *)
(* the local API, served by one event loop.  A call runs from one await to *)
(* the next, so each action is what happens between two awaits; what a     *)
(* call carries across an await (its times, the descriptor it has seen) is *)
(* in its workflow record and may be stale by then.  Two carriers travel   *)
(* as files: links and replies hold all that were ever handed out, and any *)
(* of them may be delivered late, twice, never, or mixed up.               *)
(*                                                                         *)
(* A node's signing key exists from the start.  A nonce is drawn at the    *)
(* append and never repeats; times of both nodes come from one clock.      *)
(***************************************************************************)
EXTENDS PayLinkCarrier

CONSTANTS
    Nodes,       \* the public keys of the nodes
    Callers,     \* requests to a local API
    Home,        \* the node of each caller
    Work,        \* the operations each caller asks for
    Lifetime,    \* TTL: default validity of "node", "asset", "request", "intent"
    RoleChoices, \* what POST /v2/local/activate is asked for
    Notes, Destinations, Amounts, SourceAccounts, Fees,  \* what callers fill in
    Budget,      \* remoteLimits of each node: [count, bytes]
    MaxSigned,   \* bound: no call starts at a node with this many own records
    MaxTime      \* bound on the clock

ASSUME ExchangeAssumption ==
    /\ Home \in [Callers -> Nodes]
    /\ Work \in [Callers -> SUBSET {"activate", "create", "accept"}]
    /\ RoleChoices \subseteq (SUBSET NodeRoles) \ {{}}
    /\ Budget \in [Nodes -> [count : Nat, bytes : Nat]]
    /\ MaxSigned \in [Nodes -> Nat] /\ MaxTime \in Nat

(* What a node signs of its own is within what records.ts admits of any    *)
(* record: its validity (TTL against MAX_LIFETIME_MS) and its size (a few  *)
(* kilobytes each).  null is no record, and no key is null or everyone's.  *)
ASSUME RecordsAssumption ==
    /\ Lifetime["node"] \in 1..MaxLifetime["node_descriptor"]
    /\ Lifetime["asset"] \in 1..MaxLifetime["asset_trust_manifest"]
    /\ Lifetime["request"] \in 1..MaxLifetime["payment_request"]
    /\ Lifetime["intent"] \in 1..MaxLifetime["payment_intent"]
    /\ MaxRecordBytes \in Nat /\ 1 <= MaxRecordBytes
    /\ MaxReplyBytes \in Nat /\ 5 <= MaxReplyBytes
    /\ SourceAccounts \subseteq [type : STRING, spelling : STRING]
    /\ NoRecord.schema \notin Schemas
    /\ \A n \in Nodes : KeyId(n) \notin {Public, NoRecord}

Store(n) == INSTANCE RecordTables
              WITH LocalKey <- KeyId(n), MaxRemoteCount <- Budget[n].count,
                   MaxRemoteBytes <- Budget[n].bytes

VARIABLES
    tables,    \* per node: its rows [record, source, rank]
    workflow,  \* per caller: what its request is doing
    links,     \* every pay link handed out
    replies,   \* every acceptance handed out
    now        \* the clock

exchangeVars == <<tables, workflow, links, replies, now>>

-----------------------------------------------------------------------------
(* The record store, as a node of this module uses it. *)

Row(n, r) == r \in {row.record : row \in tables[n]}

(* The ingest budget is what the remote rows cost (BudgetExact). *)
Used(rows) ==
    LET remote == {row \in rows : row.source = "remote"} IN
    [count |-> Cardinality(remote),
     bytes |-> SumOfBytes({row.record : row \in remote})]

RefusalAt(n, rows, r, source) ==
    LET e == [record |-> r, source |-> source]
    IN  IF Store(n)!Redelivered(rows, e) THEN "none"
        ELSE Store(n)!Refusal(rows, Used(rows), e)

Appended(n, rows, r, source) ==
    LET e == [record |-> r, source |-> source]
    IN  IF Store(n)!Redelivered(rows, e) THEN rows ELSE Store(n)!Insert(rows, e)

(* appendBatch: each record meets the table its predecessors left. *)
BatchRows(n, records, source) ==
    LET after[i \in 0..Len(records)] ==
            IF i = 0 THEN tables[n] ELSE Appended(n, after[i - 1], records[i], source)
    IN  after

BatchAnswers(n, records, source) ==
    LET after == BatchRows(n, records, source)
    IN  {RefusalAt(n, after[i - 1], records[i], source) : i \in DOMAIN records}

BatchRefused(n, records, source) == BatchAnswers(n, records, source) # {"none"}

BatchStored(n, records, source) == BatchRows(n, records, source)[Len(records)]

OwnRecords(n) == {row \in tables[n] : row.source = "local"}

(* latestPublicNodeDescriptor, or NoRecord. *)
Latest(n) ==
    IF Store(n)!LocalDescriptors(tables[n]) = {} THEN NoRecord
    ELSE Store(n)!LatestDescriptor(tables[n]).record

(* localPaymentIntentFor: this node's intents on a request, at most one. *)
IntentsOn(n, request) ==
    {row.record : row \in Store(n)!LocalIntents(tables[n], request, KeyId(n))}

-----------------------------------------------------------------------------
(* The records a node signs. *)

Common(n, schema, kind, to, shown, at, parent) ==
    [schema |-> schema, authority |-> [key_id |-> KeyId(n), public_key |-> n],
     audience |-> to, disclosure |-> shown, nonce |-> Cardinality(OwnRecords(n)) + 1,
     issued_at |-> at, expires_at |-> at + Lifetime[kind], parent |-> parent,
     signed_by |-> n, named_id |-> "own", bytes |-> 1]

With(common, body) ==
    [f \in DOMAIN common \cup DOMAIN body |->
        IF f \in DOMAIN common THEN common[f] ELSE body[f]]

NewDescriptor(n, roles, at) ==
    With(Common(n, "node_descriptor", "node", Public, "public", at, NoRecord),
         [roles |-> roles,
          endpoints |-> {[rel |-> rel, path |-> "canonical"] : rel \in EndpointRels}])

NewManifest(n, to, shown, assessed, at) ==
    With(Common(n, "asset_trust_manifest", "asset", to, shown, at, NoRecord),
         [manifest |-> BitcoinManifest(assessed)])

BindingTo(manifest) ==
    [manifest_record |-> manifest, manifest_authority |-> manifest.authority.key_id,
     policy |-> FailClosed, policy_hash |-> PolicyHash(FailClosed)]

(* What an offer asks for, in the spelling it is parsed to. *)
OfferTerms(form) ==
    [rail |-> Rail, destination |-> ParsedAddress(form.destination),
     asset_id |-> BitcoinAsset, amount_atomic |-> form.amount]

NewRequest(n, form, parent, manifest, at) ==
    With(Common(n, "payment_request", "request", Public, "public", at, parent),
         With(OfferTerms(form),
              [purpose_hash |-> PurposeHash([note |-> form.note, reply_to |-> "offline"]),
               asset_trust |-> BindingTo(manifest)]))

(* An intent copies its request's terms and binds both assets to one manifest. *)
NewIntent(n, form, request, manifest, at) ==
    With(Common(n, "payment_intent", "intent", request.authority.key_id, "private",
                at, request),
         [rail |-> request.rail, destination |-> request.destination,
          asset_id |-> request.asset_id, amount_atomic |-> request.amount_atomic,
          source_account |-> ParsedAddress(form.source), fee_asset_id |-> BitcoinAsset,
          max_fee_atomic |-> form.max_fee,
          payment_asset_trust |-> BindingTo(manifest),
          fee_asset_trust |-> BindingTo(manifest)])

(* signingDescriptor: the newest descriptor is active and has the role. *)
CanSign(n, role, at) ==
    /\ Latest(n) # NoRecord
    /\ VerifiedAt(Latest(n), at)
    /\ role \in Latest(n).roles

(* assetTrust: the stored manifest the node pins itself to, judged anew. *)
Trusts(n, manifest, asset, rail, at) ==
    /\ Row(n, manifest)
    /\ BindingHoldsAt(BindingTo(manifest), manifest, asset, rail, at)

-----------------------------------------------------------------------------
Idle == [phase |-> "idle"]

ExchangeInit ==
    /\ tables = [n \in Nodes |-> {}]
    /\ workflow = [c \in Callers |-> Idle]
    /\ links = {}
    /\ replies = {}
    /\ now = 0

(* activateNode up to its first await: the time and the newest descriptor  *)
(* are read before the key is awaited.                                     *)
Activating(c, op, roles, form) ==
    [phase |-> "activating", op |-> op, roles |-> roles, form |-> form,
     at |-> now, seen |-> Latest(Home[c])]

Starts(c, op) ==
    /\ workflow[c] = Idle
    /\ op \in Work[c]
    /\ Cardinality(OwnRecords(Home[c])) < MaxSigned[Home[c]]

DefaultRoles == {"merchant", "payer"}

ActivateNode(c, roles) ==
    /\ Starts(c, "activate")
    /\ workflow' = [workflow EXCEPT ![c] = Activating(c, "activate", roles, <<>>)]
    /\ UNCHANGED <<tables, links, replies, now>>

CreateBitcoinPayLink(c, form) ==
    /\ Starts(c, "create")
    /\ ValidTerms(form.destination, form.amount)
    /\ ValidPurpose([note |-> form.note, reply_to |-> "offline"])
    /\ workflow' = [workflow EXCEPT ![c] = Activating(c, "create", DefaultRoles, form)]
    /\ UNCHANGED <<tables, links, replies, now>>

OfferOf(link) == <<link.descriptor, link.manifest, link.request>>

File(text, carrier) == [text |-> text, carrier |-> carrier]

(* A file that reaches a node: one that was handed out, or the same text   *)
(* reformatted, or with another note or another public manifest in it.     *)
Delivered ==
    {File(text, a) : text \in {"canonical", "other"}, a \in links}
      \cup {File("canonical", [a EXCEPT !.purpose.note = t]) :
               a \in links, t \in Notes \cup {NoNote}}
      \cup UNION {{File("canonical", [a EXCEPT !.manifest = row.record]) :
                      row \in {x \in tables[n] : /\ x.record.schema = "asset_trust_manifest"
                                                 /\ x.record.disclosure = "public"}} :
                    a \in links, n \in Nodes}

Offered(n, file) ==
    /\ ReadableLink(file)
    /\ VerifiedLink(file.carrier, now, NoRecord)
    /\ BitcoinOffer(file.carrier)
    /\ ~BatchRefused(n, OfferOf(file.carrier), "remote")

(* importPayLink stores the offer and answers with what it says. *)
ImportPayLink(n, file) ==
    /\ Offered(n, file)
    /\ tables' = [tables EXCEPT ![n] = BatchStored(n, OfferOf(file.carrier), "remote")]
    /\ UNCHANGED <<workflow, links, replies, now>>

(* acceptBitcoinPayLink up to its first await: the offer is verified and  *)
(* stored, the payer's own side of the terms parsed.                      *)
AcceptBitcoinPayLink(c, file, form) ==
    /\ Starts(c, "accept")
    /\ ValidAddress(form.source)
    /\ ValidMaxFee(form.max_fee)
    /\ Offered(Home[c], file)
    /\ tables' = [tables EXCEPT ![Home[c]] =
                    BatchStored(Home[c], OfferOf(file.carrier), "remote")]
    /\ workflow' = [workflow EXCEPT ![c] =
                   Activating(c, "accept", DefaultRoles,
                              [link |-> file.carrier, source |-> form.source,
                               max_fee |-> form.max_fee, accepted_at |-> now])]
    /\ UNCHANGED <<links, replies, now>>

-----------------------------------------------------------------------------
(* What follows an await. *)

(* assertExistingIntentMatches, the manifest the intent itself names, and  *)
(* the whole acceptance verified once more: handed out, or an error.       *)
AcceptanceOf(link, intent) ==
    [link |-> link, intent |-> intent,
     manifest |-> intent.payment_asset_trust.manifest_record]

Matches(intent, form) ==
    /\ intent.source_account = ParsedAddress(form.source)
    /\ intent.fee_asset_id = BitcoinAsset
    /\ intent.max_fee_atomic = form.max_fee

Answered(n, form, intent) ==
    LET reply == AcceptanceOf(form.link, intent) IN
    IF /\ Matches(intent, form)
       /\ VerifiedReply(reply, now, form.link.request.authority.key_id)
      THEN {reply}
      ELSE {}

ReusesSeen(n, x) ==
    /\ x.seen # NoRecord
    /\ x.seen.authority.key_id = KeyId(n)
    /\ x.seen.roles = x.roles
    /\ ActiveAt(x.seen, x.at)

(* activateNode after its awaits: keep the descriptor seen then, or append  *)
(* one issued then; and on to the caller's next await.                      *)
Activated(c) ==
    LET n == Home[c]
        x == workflow[c]
        descriptor == IF ReusesSeen(n, x) THEN x.seen ELSE NewDescriptor(n, x.roles, x.at)
        before == IF x.op = "accept" THEN IntentsOn(n, x.form.link.request) ELSE {}
    IN  /\ x.phase = "activating"
        /\ tables' = [tables EXCEPT ![n] = Appended(n, @, descriptor, "local")]
        /\ IF x.op = "activate" \/ before # {}
             THEN workflow' = [workflow EXCEPT ![c] = Idle]
             ELSE workflow' = [workflow EXCEPT ![c] =
                              [phase |-> "manifest", op |-> x.op, form |-> x.form,
                               at |-> now, descriptor |-> descriptor]]
        /\ replies' = replies \cup UNION {Answered(n, x.form, i) : i \in before}
        /\ UNCHANGED <<links, now>>

(* Mutant of ManifestAppended: the payer's manifest keeps the default audience, itself. *)
ManifestAppendedForSelf(c) ==
    LET n == Home[c]
        x == workflow[c]
        manifest == IF x.op = "create"
                      THEN NewManifest(n, Public, "public", x.at, x.at)
                      ELSE NewManifest(n, KeyId(n), "private", x.form.accepted_at, x.at)
    IN  /\ x.phase = "manifest"
        /\ tables' = [tables EXCEPT ![n] = Appended(n, @, manifest, "local")]
        /\ workflow' = [workflow EXCEPT ![c] =
                       [phase |-> "checking", op |-> x.op, form |-> x.form, at |-> now,
                        descriptor |-> x.descriptor, manifest |-> manifest]]
        /\ UNCHANGED <<links, replies, now>>

(* createAssetTrustManifest after its await; the time of the record to     *)
(* come is read at once.                                                   *)
ManifestAppended(c) ==
    LET n == Home[c]
        x == workflow[c]
        manifest == IF x.op = "create"
                      THEN NewManifest(n, Public, "public", x.at, x.at)
                      ELSE NewManifest(n, x.form.link.request.authority.key_id,
                                       "private", x.form.accepted_at, x.at)
    IN  /\ x.phase = "manifest"
        /\ tables' = [tables EXCEPT ![n] = Appended(n, @, manifest, "local")]
        /\ workflow' = [workflow EXCEPT ![c] =
                       [phase |-> "checking", op |-> x.op, form |-> x.form, at |-> now,
                        descriptor |-> x.descriptor, manifest |-> manifest]]
        /\ UNCHANGED <<links, replies, now>>

(* createPaymentRequest between its awaits: the newest descriptor, which  *)
(* need not be the one this call activated, becomes the parent.           *)
RequestChecked(c) ==
    LET n == Home[c]
        x == workflow[c]
    IN  /\ x.phase = "checking" /\ x.op = "create"
        /\ IF /\ CanSign(n, "merchant", x.at)
              /\ Trusts(n, x.manifest, BitcoinAsset, Rail, x.at)
             THEN workflow' = [workflow EXCEPT ![c] =
                              [phase |-> "signing", op |-> "create", form |-> x.form,
                               at |-> x.at, descriptor |-> x.descriptor,
                               manifest |-> x.manifest, parent |-> Latest(n)]]
             ELSE workflow' = [workflow EXCEPT ![c] = Idle]
        /\ UNCHANGED <<tables, links, replies, now>>

(* The request is stored; the link is handed out only if it still verifies. *)
RequestAppended(c) ==
    LET n == Home[c]
        x == workflow[c]
        request == NewRequest(n, x.form, x.parent, x.manifest, x.at)
        link == [purpose |-> [note |-> x.form.note, reply_to |-> "offline"],
                 descriptor |-> x.descriptor, manifest |-> x.manifest,
                 request |-> request]
        fits == RefusalAt(n, tables[n], request, "local") = "none"
    IN  /\ x.phase = "signing" /\ x.op = "create"
        /\ tables' = IF fits THEN [tables EXCEPT ![n] = Appended(n, @, request, "local")]
                    ELSE tables
        /\ links' = IF fits /\ VerifiedLink(link, now, NoRecord) /\ BitcoinOffer(link)
                      THEN links \cup {link}
                      ELSE links
        /\ workflow' = [workflow EXCEPT ![c] = Idle]
        /\ UNCHANGED <<replies, now>>

(* createPaymentIntent between its awaits: the request must still be       *)
(* active at the time read before; its ancestors are not asked again.      *)
IntentChecked(c) ==
    LET n == Home[c]
        x == workflow[c]
        request == x.form.link.request
    IN  /\ x.phase = "checking" /\ x.op = "accept"
        /\ IF /\ CanSign(n, "payer", x.at)
              /\ Row(n, request)
              /\ VerifiedAt(request, x.at)
              /\ Trusts(n, x.manifest, request.asset_id, request.rail, x.at)
             THEN workflow' = [workflow EXCEPT ![c] =
                              [phase |-> "signing", op |-> "accept", form |-> x.form,
                               at |-> x.at, manifest |-> x.manifest]]
             ELSE workflow' = [workflow EXCEPT ![c] = Idle]
        /\ UNCHANGED <<tables, links, replies, now>>

(* Mutant of IntentAppended: the loser of a race hands out the intent it signed. *)
IntentAppendedBlind(c) ==
    LET n == Home[c]
        x == workflow[c]
        intent == NewIntent(n, x.form, x.form.link.request, x.manifest, x.at)
        refusal == RefusalAt(n, tables[n], intent, "local")
    IN  /\ x.phase = "signing" /\ x.op = "accept"
        /\ tables' = IF refusal = "none"
                      THEN [tables EXCEPT ![n] = Appended(n, @, intent, "local")]
                      ELSE tables
        /\ replies' = replies \cup Answered(n, x.form, intent)
        /\ workflow' = [workflow EXCEPT ![c] = Idle]
        /\ UNCHANGED <<links, now>>

(* The intent is stored, or another call of this node was first and its    *)
(* intent is the one to hand out; any other refusal is thrown.             *)
IntentAppended(c) ==
    LET n == Home[c]
        x == workflow[c]
        intent == NewIntent(n, x.form, x.form.link.request, x.manifest, x.at)
        refusal == RefusalAt(n, tables[n], intent, "local")
        answer == IF refusal = "none" THEN {intent}
                  ELSE IF refusal = "TRANSITION_CONFLICT"
                    THEN IntentsOn(n, x.form.link.request)
                  ELSE {}
    IN  /\ x.phase = "signing" /\ x.op = "accept"
        /\ tables' = IF refusal = "none"
                      THEN [tables EXCEPT ![n] = Appended(n, @, intent, "local")]
                      ELSE tables
        /\ replies' = replies \cup UNION {Answered(n, x.form, i) : i \in answer}
        /\ workflow' = [workflow EXCEPT ![c] = Idle]
        /\ UNCHANGED <<links, now>>

-----------------------------------------------------------------------------
AcceptanceRecords(reply) ==
    <<reply.link.descriptor, reply.link.manifest, reply.link.request,
      reply.manifest, reply.intent>>

(* importPayLinkAcceptance is one turn of the merchant's event loop. *)
ImportPayLinkAcceptance(n, reply) ==
    /\ ReadableReply(File("canonical", reply))
    /\ Latest(n) # NoRecord
    /\ VerifiedReply(reply, now, Latest(n).authority.key_id)
    /\ ~BatchRefused(n, AcceptanceRecords(reply), "remote")
    /\ tables' = [tables EXCEPT ![n] = BatchStored(n, AcceptanceRecords(reply), "remote")]
    /\ UNCHANGED <<workflow, links, replies, now>>

(* The process of a node dies with every call it serves; what they        *)
(* appended stays.                                                         *)
NodeCrash(n) ==
    /\ \E c \in Callers : Home[c] = n /\ workflow[c] # Idle
    /\ workflow' = [c \in Callers |-> IF Home[c] = n THEN Idle ELSE workflow[c]]
    /\ UNCHANGED <<tables, links, replies, now>>

Tick ==
    /\ now < MaxTime
    /\ now' = now + 1
    /\ UNCHANGED <<tables, workflow, links, replies>>

ExchangeNext ==
    \/ \E c \in Callers, roles \in RoleChoices : ActivateNode(c, roles)
    \/ \E c \in Callers, d \in Destinations, a \in Amounts, t \in Notes :
           CreateBitcoinPayLink(c, [destination |-> d, amount |-> a, note |-> t])
    \/ \E c \in Callers, file \in Delivered, s \in SourceAccounts, f \in Fees :
           AcceptBitcoinPayLink(c, file, [source |-> s, max_fee |-> f])
    \/ \E c \in Callers :
           \/ Activated(c)
           \/ ManifestAppended(c)
           \/ RequestChecked(c)
           \/ RequestAppended(c)
           \/ IntentChecked(c)
           \/ IntentAppended(c)
    \/ \E n \in Nodes : NodeCrash(n)
    \/ \E n \in Nodes, file \in Delivered : ImportPayLink(n, file)
    \/ \E n \in Nodes, reply \in replies : ImportPayLinkAcceptance(n, reply)
    \/ Tick

ExchangeSpec == ExchangeInit /\ [][ExchangeNext]_exchangeVars

-----------------------------------------------------------------------------
Phases == {"idle", "activating", "manifest", "checking", "signing"}

(* Rows are records under some door, only a node's own filed as its own,   *)
(* calls are in a known phase, and what is handed out is a whole carrier.  *)
ExchangeTypeOK ==
    /\ \A n \in Nodes : \A row \in tables[n] :
           /\ DOMAIN row = {"record", "source", "rank"}
           /\ row.source \in {"local", "remote"}
           /\ row.record.schema \in Schemas
           /\ row.source = "local" => row.record.authority.public_key = n
    /\ \A c \in Callers : workflow[c].phase \in Phases
    /\ \A link \in links :
           DOMAIN link = {"purpose", "descriptor", "manifest", "request"}
    /\ \A reply \in replies : DOMAIN reply = {"link", "manifest", "intent"}
    /\ now \in 0..MaxTime

(* The merchant's import of a reply can only fail for want of space. *)
ImportsAt(n, reply) ==
    /\ ReadableReply(File("canonical", reply))
    /\ Latest(n) # NoRecord
    /\ VerifiedReply(reply, now, Latest(n).authority.key_id)
    /\ BatchAnswers(n, AcceptanceRecords(reply), "remote")
           \subseteq {"none", "REMOTE_LIMIT_EXCEEDED"}

(* An acceptance that was handed out is evidence for good: the node that   *)
(* made the offer takes it now and at every later time, first or repeated, *)
(* after the offer, the manifests and the intent itself have expired, and  *)
(* whatever else it has stored or activated since.                         *)
RepliesImport ==
    \A reply \in replies, n \in Nodes :
        KeyId(n) = reply.link.request.authority.key_id => ImportsAt(n, reply)

(* A payer's node answers one offer with one signed intent, in however     *)
(* many calls at once and after however many crashes; and what it answers  *)
(* is an offer as it was made, purpose, manifest and all.                  *)
OneAnswer ==
    /\ \A a, b \in replies :
           /\ a.link.request = b.link.request
           /\ a.intent.authority = b.intent.authority
           => a = b
    /\ \A reply \in replies : reply.link \in links

(* What the reply of this intent to that link would be, for its merchant. *)
Presentable(intent, link) ==
    VerifiedReply(AcceptanceOf(link, intent), now, link.request.authority.key_id)

(* createPaymentIntent asks only whether the request is active, the        *)
(* acceptance asks for the descriptor and the manifest as well.  So a      *)
(* signed intent that no acceptance can ever carry exists, and only if     *)
(* the offer's descriptor or manifest ran out while the payer signed.      *)
StrandedOnlyByExpiry ==
    \A n \in Nodes : \A row \in OwnRecords(n) :
        row.record.schema = "payment_intent" =>
            \E link \in links :
                /\ link.request = row.record.parent
                /\ \/ Presentable(row.record, link)
                   \/ row.record.issued_at >= link.descriptor.expires_at
                   \/ row.record.issued_at >= link.manifest.expires_at

=============================================================================
