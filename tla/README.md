# CashLoom in TLA+

Models, model-checking runs and machine-checked proofs of the part of CashLoom
that moves and records money: the *sovereign* node (`sovereign/src`), one Bun
process, or several on one machine, over one SQLite file; and of the view of its
interface (`sovereign/ui`) in which a person confirms a payment.

Paths below are relative to `sovereign/src`. `PROJECT.json` holds the same
inventory in a form for tools: every definition with the lines it models, every
run with its properties, the hazards and the theorems.

## 1. The system

CashLoom is non-custodial: it keeps a local ledger, reads the user's rails
through read-only connectors, and, when the user confirms, signs with a locally
sealed key and broadcasts once. Everything durable is a row of the SQLite file
(WAL mode; writers are serialised by `BEGIN IMMEDIATE`). Everything else - a
pending HTTP request, an unlocked vault, a value read before an `await` - is
lost when the process dies, and goes stale whenever another request, or
another process on the same file, runs in between.

| Component | State | Operations | Interaction | What makes it correct |
| --- | --- | --- | --- | --- |
| Payment rite, `pay.ts` | `payments`, `transactions` | `quotePayment`, `confirmPayment` | calls a sender; a sender writes back through `onSigned` | a payment leaves at most once; its row says what may have left |
| Bitcoin sender, `senders/btc.sender.ts` | none of its own: the `detail` of payments rows | `quote`, `send` | reads `payments` for reservations, an Esplora indexer, the vault | no coin in two transactions |
| EVM sender, `senders/evm.sender.ts`, `evm-nonce.ts` | `evm_nonce_reservations`, `evm_signed_transactions` | `quote`, `send`, six transitions | an RPC node, the vault, `payments` | no nonce in two transactions, no nonce skipped |
| Ledger sync, `sync.ts`, `connectors/*` | `transactions`, the balance columns of `accounts` | `syncAccount` | a connector; shares `transactions` with the payment rite and with rows added by hand | no transaction of the rail is lost or doubled |
| Stripe Checkout, `processors/stripe-checkout.ts` | `stripe_checkout_operations`, `stripe_webhook_inbox` | create, webhook ingest | Stripe, through answers and webhooks in any order | an operation is submitted once; a payment that was reported stays reported |
| Record store, `protocol/v2/record-store.ts` | records, edges, usage | `append`, `appendBatch`, reads | every v2 service; a peer's records | chains verify end to end, one successor per parent, an exact budget, batches whole or not at all |
| Signed records, `records.ts`, `asset-trust.ts`, `bitcoin-profile.ts` | none | parse, verify, link | everything of v2 | one interpretation of a record, a manifest and a chain |
| Node authority, `node-authority.ts`, `local-service.ts` | the sealed node key, records; a cached authority per process | activate, sign, create request, intent and commitment | vault, record store | one key per node, whichever process is first |
| Pay links, `protocol/v2/pay-link*.ts` | records; two files that travel by hand | create, accept, import both ways | two nodes, a person between them | one answer per offer; an answer stays importable |
| Record transport, `protocol/v2/transport.ts` | none | one POST, one GET | no caller in the repository | |
| Bitcoin execution, `pay/bitcoin-pay-link.ts` | `cashloom_v2_btc_payment_bindings` | prepare, confirm, status | payment rite, record store | one payment per intent; a reported outcome is final |
| Agent pay, `pay/agent-pay.ts`, `host-authority.ts` | authorizations, usage, wallet state | authorize | vault, the agent's signed records | limits hold at the instant of recording |
| Vault, `vault.ts` | salt and verifier, `vault_keys`; an unlocked key and sessions per process | initialize, unlock, lock, add a key, sign | everything that signs | no sealed key is orphaned |
| Pay Links view, `ui/src/views/PayLinks.tsx` | React state, a recovery marker in `sessionStorage` | accept, prepare, confirm, recover, forget | the execution's routes over HTTP | an unresolved confirmation can be found again; a final outcome is the node's |
| Information doors, MCP server, other views | caches | reads, forms | public data | nothing durable |

The hard behaviours are of five kinds: a value read before an `await` and used
after it (coins, nonces, limits, windows); several requests and processes over
one file; a crash between two durable writes; an answer of the network that
never arrives, or a file that arrives late, twice or damaged; and state shared by
components that do not know of each other (the sync window and the payment rows,
two processes over one vault, a view that was left and the one that replaced it).

## 2. Modules

| Module | Models | Run by | Proofs |
| --- | --- | --- | --- |
| `PaymentRite` | the abstract promise of `pay.ts`: quoted, claimed by one, then void or sent once over exclusive slots, then settled | refined by both rails | |
| `BtcRail` | `quotePayment` and `confirmPayment` on the Bitcoin sender | `MCBtcRail` | `BtcRailProofs` |
| `EvmRail` | `confirmPayment` on the EVM sender and its nonce reservations | `MCEvmRail` | `EvmRailProofs` |
| `LedgerSync` | `syncAccount`, the connector's window, paging and depth, and the other writers of the table | `MCLedgerSync` | `LedgerSyncProofs` |
| `StripeCheckout` | create and webhook ingest of the processor | `MCStripeCheckout` | `StripeCheckoutProofs` |
| `IntentConsent` | the abstract promise of a signed intent: bound, committed, claimed, spent, each once; or closed with nothing sent | refined by the next | |
| `PayLinkExecution` | prepare, confirm and status of `bitcoin-pay-link.ts`, the bound claim, `createExecutionCommitment` | `MCPayLinkExecution` | `PayLinkExecutionProofs` |
| `AssetTrust` | which manifests and policies parse, which manifest a policy accepts | extended by `Records` | in `RecordProofs` |
| `Records` | which records verify, when, which edges link, which six are a chain | extended by the next | in `RecordProofs` |
| `RecordTables` | what one append decides over a table, and the reads | extended by `RecordStore`, instantiated per node by `PayLinkExchange` | in `RecordProofs` |
| `RecordStore` | `append` and `appendBatch` of several handles of one file | `MCRecordStore` | `RecordProofs` |
| `PayLinkCarrier` | the Bitcoin profile and the two files: which read, which verify | extended by the next | in `RecordProofs` |
| `PayLinkExchange` | the pay-link service of a merchant's and a payer's node | `MCPayLinkExchange` | `RecordProofs` |
| `AgentUsage` | the agent tables: the gate and the reservation | extended by the next | in `CustodyProofs` |
| `Custody` | vault, node authority, host authority and agent pay of several processes | `MCCustody` | `CustodyProofs` |
| `PayLinkView` | the payment part of the Pay Links view in one tab | `MCPayLinkView` | `PayLinkViewProofs` |

### BtcRail and EvmRail

`row` is the `payments` table, one identity per quote call. `caller` is the set
of `confirmPayment` calls in progress: the stage of a call is the `await` (or
the pair of statements) at which it is suspended, so every interleaving of two
requests, in one process or two, is a behaviour. `Crash(c)` drops a call at any
stage; rows stay. `posts` counts the requests that left for the network and is
what the safety properties are about.

In `BtcRail` the claim transaction is split over its outcomes (`ClaimLost`,
`ClaimExpired`, `ClaimRolledBack`, `Claim`); each is one step because the
transaction is `BEGIN IMMEDIATE` over a fresh read. A quote is two steps,
`QuoteStart` (reads the reservations) and `QuotePersist` (inserts the row), with
the indexer's answer in between: that window is where two quotes select one
coin. `raced` is a history variable: the pairs of payments whose quote calls
overlapped.

In `EvmRail` the claim is one step, because `BtcRail` already has its parts,
and the space goes to the reservation: `GetPendingNonce` may read any count up
to the chain's, `ReserveNonce` is the scan of `reserveEvmNonce`, and every later
transition of `evm-nonce.ts` is one action, beside the same transition failing.
`TakeOurs` and `TakeOther` are the chain. A reservation whose release failed, or whose
call died, holds its nonce for good, and what comes later waits behind it: the
model reaches that state, and `NoSkippedNonce` counts such a nonce as reserved.

`PaymentRite` is implemented by both, through a mapping from the row's status
and `posts` to a phase and from coins, or the nonce, to the slots a dispatched
payment used.

### LedgerSync

`entry` is the `transactions` table by external id, `manual` the dates of the
rows without one. The rail books a transaction (`Book`) and makes it importable
at most `MaxLag` later (`Deepen`, which `Tick` waits for). A sync call computes
its window from the newest row, lists the newest `Ceiling` transactions, keeps
those deep enough and inside the window, inserts them one at a time and dies
anywhere. `passed` is a history variable: why a fetch passed over a transaction.

### StripeCheckout

`operation` is `stripe_checkout_operations` by intent, `inbox` the disposition
each event got in `stripe_webhook_inbox`, `caller` the create calls in progress,
`submits` the requests that left. `session` is Stripe: a session carries a
`client_reference_id` and either matches the committed request or does not, and
it may have been created by another client of the connected account. Its events
(paid, completed without payment, expired) arrive once in the inbox, in any
order, before or after the answer of the create; a redelivery changes nothing
in the code and is not a step. The code re-reads the row in every transaction,
so `Persist` and `Apply` are single steps; between the end of a failed call and
`MarkSubmissionUnknown` other steps may happen, and the call may die.

### PayLinkExecution

`row` is the payments row together with its binding, which one transaction
inserts (`PrepareBind`; the binding's primary key makes a rival's transaction
roll back, quote and all). `commitments` is what the record store holds for the
intents. `caller` is a prepare or a confirm call, suspended at an `await`: for the
quote, for the compiled transaction, for the signature of the commitment, and in
`confirmPayment`. The claim is one transaction that reads its own clock, so
`Claim`, `ClaimExpired` and `ClaimRefused` are single steps. `Abandon` is the
process dying, or a call that throws having written nothing, at any stage.

`told` is a history variable: the final answers that confirm and status gave about
a payment. `Report` is a status query, or a confirm, of a claimed payment;
`ReportExpired` is a status query that finds the review out of its window. A
`not_sent` with any other reason (the account was archived, the descriptor lapsed)
promises nothing: the review may still be confirmed when the reason is gone
(`Restore`), and the model does not record it.

`btcSender.send` is reduced to what `BtcRail` shows of it: it fails with nothing
signed, or the txid is durable, one request leaves, and its answer is a success or
unknown. The account, the payload and the fee ceiling have one value each: a call
that finds them different is refused and changes nothing, which is `Abandon`.

`IntentConsent` is implemented through `Phase`: the phase of an intent is read off
its one payments row, its posts, its commitment and what has been told.

### AssetTrust, Records, RecordTables and RecordStore

The first three have no variables: they are the pure decisions the store and the
services are built from. A record is its own identifier (the hash of all its other
fields), a signature is the key it verifies under, an encoding is its length. What
is kept is every rule that relates two fields or two records: self-certifying
authorities, audiences, lifetimes, terms repeated from the parent, nonces, roles,
the manifest a binding names and the policy that must accept it.

In `RecordStore`, `rows` and `usage` are the committed tables, `draft` what the
open transaction sees, `writer` who holds it. A call verifies its records before
the transaction and decides everything else in it, record by record: `Replay`
(the exact record is there: nothing is inserted or charged), `Admit` or `Refuse`,
which throws the batch away. `Busy` is the busy timeout, `Crash` the death of a
handle's process at any point.

### PayLinkCarrier and PayLinkExchange

Each node has a record table and callers served by one event loop. An action runs
from one `await` to the next: an activation, an offer and an answer each await a
signature two or three times, and what they read before (the clock, the current
descriptor, an intent that was not there) is in `workflow` and may be stale after.
`links` and `replies` hold every file that was handed out; a delivery takes any of
them, at any node, any number of times, whole or damaged (`Delivered`). Refused
imports change nothing and are no steps. `ImportPayLinkAcceptance` and
`ImportPayLink` are one batch of remote records each, so they go through the
budget of the node. `NodeCrash` drops a node's calls; what they appended stays.

### AgentUsage and Custody

`Custody` is what processes on one file share: the two settings rows (`settings`),
`keys`, the agent `tables`; and what each has alone: `master`, `sessions`, `node`
(the cached authority and the promise in flight). A sealed blob is the passphrase
and salt whose derived key seals it. A job is one HTTP request; initialize awaits
the derivation and then writes salt and verifier one after the other
(`SaltStored`, `VerifierStored`: no other request of that process runs in between,
other processes and a crash do). Adding a key, signing, generating the node key,
generating the host key and attesting each capture the master key before an
`await`, so a lock in between does not stop them, as in the code. The agent gate
is read before the signature (`AuthorizeStart`) and again under the writer lock
(`Recorded`), over tables another process may have changed meanwhile; the clock is
not, so an authorization is judged by the time before its signature.

`racing` is a history variable: the initializations already deriving when the
first salt was stored. They are refused by nothing, since the check was made
before the `await`, and one that comes through replaces salt and verifier under
keys sealed by the first. That orphans them, and no property denies it:
`KeysStayOpenable` says that nothing else does, and that it holds until one of
those initializations stores its salt (`Clean`). What else the model shows of this code, and no document denies: a process that dies between
salt and verifier leaves a vault that refuses to be initialized and to be
unlocked (it holds no key yet); two host keys can be generated, since no index
makes the host's label unique; a process that dies after the agent's reservation
has committed loses the attestation, and the retry is refused as a replay.

### PayLinkView

`view` is the `useState` of the view, `prepare`, `confirm` and `status` its three
requests, `stored` the marker in `sessionStorage`; `node` what the node records of
each intent's payment, reduced to what `PayLinkExecution` promises of it (one
review per intent, claimed once, a final outcome stays). A request or its answer
may be lost. Pasting other terms makes what is in flight stale (`Discard`);
leaving the view unmounts it while its code still awaits (`ghosts`), a reload ends
it, and both read the marker back. The guards are the `disabled` conditions of the
buttons together with the early returns of their handlers.

`open` is a history variable: the payments confirmed from this tab whose outcome
was neither shown nor given up by `Forget`. When a prepare of a view that was left
is answered late it puts its own marker over that of an unresolved confirmation
(`GhostPrepared`): the generation counter that makes other late answers harmless is
not consulted before the marker is stored. `replaced` records whose marker storage
lost that way, `dropped` which of them the next mount therefore comes without, and
both are reset by another confirmation of that payment. The property says that no
marker is lost in another way, and none by the view that shows it.

## 3. Runs

| Run | Bounds | Shows |
| --- | --- | --- |
| `btc_rail` | 2 payments, 2 coins, 3 confirmations, TTL 1, clock 3 | the safety of the rail and that it implements the rite |
| `btc_conflict` | 2 payments, 1 coin, 2 confirmations | *violated*: the check before signing also refuses coins of a row that was never signed |
| `evm_rail` | 3 payments, 2 confirmations, last nonce 2, 1 foreign transaction | nonces and rows agree with the wire |
| `ledger_sync` | 2 transactions (1 our own), 2 sync calls, overlap 1, lookback 2, lag 1, 1 transaction per fetch, clock 3 | what a sync can lose, and that nothing else is lost |
| `ledger_shallow` | as above, 1 sync call, no manual rows, 2 per fetch, clock 4 | *violated*: a transaction skipped for its depth may never import |
| `ledger_ceiling` | no payments of our own, 1 per fetch, clock 4 | *violated*: what the page ceiling cut off may never be asked for |
| `stripe_checkout` | 2 intents, 2 sessions, 2 create calls | one request per intent; one session per row; the status is what the applied events say |
| `pay_link_execution` | 1 intent, 2 quotes, 3 calls, quote TTL 2, intent ending at 1, 2 or 3, clock 3 | one payment and one commitment per intent; recovery finds its evidence; answers stay true; the consent is used once |
| `record_store` | 2 handles, a remote budget of 3 records or 4 bytes, 18 calls of one record and 6 batches: valid, replayed, rival, mislinked, late, forged, private to another node, over budget | ancestry, chains, successors, nonces, budget and batches hold |
| `pay_link_exchange` | 1 shop that offers while it is activated again, 1 buyer with 2 calls on one offer, clock 2, offers valid for 2, manifests and intents for 1, symmetric calls | one answer per offer, and it stays importable |
| `custody` | 2 processes, 5 requests, 2 passphrases, 1 crash or lock, clock 1, 2 requests of one grant that fit alone and not together and one that revokes it, 1 row from before the usage table | what two processes can do to one vault, one node and one grant |
| `pay_link_view` | 2 intents, 1 leave or reload, any number of requests, losses, pastes and questions | the marker survives; the outcome is shown in the end |

Why the bounds are enough. Two payments are what it takes to share a coin, and
three confirmations are two rivals on one payment beside one on the other. Three
nonces let a reservation be released and reused while another is held above it,
and the third finds no integer left when another wallet has taken one. The clock
of `btc_rail` reaches past one whole TTL after a second quote; that of
`ledger_sync` reaches the first date that lies beyond both the overlap and the
lookback. Two sessions that
name one intent are what it takes to bind a row to the wrong one. Three calls on one intent are
two rivals in prepare or confirm and one more that comes after, and an intent that
ends before, with or after its quote gives both orders of the two deadlines.
The offers of `record_store` make both a whole chain of six and each way to break
it, one at a time, and the budget is met by the third remote record in one order of
delivery and by the bytes of a commitment in another. Two calls of the buyer are
what it takes to answer an offer twice, a second activation what it takes for the
descriptor of an offer to be replaced while it waits, and a manifest that lives for
one tick runs out while the payer signs. Two processes and two passphrases are what
it takes to orphan a key, two of everything on process A (three requests) to wait
for one promise, and the revoking request shares its nonce with one it revokes. Two
intents are what it takes to put one marker over another, and one departure to make
a ghost.

The proofs remove the bounds for every safety property of every passing run; only
the liveness of the view rests on the bounds of its run.

Deadlock checking is on for `record_store` and `pay_link_view`, where something can
always be asked for again, and off in the other runs: there the calls are a fixed
set, each returns, and the system really may stop.

Only `pay_link_view` assumes fairness. `WF(Settled)`: a `fetch` of prepare or
confirm settles, with an answer or an error, and React runs the code after it.
`SF(Ask)`: a person who has not been told the outcome keeps asking whenever the
button can be clicked; the code does not ask by itself. `SF(NodeTells)` and
`SF(Told)`: of the questions asked again and again some reach the node and some
answers come back (a connection that is lost for ever promises nothing). Nothing is
assumed of the person otherwise, of `Discard`, or of the node's own progress: the
property starts from an outcome the node has. Under this fairness `OutcomeIsShown`
fails as soon as a cancelled question leaves its button disabled, which is its
mutant. No other run has a liveness property, because the code has no recovery
loop: a payment left `confirmed` stays so.

Each property of a passing run has a *mutant*: a definition of the module
changed the way a bug would change the code, defined beside the original, which
the run then finds violated.

### What the violations say

* `btc_conflict`. The comment over `reservedOutpoints` says that `send()` checks
  signed-or-broadcast rows, so that racing quotes do not deadlock each other.
  The code passes `["confirmed", "broadcast"]`, and a row is `confirmed` from
  its claim on. Two claims that race can refuse each other; both fail and nothing
  is signed. A call that dies after its claim holds its coins for good.
* `ledger_shallow`. A skipped transaction is imported later only if no row dated
  more than three days after it exists by then. A payment's own row is such a row.
* `ledger_ceiling`. The rows a truncated fetch did return move the next window
  past those it did not.

`ledger_sync` states the other side: a transaction is lost for one of five
reasons (behind a payment's or a manual row, before the first look-back, beyond
the ceiling, or in an import that died half way) and for no other, so the
three-day overlap does its work whatever sync calls overlap.

## 4. Proofs

All theorems hold for every value of the constants that meets the named
assumptions of the module (`NoPayment` is not a payment; the bounds are natural
numbers). No set is assumed finite except the coins and the agents' rows from before
the usage table. Two assumptions say more, and where the code has it from:
`LegacyAssumption` that the rows from before the usage table are finitely many, in an
order, and each has its spend (`agent_authorizations` has no row without), and
`RecordsAssumption` that what a node signs itself is admissible as a record: the
default validity of each kind (`local-service.ts`) is at most what `records.ts`
admits of its schema, a record a node composes fits the size limit, five of them
fit a reply, and no key's identifier is `null` or the public audience.

`BtcRailProofs`. None of the safety properties is inductive: whether a step may
post depends on which call owns the payment and how far it got. The invariant
`IInv` adds `OneOwner` (at most one call past the claim per payment),
`OwnerRow` (the row and `posts` of a call's payment, by stage), `RowHistory`
and `GuardedDisjoint` (of all payments past the check before signing, no two
share a coin). The last is where the order of claim and check matters: a payment
that passes the check found every other `confirmed` row disjoint, and a payment
past it is itself `confirmed`. `NoCoinSpentTwice`, `OnePost`,
`SentStaysReconcilable` and `FailedStaysUnsigned` follow from `IInv` (the last,
that a failed row never left, is not among the run's properties);
`RailImplementsRite` shows each step maps to a step of `PaymentRite` or a stutter;
`SerialQuotesNeverCollide` has an invariant of its own (`OfferClear`: what a quote
in flight may select avoids every live payment it did not race);
`RowsFollowTheRite` is an action property: which status may follow which.

`EvmRailProofs`. The same shape. One lemma, `LocalStep`, carries the ownership
half: a step that touches one payment and the call that owns it preserves the
invariant if the two still agree. `NonceExclusive`, `NoSkippedNonce` and
`PendingIsPast` (a count once read is never ahead of the chain) carry the other.
`SignedNonceStays` and `ReservationsFollowTheirRite` are action properties of the
two tables.

`StripeCheckoutProofs`. `OneCall` (only the call that inserted a row works for
its intent), `BoundRow` (a row is bound to a session of its own intent, and to
that session's payment), `EventRow` and `RefusedElsewhere` (a matching paid event
is refused only by a row bound to another session) make the invariants
inductive; `RowBoundOnce` is the theorem of what an applied event is bound to. `Sticky` is the hinge: no step removes a row, changes an identifier
once recorded, or changes a session, so what an event was judged by still holds.

`PayLinkExecutionProofs`. `CallInv` (what a call past each `await` knows of its
payment: that it is bound to the call's intent, committed once the call is in
`confirmPayment`, and how far the row got once it is claimed), `OneOwner`, `RowInv`
(what a row says of the wire), `ToldInv` (what was told is still what the row and
the clock say) and `CommitmentInv` make the four invariants inductive. The proof
goes through a table, `PaymentStep`: every step writes to, or tells about, at most
one payment, in one of seven ways. `RowSticks` and `WindowSticks` are its hinge: a
row keeps its intent and its window, so a commitment once exact stays exact. The
refinement of `IntentConsent` reads each line of the table as one abstract step or
a stutter (`PhaseMoves`); `AnswersStay` is where the claim's own clock matters, for
a quoted row that was told to have expired can no longer be claimed.

`LedgerSyncProofs`. A transaction is lost when a window moves past it, and the
newest row of any other transaction moves the window. The invariant says that no
window can: `ImportsCovered` (what lies a whole overlap behind an imported
transaction is recorded, about to be, or lost for a named reason) and
`WindowsCovered` (so is what lies before the start of a window), with `Dated` for
the dates they compare. The newest row is a maximum, which exists because the dates
by hand are bounded (`ManualBounded`); it is obtained from the well-founded minimum
of the distances to that bound. The bound on the rail's lateness against the overlap
is an assumption of the module, and the theorem is where it is used.

`RecordProofs`, the store. It checks one edge at a time and never a chain. `Sound`
says what is true of the committed tables and of the draft alike: records verify,
edges link, one row per record, nonces distinct, successors single, the count and
the bytes exact and within the limits. `SoundChains` then follows a settlement up
five edges: `verifyV2RecordChain` compares ends that no edge compares, and the
lemmas show that the edges force them. `BatchesAreAtomic` has an invariant of its
own (`DraftInv`: the draft is the committed rows and the part of the batch already
admitted). `FailClosedLeavesNothingOpen` is about the pure policy: what the one
policy in use accepts discloses everything.

Sums. The bytes of a budget and the spends of a grant are sums over a set, which
the modules define by a fold. Its induction is made by hand, without an operator as
a parameter: `Totals` says that a function on the subsets of a finite set unfolds
as the fold does, `TotalsExist` that there is one, and what holds of it
(`TotalsNat`, `TotalsAgree`, `TotalsSplit`: any element may be taken out first)
is proved from a counterexample with the fewest elements (`SmallestSubset`). From
these `BytesAdd` and its likes say that one row more adds what it weighs.

`RecordProofs`, the exchange. `ExchangeInv` has five parts.

* `OwnInv`: what a node signed carries its own authority, a nonce no greater than
  the number of its records and no nonce twice, is not from the future, and holds
  at most one intent per request. (The nonce of the code is random; that of the
  model is the next number at the append, which is what "never repeats" needs.)
* `RowsInv`: every row of every table is a record some node signed and stored
  itself (`Authentic`), filed as local at its author and as remote elsewhere. So
  two tables cannot disagree about a record, and nonce conflicts between nodes
  cannot happen.
* `LinkInv`: a link is sealed; request, descriptor, manifest and purpose bind each
  other, so whoever holds the request knows the whole link (`DeliveredIsLink`:
  what was damaged on the way and still verifies is one that was handed out).
* `ReplyInv`: a reply verifies for its merchant. Its records are checked at the
  time of the intent and not at that of the import, so this stays true
  (`ReplyStays`).
* `WorkInv`: what a call carries across its `await` was true when it was read and
  is of the kind that stays true: signed records stay signed, a form stays
  verified at its time of acceptance.

`Onward` is the hinge: no step takes back a record, a link or the time, and then
everything but the acting call's own part stays (`Moves`); each action owes only
what it adds. `OneIntentPerOffer` is the append: the check that no intent exists is
made before the signature and stale after it, and `Rival` refuses the second inside
the transaction. `IntentsStrandOnlyByExpiry` is where the service asks less at the
signature (`IntentReady`) than the reply will need: the proof shows that the two
times of the descriptor and of the manifest are all that is missing (`Presents`).
`EvidenceForGood` follows the five appends of an import over any table that has
grown from the merchant's by other records (`Grown`), and at each excludes every
refusal but the one for space (`OnlyForSpace`).

A second invariant, `TablesInv`, carries over to the exchange what `RecordStore`
promises of one table. `Lawful`: every record a node signs verifies, links to its
parent and is of a kind the exchange appends. `Settled`: a table holds the parent
of every row, private records only at their issuer or their audience, and no more
from outside than its budget. `Asked`: what a call across its `await` still means
to sign was checked when it was read. From it `EveryTableIsAStore`: at every node,
after any history of calls and deliveries. It also closes two gaps the model
could have had: an append in `PayLinkExchange` leaves out the verification that
`append()` repeats, which the theorem shows would pass, and `Activated` and
`ManifestAppended` have no branch for a refusal, which `OwnRootsAreNeverRefused`
shows cannot come, although what they append was composed from a table read
before an `await`. Two assumptions of `ExchangeAssumption` are there for it: a
node is activated under one role or more (`.min(1)` in `router.ts`), and a budget
is a pair of natural numbers.

`CustodyProofs`. Requests meet only over the settings, the keys and the memory of
their process, so the invariant says of each what it carries across its `await`
(`Carries`, `Aligned`: a key that is still the verifier's, a verifier still the
stored one) and, as long as no racing initialization came through (`Clean`), that
keys, memory and verifier are of one seal (`OneVerifier`). `JobStep` is the lemma
for the steps that touch one request and no shared state. `NodeKeyIsOne` needs none
of this: whoever generates first, the index decides, and every later read finds
that row, because rows are never removed and no second one is inserted.
The agent tables have an invariant of their own, `GrantInv`, since nothing an agent
asks for changes what the vault holds: the usage row of a grant counts its
authorizations and sums up their spends (`UsageAgrees`), it is within the limits of
the one capability it was opened for (`Accounted`), and the wallet's epoch only
rises. `LimitsAlwaysHold` is about the rows themselves and not the running totals:
of each authorization, the rows up to it add up to no more than its capability
allows (`Covered`), because the total the code compared was their sum.

`PayLinkViewProofs`. Nothing in the view relates the marker to a request directly.
`Exclusive` says what the disabled buttons achieve: while a request is in flight,
its payment, the review and the marker stay the same; `Truthful` that an answer on
its way says what the node recorded; `Shown` and `Marked` are the property with the
case of a ghost in flight. `MarkerSurvives` needs no bound on departures, and holds
without any fairness.

Only model-checked: `OutcomeIsShown`, which is liveness under fairness and out of
the prover's reach. The three violated runs are counterexamples and have no theorem.
What is taken from the model and not proved: that two keys have two identifiers and
a hash one preimage (a record is its own identifier), and that both nodes of an
exchange read one clock.

## 5. Not modelled

* The record transport: one POST and one GET against a pinned origin, which nothing
  in the repository calls. What it would deliver is a remote `append`, which
  `RecordStore` has.
* Coin selection, fee arithmetic and transaction encoding (any nonempty choice of
  free coins stands for them); several chains or addresses at once; a Base node
  that evicts a transaction it counted; the balance columns of `accounts`.
* The parsing of providers' answers, and the paging of the connectors other than
  Esplora.
* Cryptography and encodings: canonical JSON, hashes, signatures, Argon2id and
  AES-256-GCM appear as "made by the holder of the key" and "opens with this
  passphrase and salt".
* The verification of an agent's four signed records, done by an external package
  before any state is read; the host's view of the limits is in `AgentUsage`.
* The information doors, the MCP server, and the views other than Pay Links: forms
  over one request each. `Pay.tsx` shows a confirmation whose answer was lost as a
  failure, whatever the node's row says.
* The sentence "nothing was signed" of a lapsed review (`PayLinks.tsx:1581`), which
  goes by the browser's clock alone; the model keeps no clock for the view.

## 6. What is left

In order of what could go wrong:

1. `Pay.tsx` beside the rails, and a composition of the view with
   `PayLinkExecution` in place of its summary of the node.
2. The record transport, once something calls it.
3. The other connectors, for which `LedgerSync` would need a page cursor.
