----------------------------- MODULE AgentUsage -----------------------------
(***************************************************************************)
(* What pay/agent-pay.ts keeps of the payments it authorized for agents:   *)
(* the authorizations, one state per wallet, one usage row per grant; and  *)
(* the transaction that reserves an intent in them.                        *)
(*                                                                         *)
(* A request stands for the four signed records of one call, verified:     *)
(* wallet and descriptor; the capability's record, grant, revocation       *)
(* epoch, limits and expiry; the intent's id, record, source, nonce and    *)
(* spends; the simulation's adapter.                                       *)
(***************************************************************************)
EXTENDS Integers, Sequences, FiniteSetsExt

CONSTANTS
    Requests,         \* the requests that can be made
    Assets,           \* what is spent
    TrustedAdapters,  \* trustedAdapterKeyIds: whose simulations count
    Unbound           \* the request of a row older than its exact bindings

Spends == [Assets -> Nat]

Nothing == [a \in Assets |-> 0]

(* A capability is one signed record: its limits and its epoch come with it. *)
ASSUME RequestsAssumption ==
    /\ Unbound \notin Requests
    /\ \A r, s \in Requests :
          /\ r.spends \in Spends /\ r.perIntent \in Spends /\ r.total \in Spends
          /\ r.count \in Nat /\ r.epoch \in Nat /\ r.expires \in Nat
          /\ r.capability = s.capability =>
                /\ r.wallet = s.wallet /\ r.grant = s.grant /\ r.epoch = s.epoch
                /\ r.count = s.count /\ r.total = s.total /\ r.perIntent = s.perIntent
                /\ r.expires = s.expires
          /\ r.record = s.record => r.intent = s.intent

NoTables(rows) == [rows |-> rows, wallets |-> <<>>, usage |-> <<>>]

(* trustedAdapterKeyIds: a simulation counts if its signer was named. *)
Trusted(r) == r.adapter \in TrustedAdapters

(* aggregateSpent: atomic amounts, asset by asset. *)
Plus(spent, more) == [a \in Assets |-> spent[a] + more[a]]

SpentBy(rows) == [a \in Assets |-> MapThenSumSet(LAMBDA row : row.spends[a], rows)]

RowsOf(t, grant) == {row \in t.rows : row.grant = grant}

(* A rotated descriptor, or a grant id another capability used, is refused. *)
Continuous(t, r) ==
    /\ r.wallet \in DOMAIN t.wallets => t.wallets[r.wallet].descriptor = r.descriptor
    /\ r.grant \in DOMAIN t.usage =>
          /\ t.usage[r.grant].wallet = r.wallet
          /\ t.usage[r.grant].capability = r.capability

(* The usage a request is measured against; rows written before the usage  *)
(* table existed are summed (legacyUsage).                                 *)
UsageContext(t, r) ==
    LET wallet == IF r.wallet \in DOMAIN t.wallets THEN t.wallets[r.wallet].epoch
                                                   ELSE r.epoch
    IN  [epoch |-> IF wallet > r.epoch THEN wallet ELSE r.epoch,
         count |-> IF r.grant \in DOMAIN t.usage THEN t.usage[r.grant].count
                   ELSE Cardinality(RowsOf(t, r.grant)),
         spent |-> IF r.grant \in DOMAIN t.usage THEN t.usage[r.grant].spent
                   ELSE SpentBy(RowsOf(t, r.grant))]

(* assertIntentWithinCapabilityStatic of @agenttool/wallet, as far as the  *)
(* host's view decides it: not expired, not revoked, within the limits.    *)
WithinCapability(r, now, usage) ==
    /\ now < r.expires
    /\ usage.epoch <= r.epoch
    /\ usage.count + 1 <= r.count
    /\ \A a \in Assets : r.spends[a] <= r.perIntent[a]
                         /\ usage.spent[a] + r.spends[a] <= r.total[a]

Authorizable(t, r, now) ==
    Continuous(t, r) /\ WithinCapability(r, now, UsageContext(t, r))

Replayed(t, r) ==
    \E row \in t.rows :
       \/ row.intent = r.intent
       \/ /\ row.request # Unbound
          /\ \/ row.request.record = r.record
             \/ /\ row.request.wallet = r.wallet /\ row.grant = r.grant
                /\ row.request.source = r.source /\ row.request.nonce = r.nonce

(* The wallet's row after the reservation: its descriptor stays the first  *)
(* one, its epoch only rises.                                              *)
Advanced(t, r) ==
    [descriptor |-> r.descriptor,
     epoch |-> IF r.wallet \in DOMAIN t.wallets /\ t.wallets[r.wallet].epoch > r.epoch
               THEN t.wallets[r.wallet].epoch ELSE r.epoch]

Put(f, k, v) == [x \in DOMAIN f \cup {k} |-> IF x = k THEN v ELSE f[x]]

(* Mutant of Reservable: the check made before signing is trusted. *)
ReservableByEarlierCheck(t, r, at) == ~Replayed(t, r)

(* What reserveAndRecord accepts inside its transaction: the gate again,   *)
(* over the tables as they are now, at the instant the call captured.      *)
Reservable(t, r, at) == ~Replayed(t, r) /\ Authorizable(t, r, at)

(* The tables it leaves: all three rows or, by a refusal, none. *)
Reserved(t, r, at, host, key) ==
    LET usage == UsageContext(t, r)
    IN  [rows |-> t.rows \cup {[id |-> key, intent |-> r.intent, grant |-> r.grant,
                                spends |-> r.spends, request |-> r, at |-> at,
                                host |-> host, order |-> Cardinality(t.rows)]},
         wallets |-> Put(t.wallets, r.wallet, Advanced(t, r)),
         usage |-> Put(t.usage, r.grant,
                       [wallet |-> r.wallet, capability |-> r.capability,
                        count |-> usage.count + 1, spent |-> Plus(usage.spent, r.spends)])]
=============================================================================
