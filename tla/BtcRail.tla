-------------------------------- MODULE BtcRail --------------------------------
(***************************************************************************)
(* The two-step rite of sovereign/src/pay.ts on the Bitcoin rail of        *)
(* sovereign/src/senders/btc.sender.ts.                                    *)
(*                                                                         *)
(* Durable state is the payments, transactions and accounts rows of the    *)
(* SQLite file.  Volatile state is the progress of the quotePayment and    *)
(* confirmPayment calls, which suspend at every await and which run in one *)
(* or in several processes over the same file; a call can die at any await.*)
(* The Bitcoin network is the set of POST /tx requests that left.          *)
(*                                                                         *)
(* A payment is unbound here (no CashLoom v2 binding).  Coins are the      *)
(* outpoints of the sending address; amounts, fees and scripts only decide *)
(* WHICH nonempty set of free coins a quote selects, so the model picks    *)
(* any.  The indexer is not trusted: it may offer every coin, spent or not.*)
(***************************************************************************)
EXTENDS Naturals, FiniteSets

CONSTANTS Payments,    \* one identity per quotePayment call
          Coins,       \* outpoints of the sending address
          Callers,     \* confirmPayment calls in progress at once
          NoPayment,   \* the payment of a caller that has none
          QuoteTTL,    \* QUOTE_TTL_MS, in clock ticks
          MaxInputs,   \* MAX_INPUTS per transaction
          MaxClock     \* bound of the model on the clock

ASSUME NoPaymentAssumption == NoPayment \notin Payments
ASSUME ClockAssumption == QuoteTTL \in Nat /\ MaxInputs \in Nat /\ MaxClock \in Nat
ASSUME CoinsAssumption == IsFiniteSet(Coins)

VARIABLES row,       \* payments rows
          account,   \* status of the accounts row
          ledger,    \* payments with a transactions row from source PAYMENT
          offered,   \* quote calls in flight: the coins that were free for each
          quoting,   \* the payments whose quote call is in flight
          caller,    \* confirm calls: where each is suspended, on which payment
          posts,     \* how many POST /tx requests left for each payment
          clock,
          raced      \* history: pairs of payments whose quote calls overlapped

db == <<row, account, ledger>>
calls == <<offered, quoting, caller>>
vars == <<row, account, ledger, offered, quoting, caller, posts, clock, raced>>

Statuses == {"none", "quoted", "confirmed", "broadcast", "failed"}

\* The await points of confirmPayment and btcSender.send, in order.
Stages == {"idle", "read", "claimed", "checked", "signed", "posted",
           "answered", "booked", "conflicted", "rejected"}

\* The stages at which a call owns the payment it claimed.
Owning == Stages \ {"idle", "read"}

Row == [status: Statuses, coins: SUBSET Coins, created: Nat, txHash: {"null", "txid"}]

NoRow == [status |-> "none", coins |-> {}, created |-> 0, txHash |-> "null"]
Idle == [stage |-> "idle", payment |-> NoPayment]

Wire == {p \in Payments : posts[p] > 0}

Init == /\ row = [p \in Payments |-> NoRow]
        /\ account = "ACTIVE"
        /\ ledger = {}
        /\ offered = [p \in Payments |-> {}]
        /\ quoting = {}
        /\ caller = [c \in Callers |-> Idle]
        /\ posts = [p \in Payments |-> 0]
        /\ clock = 0
        /\ raced = {}

-----------------------------------------------------------------------------
\* A quote older than the TTL can no longer be claimed and reserves nothing.
Fresh(p) == clock - row[p].created <= QuoteTTL

\* Mutant of Reserving: a reservation that ends one tick before the quote does.
ReservingShort(statuses) ==
    {p \in Payments : /\ row[p].status \in statuses
                      /\ row[p].status = "quoted" => clock - row[p].created < QuoteTTL}

\* reservedOutpoints: the coins of the rows in these statuses, a row that is
\* still quoted only while it is fresh.
Reserving(statuses) ==
    {p \in Payments : /\ row[p].status \in statuses
                      /\ row[p].status = "quoted" => Fresh(p)}

ReservedOutpoints(statuses, excluded) ==
    UNION {row[p].coins : p \in Reserving(statuses) \ excluded}

\* quotePayment up to the indexer's answer: the account is checked and the
\* reservations are read here, and not again before the row is written.
QuoteStart(p) ==
    /\ account = "ACTIVE"
    /\ row[p].status = "none"
    /\ p \notin quoting
    /\ quoting' = quoting \cup {p}
    /\ offered' = [offered EXCEPT ![p] =
           Coins \ ReservedOutpoints({"quoted", "confirmed", "broadcast"}, {})]
    /\ raced' = raced \cup {{p, q} : q \in quoting}
    /\ UNCHANGED <<db, caller, posts, clock>>

\* What selectUTXO may return from the coins it was given.
Selections(free) == {s \in SUBSET free : s # {} /\ Cardinality(s) <= MaxInputs}

\* quotePayment after the answer: createdAt is taken now, the row is inserted.
QuotePersist(p) ==
    /\ p \in quoting
    /\ \E s \in Selections(offered[p]) :
           row' = [row EXCEPT ![p] = [status |-> "quoted", coins |-> s,
                                      created |-> clock, txHash |-> "null"]]
    /\ quoting' = quoting \ {p}
    /\ offered' = [offered EXCEPT ![p] = {}]
    /\ UNCHANGED <<account, ledger, caller, posts, clock, raced>>

\* Insufficient funds, a refused indexer answer, or a crash: nothing persists,
\* and the identity is free for a later call.
QuoteAbandon(p) ==
    /\ p \in quoting
    /\ quoting' = quoting \ {p}
    /\ offered' = [offered EXCEPT ![p] = {}]
    /\ raced' = {pair \in raced : p \notin pair}
    /\ UNCHANGED <<db, caller, posts, clock>>

-----------------------------------------------------------------------------
At(c, stage) == caller[c].stage = stage
Paying(c) == caller[c].payment
Go(c, stage) == caller' = [caller EXCEPT ![c].stage = stage]
Return(c) == caller' = [caller EXCEPT ![c] = Idle]

SetStatus(p, status) == row' = [row EXCEPT ![p].status = status]

\* confirmPayment's first read.  Anything but a quoted row of an active account
\* throws at once and changes nothing.
ConfirmRead(c, p) ==
    /\ At(c, "idle")
    /\ row[p].status = "quoted"
    /\ account = "ACTIVE"
    /\ caller' = [caller EXCEPT ![c] = [stage |-> "read", payment |-> p]]
    /\ UNCHANGED <<db, offered, quoting, posts, clock, raced>>

\* The claim is one BEGIN IMMEDIATE transaction over a fresh read of the row;
\* the claim clock is read inside it.  Its outcomes are the next four actions.
ClaimLost(c) ==
    /\ At(c, "read")
    /\ row[Paying(c)].status # "quoted"
    /\ Return(c)
    /\ UNCHANGED <<db, offered, quoting, posts, clock, raced>>

\* Mutant of ClaimExpired: a status no reader of the row knows.
ClaimExpiredUnknown(c) ==
    /\ At(c, "read")
    /\ row[Paying(c)].status = "quoted"
    /\ ~Fresh(Paying(c))
    /\ SetStatus(Paying(c), "expired")
    /\ Return(c)
    /\ UNCHANGED <<account, ledger, offered, quoting, posts, clock, raced>>

ClaimExpired(c) ==
    /\ At(c, "read")
    /\ row[Paying(c)].status = "quoted"
    /\ ~Fresh(Paying(c))
    /\ SetStatus(Paying(c), "failed")
    /\ Return(c)
    /\ UNCHANGED <<account, ledger, offered, quoting, posts, clock, raced>>

ClaimRolledBack(c) ==
    /\ At(c, "read")
    /\ row[Paying(c)].status = "quoted"
    /\ Fresh(Paying(c))
    /\ account # "ACTIVE"
    /\ Return(c)
    /\ UNCHANGED <<db, offered, quoting, posts, clock, raced>>

Claim(c) ==
    /\ At(c, "read")
    /\ row[Paying(c)].status = "quoted"
    /\ Fresh(Paying(c))
    /\ account = "ACTIVE"
    /\ SetStatus(Paying(c), "confirmed")
    /\ Go(c, "claimed")
    /\ UNCHANGED <<account, ledger, offered, quoting, posts, clock, raced>>

-----------------------------------------------------------------------------
\* Mutant of Committed: the check before signing sees only finished payments.
CommittedSettled(p) == ReservedOutpoints({"broadcast"}, {p})

\* The coins of every OTHER claimed or broadcast payment.
Committed(p) == ReservedOutpoints({"confirmed", "broadcast"}, {p})

\* btcSender.send re-reads the reservations after the claim.
SendCheck(c) ==
    /\ At(c, "claimed")
    /\ row[Paying(c)].coins \cap Committed(Paying(c)) = {}
    /\ Go(c, "checked")
    /\ UNCHANGED <<db, offered, quoting, posts, clock, raced>>

SendConflict(c) ==
    /\ At(c, "claimed")
    /\ row[Paying(c)].coins \cap Committed(Paying(c)) # {}
    /\ Go(c, "conflicted")
    /\ UNCHANGED <<db, offered, quoting, posts, clock, raced>>

\* Any other local error before a byte leaves: the stored detail does not
\* compile, the vault is locked, the signature or the fee is not the quoted
\* one, or the onSigned write throws.
SendReject(c) ==
    /\ caller[c].stage \in {"claimed", "checked"}
    /\ Go(c, "rejected")
    /\ UNCHANGED <<db, offered, quoting, posts, clock, raced>>

\* Mutant of SignAndRecord: the onSigned write is left out.
SignUnrecorded(c) ==
    /\ At(c, "checked")
    /\ Go(c, "signed")
    /\ UNCHANGED <<db, offered, quoting, posts, clock, raced>>

\* The vault signed, and onSigned made the txid durable.
SignAndRecord(c) ==
    /\ At(c, "checked")
    /\ row' = [row EXCEPT ![Paying(c)].txHash = "txid"]
    /\ Go(c, "signed")
    /\ UNCHANGED <<account, ledger, offered, quoting, posts, clock, raced>>

\* The one POST /tx.
Broadcast(c) ==
    /\ At(c, "signed")
    /\ posts' = [posts EXCEPT ![Paying(c)] = @ + 1]
    /\ Go(c, "posted")
    /\ UNCHANGED <<db, offered, quoting, clock, raced>>

Accepted(c) ==
    /\ At(c, "posted")
    /\ Go(c, "answered")
    /\ UNCHANGED <<db, offered, quoting, posts, clock, raced>>

\* Mutant of Ambiguous: the lost answer read as a reason to let the human
\* confirm again.
AmbiguousRetried(c) ==
    /\ caller[c].stage \in {"signed", "posted"}
    /\ SetStatus(Paying(c), "quoted")
    /\ Return(c)
    /\ UNCHANGED <<account, ledger, offered, quoting, posts, clock, raced>>

\* AmbiguousBroadcastError: no answer, an answer that is not 2xx, or a fetch
\* that never started.  The row keeps its status; only its error text changes.
Ambiguous(c) ==
    /\ caller[c].stage \in {"signed", "posted"}
    /\ Return(c)
    /\ UNCHANGED <<db, offered, quoting, posts, clock, raced>>

\* confirmPayment's catch: the UPDATE has no guard on the status it replaces.
RecordFailed(c) ==
    /\ caller[c].stage \in {"conflicted", "rejected"}
    /\ SetStatus(Paying(c), "failed")
    /\ Return(c)
    /\ UNCHANGED <<account, ledger, offered, quoting, posts, clock, raced>>

\* The bookkeeping of a success is two statements, not one transaction.
RecordBroadcast(c) ==
    /\ At(c, "answered")
    /\ row' = [row EXCEPT ![Paying(c)] = [status |-> "broadcast", coins |-> @.coins,
                                          created |-> @.created, txHash |-> "txid"]]
    /\ Go(c, "booked")
    /\ UNCHANGED <<account, ledger, offered, quoting, posts, clock, raced>>

RecordLedger(c) ==
    /\ At(c, "booked")
    /\ ledger' = ledger \cup {Paying(c)}
    /\ Return(c)
    /\ UNCHANGED <<row, account, offered, quoting, posts, clock, raced>>

\* Mutant of Crash: a recovery that reopens what the dead call had claimed.
CrashReopened(c) ==
    /\ ~At(c, "idle")
    /\ IF At(c, "read") THEN UNCHANGED row ELSE SetStatus(Paying(c), "quoted")
    /\ Return(c)
    /\ UNCHANGED <<account, ledger, offered, quoting, posts, clock, raced>>

\* The process dies at an await, or a database error ends the call.
Crash(c) ==
    /\ ~At(c, "idle")
    /\ Return(c)
    /\ UNCHANGED <<db, offered, quoting, posts, clock, raced>>

-----------------------------------------------------------------------------
\* POST /api/accounts/:id/archive; nothing reactivates an account.
Archive ==
    /\ account = "ACTIVE"
    /\ account' = "ARCHIVED"
    /\ UNCHANGED <<row, ledger, calls, posts, clock, raced>>

Tick ==
    /\ clock < MaxClock
    /\ clock' = clock + 1
    /\ UNCHANGED <<db, calls, posts, raced>>

Quoting(p) == QuoteStart(p) \/ QuotePersist(p) \/ QuoteAbandon(p)

Claiming(c) == ClaimLost(c) \/ ClaimExpired(c) \/ ClaimRolledBack(c) \/ Claim(c)

Sending(c) == \/ SendCheck(c) \/ SendConflict(c) \/ SendReject(c)
              \/ SignAndRecord(c) \/ Broadcast(c) \/ Accepted(c) \/ Ambiguous(c)

Recording(c) == RecordFailed(c) \/ RecordBroadcast(c) \/ RecordLedger(c)

Next == \/ \E p \in Payments : Quoting(p)
        \/ \E c \in Callers, p \in Payments : ConfirmRead(c, p)
        \/ \E c \in Callers : Claiming(c) \/ Sending(c) \/ Recording(c) \/ Crash(c)
        \/ Archive
        \/ Tick

Spec == Init /\ [][Next]_vars

-----------------------------------------------------------------------------
(***************************************************************************)
(* Properties.                                                             *)
(***************************************************************************)

\* Every variable keeps its type: the row, call and network shapes the code
\* of pay.ts and btc.sender.ts assumes of one another.
TypeOK ==
    /\ row \in [Payments -> Row]
    /\ account \in {"ACTIVE", "ARCHIVED"}
    /\ ledger \subseteq Payments
    /\ offered \in [Payments -> SUBSET Coins]
    /\ quoting \subseteq Payments
    /\ caller \in [Callers -> [stage : Stages, payment : Payments \cup {NoPayment}]]
    /\ \A c \in Callers : caller[c].stage # "idle" => caller[c].payment \in Payments
    /\ posts \in [Payments -> Nat]
    /\ clock \in Nat
    /\ raced \subseteq {{p, q} : p, q \in Payments}

Overlap(p, q) == row[p].coins \cap row[q].coins # {}

\* No coin is ever in two transactions that left: send() re-reads the
\* reservations after its claim, so of two payments that selected one coin at
\* most one is signed, whatever the order of quotes, claims and crashes.  Every
\* transaction signals RBF: a second one would replace our own payment.
NoDoubleSpend == \A p, q \in Wire : p # q => ~Overlap(p, q)

\* One POST per payment, however many confirmations race for it, and whatever
\* crashes: nothing retries and only a quoted row can be claimed.
PostedOnce == \A p \in Payments : posts[p] <= 1

\* What left is on record: its txid was durable before, so a crash at any await
\* leaves a row that names the transaction to look for and that no call can
\* claim again.
SentIsReconcilable ==
    \A p \in Wire : row[p].txHash = "txid" /\ row[p].status \in {"confirmed", "broadcast"}

\* A row that reads failed was never signed: resultFromPayment of
\* bitcoin-pay-link.ts reports "failed" on this alone, and the unguarded
\* UPDATE of confirmPayment's catch must never hit a payment that was sent.
FailedNeverSigned == \A p \in Payments : row[p].status = "failed" => row[p].txHash = "null"

\* Payments that can still be signed, or were.
Live(p) == \/ row[p].status \in {"confirmed", "broadcast"}
           \/ row[p].status = "quoted" /\ Fresh(p)

\* The reservation a quote takes lasts exactly as long as it can be claimed:
\* two live payments share a coin only if their quote calls overlapped in time,
\* the one race the code admits.
SerialQuotesDisjoint ==
    \A p, q \in Payments :
        p # q /\ Live(p) /\ Live(q) /\ Overlap(p, q) => {p, q} \in raced

RiteSteps == {<<"none", "quoted">>, <<"quoted", "confirmed">>, <<"quoted", "failed">>,
              <<"confirmed", "failed">>, <<"confirmed", "broadcast">>}

\* A payments row only moves forward along the rite, the coins the human was
\* shown never change once quoted, and a recorded txid is never withdrawn;
\* three of the UPDATEs that could break this carry no guard on the status.
StatusRite ==
    [][\A p \in Payments :
          /\ row'[p].status # row[p].status =>
                 <<row[p].status, row'[p].status>> \in RiteSteps
          /\ row[p].status # "none" => row'[p].coins = row[p].coins
          /\ row[p].txHash = "txid" => row'[p].txHash = "txid"]_vars

Phase(p) ==
    CASE row[p].status = "none"      -> "absent"
      [] row[p].status = "quoted"    -> "quoted"
      [] row[p].status = "failed"    -> "void"
      [] row[p].status = "broadcast" -> "settled"
      [] row[p].status = "confirmed" -> IF posts[p] > 0 THEN "sent" ELSE "claimed"

Rite == INSTANCE PaymentRite WITH
            Slots <- Coins,
            phase <- [p \in Payments |-> Phase(p)],
            used  <- [p \in Payments |-> IF posts[p] > 0 THEN row[p].coins ELSE {}]

\* The rail implements the rite pay.ts documents: each payment is dispatched
\* at most once, over coins no other dispatch consumed, and is never voided after.
ImplementsRite == Rite!Spec

\* btc.sender.ts:266 says that send() "checks only signed-or-broadcast rows":
\* a payment is turned away only for a coin of a payment that was signed.
OnlySignedRowsConflict ==
    [][\A c \in Callers :
          At(c, "claimed") /\ caller'[c].stage = "conflicted" =>
              \E p \in Payments \ {Paying(c)} :
                  Overlap(p, Paying(c)) /\ row[p].txHash = "txid"]_vars

-----------------------------------------------------------------------------
(***************************************************************************)
(* The strengthenings BtcRailProofs shows inductive.                       *)
(***************************************************************************)
Unsigned == {"claimed", "checked", "conflicted", "rejected"}
Unsent == Unsigned \cup {"signed"}

\* At most one call owns a payment, and its row says how far it got.
OneOwner ==
    \A c, d \in Callers :
        /\ caller[c].stage \in Owning
        /\ caller[d].stage \in Owning
        /\ Paying(c) = Paying(d)
        => c = d

OwnerRow ==
    \A c \in Callers : caller[c].stage \in Owning =>
        /\ row[Paying(c)].status = IF At(c, "booked") THEN "broadcast" ELSE "confirmed"
        /\ row[Paying(c)].txHash = IF caller[c].stage \in Unsigned THEN "null" ELSE "txid"
        /\ posts[Paying(c)] = IF caller[c].stage \in Unsent THEN 0 ELSE 1

RowHistory ==
    \A p \in Payments :
        /\ row[p].txHash = "txid" => row[p].status \in {"confirmed", "broadcast"}
        /\ posts[p] > 0 => row[p].txHash = "txid"
        /\ posts[p] <= 1
        /\ row[p].status = "broadcast" => posts[p] > 0
        /\ p \in quoting => row[p].status = "none"

\* A payment past the send-time check: it was signed, or its call may still sign it.
Guarded(p) == \/ row[p].txHash = "txid"
              \/ \E c \in Callers : At(c, "checked") /\ Paying(c) = p

GuardedDisjoint ==
    \A p, q \in Payments : p # q /\ Guarded(p) /\ Guarded(q) => ~Overlap(p, q)

IInv == TypeOK /\ OneOwner /\ OwnerRow /\ RowHistory /\ GuardedDisjoint

\* What a quote call in flight may still select does not touch a live payment
\* it did not race.
OfferClear ==
    \A p \in quoting :
        /\ \A q \in quoting : p # q => {p, q} \in raced
        /\ \A q \in Payments :
               p # q /\ Live(q) /\ {p, q} \notin raced => offered[p] \cap row[q].coins = {}

SerialInv == OfferClear /\ SerialQuotesDisjoint
=============================================================================
