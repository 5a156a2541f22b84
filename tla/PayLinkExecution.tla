--------------------------- MODULE PayLinkExecution ---------------------------
(***************************************************************************)
(* The Bitcoin execution of an accepted pay link: prepare, confirm and     *)
(* status of sovereign/src/pay/bitcoin-pay-link.ts, the bound claim of     *)
(* pay.ts they go through, and createExecutionCommitment of                *)
(* protocol/v2/local-service.ts.                                           *)
(*                                                                         *)
(* Durable state is the payments row with its binding (one transaction     *)
(* inserts both) and the execution commitments of the record store.        *)
(* Volatile state is the calls: each suspends at its awaits, in one or in  *)
(* several processes over one SQLite file.  The part of btcSender.send     *)
(* that BtcRail models in full is reduced to its outcomes.                 *)
(*                                                                         *)
(* What an activeContext check reads beside the intent (an unexpired       *)
(* descriptor with the payer role, trust manifests, the ACTIVE account) is *)
(* one variable, which may be withdrawn and restored at any time.  A       *)
(* refusal that changes no row, whatever its reason, is Abandon.           *)
(***************************************************************************)
EXTENDS Naturals

CONSTANTS Intents,     \* payment intents this node authored
          Payments,    \* one identity per quote a prepare call obtains
          Callers,     \* prepare and confirm calls in progress at once
          None,        \* no intent, no payment
          QuoteTTL,    \* QUOTE_TTL_MS, in clock ticks
          MaxClock     \* bound of the model on the clock

ASSUME NoneAssumption == None \notin Intents /\ None \notin Payments
ASSUME ClockAssumption == QuoteTTL \in Nat \ {0} /\ MaxClock \in Nat

VARIABLES ends,         \* expires_at of each intent
          row,          \* payments rows, each with its binding
          commitments,  \* locally signed execution commitments in the store
          context,      \* whether everything else activeContext reads holds
          caller,       \* prepare and confirm calls: where each is suspended
          posts,        \* how many POST /tx requests left for each payment
          told,         \* history: the final answers given about each payment
          clock

vars == <<ends, row, commitments, context, caller, posts, told, clock>>

\* The awaits of a prepare call ("quoting") and of a confirm call, in order.
Stages == {"idle", "quoting", "read", "signing", "committed", "entered",
           "claimed", "signed", "posted", "reread"}

\* The stages at which a call owns the payment it claimed.
Owning == {"claimed", "signed", "posted"}

Row == [status  : {"none", "quoted", "confirmed", "broadcast", "failed"},
        intent  : Intents \cup {None},
        expires : Nat,
        txHash  : {"null", "txid"}]

NoRow == [status |-> "none", intent |-> None, expires |-> 0, txHash |-> "null"]

\* reservation_id is derived from the payment; the signer stands for the nonce.
Commitment == [intent : Intents, payment : Payments, expires : Nat, signer : Callers]

Idle == [stage |-> "idle", intent |-> None, payment |-> None]

\* The answers a human may act on.  "expired" is the not_sent of a review that
\* ran out; every other not_sent, and awaiting_confirmation, promise nothing.
Answers == {"expired", "failed", "broadcast"}

Init == /\ ends \in [Intents -> 1 .. MaxClock]
        /\ row = [p \in Payments |-> NoRow]
        /\ commitments = {}
        /\ context = "holds"
        /\ caller = [c \in Callers |-> Idle]
        /\ posts = [p \in Payments |-> 0]
        /\ told = [p \in Payments |-> {}]
        /\ clock = 0

-----------------------------------------------------------------------------
At(c, stage) == caller[c].stage = stage
Paying(c) == caller[c].payment
Go(c, stage) == caller' = [caller EXCEPT ![c].stage = stage]
Return(c) == caller' = [caller EXCEPT ![c] = Idle]
SetStatus(p, status) == row' = [row EXCEPT ![p].status = status]

\* activeContext: the intent has not expired and the rest of the context holds.
Active(i) == context = "holds" /\ clock < ends[i]

Bound(i) == {p \in Payments : row[p].intent = i}

Earlier(s, t) == IF s <= t THEN s ELSE t

\* confirm_before of a review: the earlier of the quote's and the intent's end.
ConfirmBefore(p) == Earlier(row[p].expires, ends[row[p].intent])

\* validateCommitment: this reservation, this window.
Matches(k, p) == /\ k.intent = row[p].intent
                 /\ k.payment = p
                 /\ k.expires = ConfirmBefore(p)

CommitmentsFor(i) == {k \in commitments : k.intent = i}
Committed(p) == \E k \in commitments : Matches(k, p)

-----------------------------------------------------------------------------
\* prepare: no binding exists, so the sender is asked for a quote.  With one,
\* the call answers from it and changes nothing.
PrepareRead(c, i) ==
    /\ At(c, "idle")
    /\ Active(i)
    /\ Bound(i) = {}
    /\ caller' = [caller EXCEPT ![c] = [stage |-> "quoting", intent |-> i, payment |-> None]]
    /\ UNCHANGED <<ends, row, commitments, context, posts, told, clock>>

\* draftBinding: the quote and the intent it is bound to, as one row.
DraftBinding(i) == [status |-> "quoted", intent |-> i, expires |-> clock + QuoteTTL,
                    txHash |-> "null"]

\* Mutant of PrepareBind: a bindings table without its primary key.
PrepareBindTwice(c, p) ==
    /\ At(c, "quoting")
    /\ row[p].status = "none"
    /\ Active(caller[c].intent)
    /\ row' = [row EXCEPT ![p] = DraftBinding(caller[c].intent)]
    /\ Return(c)
    /\ UNCHANGED <<ends, commitments, context, posts, told, clock>>

\* quotePayment's transaction with the bind callback in it: the payments row
\* and the binding, or neither.  The intent is the binding's primary key, so a
\* second prepare rolls its quote back.  What remains of prepare only reads.
PrepareBind(c, p) ==
    /\ At(c, "quoting")
    /\ row[p].status = "none"
    /\ Active(caller[c].intent)
    /\ Bound(caller[c].intent) = {}
    /\ row' = [row EXCEPT ![p] = DraftBinding(caller[c].intent)]
    /\ Return(c)
    /\ UNCHANGED <<ends, commitments, context, posts, told, clock>>

-----------------------------------------------------------------------------
\* Mutant of ConfirmRead: an expired quote is failed at the first read.
ConfirmReadExpiring(c, p) ==
    /\ At(c, "idle")
    /\ row[p].status = "quoted"
    /\ IF clock < ConfirmBefore(p)
       THEN /\ Active(row[p].intent)
            /\ caller' = [caller EXCEPT ![c] =
                   [stage |-> "read", intent |-> row[p].intent, payment |-> p]]
            /\ UNCHANGED row
       ELSE SetStatus(p, "failed") /\ UNCHANGED caller
    /\ UNCHANGED <<ends, commitments, context, posts, told, clock>>

\* confirm: the review is still quoted and inside its window; the PSBT is
\* compiled again.  A payment past quoted is answered by Report.
ConfirmRead(c, p) ==
    /\ At(c, "idle")
    /\ row[p].status = "quoted"
    /\ Active(row[p].intent)
    /\ clock < ConfirmBefore(p)
    /\ caller' = [caller EXCEPT ![c] =
           [stage |-> "read", intent |-> row[p].intent, payment |-> p]]
    /\ UNCHANGED <<ends, row, commitments, context, posts, told, clock>>

\* The compiled bytes match; a commitment of an earlier attempt is reused.
FindCommitment(c) ==
    /\ At(c, "read")
    /\ CommitmentsFor(caller[c].intent) # {}
    /\ Go(c, "committed")
    /\ UNCHANGED <<ends, row, commitments, context, posts, told, clock>>

\* createExecutionCommitment up to its signature.  It takes issued_at first and
\* checks the intent against that instant, not the one it appends at.
RequestCommitment(c) ==
    /\ At(c, "read")
    /\ CommitmentsFor(caller[c].intent) = {}
    /\ Active(caller[c].intent)
    /\ clock < ConfirmBefore(Paying(c))
    /\ Go(c, "signing")
    /\ UNCHANGED <<ends, row, commitments, context, posts, told, clock>>

Signed(c) == [intent |-> caller[c].intent, payment |-> Paying(c),
              expires |-> ConfirmBefore(Paying(c)), signer |-> c]

\* Mutant of AppendCommitment: a store without the exclusive-child rule.
AppendCommitmentAgain(c) ==
    /\ At(c, "signing")
    /\ commitments' = commitments \cup {Signed(c)}
    /\ Go(c, "committed")
    /\ UNCHANGED <<ends, row, context, posts, told, clock>>

\* The append: an intent has one execution commitment.
AppendCommitment(c) ==
    /\ At(c, "signing")
    /\ CommitmentsFor(caller[c].intent) = {}
    /\ commitments' = commitments \cup {Signed(c)}
    /\ Go(c, "committed")
    /\ UNCHANGED <<ends, row, context, posts, told, clock>>

\* TRANSITION_CONFLICT, or a winner seen before signing: the winner's record is
\* an exact retry of ours, reservation and window alike, and is reused.
ReuseWinner(c) ==
    /\ At(c, "signing")
    /\ \E k \in CommitmentsFor(caller[c].intent) : Matches(k, Paying(c))
    /\ Go(c, "committed")
    /\ UNCHANGED <<ends, row, commitments, context, posts, told, clock>>

\* The commitment is valid now, and confirmPayment begins with a read of its own.
Enter(c) ==
    /\ At(c, "committed")
    /\ clock < ConfirmBefore(Paying(c))
    /\ Committed(Paying(c))
    /\ Go(c, IF row[Paying(c)].status = "quoted" THEN "entered" ELSE "reread")
    /\ UNCHANGED <<ends, row, commitments, context, posts, told, clock>>

-----------------------------------------------------------------------------
\* The claim is one BEGIN IMMEDIATE transaction; its clock is read inside.
QuoteExpired(p) == row[p].expires <= clock

\* Mutant of Consented: the claim without assertClaim.
ConsentedByQuote(p) == context = "holds"

\* assertClaim: context, window and commitment, over rows read in the
\* transaction.
Consented(p) ==
    /\ Active(row[p].intent)
    /\ clock < ConfirmBefore(p)
    /\ Committed(p)

\* The compare-and-set from quoted to confirmed.
Claim(c) ==
    /\ At(c, "entered")
    /\ row[Paying(c)].status = "quoted"
    /\ ~QuoteExpired(Paying(c))
    /\ Consented(Paying(c))
    /\ SetStatus(Paying(c), "confirmed")
    /\ Go(c, "claimed")
    /\ UNCHANGED <<ends, commitments, context, posts, told, clock>>

\* Mutant of ClaimExpired: a status no reader of the row knows.
ClaimExpiredUnknown(c) ==
    /\ At(c, "entered")
    /\ row[Paying(c)].status = "quoted"
    /\ QuoteExpired(Paying(c))
    /\ SetStatus(Paying(c), "expired")
    /\ Go(c, "reread")
    /\ UNCHANGED <<ends, commitments, context, posts, told, clock>>

\* The claim finds the quote out of its own time: the row fails for good.
ClaimExpired(c) ==
    /\ At(c, "entered")
    /\ row[Paying(c)].status = "quoted"
    /\ QuoteExpired(Paying(c))
    /\ SetStatus(Paying(c), "failed")
    /\ Go(c, "reread")
    /\ UNCHANGED <<ends, commitments, context, posts, told, clock>>

\* Another call won, or assertClaim threw: the transaction rolls back.
ClaimRefused(c) ==
    /\ At(c, "entered")
    /\ \/ row[Paying(c)].status # "quoted"
       \/ ~QuoteExpired(Paying(c)) /\ ~Consented(Paying(c))
    /\ Go(c, "reread")
    /\ UNCHANGED <<ends, row, commitments, context, posts, told, clock>>

\* btcSender.send throws before it signs, and confirmPayment records failed.
SendFails(c) ==
    /\ At(c, "claimed")
    /\ SetStatus(Paying(c), "failed")
    /\ Go(c, "reread")
    /\ UNCHANGED <<ends, commitments, context, posts, told, clock>>

\* The vault signs and onSigned makes the txid durable.
Sign(c) ==
    /\ At(c, "claimed")
    /\ row' = [row EXCEPT ![Paying(c)].txHash = "txid"]
    /\ Go(c, "signed")
    /\ UNCHANGED <<ends, commitments, context, posts, told, clock>>

\* The one POST /tx.
Post(c) ==
    /\ At(c, "signed")
    /\ posts' = [posts EXCEPT ![Paying(c)] = @ + 1]
    /\ Go(c, "posted")
    /\ UNCHANGED <<ends, row, commitments, context, told, clock>>

\* Mutant of Ambiguous: a lost answer recorded as a failure.
AmbiguousFailed(c) ==
    /\ caller[c].stage \in {"signed", "posted"}
    /\ row' = [row EXCEPT ![Paying(c)] = [status |-> "failed", intent |-> @.intent,
                                          expires |-> @.expires, txHash |-> "null"]]
    /\ Go(c, "reread")
    /\ UNCHANGED <<ends, commitments, context, posts, told, clock>>

\* AmbiguousBroadcastError, or bookkeeping that failed: only the error text of
\* the row changes.
Ambiguous(c) ==
    /\ caller[c].stage \in {"signed", "posted"}
    /\ Go(c, "reread")
    /\ UNCHANGED <<ends, row, commitments, context, posts, told, clock>>

\* The indexer's answer is 2xx, and the success is written down.
RecordBroadcast(c) ==
    /\ At(c, "posted")
    /\ row' = [row EXCEPT ![Paying(c)] = [status |-> "broadcast", intent |-> @.intent,
                                          expires |-> @.expires, txHash |-> "txid"]]
    /\ Go(c, "reread")
    /\ UNCHANGED <<ends, commitments, context, posts, told, clock>>

-----------------------------------------------------------------------------
\* resultFromPayment: what a row past quoted lets the service say.
Outcome(p) == CASE row[p].status = "broadcast" -> {"broadcast"}
                [] row[p].status = "failed" /\ row[p].txHash = "null" -> {"failed"}
                [] OTHER -> {}

Tell(p, answers) == told' = [told EXCEPT ![p] = @ \cup answers]

\* confirm's last read, after confirmPayment returned or threw: the durable
\* outcome if there is one, else the error.
Reread(c) ==
    /\ At(c, "reread")
    /\ IF row[Paying(c)].status # "quoted" /\ Committed(Paying(c))
       THEN Tell(Paying(c), Outcome(Paying(c)))
       ELSE UNCHANGED told
    /\ Return(c)
    /\ UNCHANGED <<ends, row, commitments, context, posts, clock>>

\* status, and a confirm of a payment past quoted: the durable outcome, if the
\* row still agrees with its commitment.
Report(p) ==
    /\ row[p].status \notin {"none", "quoted"}
    /\ Committed(p)
    /\ Tell(p, Outcome(p))
    /\ UNCHANGED <<ends, row, commitments, context, caller, posts, clock>>

\* status of a review that is still quoted and out of its window: not_sent,
\* "nothing was signed".
ReportExpired(p) ==
    /\ row[p].status = "quoted"
    /\ clock >= ConfirmBefore(p)
    /\ Tell(p, {"expired"})
    /\ UNCHANGED <<ends, row, commitments, context, caller, posts, clock>>

\* The process dies at an await, or the call throws having changed nothing.
Abandon(c) ==
    /\ ~At(c, "idle")
    /\ Return(c)
    /\ UNCHANGED <<ends, row, commitments, context, posts, told, clock>>

\* The account is archived, the descriptor lapses or loses the payer role; a
\* new activation restores it.
Withdraw ==
    /\ context = "holds"
    /\ context' = "fails"
    /\ UNCHANGED <<ends, row, commitments, caller, posts, told, clock>>

Restore ==
    /\ context = "fails"
    /\ context' = "holds"
    /\ UNCHANGED <<ends, row, commitments, caller, posts, told, clock>>

Tick ==
    /\ clock < MaxClock
    /\ clock' = clock + 1
    /\ UNCHANGED <<ends, row, commitments, context, caller, posts, told>>

-----------------------------------------------------------------------------
Preparing(c) == \/ \E i \in Intents : PrepareRead(c, i)
                \/ \E p \in Payments : PrepareBind(c, p)

Committing(c) == \/ \E p \in Payments : ConfirmRead(c, p)
                 \/ FindCommitment(c) \/ RequestCommitment(c)
                 \/ AppendCommitment(c) \/ ReuseWinner(c) \/ Enter(c)

Claiming(c) == Claim(c) \/ ClaimExpired(c) \/ ClaimRefused(c)

Sending(c) == SendFails(c) \/ Sign(c) \/ Post(c) \/ Ambiguous(c) \/ RecordBroadcast(c)

Next == \/ \E c \in Callers : Preparing(c) \/ Committing(c) \/ Claiming(c)
                              \/ Sending(c) \/ Reread(c) \/ Abandon(c)
        \/ \E p \in Payments : Report(p) \/ ReportExpired(p)
        \/ Withdraw
        \/ Restore
        \/ Tick

Spec == Init /\ [][Next]_vars

-----------------------------------------------------------------------------
(***************************************************************************)
(* Properties.                                                             *)
(***************************************************************************)

\* Every variable keeps its type.
TypeOK ==
    /\ ends \in [Intents -> Nat]
    /\ row \in [Payments -> Row]
    /\ commitments \subseteq Commitment
    /\ context \in {"holds", "fails"}
    /\ caller \in [Callers -> [stage : Stages, intent : Intents \cup {None},
                               payment : Payments \cup {None}]]
    /\ posts \in [Payments -> Nat]
    /\ told \in [Payments -> SUBSET Answers]
    /\ clock \in Nat

\* However many prepare calls read "no binding" before the first of them wrote
\* one, an intent ends with one payments row, and no quote is left behind that
\* is bound to nothing.
OnePaymentPerIntent ==
    \A p, q \in Payments :
        row[p].status # "none" /\ row[q].status # "none" /\ row[p].intent = row[q].intent
            => p = q

\* Confirmations that race to sign agree on one commitment: an intent has one,
\* and it names the payment the intent is bound to and its exact window.
OneCommitmentPerIntent ==
    \A k, l \in commitments : /\ Matches(k, k.payment)
                              /\ k.intent = l.intent => k = l

\* Every row past quoted has its exact commitment, on which all recovery
\* depends: assertHistoricalExecution refuses to report a row without one, and
\* the human would never learn what became of the payment.
OutcomeIsRecoverable ==
    \A p \in Payments : row[p].status \notin {"none", "quoted"} => Committed(p)

\* What the service told the human stays true: a payment reported as expired or
\* as failed never leaves afterwards, and one reported as broadcast left, once.
\* The human may act on "nothing was signed" by paying some other way.
AnswersHold ==
    \A p \in Payments :
        /\ told[p] \cap {"expired", "failed"} # {} => posts[p] = 0
        /\ "broadcast" \in told[p] => posts[p] = 1

\* How far the payment bound to an intent got.
PhaseOf(p) ==
    IF row[p].status = "failed" THEN "closed"
    ELSE IF row[p].status # "quoted" THEN (IF posts[p] > 0 THEN "spent" ELSE "claimed")
    ELSE IF "expired" \in told[p] THEN "lapsed"
    ELSE IF Committed(p) THEN "committed" ELSE "bound"

Phase(i) == IF Bound(i) = {} THEN "open"
            ELSE PhaseOf(CHOOSE p \in Payments : row[p].intent = i)

Consent == INSTANCE IntentConsent WITH consent <- [i \in Intents |-> Phase(i)]

\* An intent is spent at most once, only after its commitment and its claim,
\* and never after its review was reported as lapsed.
ImplementsConsent == Consent!Spec

-----------------------------------------------------------------------------
(***************************************************************************)
(* The strengthenings PayLinkExecutionProofs shows inductive.              *)
(***************************************************************************)

\* The stages of a confirm call that has found its payment.
Confirming == Stages \ {"idle", "quoting"}

\* A call works on the payment bound to its intent, is past the claim only with
\* a commitment, and the payment's row says how far the owner got.
CallOK(c) ==
    /\ At(c, "quoting") => caller[c].intent \in Intents
    /\ caller[c].stage \in Confirming =>
           /\ Paying(c) \in Payments
           /\ row[Paying(c)].status # "none"
           /\ caller[c].intent = row[Paying(c)].intent
    /\ caller[c].stage \in Owning \cup {"entered"} => Committed(Paying(c))
    /\ caller[c].stage \in Owning =>
           /\ row[Paying(c)].status = "confirmed"
           /\ row[Paying(c)].txHash = IF At(c, "claimed") THEN "null" ELSE "txid"
           /\ posts[Paying(c)] = IF At(c, "posted") THEN 1 ELSE 0

CallInv == \A c \in Callers : CallOK(c)

OneOwner ==
    \A c, d \in Callers :
        /\ caller[c].stage \in Owning
        /\ caller[d].stage \in Owning
        /\ Paying(c) = Paying(d)
        => c = d

\* What a row says of the wire.
RowOK(p) ==
    /\ row[p].status = "none" <=> row[p].intent = None
    /\ row[p].status \in {"none", "quoted", "failed"} => row[p].txHash = "null"
    /\ row[p].txHash = "null" => posts[p] = 0
    /\ row[p].status = "broadcast" => posts[p] = 1
    /\ posts[p] <= 1

RowInv == \A p \in Payments : RowOK(p)

\* What was told is still what the row says.
ToldOK(p) ==
    /\ "expired" \in told[p] => /\ row[p].status \in {"quoted", "failed"}
                                /\ clock >= ConfirmBefore(p)
    /\ "failed" \in told[p] => row[p].status = "failed"
    /\ "broadcast" \in told[p] => row[p].status = "broadcast"

ToldInv == \A p \in Payments : ToldOK(p)

\* A commitment belongs to a row.
CommitmentInv ==
    \A k \in commitments : k.payment \in Payments /\ row[k.payment].status # "none"

IInv == /\ TypeOK /\ CallInv /\ OneOwner /\ RowInv /\ ToldInv /\ CommitmentInv
        /\ OnePaymentPerIntent /\ OneCommitmentPerIntent /\ OutcomeIsRecoverable
=============================================================================
