----------------------------- MODULE StripeCheckout -----------------------------
(***************************************************************************)
(* The Stripe-hosted Checkout of sovereign/src/processors/                 *)
(* stripe-checkout.ts: createStripeSandboxCheckout, which submits one      *)
(* request for an intent, and ingestStripeSandboxWebhook, which projects   *)
(* what Stripe reports onto the same row.                                  *)
(*                                                                         *)
(* The rows of stripe_checkout_operations and stripe_webhook_inbox are     *)
(* durable.  A create call suspends at its one await and can die there;    *)
(* a webhook is one BEGIN IMMEDIATE transaction.  Stripe and its other     *)
(* clients are external: a checkout session may exist that this node did   *)
(* not ask for, its events arrive before or after the answer and in any    *)
(* order, and what they say need not match the committed request.          *)
(*                                                                         *)
(* A payment intent belongs to one session and is named by it.  A repeated *)
(* create, with the same request or another, and a repeated event change   *)
(* no row and are left out; so are signatures, malformed bodies and events *)
(* of other types, which only add an inbox row of their own.               *)
(***************************************************************************)
EXTENDS Naturals

CONSTANTS Intents,    \* intent ids callers collect for
          Sessions,   \* Stripe checkout sessions, ours or not
          Callers,    \* create calls in progress at once
          None        \* SQL NULL, and the intent of a session not yet created

ASSUME NoneAssumption == None \notin Intents \cup Sessions

VARIABLES operation,  \* stripe_checkout_operations rows, by UNIQUE(intent_id)
          inbox,      \* stripe_webhook_inbox rows: the disposition of an event
          caller,     \* create calls: stage, intent, the error to be recorded
          submits,    \* how many createDirectCheckout requests left for an intent
          session     \* Stripe's sessions: client_reference_id, and whether they match

rows == <<operation, inbox>>
vars == <<operation, inbox, caller, submits, session>>

Statuses == {"none", "submitting", "submitted", "submission_unknown",
             "provider_reported_paid", "expired"}
Errors == {"null", "transport_outcome_unknown", "provider_response_mismatch",
           "provider_identity_conflict", "response_persistence_unknown"}
Dispositions == {"none", "applied", "refused", "unmatched"}

\* checkout.session.completed with payment_status paid or another one, and
\* checkout.session.expired.
Kinds == {"paid", "completed", "expired"}
Events == Sessions \X Kinds

Stages == {"idle", "reserved", "sent", "unresolved"}

Operation == [status : Statuses, session : Sessions \cup {None},
              pi : Sessions \cup {None}, url : {"null", "set"}, error : Errors]

NoOperation == [status |-> "none", session |-> None, pi |-> None,
                url |-> "null", error |-> "null"]
Idle == [stage |-> "idle", intent |-> None, error |-> "null"]

Init == /\ operation = [i \in Intents |-> NoOperation]
        /\ inbox = [e \in Events |-> "none"]
        /\ caller = [c \in Callers |-> Idle]
        /\ submits = [i \in Intents |-> 0]
        /\ session = [s \in Sessions |-> [intent |-> None, matches |-> "no"]]

-----------------------------------------------------------------------------
\* Stripe, or another client of the connected account, creates a session.
CreateSession(s) ==
    /\ session[s].intent = None
    /\ \E i \in Intents, m \in {"yes", "no"} :
           session' = [session EXCEPT ![s] = [intent |-> i, matches |-> m]]
    /\ UNCHANGED <<rows, caller, submits>>

Coalesce(old, new) == IF old = None THEN new ELSE old

\* Identifiers that contradict those the row already has.
Conflicts(i, s, pi) ==
    \/ operation[i].session \notin {None, s}
    \/ pi # None /\ operation[i].pi \notin {None, pi}

-----------------------------------------------------------------------------
At(c, stage) == caller[c].stage = stage
For(c) == caller[c].intent
Return(c) == caller' = [caller EXCEPT ![c] = Idle]
Fail(c, error) == caller' = [caller EXCEPT ![c] =
                      [stage |-> "unresolved", intent |-> @.intent, error |-> error]]

\* Mutant of Reserve: an intent whose outcome is unknown may be submitted again.
ReserveAgain(c, i) ==
    /\ At(c, "idle")
    /\ operation[i].status \in {"none", "submission_unknown"}
    /\ operation' = [operation EXCEPT ![i] = [status |-> "submitting", session |-> @.session,
                                              pi |-> @.pi, url |-> @.url, error |-> @.error]]
    /\ caller' = [caller EXCEPT ![c] = [stage |-> "reserved", intent |-> i, error |-> "null"]]
    /\ UNCHANGED <<inbox, submits, session>>

\* The reserve transaction: the first create of an intent inserts its row; every
\* later one returns the row as it is.
Reserve(c, i) ==
    /\ At(c, "idle")
    /\ operation[i].status = "none"
    /\ operation' = [operation EXCEPT ![i] = [status |-> "submitting", session |-> None,
                                              pi |-> None, url |-> "null", error |-> "null"]]
    /\ caller' = [caller EXCEPT ![c] = [stage |-> "reserved", intent |-> i, error |-> "null"]]
    /\ UNCHANGED <<inbox, submits, session>>

\* The one transport call.
Submit(c) ==
    /\ At(c, "reserved")
    /\ submits' = [submits EXCEPT ![For(c)] = @ + 1]
    /\ caller' = [caller EXCEPT ![c] = [stage |-> "sent", intent |-> @.intent, error |-> "null"]]
    /\ UNCHANGED <<rows, session>>

TransportFails(c) ==
    /\ At(c, "sent")
    /\ Fail(c, "transport_outcome_unknown")
    /\ UNCHANGED <<rows, submits, session>>

ResponseMismatch(c) ==
    /\ At(c, "sent")
    /\ Fail(c, "provider_response_mismatch")
    /\ UNCHANGED <<rows, submits, session>>

\* A response that passes validateResponse: a session of this very request; its
\* payment intent may not exist yet.
Answer(i, s, pi) == /\ session[s].intent = i /\ session[s].matches = "yes"
                    /\ pi \in {None, s}

\* Mutant of Persist: the response's identifiers replace a webhook's.
PersistOverwrites(c) ==
    /\ At(c, "sent")
    /\ \E s \in Sessions, pi \in Sessions \cup {None} :
           /\ Answer(For(c), s, pi)
           /\ operation' = [operation EXCEPT ![For(c)] =
                  [status  |-> IF @.status = "submitting" THEN "submitted" ELSE @.status,
                   session |-> s,
                   pi      |-> pi,
                   url     |-> "set",
                   error   |-> IF @.status = "submitting" THEN "null" ELSE @.error]]
    /\ Return(c)
    /\ UNCHANGED <<inbox, submits, session>>

\* The persist transaction, over a fresh read of the row.
Persist(c) ==
    /\ At(c, "sent")
    /\ \E s \in Sessions, pi \in Sessions \cup {None} :
           /\ Answer(For(c), s, pi)
           /\ ~Conflicts(For(c), s, pi)
           /\ operation' = [operation EXCEPT ![For(c)] =
                  [status  |-> IF @.status = "submitting" THEN "submitted" ELSE @.status,
                   session |-> Coalesce(@.session, s),
                   pi      |-> Coalesce(@.pi, pi),
                   url     |-> "set",
                   error   |-> IF @.status = "submitting" THEN "null" ELSE @.error]]
    /\ Return(c)
    /\ UNCHANGED <<inbox, submits, session>>

IdentityConflict(c) ==
    /\ At(c, "sent")
    /\ \E s \in Sessions, pi \in Sessions \cup {None} :
           Answer(For(c), s, pi) /\ Conflicts(For(c), s, pi)
    /\ Fail(c, "provider_identity_conflict")
    /\ UNCHANGED <<rows, submits, session>>

\* The persist transaction throws for another reason.
PersistFails(c) ==
    /\ At(c, "sent")
    /\ Fail(c, "response_persistence_unknown")
    /\ UNCHANGED <<rows, submits, session>>

\* Mutant of MarkSubmissionUnknown: the status is replaced whatever it is.
MarkUnknownUnguarded(c) ==
    /\ At(c, "unresolved")
    /\ operation' = [operation EXCEPT ![For(c)] =
           [status |-> "submission_unknown", session |-> @.session, pi |-> @.pi,
            url |-> @.url, error |-> caller[c].error]]
    /\ Return(c)
    /\ UNCHANGED <<inbox, submits, session>>

\* One UPDATE: only a row still submitting becomes unknown; the error is noted
\* on any.
MarkSubmissionUnknown(c) ==
    /\ At(c, "unresolved")
    /\ operation' = [operation EXCEPT ![For(c)] =
           [status  |-> IF @.status = "submitting" THEN "submission_unknown" ELSE @.status,
            session |-> @.session, pi |-> @.pi, url |-> @.url,
            error   |-> caller[c].error]]
    /\ Return(c)
    /\ UNCHANGED <<inbox, submits, session>>

\* The process dies; nothing resumes the call.
Crash(c) ==
    /\ ~At(c, "idle")
    /\ Return(c)
    /\ UNCHANGED <<rows, submits, session>>

-----------------------------------------------------------------------------
\* ingestStripeSandboxWebhook, for an event not yet in the inbox.
New(s, kind) == session[s].intent # None /\ inbox[<<s, kind>>] = "none"

Record(s, kind, disposition) ==
    inbox' = [inbox EXCEPT ![<<s, kind>>] = disposition]

\* No row has the session's client_reference_id yet.
Unmatched(s, kind) ==
    /\ New(s, kind)
    /\ operation[session[s].intent].status = "none"
    /\ Record(s, kind, "unmatched")
    /\ UNCHANGED <<operation, caller, submits, session>>

\* Identifiers another row already has.
Taken(i, s, pi) ==
    \E j \in Intents \ {i} : \/ operation[j].session = s
                             \/ pi # None /\ operation[j].pi = pi

\* Mutant of Admissible: a row that has no session yet contradicts any session.
AdmissibleWhenBound(s, pi) ==
    /\ session[s].matches = "yes"
    /\ operation[session[s].intent].session = s
    /\ ~Conflicts(session[s].intent, s, pi)
    /\ ~Taken(session[s].intent, s, pi)

\* The event's account, currency, amount and metadata are those committed, and
\* its identifiers contradict no row.
Admissible(s, pi) ==
    /\ session[s].matches = "yes"
    /\ ~Conflicts(session[s].intent, s, pi)
    /\ ~Taken(session[s].intent, s, pi)

\* The payment intent an event names: a paid one that names none does not match.
Names(s, kind, pi) == pi = s \/ (pi = None /\ kind # "paid")

\* A refusal is recorded for good: a redelivery finds the row and stops there.
Refuse(s, kind) ==
    /\ New(s, kind)
    /\ operation[session[s].intent].status # "none"
    /\ \E pi \in {None, s} : Names(s, kind, pi) /\ ~Admissible(s, pi)
    /\ Record(s, kind, "refused")
    /\ UNCHANGED <<operation, caller, submits, session>>

\* Mutants of Projected: the transition's own name, and the last event wins.
ProjectedRaw(status, kind) == IF kind = "completed" THEN status ELSE kind
ProjectedLast(status, kind) ==
    IF kind = "paid" THEN "provider_reported_paid"
    ELSE IF kind = "expired" THEN "expired"
    ELSE status

\* Paid is final; expiry gives way to it only.
Projected(status, kind) ==
    IF kind = "paid" THEN "provider_reported_paid"
    ELSE IF kind = "expired" /\ status # "provider_reported_paid" THEN "expired"
    ELSE status

\* The inbox row and the projection, in one transaction.
Apply(s, kind) ==
    /\ New(s, kind)
    /\ operation[session[s].intent].status # "none"
    /\ \E pi \in {None, s} :
           /\ Names(s, kind, pi)
           /\ Admissible(s, pi)
           /\ operation' = [operation EXCEPT ![session[s].intent] =
                  [status  |-> Projected(@.status, kind),
                   session |-> Coalesce(@.session, s),
                   pi      |-> Coalesce(@.pi, pi),
                   url     |-> @.url,
                   error   |-> @.error]]
    /\ Record(s, kind, "applied")
    /\ UNCHANGED <<caller, submits, session>>

Create(c) == \/ Submit(c) \/ TransportFails(c) \/ ResponseMismatch(c)
             \/ Persist(c) \/ IdentityConflict(c) \/ PersistFails(c)
             \/ MarkSubmissionUnknown(c) \/ Crash(c)

Webhook(s, kind) == Unmatched(s, kind) \/ Refuse(s, kind) \/ Apply(s, kind)

Next == \/ \E s \in Sessions : CreateSession(s)
        \/ \E c \in Callers, i \in Intents : Reserve(c, i)
        \/ \E c \in Callers : Create(c)
        \/ \E s \in Sessions, kind \in Kinds : Webhook(s, kind)

Spec == Init /\ [][Next]_vars

-----------------------------------------------------------------------------
(***************************************************************************)
(* Properties.                                                             *)
(***************************************************************************)

\* Every variable keeps its type, and a call that is not idle has an intent.
TypeOK ==
    /\ operation \in [Intents -> Operation]
    /\ inbox \in [Events -> Dispositions]
    /\ caller \in [Callers -> [stage : Stages, intent : Intents \cup {None}, error : Errors]]
    /\ \A c \in Callers : caller[c].stage # "idle" => caller[c].intent \in Intents
    /\ submits \in [Intents -> Nat]
    /\ session \in [Sessions -> [intent : Intents \cup {None}, matches : {"yes", "no"}]]

\* The durable idempotency of docs/KINGDOM-PAYMENTS.md:188: one request leaves for an
\* intent, however many creates race and whatever dies, and the row that forbids the
\* next one is there before it.
SubmittedOnce ==
    \A i \in Intents : /\ submits[i] <= 1
                       /\ submits[i] > 0 => operation[i].status # "none"

\* An applied event is always one of the session its row is bound to: the answer
\* and the webhooks bind the row in any order and never to two sessions.
AppliedIsBound ==
    \A s \in Sessions, kind \in Kinds :
        inbox[<<s, kind>>] = "applied" => /\ operation[session[s].intent].session = s
                                          /\ session[s].matches = "yes"

Applied(i, kind) ==
    \E s \in Sessions : session[s].intent = i /\ inbox[<<s, kind>>] = "applied"

\* The status reads paid, or expired, exactly as the applied events say, whatever
\* the create call still in flight answers or fails with.
StatusFollowsInbox ==
    \A i \in Intents :
        /\ operation[i].status = "provider_reported_paid" <=> Applied(i, "paid")
        /\ operation[i].status = "expired" <=> Applied(i, "expired") /\ ~Applied(i, "paid")

\* A payment of the bound session is never lost: when its event found the row, the
\* row reads paid, even if the event came before the row knew its session.
BoundPaymentCounts ==
    \A s \in Sessions :
        /\ session[s].intent # None /\ session[s].matches = "yes"
        /\ inbox[<<s, "paid">>] \in {"applied", "refused"}
        /\ operation[session[s].intent].session = s
        => operation[session[s].intent].status = "provider_reported_paid"

Forward == {<<"none", "submitting">>, <<"submitting", "submitted">>,
            <<"submitting", "submission_unknown">>,
            <<"submitting", "expired">>, <<"submitted", "expired">>,
            <<"submission_unknown", "expired">>}

\* The lifecycle of docs/KINGDOM-PAYMENTS.md:57 is forward-only: an unknown outcome
\* ends only by what Stripe reports, a payment ends it all, and identifiers once
\* recorded never change.
ForwardOnly ==
    [][\A i \in Intents :
          /\ operation'[i].status # operation[i].status =>
                 \/ <<operation[i].status, operation'[i].status>> \in Forward
                 \/ operation[i].status # "none" /\ operation'[i].status = "provider_reported_paid"
          /\ operation[i].session # None => operation'[i].session = operation[i].session
          /\ operation[i].pi # None => operation'[i].pi = operation[i].pi]_vars

-----------------------------------------------------------------------------
(***************************************************************************)
(* The strengthening StripeCheckoutProofs shows inductive.                 *)
(***************************************************************************)

\* Only the call that inserted a row works for its intent, and only it submits.
OneCall ==
    /\ \A c, d \in Callers :
           ~At(c, "idle") /\ ~At(d, "idle") /\ For(c) = For(d) => c = d
    /\ \A c \in Callers :
           /\ ~At(c, "idle") => operation[For(c)].status # "none"
           /\ At(c, "reserved") => submits[For(c)] = 0

\* A row is bound to a session of its own intent, and to that session's payment.
BoundRow ==
    \A i \in Intents :
        /\ operation[i].status = "none" => operation[i].session = None
        /\ operation[i].session = None => operation[i].pi = None
        /\ operation[i].session # None => /\ session[operation[i].session].intent = i
                                         /\ operation[i].pi \in {None, operation[i].session}

\* Only a session that exists has events.
EventRow ==
    \A s \in Sessions, kind \in Kinds :
        inbox[<<s, kind>>] # "none" => session[s].intent # None

\* A matching paid event is refused only by a row bound to another session.
RefusedElsewhere ==
    \A s \in Sessions :
        inbox[<<s, "paid">>] = "refused" /\ session[s].matches = "yes" =>
            operation[session[s].intent].session \notin {None, s}

IInv == /\ TypeOK /\ OneCall /\ SubmittedOnce /\ BoundRow /\ EventRow
        /\ AppliedIsBound /\ StatusFollowsInbox /\ RefusedElsewhere
=============================================================================
