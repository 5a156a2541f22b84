-------------------------- MODULE StripeCheckoutProofs --------------------------
(***************************************************************************)
(* Theorems about StripeCheckout for any intents, sessions and calls.      *)
(***************************************************************************)
EXTENDS StripeCheckout, TLAPS

CallerType ==
    /\ caller \in [Callers -> [stage : Stages, intent : Intents \cup {None}, error : Errors]]
    /\ \A c \in Callers : caller[c].stage # "idle" => caller[c].intent \in Intents

-----------------------------------------------------------------------------
\* A call that ends leaves a well-typed, empty slot.
LEMMA ReturnType ==
    ASSUME TypeOK, NEW c \in Callers, Return(c)
    PROVE  CallerType'
  BY DEF TypeOK, CallerType, Return, Idle, Stages, Errors

\* A call that failed keeps its intent and carries one of the errors.
LEMMA FailType ==
    ASSUME TypeOK, NEW c \in Callers, ~At(c, "idle"), NEW e \in Errors, Fail(c, e)
    PROVE  CallerType'
  BY DEF TypeOK, CallerType, Fail, At, Stages

\* COALESCE of two nullable session ids is one.
LEMMA CoalesceType ==
    ASSUME NEW x \in Sessions \cup {None}, NEW y \in Sessions \cup {None}
    PROVE  Coalesce(x, y) \in Sessions \cup {None}
  BY DEF Coalesce

\* The projection of an event is a status.
LEMMA ProjectedType ==
    ASSUME NEW x \in Statuses, NEW kind
    PROVE  Projected(x, kind) \in Statuses
  BY DEF Projected, Statuses

\* TypeOK: the rows, calls and requests keep their shapes.
THEOREM TypeCorrect == Spec => []TypeOK
<1>1. Init => TypeOK
  BY DEF Init, TypeOK, NoOperation, Operation, Statuses, Errors, Dispositions, Idle, Stages
<1>2. TypeOK /\ [Next]_vars => TypeOK'
  <2> SUFFICES ASSUME TypeOK, [Next]_vars PROVE TypeOK'
    OBVIOUS
  <2>1. CASE UNCHANGED vars
    BY <2>1 DEF TypeOK, vars, rows
  <2>2. ASSUME NEW s \in Sessions, CreateSession(s) PROVE TypeOK'
    BY <2>2 DEF TypeOK, CreateSession, rows
  <2>3. ASSUME NEW c \in Callers, NEW i \in Intents, Reserve(c, i) PROVE TypeOK'
    <3>1. operation' \in [Intents -> Operation]
      BY <2>3 DEF TypeOK, Reserve, Operation, Statuses, Errors
    <3>2. CallerType'
      BY <2>3 DEF TypeOK, CallerType, Reserve, Stages, Errors
    <3>3. QED
      BY <2>3, <3>1, <3>2 DEF TypeOK, CallerType, Reserve
  <2>4. ASSUME NEW c \in Callers, Submit(c) PROVE TypeOK'
    <3>1. CallerType'
      BY <2>4 DEF TypeOK, CallerType, Submit, Stages, Errors, At
    <3>2. submits' \in [Intents -> Nat]
      BY <2>4 DEF TypeOK, Submit, At, For
    <3>3. QED
      BY <2>4, <3>1, <3>2 DEF TypeOK, CallerType, Submit, rows
  <2>5. ASSUME NEW c \in Callers,
               TransportFails(c) \/ ResponseMismatch(c) \/ IdentityConflict(c) \/ PersistFails(c)
        PROVE TypeOK'
    <3>1. ~At(c, "idle") /\ \E e \in Errors : Fail(c, e)
      BY <2>5 DEF TransportFails, ResponseMismatch, IdentityConflict, PersistFails, At, Errors
    <3>2. CallerType'
      BY <3>1, FailType
    <3>3. QED
      BY <2>5, <3>2 DEF TypeOK, CallerType, TransportFails, ResponseMismatch,
                        IdentityConflict, PersistFails, rows
  <2>6. ASSUME NEW c \in Callers, Persist(c) PROVE TypeOK'
    <3>1. For(c) \in Intents
      BY <2>6 DEF TypeOK, Persist, At, For
    <3>2. PICK s \in Sessions, pi \in Sessions \cup {None} :
              operation' = [operation EXCEPT ![For(c)] =
                  [status  |-> IF @.status = "submitting" THEN "submitted" ELSE @.status,
                   session |-> Coalesce(@.session, s),
                   pi      |-> Coalesce(@.pi, pi),
                   url     |-> "set",
                   error   |-> IF @.status = "submitting" THEN "null" ELSE @.error]]
      BY <2>6 DEF Persist
    <3>3. operation[For(c)] \in Operation
      BY <3>1 DEF TypeOK
    <3>4. /\ Coalesce(operation[For(c)].session, s) \in Sessions \cup {None}
          /\ Coalesce(operation[For(c)].pi, pi) \in Sessions \cup {None}
      BY <3>3, CoalesceType DEF Operation
    <3>5. operation'[For(c)] \in Operation
      BY <3>1, <3>2, <3>3, <3>4 DEF TypeOK, Operation, Statuses, Errors
    <3>6. operation' \in [Intents -> Operation]
      BY <3>1, <3>2, <3>5 DEF TypeOK
    <3>7. CallerType'
      BY <2>6, ReturnType DEF Persist
    <3>8. QED
      BY <2>6, <3>6, <3>7 DEF TypeOK, CallerType, Persist
  <2>7. ASSUME NEW c \in Callers, MarkSubmissionUnknown(c) PROVE TypeOK'
    <3>1. For(c) \in Intents /\ caller[c].error \in Errors
      BY <2>7 DEF TypeOK, MarkSubmissionUnknown, At, For
    <3>2. operation' \in [Intents -> Operation]
      BY <2>7, <3>1 DEF TypeOK, MarkSubmissionUnknown, Operation, Statuses
    <3>3. CallerType'
      BY <2>7, ReturnType DEF MarkSubmissionUnknown
    <3>4. QED
      BY <2>7, <3>2, <3>3 DEF TypeOK, CallerType, MarkSubmissionUnknown
  <2>8. ASSUME NEW c \in Callers, Crash(c) PROVE TypeOK'
    BY <2>8, ReturnType DEF TypeOK, CallerType, Crash, rows
  <2>9. ASSUME NEW s \in Sessions, NEW kind \in Kinds, Unmatched(s, kind) \/ Refuse(s, kind)
        PROVE TypeOK'
    BY <2>9 DEF TypeOK, Unmatched, Refuse, Record, Dispositions
  <2>10. ASSUME NEW s \in Sessions, NEW kind \in Kinds, Apply(s, kind) PROVE TypeOK'
    <3> DEFINE i == session[s].intent
    <3>1. i \in Intents /\ operation[i] \in Operation
      BY <2>10 DEF TypeOK, Apply, New
    <3>2. PICK pi \in {None, s} :
              operation' = [operation EXCEPT ![i] =
                  [status |-> Projected(@.status, kind), session |-> Coalesce(@.session, s),
                   pi |-> Coalesce(@.pi, pi), url |-> @.url, error |-> @.error]]
      BY <2>10 DEF Apply
    <3>3. /\ Coalesce(operation[i].session, s) \in Sessions \cup {None}
          /\ Coalesce(operation[i].pi, pi) \in Sessions \cup {None}
          /\ Projected(operation[i].status, kind) \in Statuses
      BY <3>1, CoalesceType, ProjectedType DEF Operation
    <3>4. operation' \in [Intents -> Operation]
      BY <3>1, <3>2, <3>3 DEF TypeOK, Operation
    <3>5. inbox' \in [Events -> Dispositions]
      BY <2>10 DEF TypeOK, Apply, Record, Dispositions
    <3>6. QED
      BY <2>10, <3>4, <3>5 DEF TypeOK, Apply
  <2>11. QED
    BY <2>1, <2>2, <2>3, <2>4, <2>5, <2>6, <2>7, <2>8, <2>9, <2>10 DEF Next, Create, Webhook
<1>3. QED
  BY <1>1, <1>2, PTL DEF Spec

-----------------------------------------------------------------------------
(***************************************************************************)
(* Shapes: what the two writers of a bound row, Persist and Apply, do.     *)
(***************************************************************************)

\* A row other than i is untouched.
OnlyRow(i) == \A j \in Intents : j # i => operation'[j] = operation[j]

\* Row i ends up bound to session s of its own intent, as COALESCE leaves it.
Binds(i, s) ==
    /\ session[s].intent = i
    /\ session[s].matches = "yes"
    /\ operation[i].session \in {None, s}
    /\ operation[i].pi \in {None, s}
    /\ operation'[i].session = s
    /\ operation'[i].pi \in {None, s}
    /\ operation[i].pi # None => operation'[i].pi = operation[i].pi

\* COALESCE over identifiers that do not contradict the row binds the row.
LEMMA Coalesced ==
    ASSUME TypeOK, BoundRow, NEW i \in Intents, NEW s \in Sessions, NEW pi \in {None, s},
           session[s].intent = i, session[s].matches = "yes", ~Conflicts(i, s, pi),
           operation'[i].session = Coalesce(operation[i].session, s),
           operation'[i].pi = Coalesce(operation[i].pi, pi)
    PROVE  Binds(i, s)
<1>1. s # None /\ operation[i].session \in {None, s}
  BY NoneAssumption DEF Conflicts
<1>2. operation[i].pi \in {None, s}
  BY <1>1 DEF BoundRow
<1>3. QED
  BY <1>1, <1>2 DEF Binds, Coalesce

\* The response of a create binds the row it submitted for, and moves its status
\* only from submitting to submitted.
LEMMA PersistShape ==
    ASSUME TypeOK, OneCall, BoundRow, NEW c \in Callers, Persist(c)
    PROVE  /\ For(c) \in Intents /\ OnlyRow(For(c))
           /\ \E s \in Sessions : Binds(For(c), s)
           /\ operation'[For(c)].status =
                  IF operation[For(c)].status = "submitting" THEN "submitted"
                  ELSE operation[For(c)].status
           /\ operation[For(c)].status # "none"
<1>1. For(c) \in Intents
  BY DEF TypeOK, Persist, At, For
<1>2. PICK s \in Sessions, pi \in Sessions \cup {None} :
          /\ Answer(For(c), s, pi)
          /\ ~Conflicts(For(c), s, pi)
          /\ operation' = [operation EXCEPT ![For(c)] =
              [status  |-> IF @.status = "submitting" THEN "submitted" ELSE @.status,
               session |-> Coalesce(@.session, s),
               pi      |-> Coalesce(@.pi, pi),
               url     |-> "set",
               error   |-> IF @.status = "submitting" THEN "null" ELSE @.error]]
  BY DEF Persist
<1>3. /\ OnlyRow(For(c))
      /\ operation'[For(c)].status =
             IF operation[For(c)].status = "submitting" THEN "submitted"
             ELSE operation[For(c)].status
      /\ operation'[For(c)].session = Coalesce(operation[For(c)].session, s)
      /\ operation'[For(c)].pi = Coalesce(operation[For(c)].pi, pi)
  BY <1>1, <1>2 DEF TypeOK, OnlyRow
<1>4. Binds(For(c), s)
  BY <1>1, <1>2, <1>3, Coalesced DEF Answer
<1>5. operation[For(c)].status # "none"
  BY DEF OneCall, Persist, At
<1>6. QED
  BY <1>1, <1>3, <1>4, <1>5

\* An applied event binds the row of its intent and projects its kind.
LEMMA ApplyShape ==
    ASSUME TypeOK, BoundRow, NEW s \in Sessions, NEW kind \in Kinds, Apply(s, kind)
    PROVE  /\ session[s].intent \in Intents /\ OnlyRow(session[s].intent)
           /\ Binds(session[s].intent, s)
           /\ operation'[session[s].intent].status =
                  Projected(operation[session[s].intent].status, kind)
           /\ operation[session[s].intent].status # "none"
<1> DEFINE i == session[s].intent
<1>1. i \in Intents
  BY DEF TypeOK, Apply, New
<1>2. PICK pi \in {None, s} :
          /\ Admissible(s, pi)
          /\ operation' = [operation EXCEPT ![i] =
                 [status |-> Projected(@.status, kind), session |-> Coalesce(@.session, s),
                  pi |-> Coalesce(@.pi, pi), url |-> @.url, error |-> @.error]]
  BY DEF Apply
<1>3. /\ OnlyRow(i)
      /\ operation'[i].status = Projected(operation[i].status, kind)
      /\ operation'[i].session = Coalesce(operation[i].session, s)
      /\ operation'[i].pi = Coalesce(operation[i].pi, pi)
  BY <1>1, <1>2 DEF TypeOK, OnlyRow
<1>4. Binds(i, s)
  BY <1>1, <1>2, <1>3, Coalesced DEF Admissible
<1>5. QED
  BY <1>1, <1>3, <1>4 DEF Apply

\* markSubmissionUnknown writes one row and leaves its identifiers alone.
LEMMA UnknownShape ==
    ASSUME TypeOK, OneCall, NEW c \in Callers, MarkSubmissionUnknown(c)
    PROVE  /\ For(c) \in Intents /\ OnlyRow(For(c))
           /\ operation'[For(c)].session = operation[For(c)].session
           /\ operation'[For(c)].pi = operation[For(c)].pi
           /\ operation'[For(c)].status =
                  IF operation[For(c)].status = "submitting" THEN "submission_unknown"
                  ELSE operation[For(c)].status
           /\ operation[For(c)].status # "none"
<1>1. For(c) \in Intents
  BY DEF TypeOK, MarkSubmissionUnknown, At, For
<1>2. QED
  BY <1>1 DEF TypeOK, OneCall, MarkSubmissionUnknown, OnlyRow, At

\* The first create of an intent writes a row that has no identifiers.
LEMMA ReserveShape ==
    ASSUME TypeOK, BoundRow, NEW c \in Callers, NEW i \in Intents, Reserve(c, i)
    PROVE  /\ OnlyRow(i)
           /\ operation[i].status = "none" /\ operation'[i].status = "submitting"
           /\ operation[i].session = None /\ operation'[i].session = None
           /\ operation[i].pi = None /\ operation'[i].pi = None
  BY DEF TypeOK, BoundRow, Reserve, OnlyRow

\* The steps of a create call that write no row.
Silent(c) == \/ Submit(c) \/ TransportFails(c) \/ ResponseMismatch(c)
             \/ IdentityConflict(c) \/ PersistFails(c) \/ Crash(c)

\* The steps of Next, sorted by the tables they write.
LEMMA Steps ==
    ASSUME [Next]_vars
    PROVE  \/ UNCHANGED vars
           \/ \E s \in Sessions : CreateSession(s)
           \/ \E c \in Callers, i \in Intents : Reserve(c, i)
           \/ \E c \in Callers : Silent(c)
           \/ \E c \in Callers : Persist(c)
           \/ \E c \in Callers : MarkSubmissionUnknown(c)
           \/ \E s \in Sessions, kind \in Kinds : Unmatched(s, kind) \/ Refuse(s, kind)
           \/ \E s \in Sessions, kind \in Kinds : Apply(s, kind)
  BY DEF Next, Create, Webhook, Silent

-----------------------------------------------------------------------------
(***************************************************************************)
(* What no step undoes: a row, the session it is bound to, a session.      *)
(***************************************************************************)
Sticky ==
    /\ \A i \in Intents :
           /\ operation[i].status # "none" => operation'[i].status # "none"
           /\ operation[i].session # None => operation'[i].session = operation[i].session
           /\ operation[i].pi # None => operation'[i].pi = operation[i].pi
    /\ \A s \in Sessions : session[s].intent # None => session'[s] = session[s]

\* No row disappears, and identifiers once recorded stay.
LEMMA StickyStep ==
    ASSUME TypeOK, OneCall, BoundRow, [Next]_vars
    PROVE  Sticky
<1>1. CASE UNCHANGED vars
  BY <1>1 DEF vars, Sticky
<1>2. ASSUME NEW s \in Sessions, CreateSession(s) PROVE Sticky
  BY <1>2 DEF TypeOK, CreateSession, Sticky, rows
<1>3. ASSUME NEW c \in Callers, NEW i \in Intents, Reserve(c, i) PROVE Sticky
  <2>1. session' = session
    BY <1>3 DEF Reserve
  <2>2. QED
    BY <1>3, <2>1, ReserveShape DEF OnlyRow, Sticky
<1>4. ASSUME NEW c \in Callers, Silent(c) PROVE Sticky
  <2>1. UNCHANGED <<operation, session>>
    BY <1>4 DEF Silent, Submit, TransportFails, ResponseMismatch, IdentityConflict,
                PersistFails, Crash, rows
  <2>2. QED
    BY <2>1 DEF Sticky
<1>5. ASSUME NEW c \in Callers, Persist(c) PROVE Sticky
  <2>1. session' = session
    BY <1>5 DEF Persist
  <2>2. QED
    BY <1>5, <2>1, PersistShape DEF OnlyRow, Binds, Sticky
<1>6. ASSUME NEW c \in Callers, MarkSubmissionUnknown(c) PROVE Sticky
  <2>1. session' = session
    BY <1>6 DEF MarkSubmissionUnknown
  <2>2. QED
    BY <1>6, <2>1, UnknownShape DEF OnlyRow, Sticky
<1>7. ASSUME NEW s \in Sessions, NEW kind \in Kinds, Unmatched(s, kind) \/ Refuse(s, kind)
      PROVE Sticky
  <2>1. UNCHANGED <<operation, session>>
    BY <1>7 DEF Unmatched, Refuse
  <2>2. QED
    BY <2>1 DEF Sticky
<1>8. ASSUME NEW s \in Sessions, NEW kind \in Kinds, Apply(s, kind) PROVE Sticky
  <2>1. session' = session
    BY <1>8 DEF Apply
  <2>2. Projected(operation[session[s].intent].status, kind) # "none"
    BY <1>8, ApplyShape DEF Projected
  <2>3. QED
    BY <1>8, <2>1, <2>2, ApplyShape DEF OnlyRow, Binds, Sticky
<1>9. QED
  BY <1>1, <1>2, <1>3, <1>4, <1>5, <1>6, <1>7, <1>8, Steps

-----------------------------------------------------------------------------
\* One call per intent, one request per call.
LEMMA CallsStep ==
    ASSUME TypeOK, OneCall, SubmittedOnce, Sticky, [Next]_vars
    PROVE  OneCall' /\ SubmittedOnce'
<1>1. CASE UNCHANGED <<caller, submits>>
  BY <1>1 DEF TypeOK, OneCall, SubmittedOnce, Sticky, At, For
<1>2. ASSUME NEW c \in Callers, Return(c), UNCHANGED submits PROVE OneCall' /\ SubmittedOnce'
  BY <1>2 DEF TypeOK, OneCall, SubmittedOnce, Sticky, Return, Idle, At, For
<1>3. ASSUME NEW c \in Callers, NEW e, ~At(c, "idle"), Fail(c, e), UNCHANGED submits
      PROVE OneCall' /\ SubmittedOnce'
  BY <1>3 DEF TypeOK, OneCall, SubmittedOnce, Sticky, Fail, At, For
<1>4. ASSUME NEW c \in Callers, Submit(c) PROVE OneCall' /\ SubmittedOnce'
  <2>1. For(c) \in Intents /\ submits[For(c)] = 0 /\ operation[For(c)].status # "none"
    BY <1>4 DEF TypeOK, OneCall, Submit, At, For
  <2>2. OneCall'
    BY <1>4, <2>1 DEF TypeOK, OneCall, Sticky, Submit, At, For
  <2>3. SubmittedOnce'
    BY <1>4, <2>1 DEF TypeOK, SubmittedOnce, Sticky, Submit
  <2>4. QED
    BY <2>2, <2>3
<1>5. ASSUME NEW c \in Callers, NEW i \in Intents, Reserve(c, i) PROVE OneCall' /\ SubmittedOnce'
  <2>1. operation'[i].status = "submitting"
    BY <1>5 DEF TypeOK, Reserve
  <2>2. submits[i] = 0
    BY <1>5 DEF TypeOK, SubmittedOnce, Reserve
  <2>3. \A d \in Callers : ~At(d, "idle") => For(d) # i
    BY <1>5 DEF OneCall, Reserve
  <2>4. OneCall'
    BY <1>5, <2>1, <2>2, <2>3 DEF TypeOK, OneCall, Sticky, Reserve, At, For
  <2>5. SubmittedOnce'
    BY <1>5 DEF SubmittedOnce, Sticky, Reserve
  <2>6. QED
    BY <2>4, <2>5
<1>6. QED
  <2>1. ASSUME NEW c \in Callers, Silent(c) PROVE OneCall' /\ SubmittedOnce'
    BY <2>1, <1>2, <1>3, <1>4 DEF Silent, TransportFails, ResponseMismatch, IdentityConflict,
                                  PersistFails, Crash, At
  <2>2. QED
    BY <1>1, <1>2, <1>5, <2>1, Steps DEF vars, CreateSession, Persist, MarkSubmissionUnknown,
                                         Unmatched, Refuse, Apply

\* Rows stay bound to sessions of their own intent, and events to sessions.
LEMMA BoundStep ==
    ASSUME TypeOK, OneCall, BoundRow, EventRow, Sticky, [Next]_vars
    PROVE  BoundRow' /\ EventRow'
<1>1. EventRow'
  <2>1. CASE UNCHANGED inbox
    BY <2>1, NoneAssumption DEF EventRow, Sticky
  <2>2. ASSUME NEW s \in Sessions, NEW kind \in Kinds, NEW d, New(s, kind), Record(s, kind, d)
        PROVE EventRow'
    BY <2>2 DEF TypeOK, EventRow, Sticky, New, Record, Events
  <2>3. QED
    BY <2>1, <2>2, Steps DEF vars, rows, CreateSession, Reserve, Silent, Submit, TransportFails,
                             ResponseMismatch, IdentityConflict, PersistFails, Crash, Persist,
                             MarkSubmissionUnknown, Unmatched, Refuse, Apply
<1>2. BoundRow'
  <2>1. CASE UNCHANGED <<operation, session>>
    BY <2>1 DEF BoundRow
  <2>2. ASSUME NEW s \in Sessions, CreateSession(s) PROVE BoundRow'
    BY <2>2, NoneAssumption DEF TypeOK, Operation, BoundRow, Sticky, CreateSession, rows
  <2>3. ASSUME NEW c \in Callers, NEW i \in Intents, Reserve(c, i) PROVE BoundRow'
    <3>1. session' = session
      BY <2>3 DEF Reserve
    <3>2. QED
      BY <2>3, <3>1, ReserveShape DEF BoundRow, OnlyRow
  <2>4. ASSUME NEW c \in Callers, Persist(c) PROVE BoundRow'
    <3>1. session' = session
      BY <2>4 DEF Persist
    <3>2. PICK s \in Sessions : Binds(For(c), s)
      BY <2>4, PersistShape
    <3>3. QED
      BY <2>4, <3>1, <3>2, PersistShape, NoneAssumption DEF BoundRow, OnlyRow, Binds
  <2>5. ASSUME NEW c \in Callers, MarkSubmissionUnknown(c) PROVE BoundRow'
    <3>1. session' = session
      BY <2>5 DEF MarkSubmissionUnknown
    <3>2. QED
      BY <2>5, <3>1, UnknownShape DEF BoundRow, OnlyRow
  <2>6. ASSUME NEW s \in Sessions, NEW kind \in Kinds, Apply(s, kind) PROVE BoundRow'
    <3>1. session' = session
      BY <2>6 DEF Apply
    <3>2. Projected(operation[session[s].intent].status, kind) # "none"
      BY <2>6, ApplyShape DEF Projected
    <3>3. QED
      BY <2>6, <3>1, <3>2, ApplyShape, NoneAssumption DEF BoundRow, OnlyRow, Binds
  <2>7. QED
    BY <2>1, <2>2, <2>3, <2>4, <2>5, <2>6, Steps
       DEF vars, rows, Silent, Submit, TransportFails, ResponseMismatch, IdentityConflict,
           PersistFails, Crash, Unmatched, Refuse
<1>3. QED
  BY <1>1, <1>2

-----------------------------------------------------------------------------
(***************************************************************************)
(* The inbox and the row.                                                  *)
(***************************************************************************)

\* A step of the inbox: one new event of a session gets a disposition.
Receives(s, kind, disposition) ==
    /\ New(s, kind)
    /\ Record(s, kind, disposition)
    /\ session' = session

\* Only a webhook writes the inbox, and only a new event.
LEMMA InboxStep ==
    ASSUME [Next]_vars
    PROVE  \/ inbox' = inbox
           \/ \E s \in Sessions, kind \in Kinds :
                  \/ Apply(s, kind) /\ Receives(s, kind, "applied")
                  \/ Unmatched(s, kind) /\ Receives(s, kind, "unmatched")
                  \/ Refuse(s, kind) /\ Receives(s, kind, "refused")
  BY Steps DEF vars, rows, CreateSession, Reserve, Silent, Submit, TransportFails,
               ResponseMismatch, IdentityConflict, PersistFails, Crash, Persist,
               MarkSubmissionUnknown, Unmatched, Refuse, Apply, Receives

\* Applied events stay those of the session their row is bound to.
LEMMA AppliedStep ==
    ASSUME TypeOK, BoundRow, EventRow, AppliedIsBound, Sticky, [Next]_vars
    PROVE  AppliedIsBound'
<1>1. ASSUME NEW s \in Sessions, NEW kind \in Kinds, inbox[<<s, kind>>] = "applied"
      PROVE  operation'[session'[s].intent].session = s /\ session'[s].matches = "yes"
  <2>1. session[s].intent \in Intents /\ session'[s] = session[s]
    BY <1>1 DEF TypeOK, EventRow, Sticky
  <2>2. operation[session[s].intent].session = s /\ session[s].matches = "yes"
    BY <1>1 DEF AppliedIsBound
  <2>3. QED
    BY <2>1, <2>2, NoneAssumption DEF Sticky
<1>2. ASSUME NEW s \in Sessions, NEW kind \in Kinds,
             inbox'[<<s, kind>>] = "applied", inbox[<<s, kind>>] # "applied"
      PROVE  operation'[session'[s].intent].session = s /\ session'[s].matches = "yes"
  <2>1. Apply(s, kind) /\ session' = session
    <3>1. PICK t \in Sessions, k \in Kinds :
              \/ Apply(t, k) /\ Receives(t, k, "applied")
              \/ Unmatched(t, k) /\ Receives(t, k, "unmatched")
              \/ Refuse(t, k) /\ Receives(t, k, "refused")
      BY <1>2, InboxStep
    <3>2. <<t, k>> \in Events /\ <<s, kind>> \in Events
      BY DEF Events
    <3>3. <<t, k>> = <<s, kind>>
      BY <1>2, <3>1, <3>2 DEF TypeOK, Receives, Record
    <3>4. inbox'[<<t, k>>] = "applied"
      BY <1>2, <3>3
    <3>5. QED
      BY <3>1, <3>2, <3>3, <3>4 DEF TypeOK, Receives, Record
  <2>2. QED
    BY <2>1, ApplyShape DEF Binds
<1>3. QED
  BY <1>1, <1>2 DEF AppliedIsBound

\* Which statuses a step may exchange without an event saying so.
Quiet == {"none", "submitting", "submitted", "submission_unknown"}

QuietRows == \A i \in Intents :
    \/ operation'[i].status = operation[i].status
    \/ operation[i].status \in Quiet /\ operation'[i].status \in Quiet

\* Whatever is not an applied event exchanges quiet statuses only.
LEMMA QuietStep ==
    ASSUME TypeOK, OneCall, BoundRow, [Next]_vars,
           ~\E s \in Sessions, kind \in Kinds : Apply(s, kind)
    PROVE  QuietRows
<1>1. CASE operation' = operation
  BY <1>1 DEF QuietRows
<1>2. ASSUME NEW c \in Callers, NEW i \in Intents, Reserve(c, i) PROVE QuietRows
  BY <1>2, ReserveShape DEF QuietRows, Quiet, OnlyRow
<1>3. ASSUME NEW c \in Callers, Persist(c) PROVE QuietRows
  BY <1>3, PersistShape DEF QuietRows, Quiet, OnlyRow
<1>4. ASSUME NEW c \in Callers, MarkSubmissionUnknown(c) PROVE QuietRows
  BY <1>4, UnknownShape DEF QuietRows, Quiet, OnlyRow
<1>5. QED
  BY <1>1, <1>2, <1>3, <1>4, Steps
     DEF vars, rows, CreateSession, Silent, Submit, TransportFails, ResponseMismatch,
         IdentityConflict, PersistFails, Crash, Unmatched, Refuse

\* No step but an applied event changes which kinds were applied to an intent.
LEMMA AppliedSame ==
    ASSUME TypeOK, EventRow, Sticky, [Next]_vars,
           ~\E s \in Sessions, kind \in Kinds : Apply(s, kind),
           NEW i \in Intents, NEW kind \in Kinds
    PROVE  Applied(i, kind)' <=> Applied(i, kind)
<1>1. \A s \in Sessions : inbox'[<<s, kind>>] = "applied" <=> inbox[<<s, kind>>] = "applied"
  <2>1. CASE inbox' = inbox
    BY <2>1
  <2>2. ASSUME NEW t \in Sessions, NEW k \in Kinds,
               Receives(t, k, "unmatched") \/ Receives(t, k, "refused")
        PROVE  \A s \in Sessions :
                   inbox'[<<s, kind>>] = "applied" <=> inbox[<<s, kind>>] = "applied"
    BY <2>2 DEF TypeOK, Events, Receives, Record, New
  <2>3. QED
    BY <2>1, <2>2, InboxStep
<1>2. \A s \in Sessions : inbox[<<s, kind>>] = "applied" => session'[s] = session[s]
  BY DEF EventRow, Sticky
<1>3. QED
  BY <1>1, <1>2 DEF Applied

\* The status keeps saying what the applied events say.
LEMMA StatusStep ==
    ASSUME TypeOK, OneCall, BoundRow, EventRow, StatusFollowsInbox, Sticky, [Next]_vars
    PROVE  StatusFollowsInbox'
<1>1. CASE ~\E s \in Sessions, kind \in Kinds : Apply(s, kind)
  <2>1. \A i \in Intents, kind \in Kinds : Applied(i, kind)' <=> Applied(i, kind)
    BY <1>1, AppliedSame
  <2>2. QuietRows
    BY <1>1, QuietStep
  <2>3. \A i \in Intents : /\ Applied(i, "paid")' <=> Applied(i, "paid")
                           /\ Applied(i, "expired")' <=> Applied(i, "expired")
    BY <2>1 DEF Kinds
  <2>4. QED
    BY <2>2, <2>3 DEF StatusFollowsInbox, QuietRows, Quiet
<1>2. ASSUME NEW s \in Sessions, NEW kind \in Kinds, Apply(s, kind)
      PROVE  StatusFollowsInbox'
  <2> DEFINE i == session[s].intent
  <2>1. /\ i \in Intents /\ OnlyRow(i) /\ session' = session
        /\ operation'[i].status = Projected(operation[i].status, kind)
    BY <1>2, ApplyShape DEF Apply
  <2>2. \A t \in Sessions, k \in Kinds :
            inbox'[<<t, k>>] = "applied" <=>
                inbox[<<t, k>>] = "applied" \/ (t = s /\ k = kind)
    BY <1>2 DEF TypeOK, Events, Apply, Record
  <2>3. \A j \in Intents, k \in Kinds :
            Applied(j, k)' <=> Applied(j, k) \/ (j = i /\ k = kind)
    BY <2>1, <2>2 DEF Applied
  <2>4. \A j \in Intents :
            /\ Applied(j, "paid")' <=> Applied(j, "paid") \/ (j = i /\ kind = "paid")
            /\ Applied(j, "expired")' <=> Applied(j, "expired") \/ (j = i /\ kind = "expired")
    BY <2>3 DEF Kinds
  <2>5. ASSUME NEW j \in Intents
        PROVE  /\ operation'[j].status = "provider_reported_paid" <=> Applied(j, "paid")'
               /\ operation'[j].status = "expired" <=>
                      Applied(j, "expired")' /\ ~Applied(j, "paid")'
    <3>1. CASE j # i
      BY <2>1, <2>4, <3>1 DEF StatusFollowsInbox, OnlyRow
    <3>2. CASE j = i
      BY <2>1, <2>4, <3>2 DEF StatusFollowsInbox, Projected, Kinds
    <3>3. QED
      BY <3>1, <3>2
  <2>6. QED
    BY <2>5 DEF StatusFollowsInbox
<1>3. QED
  BY <1>1, <1>2

\* A refusal of a matching paid event keeps meaning what it meant.
LEMMA RefusedStep ==
    ASSUME TypeOK, BoundRow, EventRow, RefusedElsewhere, Sticky, [Next]_vars
    PROVE  RefusedElsewhere'
<1>1. ASSUME NEW s \in Sessions, inbox[<<s, "paid">>] = "refused",
             session'[s].matches = "yes"
      PROVE  operation'[session'[s].intent].session \notin {None, s}
  <2>1. session[s].intent \in Intents /\ session'[s] = session[s]
    BY <1>1 DEF TypeOK, EventRow, Sticky, Kinds
  <2>2. operation[session[s].intent].session \notin {None, s}
    BY <1>1, <2>1 DEF RefusedElsewhere
  <2>3. QED
    BY <2>1, <2>2 DEF Sticky
<1>2. ASSUME NEW s \in Sessions, inbox'[<<s, "paid">>] = "refused",
             inbox[<<s, "paid">>] # "refused", session'[s].matches = "yes"
      PROVE  operation'[session'[s].intent].session \notin {None, s}
  <2>1. Refuse(s, "paid")
    <3>1. PICK t \in Sessions, k \in Kinds :
              \/ Apply(t, k) /\ Receives(t, k, "applied")
              \/ Unmatched(t, k) /\ Receives(t, k, "unmatched")
              \/ Refuse(t, k) /\ Receives(t, k, "refused")
      BY <1>2, InboxStep
    <3>2. <<t, k>> \in Events /\ <<s, "paid">> \in Events
      BY DEF Events, Kinds
    <3>3. <<t, k>> = <<s, "paid">>
      BY <1>2, <3>1, <3>2 DEF TypeOK, Receives, Record
    <3>4. QED
      BY <1>2, <3>1, <3>2, <3>3 DEF TypeOK, Receives, Record
  <2>2. /\ session[s].intent \in Intents /\ session' = session /\ operation' = operation
        /\ ~Admissible(s, s)
    BY <2>1, NoneAssumption DEF TypeOK, Refuse, New, Names
  <2>3. ~Taken(session[s].intent, s, s)
    BY <2>2, NoneAssumption DEF BoundRow, Taken
  <2>4. Conflicts(session[s].intent, s, s)
    BY <1>2, <2>2, <2>3 DEF Admissible
  <2>5. QED
    BY <2>2, <2>4, NoneAssumption DEF BoundRow, Conflicts
<1>3. QED
  BY <1>1, <1>2 DEF RefusedElsewhere

-----------------------------------------------------------------------------
\* The strengthening is inductive.
LEMMA Inductive == Spec => []IInv
<1>1. Init => IInv
  <2> SUFFICES ASSUME Init PROVE IInv
    OBVIOUS
  <2>1. TypeOK
    BY DEF Init, TypeOK, NoOperation, Operation, Statuses, Errors, Dispositions, Idle, Stages
  <2>2. OneCall /\ SubmittedOnce /\ BoundRow
    BY DEF Init, OneCall, SubmittedOnce, BoundRow, NoOperation, Idle, At
  <2>3. \A s \in Sessions, kind \in Kinds : inbox[<<s, kind>>] = "none"
    BY DEF Init, Events
  <2>4. EventRow /\ AppliedIsBound /\ RefusedElsewhere
    BY <2>3 DEF EventRow, AppliedIsBound, RefusedElsewhere, Kinds
  <2>5. StatusFollowsInbox
    BY <2>3 DEF Init, StatusFollowsInbox, Applied, NoOperation, Kinds
  <2>6. QED
    BY <2>1, <2>2, <2>4, <2>5 DEF IInv
<1>2. IInv /\ [Next]_vars /\ TypeOK' => IInv'
  BY StickyStep, CallsStep, BoundStep, AppliedStep, StatusStep, RefusedStep DEF IInv
<1>3. QED
  BY <1>1, <1>2, TypeCorrect, PTL DEF Spec

\* SubmittedOnce: whatever creates race and wherever they die, one request leaves
\* for an intent, under a row that was there first.
THEOREM OneRequestPerIntent == Spec => []SubmittedOnce
  BY Inductive, PTL DEF IInv

\* AppliedIsBound: the events that changed a row are events of the one session
\* it is bound to.
THEOREM RowBoundOnce == Spec => []AppliedIsBound
  BY Inductive, PTL DEF IInv

\* StatusFollowsInbox: the status of a row is what its session's applied events say.
THEOREM RowFollowsEvents == Spec => []StatusFollowsInbox
  BY Inductive, PTL DEF IInv

\* BoundPaymentCounts: a payment of the bound session, once its event found the row,
\* is never forgotten.
THEOREM NoBoundPaymentLost == Spec => []BoundPaymentCounts
<1>1. IInv => BoundPaymentCounts
  <2> SUFFICES ASSUME IInv, NEW s \in Sessions, session[s].intent # None,
                      session[s].matches = "yes", inbox[<<s, "paid">>] \in {"applied", "refused"},
                      operation[session[s].intent].session = s
               PROVE  operation[session[s].intent].status = "provider_reported_paid"
    BY DEF BoundPaymentCounts
  <2>1. session[s].intent \in Intents
    BY DEF IInv, TypeOK
  <2>2. inbox[<<s, "paid">>] = "applied"
    BY DEF IInv, RefusedElsewhere
  <2>3. Applied(session[s].intent, "paid")
    BY <2>2 DEF Applied
  <2>4. QED
    BY <2>1, <2>3 DEF IInv, StatusFollowsInbox
<1>2. QED
  BY <1>1, Inductive, PTL

\* ForwardOnly: the status moves forward, and recorded identifiers never change.
THEOREM LifecycleMovesForward == Spec => ForwardOnly
<1> DEFINE Moves == \A i \in Intents :
          /\ operation'[i].status # operation[i].status =>
                 \/ <<operation[i].status, operation'[i].status>> \in Forward
                 \/ operation[i].status # "none" /\ operation'[i].status = "provider_reported_paid"
          /\ operation[i].session # None => operation'[i].session = operation[i].session
          /\ operation[i].pi # None => operation'[i].pi = operation[i].pi
<1>1. IInv /\ [Next]_vars => Moves
  <2> SUFFICES ASSUME IInv, [Next]_vars PROVE Moves
    OBVIOUS
  <2>1. TypeOK /\ OneCall /\ BoundRow /\ Sticky
    BY StickyStep DEF IInv
  <2>2. ASSUME NEW i \in Intents, operation'[i].status # operation[i].status
        PROVE  \/ <<operation[i].status, operation'[i].status>> \in Forward
               \/ operation[i].status # "none" /\ operation'[i].status = "provider_reported_paid"
    <3>1. CASE operation' = operation
      BY <2>2, <3>1
    <3>2. ASSUME NEW c \in Callers, NEW j \in Intents, Reserve(c, j)
          PROVE <<operation[i].status, operation'[i].status>> \in Forward
      BY <2>1, <2>2, <3>2, ReserveShape DEF OnlyRow, Forward
    <3>3. ASSUME NEW c \in Callers, Persist(c)
          PROVE <<operation[i].status, operation'[i].status>> \in Forward
      BY <2>1, <2>2, <3>3, PersistShape DEF OnlyRow, Forward
    <3>4. ASSUME NEW c \in Callers, MarkSubmissionUnknown(c)
          PROVE <<operation[i].status, operation'[i].status>> \in Forward
      BY <2>1, <2>2, <3>4, UnknownShape DEF OnlyRow, Forward
    <3>5. ASSUME NEW s \in Sessions, NEW kind \in Kinds, Apply(s, kind)
          PROVE  \/ <<operation[i].status, operation'[i].status>> \in Forward
                 \/ operation[i].status # "none" /\ operation'[i].status = "provider_reported_paid"
      <4>1. /\ i = session[s].intent /\ operation[i].status # "none"
            /\ operation'[i].status = Projected(operation[i].status, kind)
            /\ operation[i].status \in Statuses
        BY <2>1, <2>2, <3>5, ApplyShape DEF OnlyRow, TypeOK, Operation
      <4>2. QED
        BY <2>2, <4>1 DEF Projected, Forward, Statuses
    <3>6. QED
      BY <3>1, <3>2, <3>3, <3>4, <3>5, Steps
         DEF vars, rows, CreateSession, Silent, Submit, TransportFails, ResponseMismatch,
             IdentityConflict, PersistFails, Crash, Unmatched, Refuse
  <2>3. QED
    BY <2>1, <2>2 DEF Sticky
<1>2. IInv /\ [Next]_vars => [Moves]_vars
  BY <1>1
<1>3. QED
  BY <1>2, Inductive, PTL DEF Spec, ForwardOnly
=============================================================================
