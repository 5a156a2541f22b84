-------------------------- MODULE PayLinkViewProofs --------------------------
(***************************************************************************)
(* The safety of module PayLinkView, for any intents and any number of     *)
(* times the view is left.                                                 *)
(*                                                                         *)
(* Nothing in the view relates the marker to a request directly: it is the *)
(* buttons that are disabled meanwhile which keep a request, the review    *)
(* and the marker about one payment.  The invariant says which.            *)
(***************************************************************************)
EXTENDS PayLinkView, TLAPS

Some == Intents \cup {None}

Answers == Reports \cup {"none", "review", "refused"}

Call == [intent : Some, stage : {"none", "sent", "running", "answered"},
         answer : Answers, stale : {"yes", "no"}]

CallOK(call) == call \in Call /\ (call = NoCall \/ call.intent \in Intents)

View == [accepted : Some, prepared : Some, result : Answers, unknown : {"yes", "no"},
         snapshot : Reports \cup {"none"}, marker : Some]

StateType ==
    /\ view \in View
    /\ CallOK(prepare) /\ CallOK(confirm) /\ CallOK(status)
    /\ confirm.answer \in Final \cup {"none", "unknown", "refused"}
    /\ status.answer \in Reports \cup {"none"}
    /\ status.stage = "answered" => status.answer \in Reports
    /\ confirm.stage = "answered" => confirm.answer # "none"
    /\ stored \in Some
    /\ node \in [Intents -> {"none", "quoted", "claimed", "lapsed"} \cup Final]
    /\ running \subseteq Intents /\ adrift \subseteq Intents /\ open \subseteq Intents
    /\ \A call \in ghosts : CallOK(call) /\ Busy(call)

(* What is in flight excludes what would change its subject. *)
Exclusive ==
    /\ Busy(prepare) => /\ ~Busy(confirm) /\ ~Busy(status)
                        /\ view.prepared = None /\ view.result = "none"
    /\ Busy(confirm) =>
          /\ view.marker = confirm.intent
          /\ confirm.stale = "no" => view.prepared = confirm.intent
    /\ Busy(status) /\ status.stale = "no" => view.prepared = status.intent

(* An outcome is final at the node, and an answer on its way says so. *)
Truthful ==
    /\ \A i \in running : node[i] = "claimed"
    /\ Busy(confirm) /\ confirm.answer \in Final => node[confirm.intent] = confirm.answer
    /\ Busy(status) /\ status.answer \in Final => node[status.intent] = status.answer

Shown ==
    /\ \A i \in Intents, outcome \in Final :
           PanelShows(i, outcome) \/ ResultShows(i, outcome) => node[i] = outcome
    /\ view.snapshot \in Final => view.marker \notin open

Marked ==
    /\ \A i \in open \ replaced : stored = i
    /\ \A i \in open \ dropped : view.marker = i
    /\ dropped \subseteq replaced
    /\ Busy(prepare) => open \ dropped \subseteq {prepare.intent}

IInv == StateType /\ Exclusive /\ Truthful /\ Shown /\ Marked

-----------------------------------------------------------------------------
(* Requests. *)

LEMMA NoneIsNoIntent == None \notin Intents
  BY ViewAssumption

LEMMA NoCallFields ==
    /\ CallOK(NoCall) /\ ~Busy(NoCall) /\ NoCall.answer = "none" /\ NoCall.stage = "none"
  BY DEF CallOK, Call, NoCall, Some, Answers, Busy

LEMMA SentFields ==
    ASSUME NEW i \in Intents
    PROVE  /\ CallOK(Sent(i)) /\ Busy(Sent(i))
           /\ Sent(i).intent = i /\ Sent(i).answer = "none" /\ Sent(i).stale = "no"
           /\ Sent(i).stage = "sent"
  BY DEF CallOK, Call, NoCall, Some, Answers, Busy, Sent

LEMMA BusyIntent ==
    ASSUME NEW call, CallOK(call)
    PROVE  /\ Busy(call) <=> call.intent \in Intents
           /\ call.stage # "none" => Busy(call)
           /\ call.answer # "none" => Busy(call)
  BY NoneIsNoIntent DEF CallOK, Busy, NoCall

LEMMA AnsweredFields ==
    ASSUME NEW call, CallOK(call), Busy(call), NEW answer \in Answers
    PROVE  /\ CallOK(Answered(call, answer)) /\ Busy(Answered(call, answer))
           /\ Answered(call, answer).intent = call.intent
           /\ Answered(call, answer).answer = answer
           /\ Answered(call, answer).stale = call.stale
  BY NoneIsNoIntent DEF CallOK, Call, NoCall, Some, Busy, Answered

LEMMA StaleFields ==
    ASSUME NEW call, CallOK(call)
    PROVE  /\ CallOK(Stale(call))
           /\ Busy(Stale(call)) <=> Busy(call)
           /\ Stale(call).intent = call.intent /\ Stale(call).answer = call.answer
           /\ Stale(call).stage = call.stage
           /\ Busy(call) => Stale(call).stale = "yes"
  BY NoneIsNoIntent DEF CallOK, Call, NoCall, Some, Busy, Stale

-----------------------------------------------------------------------------
(* The person. *)

LEMMA InitInv == Init => IInv
<1> SUFFICES ASSUME Init PROVE IInv
  OBVIOUS
<1>1. StateType
  BY NoCallFields DEF Init, StateType, View, Mounted, Some, Answers, Final
<1> QED
  BY <1>1, NoCallFields DEF Init, IInv, Exclusive, Truthful, Shown, Marked, Mounted, Final,
     PanelShows, ResultShows

LEMMA DiscardInv == ASSUME IInv, Discard PROVE IInv'
<1>1. /\ view'.prepared = None /\ view'.result = "none" /\ view'.marker = view.marker
      /\ view'.snapshot = view.snapshot /\ view' \in View
  BY DEF Discard, IInv, StateType, View, Some, Answers
<1>2. /\ prepare' = Stale(prepare) /\ confirm' = Stale(confirm) /\ status' = NoCall
      /\ UNCHANGED <<stored, nodeVars, adrift, ghosts, open, history>>
  BY DEF Discard, Cancelled
<1>3. /\ CallOK(prepare) /\ CallOK(confirm)
  BY DEF IInv, StateType
<1>4. /\ Busy(prepare') <=> Busy(prepare)
      /\ Busy(confirm') <=> Busy(confirm)
      /\ prepare'.intent = prepare.intent
      /\ confirm'.intent = confirm.intent /\ confirm'.answer = confirm.answer
      /\ confirm'.stage = confirm.stage
      /\ status'.answer = "none" /\ status'.stage = "none"
      /\ Busy(confirm) => confirm'.stale = "yes"
      /\ CallOK(prepare') /\ CallOK(confirm') /\ CallOK(status') /\ ~Busy(status')
  BY <1>2, <1>3, StaleFields, NoCallFields
<1>5. StateType'
  BY <1>1, <1>2, <1>4 DEF IInv, StateType, nodeVars, Busy
<1>6. Exclusive'
  BY <1>1, <1>4 DEF IInv, Exclusive
<1>7. Truthful'
  BY <1>2, <1>4 DEF IInv, Truthful, nodeVars
<1>8. Shown'
  BY <1>1, <1>2, NoneIsNoIntent DEF IInv, Shown, PanelShows, ResultShows, nodeVars
<1>9. Marked'
  BY <1>1, <1>2, <1>4 DEF IInv, Marked, history
<1> QED
  BY <1>5, <1>6, <1>7, <1>8, <1>9 DEF IInv

LEMMA AcceptInv == ASSUME IInv, NEW i \in Intents, Accept(i) PROVE IInv'
<1>1. /\ view'.prepared = view.prepared /\ view'.result = view.result
      /\ view'.marker = view.marker /\ view'.snapshot = view.snapshot /\ view' \in View
  BY DEF Accept, IInv, StateType, View, Some, Answers
<1>2. UNCHANGED <<prepare, confirm, status, stored, node, running, adrift, ghosts, open, replaced, dropped>>
  BY DEF Accept, nodeVars, history
<1>3. StateType' /\ Exclusive' /\ Truthful'
  BY <1>1, <1>2 DEF IInv, StateType, Exclusive, Truthful, Busy
<1>4. Shown' /\ Marked'
  BY <1>1, <1>2 DEF IInv, Shown, PanelShows, ResultShows, Marked, Busy
<1> QED
  BY <1>3, <1>4 DEF IInv

(* recoveryBlocksPrepare: what is open by then is this very review. *)
LEMMA PrepareInv == ASSUME IInv, Prepare PROVE IInv'
<1>1. /\ view.accepted \in Intents /\ prepare' = Sent(view.accepted)
      /\ view.prepared = None /\ view.result = "none"
      /\ ~Busy(confirm) /\ ~Busy(status)
  BY DEF Prepare, PrepareOffered, IInv, StateType, View, Some
<1>2. UNCHANGED <<view, confirm, status, stored, node, running, adrift, ghosts, open, replaced, dropped>>
  BY DEF Prepare, nodeVars, history
<1>3. CallOK(prepare') /\ Busy(prepare') /\ prepare'.intent = view.accepted
  BY <1>1, SentFields
<1>4. StateType' /\ Exclusive' /\ Truthful'
  BY <1>1, <1>2, <1>3 DEF IInv, StateType, Exclusive, Truthful, Busy
<1>5. Shown'
  BY <1>2 DEF IInv, Shown, PanelShows, ResultShows
<1>6. Marked'
  <2>1. open \ dropped \subseteq {view.accepted}
    <3>1. CASE view.marker = None
      BY <3>1, NoneIsNoIntent DEF IInv, Marked, StateType
    <3>2. CASE view.marker # None
      <4>1. view.snapshot \in Final \/ view.marker = view.accepted
        BY <3>2 DEF Prepare, PrepareOffered, BlocksPrepare, IInv, StateType, View, Answers,
           Reports, Final
      <4> QED
        BY <4>1 DEF IInv, Marked, Shown
    <3> QED
      BY <3>1, <3>2
  <2> QED
    BY <1>2, <1>3, <2>1 DEF IInv, Marked
<1> QED
  BY <1>4, <1>5, <1>6 DEF IInv

(* The marker is written before the request leaves. *)
LEMMA ConfirmInv == ASSUME IInv, Confirm PROVE IInv'
<1> DEFINE i == view.prepared
<1>1. /\ i \in Intents /\ view.marker = i /\ view.result = "none"
      /\ ~Busy(confirm) /\ ~Busy(status) /\ ~Busy(prepare)
  BY DEF Confirm, ConfirmOffered, MarksReview, IInv, StateType, View, Some
<1>2. /\ view'.prepared = i /\ view'.result = "none" /\ view'.marker = i
      /\ view'.snapshot = "none" /\ view' \in View
  BY <1>1 DEF Confirm, Remembering, IInv, StateType, View, Some
<1>3. /\ confirm' = Sent(i) /\ status' = NoCall /\ stored' = i /\ open' = open \cup {i}
      /\ replaced' = replaced \ {i} /\ dropped' = dropped \ {i}
      /\ UNCHANGED <<prepare, node, running, adrift, ghosts>>
  BY <1>1 DEF Confirm, Remembering, Stores, Cancelled, nodeVars, history
<1> HIDE DEF i
<1>4. StateType'
  BY <1>1, <1>2, <1>3, SentFields, NoCallFields DEF IInv, StateType, Busy, Some
<1>5. Exclusive' /\ Truthful'
  <2>1. ~Busy(status') /\ ~Busy(prepare') /\ confirm'.intent = i /\ confirm'.answer = "none"
    BY <1>1, <1>3, SentFields, NoCallFields
  <2> QED
    BY <1>2, <1>3, <2>1 DEF IInv, Exclusive, Truthful, Final
<1>6. Shown'
  BY <1>1, <1>2 DEF Shown, PanelShows, ResultShows, Final
<1>7. Marked'
  <2>1. ~Busy(prepare')
    BY <1>1, <1>3
  <2> QED
    BY <1>1, <1>2, <1>3, <2>1 DEF IInv, Marked
<1> QED
  BY <1>4, <1>5, <1>6, <1>7 DEF IInv

LEMMA AskInv == ASSUME IInv, Ask PROVE IInv'
<1>1. view.marker \in Intents /\ ~Busy(prepare)
  BY DEF Ask, AskOffered, AskOfferedByReview, IInv, StateType, View, Some, Exclusive
<1> DEFINE mark == IF MarksReview THEN "no" ELSE "yes"
           call == [Sent(view.marker) EXCEPT !.stale = mark]
<1>2. /\ CallOK(call) /\ Busy(call) /\ call.intent = view.marker /\ call.answer = "none"
      /\ call.stage = "sent" /\ call.stale = mark
  BY <1>1, NoneIsNoIntent DEF CallOK, Call, NoCall, Some, Answers, Busy, Sent
<1>3. /\ status' = call
      /\ UNCHANGED <<view, prepare, confirm, stored, node, running, adrift, ghosts, open, replaced, dropped>>
  BY DEF Ask, nodeVars, history
<1> HIDE DEF call
<1>4. StateType'
  BY <1>2, <1>3 DEF IInv, StateType, Busy
<1>5. Exclusive' /\ Truthful'
  <2>1. status'.stale = "no" => view.prepared = status'.intent
    BY <1>2, <1>3 DEF MarksReview
  <2>2. ~Busy(prepare') /\ status'.answer = "none"
    BY <1>1, <1>2, <1>3
  <2> QED
    BY <1>3, <2>1, <2>2 DEF IInv, Exclusive, Truthful, Final, Busy
<1>6. Shown' /\ Marked'
  BY <1>3 DEF IInv, Shown, PanelShows, ResultShows, Marked, Busy
<1> QED
  BY <1>4, <1>5, <1>6 DEF IInv

LEMMA ForgetInv == ASSUME IInv, Forget PROVE IInv'
<1>1. ~Busy(prepare) /\ ~Busy(confirm) /\ ~Busy(status)
  BY DEF Forget, AskOffered
<1>2. /\ view' \in View /\ view'.marker = None /\ view'.snapshot = "none"
      /\ \/ view'.prepared = view.prepared /\ view'.result = view.result
         \/ view'.prepared = None
  BY DEF Forget, IInv, StateType, View, Mounted, Some, Answers
<1>3. /\ stored' = None /\ open' = open \ {view.marker}
      /\ UNCHANGED <<prepare, confirm, status, node, running, adrift, ghosts, replaced, dropped>>
  BY DEF Forget, Stores, nodeVars, history
<1>4. StateType'
  BY <1>2, <1>3 DEF IInv, StateType, Busy, Some
<1>5. Exclusive' /\ Truthful'
  BY <1>1, <1>3 DEF IInv, Exclusive, Truthful, Busy
<1>6. Shown'
  BY <1>2, <1>3, NoneIsNoIntent DEF IInv, Shown, PanelShows, ResultShows, Final
<1>7. Marked'
  <2>1. ~Busy(prepare')
    BY <1>1, <1>3
  <2> QED
    BY <1>3, <2>1 DEF IInv, Marked
<1> QED
  BY <1>4, <1>5, <1>6, <1>7 DEF IInv

(* A new mount has the marker of storage, and nothing in flight. *)
LEMMA LeaveInv == ASSUME IInv, NEW how \in {"left", "reloaded"}, Leave(how) PROVE IInv'
<1>1. /\ view' \in View /\ view'.marker = stored /\ view'.snapshot = "none"
      /\ view'.prepared = None /\ view'.result = "none"
  BY DEF Leave, IInv, StateType, View, Mounted, Some, Answers
<1>2. /\ prepare' = NoCall /\ confirm' = NoCall /\ status' = NoCall
      /\ ~Busy(NoCall)
      /\ dropped' = {i \in open : stored # i}
      /\ UNCHANGED <<stored, running, open, replaced>>
  BY NoCallFields DEF Leave
<1>3. \/ node' = node
      \/ /\ prepare.intent \in Intents /\ node[prepare.intent] \in {"none", "quoted"}
         /\ node' = [node EXCEPT ![prepare.intent] = "quoted"]
  BY BusyIntent DEF Leave, Review, IInv, StateType
<1>4. \A call \in ghosts' : CallOK(call) /\ Busy(call)
  <2>1. \A call \in ghosts' : call \in ghosts \/ (Busy(prepare) /\ call = Stale(prepare))
    BY DEF Leave
  <2>2. Busy(prepare) => CallOK(Stale(prepare)) /\ Busy(Stale(prepare))
    BY StaleFields DEF IInv, StateType
  <2> QED
    BY <2>1, <2>2 DEF IInv, StateType
<1>5. adrift' \subseteq Intents
  BY BusyIntent DEF Leave, IInv, StateType
<1>6. /\ node' \in [Intents -> {"none", "quoted", "claimed", "lapsed"} \cup Final]
      /\ \A i \in running : node'[i] = "claimed"
  BY <1>3 DEF IInv, StateType, Truthful
<1>7. StateType'
  BY <1>1, <1>2, <1>4, <1>5, <1>6, NoCallFields DEF IInv, StateType
<1>8. Exclusive' /\ Truthful'
  BY <1>2, <1>6 DEF Exclusive, Truthful
<1>9. Shown' /\ Marked'
  BY <1>1, <1>2, NoneIsNoIntent DEF IInv, Shown, PanelShows, ResultShows, Marked, Final
<1> QED
  BY <1>7, <1>8, <1>9 DEF IInv

-----------------------------------------------------------------------------
(* The browser. *)

LEMMA PreparedInv == ASSUME IInv, Prepared PROVE IInv'
<1> DEFINE i == prepare.intent
<1>1. /\ Busy(prepare) /\ i \in Intents /\ ~Busy(confirm) /\ ~Busy(status)
      /\ view.prepared = None /\ view.result = "none"
  BY BusyIntent DEF Prepared, IInv, StateType, Exclusive
<1>2. /\ view' \in View /\ view'.marker = i /\ view'.snapshot = "none"
      /\ view'.result = "none"
  <2>1. PICK next : /\ next = view \/ next = [view EXCEPT !.prepared = i]
                    /\ view' = [next EXCEPT !.marker = i, !.snapshot = "none"]
    BY DEF Prepared, Remembering
  <2>2. next \in View /\ next.result = "none"
    BY <1>1, <2>1 DEF IInv, StateType, View, Some
  <2> QED
    BY <1>1, <2>1, <2>2 DEF View, Some
<1>3. /\ prepare' = NoCall /\ status' = NoCall /\ stored' = i
      /\ UNCHANGED <<confirm, node, running, adrift, ghosts, open, replaced, dropped>>
  BY DEF Prepared, Remembering, Stores, Cancelled, nodeVars, history
<1> HIDE DEF i
<1>4. StateType'
  BY <1>1, <1>2, <1>3, NoCallFields DEF IInv, StateType, Busy, Some
<1>5. ~Busy(prepare') /\ ~Busy(confirm') /\ ~Busy(status')
  BY <1>1, <1>3, NoCallFields
<1>6. Exclusive' /\ Truthful'
  BY <1>3, <1>5 DEF IInv, Exclusive, Truthful
<1>7. Shown'
  BY <1>2 DEF Shown, PanelShows, ResultShows, Final
<1>8. Marked'
  BY <1>1, <1>2, <1>3, <1>5 DEF IInv, Marked, i
<1> QED
  BY <1>4, <1>6, <1>7, <1>8 DEF IInv

(* What the node does to a review never undoes an outcome. *)
LEMMA ReviewStep ==
    ASSUME IInv, NEW i \in Intents, Review(i) \/ UNCHANGED node
    PROVE  /\ node' \in [Intents -> {"none", "quoted", "claimed", "lapsed"} \cup Final]
           /\ \A k \in running : node'[k] = "claimed"
           /\ \A k \in Intents : node[k] \in Final => node'[k] = node[k]
  BY DEF IInv, StateType, Truthful, Review, Final

LEMMA PrepareFailedInv == ASSUME IInv, PrepareFailed PROVE IInv'
<1>1. /\ Busy(prepare) /\ prepare.intent \in Intents /\ ~Busy(confirm) /\ ~Busy(status)
      /\ view.prepared = None /\ view.result = "none"
  BY BusyIntent DEF PrepareFailed, IInv, StateType, Exclusive
<1>2. view' = view
  BY <1>1 DEF PrepareFailed, IInv, StateType, View
<1>3. /\ prepare' = NoCall
      /\ UNCHANGED <<confirm, status, stored, running, adrift, ghosts, open, replaced, dropped>>
  BY DEF PrepareFailed, history
<1>4. /\ node' \in [Intents -> {"none", "quoted", "claimed", "lapsed"} \cup Final]
      /\ \A k \in running : node'[k] = "claimed"
      /\ \A k \in Intents : node[k] \in Final => node'[k] = node[k]
  BY <1>1, ReviewStep DEF PrepareFailed
<1>5. ~Busy(prepare') /\ ~Busy(confirm') /\ ~Busy(status')
  BY <1>1, <1>3, NoCallFields
<1>6. StateType'
  BY <1>2, <1>3, <1>4, NoCallFields DEF IInv, StateType, Busy
<1>7. Exclusive' /\ Truthful'
  BY <1>3, <1>4, <1>5 DEF Exclusive, Truthful
<1>8. Shown'
  BY <1>2, <1>3, <1>4 DEF IInv, Shown, PanelShows, ResultShows
<1>9. Marked'
  BY <1>2, <1>3, <1>5 DEF IInv, Marked
<1> QED
  BY <1>6, <1>7, <1>8, <1>9 DEF IInv

LEMMA ConfirmedInv == ASSUME IInv, Confirmed PROVE IInv'
<1> DEFINE i == confirm.intent
<1>1. /\ Busy(confirm) /\ i \in Intents /\ view.marker = i /\ ~Busy(prepare)
      /\ confirm.answer \in Final \cup {"unknown"}
      /\ confirm.answer \in Final => node[i] = confirm.answer
      /\ confirm.stale = "no" => view.prepared = i
      /\ confirm.stale \in {"yes", "no"}
  BY BusyIntent DEF Confirmed, IInv, StateType, Exclusive, Truthful, CallOK, Call
<1>2. /\ view' \in View /\ view'.marker = i /\ view'.snapshot = confirm.answer
      /\ view'.prepared = view.prepared
      /\ view'.result = IF confirm.stale = "yes" THEN view.result ELSE confirm.answer
  <2>1. view \in View /\ confirm.answer \in Answers /\ confirm.answer \in Reports
    BY <1>1 DEF IInv, StateType, Answers, Reports
  <2>2. PICK unknown \in {"yes", "no"} :
           view' = [view EXCEPT !.unknown = unknown, !.snapshot = confirm.answer,
                                !.result = IF confirm.stale = "yes" THEN @ ELSE confirm.answer]
    BY DEF Confirmed
  <2> QED
    BY <1>1, <2>1, <2>2 DEF View
<1>3. /\ confirm' = NoCall /\ open' = Closed(i, confirm.answer)
      /\ UNCHANGED <<prepare, status, stored, node, running, adrift, ghosts, replaced, dropped>>
  BY DEF Confirmed, nodeVars, history
<1>4. open' \subseteq open /\ (confirm.answer \in Final => i \notin open')
  BY <1>3 DEF Closed
<1> HIDE DEF i
<1>5. StateType'
  BY <1>2, <1>3, <1>4, NoCallFields DEF IInv, StateType, Busy
<1>6. ~Busy(prepare') /\ ~Busy(confirm')
  BY <1>1, <1>3, NoCallFields
<1>7. Exclusive' /\ Truthful'
  BY <1>2, <1>3, <1>6 DEF IInv, Exclusive, Truthful, Busy
<1>8. Shown'
  BY <1>1, <1>2, <1>3, <1>4 DEF IInv, Shown, PanelShows, ResultShows, Final
<1>9. Marked'
  BY <1>1, <1>2, <1>3, <1>4, <1>6 DEF IInv, Marked
<1> QED
  BY <1>5, <1>7, <1>8, <1>9 DEF IInv

(* A refusal, or no answer: nothing is known, and nothing forgotten. *)
LEMMA ConfirmEndsInv ==
    ASSUME IInv, ConfirmRefused \/ ConfirmLost PROVE IInv'
<1>1. Busy(confirm) /\ confirm.intent \in Intents /\ ~Busy(prepare)
  BY BusyIntent DEF ConfirmRefused, ConfirmLost, IInv, StateType, Exclusive
<1>2. /\ view' \in View /\ view'.marker = view.marker /\ view'.snapshot = view.snapshot
      /\ view'.prepared = view.prepared /\ view'.result = view.result
  BY DEF ConfirmRefused, ConfirmLost, IInv, StateType, View
<1>3. /\ confirm' = NoCall /\ adrift' \subseteq adrift \cup {confirm.intent}
      /\ UNCHANGED <<prepare, status, stored, node, running, ghosts, open, replaced, dropped>>
  BY DEF ConfirmRefused, ConfirmLost, nodeVars, history
<1>4. StateType'
  BY <1>1, <1>2, <1>3, NoCallFields DEF IInv, StateType, Busy
<1>5. ~Busy(prepare') /\ ~Busy(confirm')
  BY <1>1, <1>3, NoCallFields
<1>6. Exclusive' /\ Truthful'
  BY <1>2, <1>3, <1>5 DEF IInv, Exclusive, Truthful, Busy
<1>7. Shown' /\ Marked'
  BY <1>2, <1>3, <1>5 DEF IInv, Shown, PanelShows, ResultShows, Marked
<1> QED
  BY <1>4, <1>6, <1>7 DEF IInv

LEMMA ToldInv == ASSUME IInv, Told PROVE IInv'
<1> DEFINE i == status.intent
<1>1. /\ Busy(status) /\ i \in Intents /\ view.marker = i /\ ~Busy(prepare)
      /\ status.answer \in Reports
      /\ status.answer \in Final => node[i] = status.answer
      /\ status.stale = "no" => view.prepared = i
      /\ status.stale \in {"yes", "no"}
  BY BusyIntent DEF Told, IInv, StateType, Exclusive, Truthful, CallOK, Call
<1>2. /\ view' \in View /\ view'.marker = i /\ view'.snapshot = status.answer
      /\ view'.prepared = view.prepared
      /\ view'.result = view.result \/ (status.stale = "no" /\ view'.result = status.answer)
  <2>1. view \in View /\ status.answer \in Answers
    BY <1>1 DEF IInv, StateType, Answers
  <2>2. CASE status.stale = "yes"
    <3>1. view' = [view EXCEPT !.snapshot = status.answer]
      BY <2>2 DEF Told
    <3> QED
      BY <1>1, <2>1, <3>1 DEF View
  <2>3. CASE status.stale = "no"
    <3>1. PICK unknown \in {"yes", "no"}, result \in {view.result, status.answer} :
             view' = [view EXCEPT !.snapshot = status.answer, !.unknown = unknown,
                                  !.result = result]
      BY <2>3 DEF Told
    <3> QED
      BY <1>1, <2>1, <2>3, <3>1 DEF View
  <2> QED
    BY <1>1, <2>2, <2>3
<1>3. /\ status' = NoCall /\ open' = Closed(i, status.answer)
      /\ UNCHANGED <<prepare, confirm, stored, node, running, adrift, ghosts, replaced, dropped>>
  BY DEF Told, nodeVars, history
<1>4. open' \subseteq open /\ (status.answer \in Final => i \notin open')
  BY <1>3 DEF Closed
<1> HIDE DEF i
<1>5. StateType'
  BY <1>2, <1>3, <1>4, NoCallFields DEF IInv, StateType, Busy
<1>6. ~Busy(prepare') /\ ~Busy(status')
  BY <1>1, <1>3, NoCallFields
<1>7. Exclusive' /\ Truthful'
  BY <1>1, <1>2, <1>3, <1>6 DEF IInv, Exclusive, Truthful, Busy
<1>8. Shown'
  BY <1>1, <1>2, <1>3, <1>4 DEF IInv, Shown, PanelShows, ResultShows, Final
<1>9. Marked'
  BY <1>1, <1>2, <1>3, <1>4, <1>6 DEF IInv, Marked
<1> QED
  BY <1>5, <1>7, <1>8, <1>9 DEF IInv

LEMMA AskFailedInv == ASSUME IInv, AskFailed PROVE IInv'
<1>1. /\ status' = NoCall /\ ~Busy(status')
      /\ UNCHANGED <<view, prepare, confirm, stored, node, running, adrift, ghosts, open, replaced, dropped>>
  BY NoCallFields DEF AskFailed, nodeVars, history
<1>2. StateType'
  BY <1>1, NoCallFields DEF IInv, StateType, Busy
<1>3. Exclusive' /\ Truthful'
  BY <1>1 DEF IInv, Exclusive, Truthful, Busy
<1>4. Shown' /\ Marked'
  BY <1>1 DEF IInv, Shown, PanelShows, ResultShows, Marked, Busy
<1> QED
  BY <1>2, <1>3, <1>4 DEF IInv

(* The one step that may write over an open marker says so. *)
LEMMA GhostPreparedInv ==
    ASSUME IInv, NEW call \in ghosts, GhostPrepared(call) PROVE IInv'
<1>1. /\ call.intent \in Intents /\ stored' = call.intent /\ ghosts' \subseteq ghosts
      /\ replaced' = replaced \cup ((open \cap {stored}) \ {call.intent})
      /\ UNCHANGED <<view, prepare, confirm, status, node, running, adrift, open, dropped>>
  BY BusyIntent DEF GhostPrepared, Stores, nodeVars, IInv, StateType
<1>2. StateType' /\ Exclusive' /\ Truthful'
  BY <1>1 DEF IInv, StateType, Exclusive, Truthful, Busy, Some
<1>3. Shown'
  BY <1>1 DEF IInv, Shown, PanelShows, ResultShows
<1>4. Marked'
  BY <1>1 DEF IInv, Marked, Busy
<1> QED
  BY <1>2, <1>3, <1>4 DEF IInv

-----------------------------------------------------------------------------
(* The node: requests get answers, and outcomes are final. *)

(* An answer, or the step towards one, keeps a request about its payment.   *)
Same(before, after) ==
    /\ CallOK(after)
    /\ Busy(after) <=> Busy(before)
    /\ after.intent = before.intent /\ after.stale = before.stale

LEMMA NodeStep ==
    ASSUME IInv, UNCHANGED <<view, stored, open, replaced, dropped>>,
           Same(prepare, prepare'), Same(confirm, confirm'), Same(status, status'),
           confirm'.answer \in Final \cup {"none", "unknown", "refused"},
           status'.answer \in Reports \cup {"none"},
           status'.stage = "answered" => status'.answer \in Reports,
           confirm'.stage = "answered" => confirm'.answer # "none",
           node' \in [Intents -> {"none", "quoted", "claimed", "lapsed"} \cup Final],
           \A i \in Intents : node[i] \in Final => node'[i] = node[i],
           running' \subseteq Intents, \A i \in running' : node'[i] = "claimed",
           adrift' \subseteq Intents, \A call \in ghosts' : CallOK(call) /\ Busy(call),
           Busy(confirm) /\ confirm'.answer \in Final => node'[confirm.intent] = confirm'.answer,
           Busy(status) /\ status'.answer \in Final => node'[status.intent] = status'.answer
    PROVE  IInv'
<1>1. StateType'
  BY DEF IInv, StateType, Same
<1>2. Exclusive'
  BY DEF IInv, Exclusive, Same
<1>3. Truthful'
  BY DEF Truthful, Same
<1>4. Shown'
  BY DEF IInv, Shown, PanelShows, ResultShows
<1>5. Marked'
  BY DEF IInv, Marked, Same
<1> QED
  BY <1>1, <1>2, <1>3, <1>4, <1>5 DEF IInv

(* What no step of the node need repeat about a request it leaves alone. *)
LEMMA Alone ==
    ASSUME IInv, NEW call, CallOK(call)
    PROVE  Same(call, call)
  BY DEF Same

LEMMA AnsweredSame ==
    ASSUME NEW call, CallOK(call), Busy(call), NEW answer \in Answers
    PROVE  /\ Same(call, Answered(call, answer))
           /\ Answered(call, answer).answer = answer
           /\ Answered(call, answer).stage = "answered"
  BY NoneIsNoIntent DEF Same, CallOK, Call, NoCall, Some, Busy, Answered

LEMMA NodePreparesInv == ASSUME IInv, NodePrepares PROVE IInv'
<1>1. /\ Busy(prepare) /\ prepare.intent \in Intents /\ Review(prepare.intent)
      /\ prepare' = Answered(prepare, "review")
      /\ UNCHANGED <<view, confirm, status, stored, running, adrift, ghosts, open, replaced, dropped>>
  BY BusyIntent DEF NodePrepares, IInv, StateType, history
<1>2. Same(prepare, prepare')
  BY <1>1, AnsweredSame DEF IInv, StateType, Answers
<1>3. /\ node' \in [Intents -> {"none", "quoted", "claimed", "lapsed"} \cup Final]
      /\ \A k \in running : node'[k] = "claimed"
      /\ \A k \in Intents : node[k] \in Final => node'[k] = node[k]
  BY <1>1, ReviewStep
<1>4. ~Busy(confirm) /\ ~Busy(status) /\ Same(confirm, confirm') /\ Same(status, status')
  BY <1>1, Alone DEF IInv, StateType, Exclusive
<1> QED
  BY <1>1, <1>2, <1>3, <1>4, NodeStep DEF IInv, StateType

LEMMA NodeServesGhostInv ==
    ASSUME IInv, NEW call \in ghosts, NodeServesGhost(call) PROVE IInv'
<1>1. /\ CallOK(call) /\ Busy(call) /\ call.intent \in Intents /\ Review(call.intent)
      /\ ghosts' = (ghosts \ {call}) \cup {Answered(call, "review")}
      /\ UNCHANGED <<view, prepare, confirm, status, stored, running, adrift, open, replaced, dropped>>
  BY BusyIntent DEF NodeServesGhost, IInv, StateType, history
<1>2. CallOK(Answered(call, "review")) /\ Busy(Answered(call, "review"))
  BY <1>1, AnsweredFields DEF Answers
<1>3. /\ node' \in [Intents -> {"none", "quoted", "claimed", "lapsed"} \cup Final]
      /\ \A k \in running : node'[k] = "claimed"
      /\ \A k \in Intents : node[k] \in Final => node'[k] = node[k]
  BY <1>1, ReviewStep
<1>4. Same(prepare, prepare') /\ Same(confirm, confirm') /\ Same(status, status')
  BY <1>1, Alone DEF IInv, StateType
<1>5. /\ Busy(confirm) /\ confirm'.answer \in Final => node'[confirm.intent] = confirm'.answer
      /\ Busy(status) /\ status'.answer \in Final => node'[status.intent] = status'.answer
  BY <1>1, <1>3, BusyIntent DEF IInv, StateType, Truthful
<1>6. \A c \in ghosts' : CallOK(c) /\ Busy(c)
  BY <1>1, <1>2 DEF IInv, StateType
<1> QED
  BY <1>1, <1>3, <1>4, <1>5, <1>6, NodeStep DEF IInv, StateType

(* A claim is of a review no outcome is known of. *)
LEMMA ClaimStep ==
    ASSUME IInv, NEW i \in Intents, Claim(i) \/ UNCHANGED nodeVars
    PROVE  /\ node' \in [Intents -> {"none", "quoted", "claimed", "lapsed"} \cup Final]
           /\ running' \subseteq Intents /\ \A k \in running' : node'[k] = "claimed"
           /\ \A k \in Intents : node[k] \in Final => node'[k] = node[k]
  BY DEF IInv, StateType, Truthful, Claim, Final, nodeVars

LEMMA NodeConfirmsInv == ASSUME IInv, NodeConfirms PROVE IInv'
<1> DEFINE i == confirm.intent
<1>1. /\ Busy(confirm) /\ i \in Intents /\ CallOK(confirm)
      /\ UNCHANGED <<view, prepare, status, stored, adrift, ghosts, open, replaced, dropped>>
  BY BusyIntent DEF NodeConfirms, IInv, StateType, history
<1>2. /\ node' \in [Intents -> {"none", "quoted", "claimed", "lapsed"} \cup Final]
      /\ running' \subseteq Intents /\ \A k \in running' : node'[k] = "claimed"
      /\ \A k \in Intents : node[k] \in Final => node'[k] = node[k]
  BY <1>1, ClaimStep DEF NodeConfirms
<1>3. Same(prepare, prepare') /\ Same(status, status')
  BY <1>1, Alone DEF IInv, StateType
<1>4. Busy(status) /\ status'.answer \in Final => node'[status.intent] = status'.answer
  BY <1>1, <1>2, BusyIntent DEF IInv, StateType, Truthful
<1>5. /\ Same(confirm, confirm')
      /\ confirm'.answer \in Final \cup {"none", "unknown", "refused"}
      /\ confirm'.stage = "answered" => confirm'.answer # "none"
      /\ confirm'.answer \in Final => node'[i] = confirm'.answer
  <2>1. CASE Claim(i) /\ confirm' = [confirm EXCEPT !.stage = "running"]
    <3>1. Same(confirm, confirm') /\ confirm'.answer = confirm.answer /\ confirm'.stage = "running"
      BY <1>1, <2>1, NoneIsNoIntent DEF Same, CallOK, Call, NoCall, Some, Busy
    <3> QED
      BY <1>1, <1>2, <3>1 DEF IInv, StateType, Truthful
  <2>2. CASE UNCHANGED nodeVars /\ confirm' = Answered(confirm, Outcome(node[i]))
    <3>1. Outcome(node[i]) \in Final \cup {"unknown"}
          /\ (Outcome(node[i]) \in Final => node[i] = Outcome(node[i]))
      BY DEF Outcome, Final
    <3>2. Outcome(node[i]) \in Answers /\ Outcome(node[i]) # "none"
      BY <3>1 DEF Answers, Reports, Final
    <3> QED
      BY <1>1, <2>2, <3>1, <3>2, AnsweredSame DEF nodeVars
  <2> QED
    BY <2>1, <2>2 DEF NodeConfirms
<1> QED
  BY <1>1, <1>2, <1>3, <1>4, <1>5, NodeStep DEF IInv, StateType

LEMMA NodeRefusesInv == ASSUME IInv, NodeRefuses PROVE IInv'
<1>1. /\ Busy(confirm) /\ CallOK(confirm) /\ confirm' = Answered(confirm, "refused")
      /\ UNCHANGED <<view, prepare, status, stored, node, running, adrift, ghosts, open, replaced, dropped>>
  BY BusyIntent DEF NodeRefuses, IInv, StateType, nodeVars, history
<1>2. /\ Same(confirm, confirm') /\ confirm'.answer = "refused"
  BY <1>1, AnsweredSame DEF Answers
<1>3. Same(prepare, prepare') /\ Same(status, status')
  BY <1>1, Alone DEF IInv, StateType
<1>4. Busy(status) /\ status'.answer \in Final => node'[status.intent] = status'.answer
  BY <1>1 DEF IInv, Truthful
<1> QED
  BY <1>1, <1>2, <1>3, <1>4, NodeStep DEF IInv, StateType, Truthful, Final

LEMMA NodeServesAdriftInv ==
    ASSUME IInv, NEW i \in adrift, NodeServesAdrift(i) PROVE IInv'
<1>1. /\ i \in Intents /\ adrift' \subseteq Intents
      /\ UNCHANGED <<view, prepare, confirm, status, stored, ghosts, open, replaced, dropped>>
  BY DEF NodeServesAdrift, IInv, StateType, history
<1>2. /\ node' \in [Intents -> {"none", "quoted", "claimed", "lapsed"} \cup Final]
      /\ running' \subseteq Intents /\ \A k \in running' : node'[k] = "claimed"
      /\ \A k \in Intents : node[k] \in Final => node'[k] = node[k]
  BY <1>1, ClaimStep DEF NodeServesAdrift
<1>3. Same(prepare, prepare') /\ Same(confirm, confirm') /\ Same(status, status')
  BY <1>1, Alone DEF IInv, StateType
<1>4. /\ Busy(confirm) /\ confirm'.answer \in Final => node'[confirm.intent] = confirm'.answer
      /\ Busy(status) /\ status'.answer \in Final => node'[status.intent] = status'.answer
  BY <1>1, <1>2, BusyIntent DEF IInv, StateType, Truthful
<1> QED
  BY <1>1, <1>2, <1>3, <1>4, NodeStep DEF IInv, StateType

LEMMA NodeEndsInv ==
    ASSUME IInv, NEW i \in Intents, NEW state \in {"broadcast", "failed", "claimed"},
           NodeEnds(i, state)
    PROVE  IInv'
<1>1. /\ i \in running /\ running' = running \ {i} /\ node' = [node EXCEPT ![i] = state]
      /\ node[i] = "claimed"
      /\ UNCHANGED <<view, prepare, status, stored, adrift, ghosts, open, replaced, dropped>>
  BY DEF NodeEnds, IInv, Truthful, history
<1>2. /\ node' \in [Intents -> {"none", "quoted", "claimed", "lapsed"} \cup Final]
      /\ running' \subseteq Intents /\ \A k \in running' : node'[k] = "claimed"
      /\ \A k \in Intents : node[k] \in Final => node'[k] = node[k]
      /\ node'[i] = state
  BY <1>1 DEF IInv, StateType, Truthful, Final
<1>3. Same(prepare, prepare') /\ Same(status, status')
  BY <1>1, Alone DEF IInv, StateType
<1>4. Busy(status) /\ status'.answer \in Final => node'[status.intent] = status'.answer
  BY <1>1, <1>2, BusyIntent DEF IInv, StateType, Truthful
<1>5. /\ Same(confirm, confirm')
      /\ confirm'.answer \in Final \cup {"none", "unknown", "refused"}
      /\ confirm'.stage = "answered" => confirm'.answer # "none"
      /\ Busy(confirm) /\ confirm'.answer \in Final => node'[confirm.intent] = confirm'.answer
  <2>1. CASE confirm.stage = "running" /\ confirm.intent = i
    <3>1. Busy(confirm) /\ CallOK(confirm) /\ confirm' = Answered(confirm, Outcome(state))
      BY <2>1, BusyIntent DEF NodeEnds, IInv, StateType
    <3>2. /\ Outcome(state) \in Final \cup {"unknown"}
          /\ Outcome(state) \in Final => state = Outcome(state)
      BY DEF Outcome, Final
    <3>3. Outcome(state) \in Answers /\ Outcome(state) # "none"
      BY <3>2 DEF Answers, Reports, Final
    <3> QED
      BY <1>2, <2>1, <3>1, <3>2, <3>3, AnsweredSame
  <2>2. CASE ~(confirm.stage = "running" /\ confirm.intent = i)
    <3>1. confirm' = confirm
      BY <2>2 DEF NodeEnds
    <3> QED
      BY <1>2, <3>1, Alone, BusyIntent DEF IInv, StateType, Truthful
  <2> QED
    BY <2>1, <2>2
<1> QED
  BY <1>1, <1>2, <1>3, <1>4, <1>5, NodeStep DEF IInv, StateType

LEMMA NodeTellsInv ==
    ASSUME IInv, NEW answer \in Reports, NodeTells(answer) PROVE IInv'
<1> DEFINE i == status.intent
<1>1. /\ Busy(status) /\ CallOK(status) /\ i \in Intents
      /\ status' = Answered(status, answer)
      /\ UNCHANGED <<view, prepare, confirm, stored, node, running, adrift, ghosts, open, replaced, dropped>>
  BY BusyIntent DEF NodeTells, IInv, StateType, nodeVars, history
<1>2. Same(status, status') /\ status'.answer = answer
  BY <1>1, AnsweredSame DEF Answers
<1>3. answer \in Final => node[i] = answer
  <2>1. CASE node[i] = "lapsed"
    BY <2>1, Zenon DEF NodeTells, Final
  <2>2. CASE node[i] = "quoted"
    BY <2>2, Zenon DEF NodeTells, Final
  <2>3. CASE node[i] \notin {"lapsed", "quoted"}
    BY <2>3, Zenon DEF NodeTells, Outcome, Final
  <2> QED
    BY <2>1, <2>2, <2>3
<1>4. Same(prepare, prepare') /\ Same(confirm, confirm')
  BY <1>1, Alone DEF IInv, StateType
<1>5. Busy(confirm) /\ confirm'.answer \in Final => node'[confirm.intent] = confirm'.answer
  BY <1>1 DEF IInv, Truthful
<1> QED
  BY <1>1, <1>2, <1>3, <1>4, <1>5, NodeStep DEF IInv, StateType, Truthful

LEMMA LapseInv == ASSUME IInv, NEW i \in Intents, Lapse(i) PROVE IInv'
<1>1. /\ node[i] = "quoted" /\ node' = [node EXCEPT ![i] = "lapsed"]
      /\ UNCHANGED <<view, prepare, confirm, status, stored, running, adrift, ghosts, open, replaced, dropped>>
  BY DEF Lapse, history
<1>2. /\ node' \in [Intents -> {"none", "quoted", "claimed", "lapsed"} \cup Final]
      /\ \A k \in running : node'[k] = "claimed"
      /\ \A k \in Intents : node[k] \in Final => node'[k] = node[k]
  BY <1>1 DEF IInv, StateType, Truthful, Final
<1>3. Same(prepare, prepare') /\ Same(confirm, confirm') /\ Same(status, status')
  BY <1>1, Alone DEF IInv, StateType
<1>4. /\ Busy(confirm) /\ confirm'.answer \in Final => node'[confirm.intent] = confirm'.answer
      /\ Busy(status) /\ status'.answer \in Final => node'[status.intent] = status'.answer
  BY <1>1, <1>2, BusyIntent DEF IInv, StateType, Truthful
<1> QED
  BY <1>1, <1>2, <1>3, <1>4, NodeStep DEF IInv, StateType

-----------------------------------------------------------------------------
(* The theorem. *)

LEMMA NextInv == IInv /\ [Next]_vars => IInv'
<1> SUFFICES ASSUME IInv, [Next]_vars PROVE IInv'
  OBVIOUS
<1>1. CASE Person
  BY <1>1, DiscardInv, AcceptInv, PrepareInv, ConfirmInv, AskInv, ForgetInv, LeaveInv DEF Person
<1>2. CASE Browser
  BY <1>2, PreparedInv, PrepareFailedInv, ConfirmedInv, ConfirmEndsInv, ToldInv, AskFailedInv,
     GhostPreparedInv DEF Browser
<1>3. CASE Node
  BY <1>3, NodePreparesInv, NodeConfirmsInv, NodeRefusesInv, NodeServesGhostInv,
     NodeServesAdriftInv, NodeEndsInv, NodeTellsInv, LapseInv DEF Node, IInv, StateType
<1>4. CASE UNCHANGED vars
  BY <1>4 DEF vars, nodeVars, history, IInv, StateType, Exclusive, Truthful, Shown, Marked,
     PanelShows, ResultShows, Busy
<1> QED
  BY <1>1, <1>2, <1>3, <1>4 DEF Next

(* Whatever is in flight, the buttons keep it about the marked payment.    *)
THEOREM Invariance == Spec => []IInv
  BY InitInv, NextInv, PTL DEF Spec

(* PayLinks.tsx:874: whatever a person pastes, clicks, leaves or reloads,  *)
(* and whatever HTTP loses, the view and storage keep the marker of every  *)
(* payment confirmed here whose outcome was not shown.  A late prepare of a *)
(* view that was left takes it from storage, but never from the view that   *)
(* shows it; and none ever shows an outcome the node has not.               *)
THEOREM MarkerSurvives == Spec => []UnresolvedStaysMarked
<1>1. IInv => UnresolvedStaysMarked
  BY DEF IInv, Marked, Shown, UnresolvedStaysMarked
<1> QED
  BY <1>1, Invariance, PTL
=============================================================================
