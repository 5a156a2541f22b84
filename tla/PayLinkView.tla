---------------------------- MODULE PayLinkView ----------------------------
(***************************************************************************)
(* The payment part of the Pay Links view (ui/src/views/PayLinks.tsx) in   *)
(* one browser tab, over the three routes of bitcoin-pay-link-router.ts    *)
(* and an HTTP that may lose a request or an answer.                       *)
(*                                                                         *)
(* A person accepts terms, prepares a review, confirms it once, and may    *)
(* lose sight of what became of it: the answer is lost, other terms are    *)
(* pasted over the review, the view is left or the tab reloaded.  What     *)
(* remains is the marker, the ids of the last review, kept in the view     *)
(* and in sessionStorage, with which the node's record can be read.        *)
(*                                                                         *)
(* The node keeps one review per intent, claims it once and never forgets  *)
(* the outcome; module PayLinkExecution models how it does.  A review is   *)
(* named by its intent.  The view's clock is up to a second behind, so a   *)
(* click on a lapsed review may still leave the tab.                       *)
(***************************************************************************)
EXTENDS Naturals

CONSTANTS
    Intents,
    None,
    MaxLeaves    \* bound: how often the view is left or reloaded

ASSUME ViewAssumption == None \notin Intents /\ MaxLeaves \in Nat

VARIABLES
    view,      \* useState: accepted, prepared, result, unknown, snapshot, marker
    prepare,   \* the request of preparePaymentReview, prepareInFlight
    confirm,   \* the request of confirmPaymentReview, confirmInFlight
    status,    \* the request of recoverExecutionStatus, activeRecoveryRequest
    stored,    \* the marker in sessionStorage
    node,      \* the payment of each intent
    running,   \* confirm calls inside the node, past the claim
    adrift,    \* confirm requests on their way that nobody waits for any more
    ghosts,    \* prepares of a view that was left, whose code still runs
    open,      \* history: confirmed from here, outcome neither seen nor given up
    replaced,  \* history: confirmed payments whose stored marker a ghost replaced
    dropped,   \* history: open payments the present mount came without
    leaves

vars == <<view, prepare, confirm, status, stored, node, running, adrift, ghosts,
          open, replaced, dropped, leaves>>

nodeVars == <<node, running>>
history  == <<replaced, dropped, leaves>>

Final == {"broadcast", "failed"}

(* resultFromPayment: claimed without an outcome is "broadcast_unknown".   *)
Outcome(state) == IF state \in Final THEN state ELSE "unknown"

NoCall == [intent |-> None, stage |-> "none", answer |-> "none", stale |-> "no"]

Sent(i) == [NoCall EXCEPT !.intent = i, !.stage = "sent"]

Answered(call, answer) == [call EXCEPT !.stage = "answered", !.answer = answer]

Busy(call) == call # NoCall

(* A new mount: the state of the view, the marker read from storage. *)
Mounted(marker) == [accepted |-> None, prepared |-> None, result |-> "none",
                    unknown |-> "no", snapshot |-> "none", marker |-> marker]

-----------------------------------------------------------------------------
(* What the node does to a review. *)

(* prepare: one review per intent, returned again while it can be used.    *)
Review(i) ==
    /\ node[i] \in {"none", "quoted"}
    /\ node' = [node EXCEPT ![i] = "quoted"]

(* confirm: the claim, once; or the outcome of the claim there was.        *)
Claim(i) ==
    /\ node[i] = "quoted"
    /\ node' = [node EXCEPT ![i] = "claimed"]
    /\ running' = running \cup {i}

-----------------------------------------------------------------------------
(* Choosing terms: paste, inspect and accept all run resetExecution. *)

(* executionGeneration: whatever is in flight no longer speaks of the view. *)
Stale(call) == IF Busy(call) THEN [call EXCEPT !.stale = "yes"] ELSE call

(* Mutant of Cancelled: the answer will be ignored, the request stays active. *)
CancelledActive(call) == IF Busy(call) THEN [call EXCEPT !.stage = "ignored"] ELSE call

(* cancelRecoveryRequest: nobody waits for the status any more.            *)
Cancelled(call) == NoCall

(* replaceBundle, inspectBundle, and acceptTerms before its request.       *)
Discard ==
    /\ view' = [view EXCEPT !.accepted = None, !.prepared = None, !.result = "none",
                            !.unknown = "no"]
    /\ prepare' = Stale(prepare) /\ confirm' = Stale(confirm)
    /\ status' = Cancelled(status)
    /\ UNCHANGED <<stored, nodeVars, adrift, ghosts, open, history>>

(* acceptTerms, its answer: the terms of an intent of this node. *)
Accept(i) ==
    /\ view.accepted = None /\ view.prepared = None
    /\ view' = [view EXCEPT !.accepted = i]
    /\ UNCHANGED <<prepare, confirm, status, stored, nodeVars, adrift, ghosts, open,
                   history>>

-----------------------------------------------------------------------------
(* preparePaymentReview. *)

(* Mutant of BlocksPrepare: a marker that was never checked does not block. *)
UncheckedPasses ==
    /\ view.marker # None
    /\ \/ view.snapshot \in {"unknown", "not_sent"}
       \/ view.snapshot = "awaiting" /\ view.marker # view.accepted

(* recoveryBlocksPrepare: a marker is in the way until its payment is      *)
(* known to be over, or to be this same review and unclaimed.              *)
BlocksPrepare ==
    /\ view.marker # None
    /\ \/ view.snapshot \in {"none", "unknown", "not_sent"}
       \/ view.snapshot = "awaiting" /\ view.marker # view.accepted

(* The button is there while nothing is prepared, and can be clicked.      *)
PrepareOffered ==
    /\ view.accepted # None /\ view.prepared = None /\ view.result = "none"
    /\ ~Busy(prepare) /\ ~Busy(status) /\ ~BlocksPrepare

Prepare ==
    /\ PrepareOffered
    /\ ~Busy(confirm) /\ view.unknown = "no"
    /\ prepare' = Sent(view.accepted)
    /\ UNCHANGED <<view, confirm, status, stored, nodeVars, adrift, ghosts, open, history>>

(* writeExecutionRecovery: what sessionStorage holds for the next mount.   *)
Stores(marker) == stored' = marker

(* rememberExecutionRecovery: the marker, in the view and in storage, and  *)
(* no status request of an earlier one.                                    *)
Remembering(i, next) ==
    /\ view' = [next EXCEPT !.marker = i, !.snapshot = "none"]
    /\ Stores(i)
    /\ status' = Cancelled(status)

(* The review is there: marked even if the view has moved on. *)
Prepared ==
    /\ prepare.answer = "review"
    /\ Remembering(prepare.intent,
                   IF prepare.stale = "yes" THEN view
                   ELSE [view EXCEPT !.prepared = prepare.intent])
    /\ prepare' = NoCall
    /\ UNCHANGED <<confirm, nodeVars, adrift, ghosts, open, history>>

(* A refusal (for want of coins, an account, an indexer, or because the    *)
(* intent is claimed), or an answer lost after the review was prepared.    *)
PrepareFailed ==
    /\ Busy(prepare)
    /\ view' = IF prepare.stale = "yes" THEN view ELSE [view EXCEPT !.prepared = None]
    /\ (prepare.stage = "sent" /\ Review(prepare.intent)) \/ UNCHANGED node
    /\ prepare' = NoCall
    /\ UNCHANGED <<confirm, status, stored, running, adrift, ghosts, open, history>>

-----------------------------------------------------------------------------
(* confirmPaymentReview. *)

(* exactExecutionRecoveryKey: the marker names the prepared review.         *)
MarksReview == view.prepared # None /\ view.prepared = view.marker

(* The send button of the review, until it has a result. *)
ConfirmOffered ==
    /\ MarksReview /\ view.result = "none" /\ view.unknown = "no"
    /\ ~Busy(confirm) /\ ~Busy(status)
    /\ view.snapshot # "not_sent"

(* The marker is written again before the request can leave. *)
Confirm ==
    /\ ConfirmOffered
    /\ ~Busy(prepare)
    /\ Remembering(view.marker, view)
    /\ confirm' = Sent(view.prepared)
    /\ open' = open \cup {view.prepared}
    /\ replaced' = replaced \ {view.prepared} /\ dropped' = dropped \ {view.prepared}
    /\ UNCHANGED <<prepare, nodeVars, adrift, ghosts, leaves>>

Closed(i, outcome) == IF outcome \in Final THEN open \ {i} ELSE open

Confirmed ==
    /\ confirm.stage = "answered" /\ confirm.answer # "refused"
    /\ view' = [view EXCEPT
                  !.unknown = IF confirm.answer = "unknown" THEN "yes" ELSE "no",
                  !.snapshot = confirm.answer,
                  !.result = IF confirm.stale = "yes" THEN @ ELSE confirm.answer]
    /\ open' = Closed(confirm.intent, confirm.answer)
    /\ confirm' = NoCall
    /\ UNCHANGED <<prepare, status, stored, nodeVars, adrift, ghosts, history>>

(* DEFINITIVE_PRE_SIGN_ERRORS: the node refused before it claimed. *)
ConfirmRefused ==
    /\ confirm.answer = "refused"
    /\ view' = IF confirm.stale = "yes" THEN view ELSE [view EXCEPT !.unknown = "no"]
    /\ confirm' = NoCall
    /\ UNCHANGED <<prepare, status, stored, nodeVars, adrift, ghosts, open, history>>

(* No answer, or one that decides nothing.                                 *)
ConfirmLost ==
    /\ Busy(confirm)
    /\ view' = IF confirm.stale = "yes" THEN view ELSE [view EXCEPT !.unknown = "yes"]
    /\ adrift' = IF confirm.stage = "sent"
                 THEN adrift \cup {confirm.intent} ELSE adrift
    /\ confirm' = NoCall
    /\ UNCHANGED <<prepare, status, stored, nodeVars, ghosts, open, history>>

-----------------------------------------------------------------------------
(* recoverExecutionStatus and forgetExecutionRecovery. *)

(* The panel of the marker: what else is in flight disables its buttons.   *)
AskOffered == view.marker # None /\ ~Busy(status) /\ ~Busy(prepare) /\ ~Busy(confirm)

(* The button beside the review stays enabled while a confirm runs. *)
AskOfferedByReview ==
    /\ view.prepared # None /\ view.result = "none"
    /\ view.unknown = "yes" \/ view.snapshot # "none"
    /\ ~Busy(status)

(* The answer is for the review too, if the marker names it now.            *)
Ask ==
    /\ AskOffered \/ AskOfferedByReview
    /\ view.marker # None
    /\ status' = [Sent(view.marker) EXCEPT
                    !.stale = IF MarksReview THEN "no" ELSE "yes"]
    /\ UNCHANGED <<view, prepare, confirm, stored, nodeVars, adrift, ghosts, open, history>>

(* An answer that names the marker; shown, and applied to its review.      *)
Told ==
    /\ status.stage = "answered"
    /\ status.intent = view.marker
    /\ view' = IF status.stale = "yes" THEN [view EXCEPT !.snapshot = status.answer]
               ELSE [view EXCEPT
                       !.snapshot = status.answer,
                       !.unknown = IF status.answer = "unknown" THEN "yes" ELSE "no",
                       !.result = IF status.answer \in Final \cup {"unknown"}
                                  THEN status.answer ELSE @]
    /\ open' = Closed(status.intent, status.answer)
    /\ status' = NoCall
    /\ UNCHANGED <<prepare, confirm, stored, nodeVars, adrift, ghosts, history>>

(* A refusal, an answer that names another payment, or none.               *)
AskFailed ==
    /\ status.stage \in {"sent", "answered"}
    /\ status' = NoCall
    /\ UNCHANGED <<view, prepare, confirm, stored, nodeVars, adrift, ghosts, open, history>>

Forget ==
    /\ AskOffered
    /\ open' = open \ {view.marker}
    /\ Stores(None)
    /\ view' = IF view.prepared = None
               THEN [view EXCEPT !.marker = None, !.snapshot = "none"]
               ELSE [Mounted(None) EXCEPT !.accepted = view.accepted]
    /\ UNCHANGED <<prepare, confirm, status, nodeVars, adrift, ghosts, history>>

-----------------------------------------------------------------------------
(* The view is left for another one, or the tab is reloaded. *)

(* Leaving unmounts the component; the code that awaits runs on.  A reload *)
(* ends it.  Either way the marker comes back from storage.                *)
Leave(how) ==
    /\ leaves < MaxLeaves
    /\ leaves' = leaves + 1
    /\ view' = Mounted(stored)
    /\ ghosts' = IF how = "left" /\ Busy(prepare) THEN ghosts \cup {Stale(prepare)} ELSE ghosts
    /\ adrift' = IF confirm.stage = "sent" THEN adrift \cup {confirm.intent} ELSE adrift
    /\ (how = "reloaded" /\ prepare.stage = "sent" /\ Review(prepare.intent))
         \/ UNCHANGED node
    /\ prepare' = NoCall /\ confirm' = NoCall /\ status' = NoCall
    /\ dropped' = {i \in open : stored # i}
    /\ UNCHANGED <<stored, running, open, replaced>>

(* The prepare of a view that is gone still writes sessionStorage.         *)
GhostPrepared(call) ==
    /\ call.answer = "review"
    /\ Stores(call.intent)
    /\ ghosts' = ghosts \ {call}
    /\ replaced' = replaced \cup ((open \cap {stored}) \ {call.intent})
    /\ UNCHANGED <<view, prepare, confirm, status, nodeVars, adrift, open, dropped, leaves>>

-----------------------------------------------------------------------------
(* The node. *)

NodePrepares ==
    /\ prepare.stage = "sent" /\ Review(prepare.intent)
    /\ prepare' = Answered(prepare, "review")
    /\ UNCHANGED <<view, confirm, status, stored, running, adrift, ghosts, open, history>>

NodeServesGhost(call) ==
    /\ call.stage = "sent" /\ Review(call.intent)
    /\ ghosts' = (ghosts \ {call}) \cup {Answered(call, "review")}
    /\ UNCHANGED <<view, prepare, confirm, status, stored, running, adrift, open, history>>

NodeConfirms ==
    LET i == confirm.intent IN
    /\ confirm.stage = "sent"
    /\ \/ Claim(i) /\ confirm' = [confirm EXCEPT !.stage = "running"]
       \/ /\ node[i] \notin {"quoted", "lapsed"} /\ UNCHANGED nodeVars
          /\ confirm' = Answered(confirm, Outcome(node[i]))
    /\ UNCHANGED <<view, prepare, status, stored, adrift, ghosts, open, history>>

(* A review that is not ready, or not current: refused before the claim.   *)
NodeRefuses ==
    /\ confirm.stage = "sent" /\ node[confirm.intent] \in {"quoted", "lapsed"}
    /\ confirm' = Answered(confirm, "refused")
    /\ UNCHANGED <<view, prepare, status, stored, nodeVars, adrift, ghosts, open, history>>

(* A request nobody waits for arrives all the same.                        *)
NodeServesAdrift(i) ==
    /\ i \in adrift /\ adrift' = adrift \ {i}
    /\ Claim(i) \/ UNCHANGED nodeVars
    /\ UNCHANGED <<view, prepare, confirm, status, stored, ghosts, open, history>>

(* The claimed payment is signed, posted and answered, or fails unsigned;  *)
(* or the post goes unanswered, or the process dies, and it stays as it is.*)
NodeEnds(i, state) ==
    /\ i \in running /\ running' = running \ {i}
    /\ state \in {"broadcast", "failed", "claimed"}
    /\ node' = [node EXCEPT ![i] = state]
    /\ confirm' = IF confirm.stage = "running" /\ confirm.intent = i
                  THEN Answered(confirm, Outcome(state)) ELSE confirm
    /\ UNCHANGED <<view, prepare, status, stored, adrift, ghosts, open, history>>

(* What status answers: one snapshot.                                      *)
Reports == Final \cup {"unknown", "not_sent", "awaiting"}

(* An unclaimed review that lapsed, or whose context no longer holds, is   *)
(* not_sent.                                                               *)
NodeTells(answer) ==
    LET i == status.intent IN
    /\ status.stage = "sent"
    /\ answer \in CASE node[i] = "lapsed" -> {"not_sent"}
                    [] node[i] = "quoted" -> {"not_sent", "awaiting"}
                    [] OTHER -> {Outcome(node[i])}
    /\ status' = Answered(status, answer)
    /\ UNCHANGED <<view, prepare, confirm, stored, nodeVars, adrift, ghosts, open, history>>

(* confirm_before passes over an unclaimed review. *)
Lapse(i) ==
    /\ node[i] = "quoted"
    /\ node' = [node EXCEPT ![i] = "lapsed"]
    /\ UNCHANGED <<view, prepare, confirm, status, stored, running, adrift, ghosts, open,
                   history>>

-----------------------------------------------------------------------------
Init ==
    /\ view = Mounted(None) /\ stored = None
    /\ prepare = NoCall /\ confirm = NoCall /\ status = NoCall
    /\ node = [i \in Intents |-> "none"] /\ running = {}
    /\ adrift = {} /\ ghosts = {} /\ open = {}
    /\ replaced = {} /\ dropped = {}
    /\ leaves = 0

Person == Discard \/ (\E i \in Intents : Accept(i)) \/ Prepare \/ Confirm \/ Ask \/ Forget
          \/ \E how \in {"left", "reloaded"} : Leave(how)

Browser == Prepared \/ PrepareFailed \/ Confirmed \/ ConfirmRefused \/ ConfirmLost
           \/ Told \/ AskFailed \/ \E call \in ghosts : GhostPrepared(call)

Node ==
    \/ NodePrepares \/ NodeConfirms \/ NodeRefuses
    \/ \E call \in ghosts : NodeServesGhost(call)
    \/ \E i \in adrift : NodeServesAdrift(i)
    \/ \E i \in Intents, state \in {"broadcast", "failed", "claimed"} : NodeEnds(i, state)
    \/ \E answer \in Reports : NodeTells(answer)
    \/ \E i \in Intents : Lapse(i)

Next == Person \/ Browser \/ Node

(* A fetch settles and the node serves what reaches it; a person who is    *)
(* not told the outcome keeps asking, and is not cut off for ever.         *)
Settled == PrepareFailed \/ Prepared \/ Confirmed \/ ConfirmRefused \/ ConfirmLost

Fairness ==
    /\ WF_vars(Settled)
    /\ SF_vars(Ask)
    /\ SF_vars(\E answer \in Reports : NodeTells(answer))
    /\ SF_vars(Told)

Spec == Init /\ [][Next]_vars /\ Fairness

-----------------------------------------------------------------------------
(* What the person is shown. *)

(* ExecutionRecoveryState: what the marker's payment came to.              *)
PanelShows(i, outcome) == view.marker = i /\ view.snapshot = outcome

(* The result in the place of the review. *)
ResultShows(i, outcome) == view.prepared = i /\ view.result = outcome

-----------------------------------------------------------------------------
(* Properties. *)

(* The marker is the only safe route back to a confirmation whose answer   *)
(* was lost (PayLinks.tsx:874).  Until its outcome was shown or the person *)
(* forgot it, the view keeps the marker of every review it confirmed, and  *)
(* so does storage: no other payment is prepared or confirmed over it,     *)
(* whatever is pasted, lost, refused, left or reloaded in between.         *)
(* Storage loses it only to the late answer of a prepare whose view was    *)
(* left, and even then the view that shows it keeps it; only the mount     *)
(* after that comes without.  And an outcome the view shows as final is    *)
(* the node's.                                                             *)
UnresolvedStaysMarked ==
    /\ \A i \in open \ replaced : stored = i
    /\ \A i \in open \ dropped : view.marker = i
    /\ dropped \subseteq replaced
    /\ \A i \in Intents, outcome \in Final :
          PanelShows(i, outcome) \/ ResultShows(i, outcome) => node[i] = outcome

(* However a confirmation was lost sight of, its outcome can be learned:   *)
(* once the node has it, a person who keeps asking is shown it, unless     *)
(* another marker took its place.  No request left in flight, cancelled or *)
(* stale may disable the question for good.                                *)
OutcomeIsShown ==
    \A i \in Intents :
        (view.marker = i /\ node[i] \in Final)
            ~> (view.marker # i \/ PanelShows(i, node[i]))
=============================================================================
