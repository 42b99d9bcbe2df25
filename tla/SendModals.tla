------------------------------ MODULE SendModals ------------------------------
(***************************************************************************)
(* The two send modals of the contacts page (initializeModals in           *)
(* public/js/contact.js): a click on the message button of a rendered      *)
(* contact, or on the button of a rendered group, fills currentNumber or   *)
(* currentGroupId and shows that modal; its form POSTs to                  *)
(* /api/message/send-message or /send-group-message.  Each submit handler  *)
(* is split at its `await fetch'.  The lists are PagedList's; this module  *)
(* only reads what they show.  Which contact or group a POST names is left *)
(* out (the message routes' model takes any); the modals count the POSTs.  *)
(***************************************************************************)
EXTENDS Naturals

CONSTANTS
    NoneFound   \* the "none found" item, which has no button

VARIABLES
    shown,          \* PagedList's items per list (read only)
    visible,        \* the modals shown: a subset of {"message", "group"}
    disabled,       \* form -> its submit button is disabled
    pending         \* form -> the number of its POSTs awaiting an answer

modalVars == <<visible, disabled, pending>>

Forms == {"message", "group"}

ModalInit ==
    /\ visible = {}
    /\ disabled = [f \in Forms |-> FALSE] /\ pending = [f \in Forms |-> 0]

\* Buttons exist only on the items a list rendered.
Buttons(l) == {shown[l][i] : i \in DOMAIN shown[l]} \ {NoneFound}

(***************************************************************************)
(* The delegated click listener: data-action "message" (currentNumber)    *)
(* shows the message modal, "group-message" (currentGroupId) the group    *)
(* modal; only a rendered item has the button.                            *)
(***************************************************************************)
OpenMessage ==
    /\ Buttons("contacts") # {}
    /\ visible' = visible \cup {"message"}
    /\ UNCHANGED <<disabled, pending>>

OpenGroup ==
    /\ Buttons("groups") # {}
    /\ visible' = visible \cup {"group"}
    /\ UNCHANGED <<disabled, pending>>

\* Mutant of Submit: the finally block's re-enable runs before the await.
SubmitEnablesEarly(f) ==
    /\ f \in visible /\ ~disabled[f]
    /\ pending' = [pending EXCEPT ![f] = @ + 1]
    /\ UNCHANGED <<visible, disabled>>

\* The submit handler up to `await fetch': the button is disabled and the
\* POST is sent; sleep(1500) is not awaited.  A disabled
\* submit button blocks the form's submission.
Submit(f) ==
    /\ f \in visible /\ ~disabled[f]
    /\ disabled' = [disabled EXCEPT ![f] = TRUE]
    /\ pending' = [pending EXCEPT ![f] = @ + 1]
    /\ UNCHANGED visible

(***************************************************************************)
(* The POST settles.  A response, ok or not, shows "Message sent!" (after  *)
(* the warning when not ok), resets the form and hides the modal; a        *)
(* rejection shows the error toast and leaves the modal up.  The finally   *)
(* block enables the button again either way.                              *)
(***************************************************************************)
Answer(f) ==
    /\ pending[f] > 0
    /\ pending' = [pending EXCEPT ![f] = @ - 1]
    /\ disabled' = [disabled EXCEPT ![f] = FALSE]
    /\ \/ visible' = visible \ {f}
       \/ UNCHANGED visible

\* Any btn-close-* button hides both modals.
CloseModals ==
    /\ visible # {}
    /\ visible' = {}
    /\ UNCHANGED <<disabled, pending>>

ModalNext ==
    \/ OpenMessage \/ OpenGroup \/ CloseModals
    \/ \E f \in Forms : Submit(f) \/ Answer(f)

-----------------------------------------------------------------------------

(***************************************************************************)
(* Each send form has at most one POST awaiting its answer: the button is  *)
(* disabled before the await and enabled only in the finally block, however*)
(* the modals are closed, reopened on another item or resubmitted.         *)
(***************************************************************************)
OneSendPerForm == \A f \in Forms : pending[f] <= 1

================================================================================
