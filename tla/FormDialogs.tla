---------------------------- MODULE FormDialogs ----------------------------
(***************************************************************************)
(* The dialogs and forms of the web front end that send something to the   *)
(* server and wait for its answer.  Each is a component of its own under   *)
(* app/javascript, written by hand over the same two pieces: a dialog that *)
(* opens and closes (components/adaptable-dialog.tsx) and an Inertia visit *)
(* with its callbacks.  What tells them apart is where their state lives,  *)
(* what they refuse while a visit is in flight, what opening, closing and  *)
(* each answer reset, and how the server says no: the traits below, read   *)
(* off each component.  A behaviour takes one dialog through two items.    *)
(*                                                                         *)
(* Inertia keeps one visit in flight: a new one interrupts it, whatever    *)
(* dialog it is of, and the server may still do what was interrupted.      *)
(***************************************************************************)
EXTENDS Integers, FiniteSets

CONSTANTS
    Items,          \* what the dialog is about: orders, payments, dishes...
    None,           \* null
    One,            \* the key of the state of a dialog shared by all items
    MaxSent         \* bound: requests sent in all

ASSUME DialogsAssumption ==
    MaxSent \in Nat /\ None \notin Items /\ One \notin Items

-----------------------------------------------------------------------------
(* The traits of each dialog.                                              *)
(*                                                                         *)
(* "shared"    one component for all items, opened on one of them; without *)
(*             it, every item has its own                                  *)
(* "page"      no dialog but a page: opening is visiting it, and leaving   *)
(*             it is a visit that interrupts                               *)
(* "content"   the form lives in what is unmounted on closing              *)
(* "blocks"    cannot be closed while its flag says it is sending          *)
(* "holds"     cannot be closed while its visit is in flight               *)
(* "guards"    cannot be sent while its visit is in flight                 *)
(* "chooses"   has something to fill in, and cannot be sent as it opens    *)
(* "edits"     has something to fill in, and can be sent as it opens       *)
(* "loads"     opening puts the values of the item, and the first stage    *)
(* "clears"    closing empties it, and puts the first stage                *)
(* "closes"    success closes it                                           *)
(* "leaves"    success takes the browser elsewhere                         *)
(* "empties"   success empties it                                          *)
(* "tells"     success is announced: a stage, a sheet, a message           *)
(* "staged"    what it tells is a stage of its own                         *)
(* "reads"     success with an alert is no success                         *)
(* "recovers"  it can be used again if there is no answer                  *)
(*                                                                         *)
(* and of the action of the server it calls:                               *)
(*                                                                         *)
(* "alerts"    a refusal is an alert, not errors                           *)
(* "creates"   done again, it makes another                                *)

RejectPaymentDialog ==
    {"guards", "chooses", "clears", "closes", "empties", "tells", "reads",
     "recovers", "alerts"}

PaymentReviewSheet ==
    {"guards", "closes", "tells", "reads", "recovers", "alerts"}

\* It closes because the invoice it removes is no longer shown.
RemoveInvoiceDialog == {"guards", "closes", "recovers", "alerts"}

UploadInvoice == {"guards", "chooses", "closes", "empties", "recovers"}

\* A mutant of DebtReminderDialog: what stops the closing is the state.
DebtReminderTrapped == {"blocks", "guards", "clears", "tells", "staged"}

\* sending.current stops the closing and state the button; onFinish resets only
\* the first.
DebtReminderDialog == {"holds", "guards", "clears", "tells", "staged"}

\* A mutant of DeleteMenuDialog: what was chosen for a dish is kept.
DeleteMenuKept ==
    {"shared", "edits", "guards", "closes", "empties", "tells", "recovers"}

DeleteMenuDialog ==
    {"shared", "edits", "guards", "clears", "closes", "empties", "tells", "recovers"}

RemoveScheduleDialog == {"guards", "closes", "recovers"}

DeleteSpecialSubsidyDialog == {"shared", "guards", "closes", "recovers"}

\* The form has a new key every time the sheet opens.
SpecialSubsidyForm ==
    {"shared", "content", "guards", "chooses", "loads", "closes", "recovers",
     "creates"}

ClosureForm ==
    {"shared", "content", "edits", "guards", "loads", "tells", "staged", "recovers"}

ClosingTimeForm ==
    {"content", "guards", "chooses", "loads", "tells", "staged", "recovers"}

\* A mutant of ProviderOrderActions: an alert is taken for success.
OrderActionsUnread ==
    {"guards", "chooses", "clears", "closes", "empties", "tells", "recovers", "alerts"}

ProviderOrderActions ==
    {"guards", "chooses", "clears", "closes", "empties", "tells", "reads",
     "recovers", "alerts"}

CancelOrderSheet == {"guards", "closes", "reads", "recovers", "alerts"}

\* The order edited goes on, and the sheet of the order updated is opened by
\* the flash: OrderEditing.
ConfirmModifyDialog == {"guards", "closes", "recovers", "alerts"}

\* The sheet has a key with what it edits.
AddressFormSheet ==
    {"edits", "guards", "clears", "closes", "recovers", "creates"}

\* A mutant of AddAddressSheet: it can be sent while it is being sent.
AddAddressUnguarded == {"edits", "clears", "closes", "recovers", "creates"}

AddAddressSheet ==
    {"edits", "guards", "clears", "closes", "recovers", "creates"}

\* A mutant of DeleteAddressDialog: it can be closed in flight.
DeleteAddressClosable ==
    {"shared", "guards", "clears", "tells", "staged", "recovers"}

DeleteAddressDialog ==
    {"shared", "blocks", "guards", "clears", "tells", "staged", "recovers"}

\* Unmounted by its cancel button, or by the sheet it is in.
BenefitConfigurationForm ==
    {"content", "edits", "guards", "loads", "closes", "recovers"}

PaymentDetailsSheet ==
    {"content", "edits", "guards", "loads", "closes", "recovers"}

\* The file is kept by the component, the form by the dialog.
UploadReceiptDialog ==
    {"content", "guards", "chooses", "clears", "closes", "empties", "tells", "recovers"}

UploadReceiptInline == {"page", "guards", "chooses", "empties", "tells", "recovers"}

DeleteReceiptDialog == {"content", "guards", "leaves", "recovers"}

ReviewForm == {"page", "guards", "chooses", "leaves", "recovers"}

ProfileForm == {"page", "edits", "guards", "tells", "recovers"}

EmailForm == {"page", "edits", "guards", "empties", "tells", "recovers"}

PasswordForm == {"page", "edits", "guards", "empties", "tells", "recovers"}

ProviderSignIn ==
    {"page", "guards", "chooses", "empties", "leaves", "recovers", "alerts"}

ForgotPasswordDialog ==
    {"content", "edits", "guards", "loads", "leaves", "recovers", "creates"}

ResetCodeForm == {"page", "guards", "chooses", "leaves", "recovers"}

PasswordSetupForm == {"page", "guards", "chooses", "leaves", "recovers"}

Dialogs ==
    {RejectPaymentDialog, PaymentReviewSheet, RemoveInvoiceDialog, UploadInvoice,
     DebtReminderDialog, DeleteMenuDialog, RemoveScheduleDialog,
     DeleteSpecialSubsidyDialog, SpecialSubsidyForm, ClosureForm, ClosingTimeForm,
     ProviderOrderActions, CancelOrderSheet, ConfirmModifyDialog,
     AddressFormSheet, AddAddressSheet, DeleteAddressDialog,
     BenefitConfigurationForm, PaymentDetailsSheet, UploadReceiptDialog,
     UploadReceiptInline, DeleteReceiptDialog, ReviewForm, ProfileForm, EmailForm, PasswordForm,
     ProviderSignIn, ForgotPasswordDialog, ResetCodeForm, PasswordSetupForm}

-----------------------------------------------------------------------------
VARIABLES
    dialog,     \* the dialog of this behaviour, as its traits
    opened,     \* the item it is open on
    draft,      \* the item what is typed in it was typed for, by key
    busy,       \* its processing flag, by key
    stage,      \* "form", or "told" when it says it is done, by key
    visit,      \* the visit in flight
    strays,     \* items of the visits interrupted that may still reach the server
    live,       \* items the server still accepts the action on
    made,       \* times the server did it (history)
    ended,      \* visits that ended with the news that it was done, or none (history)
    told,       \* the items announced as done (history)
    sent        \* requests sent

screen == <<opened, draft, busy, stage>>
vars == <<dialog, screen, visit, strays, live, made, ended, told, sent>>

Is(trait) == trait \in dialog

Keys == Items \cup {One}

Key(i) == IF Is("shared") THEN One ELSE i

\* A visit: what it is about, the key of its state, what was typed, whether the form that
\* sent it is still there, and its answer.  None is not one.
Visits == [item : Items, key : Keys, draft : Items \cup {None}, mounted : BOOLEAN,
           answer : {"waiting", "done", "alert", "errors"}]

ASSUME NoneAssumption == None \notin Visits

Sending(k) == visit # None /\ visit.key = k

-----------------------------------------------------------------------------
(* The browser *)

\* Unmounted when closed: what is typed and the flag go with it.
Volatile == Is("content") \/ Is("page")

Open(i) ==
    /\ opened = None
    /\ opened' = i
    /\ draft' = IF Is("loads") THEN [draft EXCEPT ![Key(i)] = None] ELSE draft
    /\ stage' = IF Is("loads") THEN [stage EXCEPT ![Key(i)] = "form"] ELSE stage
    /\ UNCHANGED <<dialog, busy, visit, strays, live, made, ended, told, sent>>

Type ==
    /\ opened # None
    /\ Is("chooses") \/ Is("edits")
    /\ stage[Key(opened)] = "form"
    /\ draft' = [draft EXCEPT ![Key(opened)] = opened]
    /\ UNCHANGED <<dialog, opened, busy, stage, visit, strays, live, made, ended,
                   told, sent>>

Closable ==
    /\ Is("blocks") => ~busy[Key(opened)]
    /\ Is("holds") => ~Sending(Key(opened))

\* What is left behind of the visit in flight when another takes its place:
\* the server may still do it, and nobody will know.
Interrupted ==
    strays' = IF visit # None /\ visit.answer = "waiting"
              THEN strays \cup {visit.item} ELSE strays

\* Closing leaves the visit in flight, unless it is leaving the page.
Close ==
    /\ opened # None
    /\ Closable
    /\ opened' = None
    /\ LET k == Key(opened) IN
         /\ draft' = IF Is("clears") \/ Volatile THEN [draft EXCEPT ![k] = None] ELSE draft
         /\ stage' = IF Is("clears") THEN [stage EXCEPT ![k] = "form"] ELSE stage
         /\ busy' = IF Volatile \/ (Is("clears") /\ ~Is("recovers"))
                     THEN [busy EXCEPT ![k] = FALSE] ELSE busy
    /\ IF Is("page") /\ visit # None
         THEN /\ Interrupted
              /\ visit' = None
              /\ ended' = [ended EXCEPT ![visit.item] = @ + 1]
         ELSE /\ visit' = IF Volatile /\ visit # None
                           THEN [visit EXCEPT !.mounted = FALSE] ELSE visit
              /\ UNCHANGED <<strays, ended>>
    /\ UNCHANGED <<dialog, live, made, told, sent>>

\* A mutant of Submit: the flag goes up with the answer.
SubmitQuietly ==
    /\ opened # None
    /\ sent < MaxSent
    /\ LET k == Key(opened) IN
         /\ stage[k] = "form"
         /\ Is("guards") => ~busy[k]
         /\ Is("chooses") => draft[k] # None
         /\ visit' = [item |-> opened, key |-> k, draft |-> draft[k],
                      mounted |-> TRUE, answer |-> "waiting"]
    /\ Interrupted
    /\ sent' = sent + 1
    /\ UNCHANGED <<dialog, opened, draft, busy, stage, live, made, ended, told>>

\* onFinish of the visit interrupted comes with the new one.
Submit ==
    /\ opened # None
    /\ sent < MaxSent
    /\ LET k == Key(opened) IN
         /\ stage[k] = "form"
         /\ Is("guards") => ~busy[k]
         /\ Is("chooses") => draft[k] # None
         /\ visit' = [item |-> opened, key |-> k, draft |-> draft[k],
                      mounted |-> TRUE, answer |-> "waiting"]
         /\ busy' = [busy EXCEPT ![k] = TRUE,
                     ![IF visit = None \/ visit.key = k THEN k ELSE visit.key] =
                         (visit = None \/ visit.key = k)]
    /\ Interrupted
    /\ ended' = IF visit # None /\ visit.item # opened
               THEN [ended EXCEPT ![visit.item] = @ + 1] ELSE ended
    /\ sent' = sent + 1
    /\ UNCHANGED <<dialog, opened, draft, stage, live, made, told>>

Succeeded == visit.answer = "done" \/ (visit.answer = "alert" /\ ~Is("reads"))

\* The callbacks of the visit: onSuccess, or none for errors and for an alert
\* that is read, and onFinish.  A dialog of its own item closes itself, a shared
\* one whatever it is open on.
Arrive ==
    /\ visit # None
    /\ visit.answer # "waiting"
    /\ LET k == visit.key
           leaves == visit.answer = "done" /\ Is("leaves")
       IN  /\ opened' = IF \/ Succeeded /\ Is("closes")
                              /\ (Is("shared") \/ opened = visit.item)
                           \/ leaves
                        THEN None ELSE opened
           /\ draft' = IF Succeeded /\ (Is("empties") \/ (Is("clears") /\ Is("closes")))
                       THEN [draft EXCEPT ![k] = None] ELSE draft
           /\ stage' = IF Succeeded /\ Is("staged")
                       THEN [stage EXCEPT ![k] = "told"] ELSE stage
           /\ busy' = IF visit.mounted THEN [busy EXCEPT ![k] = FALSE] ELSE busy
           /\ told' = IF Succeeded /\ Is("tells") THEN told \cup {visit.item} ELSE told
    /\ visit' = None
    /\ ended' = IF visit.answer = "done" THEN [ended EXCEPT ![visit.item] = @ + 1]
                ELSE ended
    /\ UNCHANGED <<dialog, strays, live, made, sent>>

\* A mutant of Fail: onFinish does not reset the flag.
FailBusy ==
    /\ visit # None
    /\ Interrupted
    /\ visit' = None
    /\ ended' = [ended EXCEPT ![visit.item] = @ + 1]
    /\ UNCHANGED <<dialog, opened, draft, stage, busy, live, made, told, sent>>

\* The connection or the server fails: onFinish alone.
Fail ==
    /\ visit # None
    /\ Interrupted
    /\ visit' = None
    /\ busy' = IF Is("recovers") /\ visit.mounted
               THEN [busy EXCEPT ![visit.key] = FALSE] ELSE busy
    /\ ended' = [ended EXCEPT ![visit.item] = @ + 1]
    /\ UNCHANGED <<dialog, opened, draft, stage, live, made, told, sent>>

-----------------------------------------------------------------------------
(* The server, and the others *)

Do(i) ==
    /\ made' = IF i \in live THEN [made EXCEPT ![i] = @ + 1] ELSE made
    /\ live' = IF Is("creates") THEN live ELSE live \ {i}

Serve ==
    /\ visit # None
    /\ visit.answer = "waiting"
    /\ Do(visit.item)
    /\ visit' = [visit EXCEPT !.answer =
                    IF visit.item \in live THEN "done"
                    ELSE IF Is("alerts") THEN "alert" ELSE "errors"]
    /\ UNCHANGED <<dialog, screen, strays, ended, told, sent>>

ServeStray(i) ==
    /\ i \in strays
    /\ strays' = strays \ {i}
    /\ Do(i)
    /\ UNCHANGED <<dialog, screen, visit, ended, told, sent>>

\* Someone else decides, the order deadline passes, what was sent is not valid.
Others(i) ==
    /\ live' = live \ {i}
    /\ UNCHANGED <<dialog, screen, visit, strays, made, ended, told, sent>>

Init ==
    /\ dialog \in Dialogs
    /\ opened = None
    /\ draft = [k \in Keys |-> None]
    /\ busy = [k \in Keys |-> FALSE]
    /\ stage = [k \in Keys |-> "form"]
    /\ visit = None
    /\ strays = {}
    /\ live = Items
    /\ made = [i \in Items |-> 0]
    /\ ended = [i \in Items |-> 0]
    /\ told = {}
    /\ sent = 0

Next ==
    \/ Type \/ Close \/ Submit \/ Arrive \/ Fail \/ Serve
    \/ \E i \in Items : Open(i) \/ ServeStray(i) \/ Others(i)

Spec == Init /\ [][Next]_vars

\* The browser ends every visit, with an answer or without.
FairSpec == Spec /\ WF_vars(Arrive \/ Fail)

-----------------------------------------------------------------------------
(* Properties *)

\* What the variables hold; in particular a visit in flight is the one its
\* dialog waits for, as long as the form that sent it is there.
TypeOK ==
    /\ dialog \in Dialogs
    /\ opened \in Items \cup {None}
    /\ draft \in [Keys -> Items \cup {None}]
    /\ busy \in [Keys -> BOOLEAN]
    /\ stage \in [Keys -> {"form", "told"}]
    /\ visit # None =>
         /\ visit \in Visits /\ visit.key = Key(visit.item)
         /\ visit.mounted => busy[visit.key]
    /\ strays \subseteq Items /\ live \subseteq Items /\ told \subseteq Items
    /\ made \in [Items -> Nat] /\ ended \in [Items -> Nat]
    /\ sent \in 0..MaxSent

\* What is sent about an item was never typed or chosen for another, which a
\* dialog shared by the items of a list would do if it kept it: the orders of
\* the dish before rejected with this one (delete-menu-sheet.tsx:50).
SendsWhatWasTypedForIt ==
    visit # None => visit.draft \in {None, visit.item}

\* What is announced as done was done, though Inertia takes any redirect for
\* success and someone else may have decided before (provider-order-actions.tsx:39).
ToldIsDone == \A i \in told : made[i] > 0

\* Nothing is done twice by sending it twice, closing the dialog and coming back
\* included, unless the answer to the first was lost.  The flag of a form that dies with the
\* content of its dialog does not survive closing it, and for what creates
\* something the server has no other defence.
DoneOnce ==
    \A i \in Items : made[i] > 1 + ended[i] => Is("content") /\ Is("creates")

\* A dialog that says it is done, says it of the item it is open on; all but
\* the shared one of the closures, whose answer may find it on another.
SaysItOfItsItem ==
    opened # None /\ stage[Key(opened)] = "told" =>
        made[opened] > 0 \/ dialog = ClosureForm

\* Every wait ends and the form can be used again; all but the reminder, whose
\* button waits for an answer that may not come until the dialog is closed.
WaitsEnd == \A k \in Keys : busy[k] ~> (~busy[k] \/ ~Is("recovers"))

\* No dialog holds the user: it can be closed in the end, whatever became of what
\* it sent (debt-reminder-dialog.tsx:58).
NeverTrapped == opened # None ~> (opened = None \/ Closable)

\* A dialog sends what was typed for its item, once, and what it says is so.
DialogsKeepTheirWord ==
    /\ SendsWhatWasTypedForIt
    /\ ToldIsDone
    /\ DoneOnce
    /\ SaysItOfItsItem
=============================================================================
