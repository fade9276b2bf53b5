---------------------------- MODULE OrderEditing ----------------------------
(***************************************************************************)
(* An employee modifies an order (pages/consumer/orders/edit.tsx) while    *)
(* the provider decides on it and days pass.  The page works on the order  *)
(* as it was when it was loaded; the server (Order#modify) on the order as *)
(* it is.  A pending order is rewritten.  A confirmed one is not: more     *)
(* meals of the same are asked for in a complementary order, and anything  *)
(* else cancels it and asks for another one, after the page has asked      *)
(* whether that is what is wanted.                                         *)
(*                                                                         *)
(* Stock, prices and benefits are those of OrderBook: here the server may  *)
(* find at any time that what is asked for cannot be had.                  *)
(***************************************************************************)
EXTENDS Integers

CONSTANTS
    Details,        \* address, notes and options, as one value
    MaxUnits,       \* bound: meals that can be asked for in an order
    MaxOrders,      \* bound: orders made in all
    MaxSaves,       \* bound: requests to modify
    NoOne           \* null

ASSUME EditingAssumption ==
    MaxUnits \in Nat /\ MaxOrders \in Nat \ {0} /\ MaxSaves \in Nat

Ids == 1..MaxOrders

Rows == [status : {"none", "pending", "confirmed", "cancelled", "rejected"},
         amount : 0..MaxUnits, details : Details]

VARIABLES
    book,           \* the orders of the employee on the server
    delivery,       \* when they are to be delivered: later, today, past
    place,          \* the page: edit, or elsewhere
    shown,          \* the order the page was loaded with: its number and row
    form,           \* what the form says: amount and details
    confirmKind,    \* the question open: modify_confirmed, add_units, or none
    saving,         \* the request to modify in flight
    leaving,        \* the visit to the list of orders is in flight
    updatedOpen,    \* the sheet that says the order was updated
    saves           \* requests sent

editVars == <<book, delivery, place, shown, form, confirmKind, saving, leaving,
              updatedOpen, saves>>

screenVars == <<place, shown, form, confirmKind, leaving, updatedOpen>>

EditTypeOK ==
    /\ book \in [Ids -> Rows]
    /\ delivery \in {"later", "today", "past"}
    /\ place \in {"edit", "elsewhere"}
    /\ shown.id \in Ids /\ shown.row \in Rows
    /\ form \in [amount : 1..MaxUnits, details : Details]
    /\ confirmKind \in {"modify_confirmed", "add_units", NoOne}
    /\ saving = NoOne \/ saving \in
         [id : Ids, amount : 1..MaxUnits, details : Details,
          agreed : {"modify_confirmed", "add_units", NoOne},
          answer : {"waiting", "updated", "edit", "elsewhere"}, to : Ids]
    /\ leaving \in BOOLEAN /\ updatedOpen \in BOOLEAN
    /\ saves \in 0..MaxSaves

-----------------------------------------------------------------------------
(* The server *)

\* Order#modifiable?: a pending order until its day, a confirmed one until the
\* day before.
CanModify(row) ==
    \/ row.status = "pending" /\ delivery # "past"
    \/ row.status = "confirmed" /\ delivery = "later"

\* The next order that can be made.
Fresh(o) == book[o].status = "none" /\ \A p \in Ids : p < o => book[p].status # "none"

Answers(answer, to) == saving' = [saving EXCEPT !.answer = answer, !.to = to]

RewritePending ==
    LET o == saving.id
    IN
    /\ book[o].status = "pending" /\ CanModify(book[o])
    /\ book' = [book EXCEPT ![o].amount = saving.amount, ![o].details = saving.details]
    /\ Answers("updated", o)

SameAsBooked == saving.details = book[saving.id].details

\* A mutant of OrderMore: the complementary order is for all the meals.
OrderMoreOfAll ==
    LET o == saving.id
    IN
    /\ book[o].status = "confirmed" /\ CanModify(book[o])
    /\ SameAsBooked /\ saving.amount > book[o].amount
    /\ \E new \in Ids :
         /\ Fresh(new)
         /\ book' = [book EXCEPT ![new] = [status |-> "pending", details |-> saving.details,
                                           amount |-> saving.amount]]
         /\ Answers("updated", new)

\* A mutant of OrderMore: more meals are one more change, and the order accepted
\* is replaced by one for them all.
OrderAllAnew ==
    LET o == saving.id
    IN
    /\ book[o].status = "confirmed" /\ CanModify(book[o])
    /\ SameAsBooked /\ saving.amount > book[o].amount
    /\ \E new \in Ids :
         /\ Fresh(new)
         /\ book' = [book EXCEPT ![o].status = "cancelled",
                                 ![new] = [status |-> "pending", details |-> saving.details,
                                           amount |-> saving.amount]]
         /\ Answers("updated", new)

OrderMore ==
    LET o == saving.id
    IN
    /\ book[o].status = "confirmed" /\ CanModify(book[o])
    /\ SameAsBooked /\ saving.amount > book[o].amount
    /\ \E new \in Ids :
         /\ Fresh(new)
         /\ book' = [book EXCEPT ![new] = [status |-> "pending", details |-> saving.details,
                                           amount |-> saving.amount - book[o].amount]]
         /\ Answers("updated", new)

NothingToChange ==
    LET o == saving.id
    IN
    /\ book[o].status = "confirmed" /\ CanModify(book[o])
    /\ SameAsBooked /\ saving.amount = book[o].amount
    /\ Answers("updated", o)
    /\ UNCHANGED book

\* Cancelled, and another one asked for, both or none.
Replace ==
    LET o == saving.id
    IN
    /\ book[o].status = "confirmed" /\ CanModify(book[o])
    /\ ~(SameAsBooked /\ saving.amount >= book[o].amount)
    /\ saving.agreed # "add_units"
    /\ \E new \in Ids :
         /\ Fresh(new)
         /\ book' = [book EXCEPT ![o].status = "cancelled",
                                 ![new] = [status |-> "pending", details |-> saving.details,
                                           amount |-> saving.amount]]
         /\ Answers("updated", new)

\* Not modifiable, not available, or not what was agreed to: back to the form
\* while it can still be modified.
RefuseModify ==
    /\ Answers(IF CanModify(book[saving.id]) THEN "edit" ELSE "elsewhere", saving.id)
    /\ UNCHANGED book

ServeModify ==
    /\ saving # NoOne /\ saving.answer = "waiting"
    /\ RewritePending \/ OrderMore \/ NothingToChange \/ Replace \/ RefuseModify
    /\ UNCHANGED <<delivery, screenVars, saves>>

\* The provider, another window of the employee, and the calendar.
DecideOrder(o) ==
    /\ \/ /\ book[o].status = "pending"
          /\ book' = [book EXCEPT ![o].status = "confirmed"]
       \/ /\ book[o].status \in {"pending", "confirmed"}
          /\ book[o].status = "confirmed" => delivery # "past"
          /\ book' = [book EXCEPT ![o].status = "rejected"]
       \/ /\ CanModify(book[o])
          /\ book' = [book EXCEPT ![o].status = "cancelled"]
    /\ UNCHANGED <<delivery, screenVars, saving, saves>>

DayPasses ==
    /\ delivery # "past"
    /\ delivery' = IF delivery = "later" THEN "today" ELSE "past"
    /\ UNCHANGED <<book, screenVars, saving, saves>>

-----------------------------------------------------------------------------
(* The page *)

\* The form starts as the order is.
OpenEdit(o) ==
    /\ place = "elsewhere" /\ saving = NoOne
    /\ CanModify(book[o])
    /\ place' = "edit"
    /\ shown' = [id |-> o, row |-> book[o]]
    /\ form' = [amount |-> book[o].amount, details |-> book[o].details]
    /\ confirmKind' = NoOne /\ leaving' = FALSE
    /\ updatedOpen' = FALSE
    /\ UNCHANGED <<book, delivery, saving, saves>>

FormFree == place = "edit" /\ confirmKind = NoOne /\ ~updatedOpen

ChangeForm(amount, details) ==
    /\ FormFree
    /\ form' = [amount |-> amount, details |-> details]
    /\ UNCHANGED <<book, delivery, place, shown, confirmKind, saving, leaving, updatedOpen, saves>>

SameDetails == form.details = shown.row.details

Unchanged == SameDetails /\ form.amount = shown.row.amount

\* The visit takes the place of the one to the list, if it was on its way.
Save(agreed) ==
    /\ saves < MaxSaves
    /\ saves' = saves + 1
    /\ leaving' = FALSE
    /\ saving' = [id |-> shown.id, amount |-> form.amount, details |-> form.details,
                  agreed |-> agreed, answer |-> "waiting", to |-> shown.id]

\* The button: a pending order is saved at once, a confirmed one after a
\* question.
Modify ==
    /\ FormFree /\ saving = NoOne
    /\ ~(shown.row.status = "confirmed" /\ Unchanged)
    /\ IF shown.row.status = "confirmed"
       THEN /\ confirmKind' = IF SameDetails /\ form.amount > shown.row.amount
                              THEN "add_units" ELSE "modify_confirmed"
            /\ UNCHANGED <<saving, leaving, saves>>
       ELSE Save(NoOne) /\ UNCHANGED confirmKind
    /\ UNCHANGED <<book, delivery, place, shown, form, updatedOpen>>

ConfirmModify ==
    /\ place = "edit" /\ confirmKind # NoOne /\ saving = NoOne
    /\ Save(confirmKind)
    /\ UNCHANGED <<book, delivery, place, shown, form, confirmKind,
                   updatedOpen>>

\* Escape closes the question, the request in flight or not.
CloseConfirm ==
    /\ place = "edit" /\ confirmKind # NoOne
    /\ confirmKind' = NoOne
    /\ UNCHANGED <<book, delivery, place, shown, form, saving, leaving,
                   updatedOpen, saves>>

\* The page comes again with the order as it is now, or another one in its
\* place; the form is kept, and the question closes even if it was refused.
SaveArrives ==
    LET to == IF saving.answer # "elsewhere" /\ CanModify(book[saving.to])
              THEN "edit" ELSE "elsewhere"
    IN
    /\ saving # NoOne /\ saving.answer # "waiting"
    /\ saving' = NoOne
    /\ confirmKind' = NoOne
    /\ place' = to
    /\ shown' = IF to = "edit" THEN [id |-> saving.to, row |-> book[saving.to]] ELSE shown
    /\ updatedOpen' = (to = "edit" /\ saving.answer = "updated")
    /\ UNCHANGED <<book, delivery, form, leaving, saves>>

\* A mutant of SaveFails: it is noticed only if the server has answered.
SaveHangs ==
    /\ saving # NoOne /\ saving.answer # "waiting"
    /\ saving' = NoOne
    /\ UNCHANGED <<book, delivery, screenVars, saves>>

\* The network fails, before the server or after it: the question stays open.
SaveFails ==
    /\ saving # NoOne
    /\ saving' = NoOne
    /\ UNCHANGED <<book, delivery, screenVars, saves>>

\* Closing the sheet goes to the list; meanwhile the form is there again.
CloseUpdated ==
    /\ place = "edit" /\ updatedOpen
    /\ updatedOpen' = FALSE
    /\ leaving' = TRUE
    /\ UNCHANGED <<book, delivery, place, shown, form, confirmKind, saving, saves>>

Leaves ==
    /\ leaving
    /\ leaving' = FALSE
    /\ place' \in {"edit", "elsewhere"}
    /\ confirmKind' = IF place' = "elsewhere" THEN NoOne ELSE confirmKind
    /\ UNCHANGED <<book, delivery, shown, form, saving, updatedOpen, saves>>

-----------------------------------------------------------------------------
NoRow(details) == [status |-> "none", amount |-> 0, details |-> details]

EditInit ==
    \E row \in Rows :
      /\ row.status \in {"pending", "confirmed"} /\ row.amount > 0
      /\ book = [o \in Ids |-> IF o = 1 THEN row ELSE NoRow(row.details)]
      /\ delivery = "later"
      /\ place = "elsewhere"
      /\ shown = [id |-> 1, row |-> row]
      /\ form = [amount |-> row.amount, details |-> row.details]
      /\ confirmKind = NoOne /\ saving = NoOne
      /\ leaving = FALSE /\ updatedOpen = FALSE
      /\ saves = 0

EditNext ==
    \/ \E o \in Ids : OpenEdit(o) \/ DecideOrder(o)
    \/ \E amount \in 1..MaxUnits, details \in Details : ChangeForm(amount, details)
    \/ Modify \/ ConfirmModify \/ CloseConfirm \/ CloseUpdated \/ Leaves
    \/ ServeModify \/ SaveArrives \/ SaveFails \/ DayPasses

EditSpec == EditInit /\ [][EditNext]_editVars

\* Every request is answered, or fails.
EditFairness == WF_editVars(SaveArrives \/ SaveFails)

-----------------------------------------------------------------------------
(* Properties *)

\* The server does what the request in flight asks for, agreed to as it was.
Does == saving # NoOne /\ saving.answer = "waiting" /\ saving' # NoOne
        /\ saving'.answer = "updated"

Cancels(o) == book[o].status = "confirmed" /\ book'[o].status = "cancelled"

\* Who agreed only to more meals never loses the order the provider accepted,
\* however the page and the server have drifted apart (order.rb, "nunca se
\* cancela").
AddUnitsNeverCancels ==
    [][Does /\ saving.agreed = "add_units" => \A o \in Ids : ~Cancels(o)]_editVars

\* The order the provider accepted and the complementary one add up to what the
\* page asked for.
AddsUpToWhatWasAsked ==
    [][Does => \A o, new \in Ids :
                 /\ book[o].status = "confirmed" /\ book'[o].status = "confirmed"
                 /\ o = saving.id
                 /\ book[new].status = "none" /\ book'[new].status # "none"
                 => book[o].amount + book'[new].amount = saving.amount]_editVars

\* The button does not stay in its spinner.
SavingEnds == saving # NoOne ~> saving = NoOne

\* "El proveedor ya aceptó un pedido confirmado: no se pisa, se pide otro [...],
\* y antes se pide confirmación" (edit.tsx): an order the provider accepted is
\* only cancelled by a modification the employee was asked about.
ReplacedOnlyIfAsked ==
    [][Does /\ saving.agreed # "modify_confirmed" => \A o \in Ids : ~Cancels(o)]_editVars

\* The order the provider accepted is not lost to a change that only adds to it,
\* nor added to twice.
AcceptedOrderKept == AddUnitsNeverCancels /\ AddsUpToWhatWasAsked
=============================================================================
