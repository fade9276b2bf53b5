----------------------------- MODULE OrderBook ------------------------------
(***************************************************************************)
(* The order book of the marketplace: the orders employees place on the    *)
(* dishes providers publish, and the accounts those orders are charged to. *)
(* It models app/models/order.rb, app/models/schedule.rb, the account      *)
(* synchronisation of app/models/account.rb, the controllers that call     *)
(* them, app/services/menus/delete.rb and DeliveredOrdersSyncJob.          *)
(*                                                                         *)
(* One action is one database transaction.  A transaction that takes the   *)
(* row locks of everything it reads and writes is atomic; the three places *)
(* where the code acts outside those locks are split into several actions: *)
(*   - the after_update_commit callback that recomputes the accounts of an *)
(*     order runs after the commit (owed, SyncAccount);                    *)
(*   - the nightly job recomputes one account at a time (jobDue, owed);    *)
(*   - unpublishing or deleting a dish reads the orders before it locks    *)
(*     them (takedown, Begin... and Finish...).                            *)
(*                                                                         *)
(* Money is counted in whole units.  A sum over rows is the number of      *)
(* pairs <<row, i>> with i up to the row's amount, so that it is a         *)
(* cardinality and needs no recursion.                                     *)
(***************************************************************************)
EXTENDS Calendar, FiniteSets

CONSTANTS
    Consumers, Companies, CompanyOf,     \* employees and their companies
    Providers, Menus, ProviderOf,        \* providers and their saved dishes
    Schedules, MenuOf, DateOf, Stock,    \* a dish on a date, with its stock...
    Unlimited,                           \* ...or without any (amount nil)
    OrderIds,                            \* bound: rows that can be inserted
    MaxUnits,                            \* bound: meals in one order
    UnitPrices, MaxPrice,                \* prices of a meal; bound of an order's
    FirstDay, LastDay, MonthOf,          \* bound: the days explored
    HasDeadline,                         \* providers with an order deadline
    Closable,                            \* bound: <<provider, day>> that may close
    TakedownKinds                        \* bound: the takedowns explored

Days == FirstDay..LastDay
Months == {MonthOf[d] : d \in Days}
MaxAmount == 2147483647    \* Schedule::MAX_AMOUNT

ASSUME OwnersAssumption ==
    /\ IsFiniteSet(Consumers) /\ Consumers \cap Companies = {}
    /\ CompanyOf \in [Consumers -> Companies]
ASSUME DishesAssumption ==
    /\ ProviderOf \in [Menus -> Providers]
    /\ MenuOf \in [Schedules -> Menus]
    /\ DateOf \in [Schedules -> Days]
    /\ Stock \in [Schedules -> 0..MaxAmount]
    /\ Unlimited \subseteq Schedules
ASSUME BoundsAssumption ==
    /\ IsFiniteSet(OrderIds)
    /\ MaxUnits \in Nat /\ MaxUnits <= MaxAmount
    /\ UnitPrices \subseteq Nat /\ MaxPrice \in Nat
    /\ FirstDay \in Int /\ LastDay \in Int /\ FirstDay <= LastDay
    /\ MonthOf \in [Days -> Nat]
    /\ HasDeadline \subseteq Providers
    /\ Closable \subseteq Providers \X Days
    /\ TakedownKinds \subseteq {"unpublish", "delete_keep", "delete_reject"}
ASSUME MonthsAssumption ==
    \A d, e \in Days : d <= e => MonthOf[d] <= MonthOf[e]

VARIABLES
    today,           \* Date.current
    deadlinePassed,  \* providers whose order deadline of today has passed
    closed,          \* <<provider, day>> covered by a ProviderClosure
    published,       \* the schedules that exist
    available,       \* ...and whose available flag is set
    archived,        \* dishes with archived_at
    orders,          \* the rows of the orders table, by id
    amount,          \* accounts.amount, by account (0 when there is no row)
    owed,            \* accounts whose sync_amount! is still to run
    jobDue,          \* DeliveredOrdersSyncJob of today has not run
    takedown         \* the unpublishing or deletion in flight

vars == <<today, deadlinePassed, closed, published, available, archived,
          orders, amount, owed, jobDue, takedown>>

-----------------------------------------------------------------------------
(* Orders.                                                                 *)

Statuses == {"pending", "confirmed", "cancelled", "rejected"}
Active(row) == row.status \in {"pending", "confirmed"}

\* linked: schedule_id is not null.  dish is the schedule the order was placed
\* on, which the row keeps as its copy of the dish (delivery_date, provider_id).
Order == [consumer: Consumers, dish: Schedules, linked: BOOLEAN,
          units: 1..MaxUnits, price: 0..MaxPrice, share: 0..MaxPrice,
          status: Statuses]

DeliveryDate(row) == DateOf[row.dish]
SellerOf(s) == ProviderOf[MenuOf[s]]

\* What an order can be charged: its list price and the part of it the employee
\* pays (discounted_price).  Which subsidy applies is Orders::Pricing's business.
Charges(q) == {charge \in (0..MaxPrice) \X (0..MaxPrice) :
                 /\ charge[2] <= charge[1]
                 /\ \E p \in UnitPrices : charge[1] = q * p}

\* The rows after those of `new` are inserted or overwritten.
Write(rows, new) == [o \in DOMAIN rows \cup DOMAIN new |->
                       IF o \in DOMAIN new THEN new[o] ELSE rows[o]]
Insert(rows, new, row) == Write(rows, [n \in {new} |-> row])

\* The meals that pending and confirmed orders hold on schedule s.
HoldsMeals(row, s) == row.linked /\ row.dish = s /\ Active(row)
MealsOn(rows, s) == {meal \in (DOMAIN rows) \X (1..MaxUnits) :
                       /\ HoldsMeals(rows[meal[1]], s)
                       /\ meal[2] <= rows[meal[1]].units}
Reserved(rows, s) == Cardinality(MealsOn(rows, s))

\* Mutant of Remaining: amount taken for the units left, not for the total.
RemainingOfTotal(rows, s) == IF s \in Unlimited THEN MaxAmount ELSE Stock[s]

Remaining(rows, s) ==
    IF s \in Unlimited THEN MaxAmount
    ELSE IF Reserved(rows, s) >= Stock[s] THEN 0 ELSE Stock[s] - Reserved(rows, s)

DeadlinePassed(s) == DateOf[s] = today /\ SellerOf(s) \in deadlinePassed
Closed(s) == <<SellerOf(s), DateOf[s]>> \in closed

\* Schedule#available? but for the quantity, which Remaining bounds.
TakesOrders(s) ==
    /\ s \in published
    /\ DateOf[s] >= today
    /\ ~Closed(s) /\ ~DeadlinePassed(s)
    /\ s \in available
    /\ MenuOf[s] \notin archived

-----------------------------------------------------------------------------
(* Accounts.                                                               *)

Accounts == (Consumers \cup Companies) \X Providers \X Months

AccountsOf(row) ==
    {<<owner, SellerOf(row.dish), MonthOf[DeliveryDate(row)]>> :
        owner \in {row.consumer, CompanyOf[row.consumer]}}

\* An order is charged from the day of its delivery.
Consumed(row, day) == row.status = "confirmed" /\ DeliveryDate(row) <= day

\* The employee owes the discounted price, the company the rest.
PartOf(row, owner) == IF owner = row.consumer THEN row.share ELSE row.price - row.share

Charged(rows, day, a) == {unit \in (DOMAIN rows) \X (1..MaxPrice) :
                            /\ a \in AccountsOf(rows[unit[1]])
                            /\ Consumed(rows[unit[1]], day)
                            /\ unit[2] <= PartOf(rows[unit[1]], a[1])}
Due(rows, day, a) == Cardinality(Charged(rows, day, a))

\* sync_amount! of every account in S, inside the transaction that leaves `rows`.
Synced(rows, S) == [a \in Accounts |-> IF a \in S THEN Due(rows, today, a) ELSE amount[a]]

\* Mutant of Sweep: only the orders delivered on the day itself.
SweepOfTheDay(rows, day) ==
    {a \in Accounts : \E o \in DOMAIN rows :
        /\ a \in AccountsOf(rows[o])
        /\ rows[o].status = "confirmed" /\ DeliveryDate(rows[o]) = day}

\* The accounts DeliveredOrdersSyncJob recomputes when it runs on `day`.
Sweep(rows, day) ==
    {a \in Accounts : /\ a[3] = MonthOf[day]
                      /\ \E o \in DOMAIN rows :
                           a \in AccountsOf(rows[o]) /\ Consumed(rows[o], day)}

-----------------------------------------------------------------------------
(* A takedown in flight: the schedules it removes, the dish it archives (a   *)
(* set of at most one), and the orders it read, by the status it read.      *)

NoTakedown == [kind |-> "none", archives |-> {}, dishes |-> {},
               pending |-> {}, confirmed |-> {}]
Kinds == {"none"} \cup TakedownKinds
Takedown == [kind: Kinds, archives: SUBSET Menus, dishes: SUBSET Schedules,
             pending: SUBSET OrderIds, confirmed: SUBSET OrderIds]

Init ==
    /\ today = FirstDay
    /\ deadlinePassed = {}
    /\ closed = {}
    /\ published = {}
    /\ available = {}
    /\ archived = {}
    /\ orders = <<>>
    /\ amount = [a \in Accounts |-> 0]
    /\ owed = {}
    /\ jobDue = FALSE
    /\ takedown = NoTakedown

-----------------------------------------------------------------------------
(* What the employee does.                                                 *)

NewOrder(c, s, q, charge) ==
    [consumer |-> c, dish |-> s, linked |-> TRUE, units |-> q,
     price |-> charge[1], share |-> charge[2], status |-> "pending"]

\* The lines employee c can put in a cart, and the carts that use the ids `ids`.
Lines(c) == UNION {{NewOrder(c, s, q, charge) : charge \in Charges(q)} :
                     s \in Schedules, q \in 1..MaxUnits}
Carts(c, ids) == [ids -> Lines(c)]

\* Consumer::OrdersController#create.  The employee's row is locked, then every
\* schedule of the cart; a line that cannot be reserved rolls the cart back.
\* Each order creates and recomputes its two accounts in the same transaction.
PlaceCart(cart) ==
    LET dishes == {cart[o].dish : o \in DOMAIN cart}
    IN
    /\ DOMAIN cart \cap DOMAIN orders = {}
    /\ \A s \in dishes :
         /\ DateOf[s] \in AllowedOrderDates(today)
         /\ TakesOrders(s)
         /\ s \in Unlimited \/ Reserved(cart, s) <= Remaining(orders, s)
    /\ orders' = Write(orders, cart)
    /\ amount' = Synced(orders', UNION {AccountsOf(cart[o]) : o \in DOMAIN cart})
    /\ UNCHANGED <<today, deadlinePassed, closed, published, available, archived,
                   owed, jobDue, takedown>>

\* Mutant of Update: no callback after the commit.
UpdateWithoutSync(o, row) ==
    /\ orders[o].linked
    /\ orders' = [orders EXCEPT ![o] = row]
    /\ UNCHANGED owed

\* Changes one row in its own transaction.  belongs_to :schedule makes every
\* update of a row without schedule fail its validation.  The accounts are
\* recomputed after the commit, only if the status or the price changed.
Update(o, row) ==
    /\ orders[o].linked
    /\ orders' = [orders EXCEPT ![o] = row]
    /\ owed' = IF <<row.status, row.price, row.share>>
                    = <<orders[o].status, orders[o].price, orders[o].share>>
               THEN owed ELSE owed \cup AccountsOf(row)

\* Order#modifiable?: a pending order until its delivery day, a confirmed one
\* until the day before.
Modifiable(row) ==
    /\ Active(row) /\ row.linked
    /\ DeliveryDate(row) > today \/ (row.status = "pending" /\ DeliveryDate(row) = today)

\* Mutant of ModifyPending: a confirmed order is rewritten like a pending one.
ModifyActive(o, q, charge) ==
    /\ Modifiable(orders[o])
    /\ q - orders[o].units <= Remaining(orders, orders[o].dish)
    /\ orders[o].dish \in available \/ q <= orders[o].units
    /\ Update(o, [orders[o] EXCEPT !.units = q, !.price = charge[1], !.share = charge[2]])
    /\ UNCHANGED <<today, deadlinePassed, closed, published, available, archived,
                   amount, jobDue, takedown>>

\* Order#modify of a pending order: the stock must hold the new quantity once
\* its own meals are given back, and an unavailable dish takes no more meals.
ModifyPending(o, q, charge) ==
    /\ orders[o].status = "pending" /\ Modifiable(orders[o])
    /\ q - orders[o].units <= Remaining(orders, orders[o].dish)
    /\ orders[o].dish \in available \/ q <= orders[o].units
    /\ Update(o, [orders[o] EXCEPT !.units = q, !.price = charge[1], !.share = charge[2]])
    /\ UNCHANGED <<today, deadlinePassed, closed, published, available, archived,
                   amount, jobDue, takedown>>

\* Order#reorder_confirmed when only meals are added: a complementary order for
\* the difference, and the confirmed one is left alone.
AddUnits(o, new, q, charge) ==
    LET row == orders[o]
    IN
    /\ row.status = "confirmed" /\ Modifiable(row)
    /\ new \notin DOMAIN orders
    /\ TakesOrders(row.dish) /\ Remaining(orders, row.dish) >= q
    /\ orders' = Insert(orders, new, NewOrder(row.consumer, row.dish, q, charge))
    /\ amount' = Synced(orders', AccountsOf(row))
    /\ UNCHANGED <<today, deadlinePassed, closed, published, available, archived,
                   owed, jobDue, takedown>>

\* Order#reorder_confirmed for any other change: cancels the confirmed order and
\* reserves a new one with what it frees, or rolls both back.
ReplaceConfirmed(o, new, q, charge) ==
    LET row == orders[o]
        cancelled == [orders EXCEPT ![o].status = "cancelled"]
    IN
    /\ row.status = "confirmed" /\ Modifiable(row)
    /\ new \notin DOMAIN orders
    /\ TakesOrders(row.dish) /\ Remaining(cancelled, row.dish) >= q
    /\ orders' = Insert(cancelled, new, NewOrder(row.consumer, row.dish, q, charge))
    /\ amount' = Synced(orders', AccountsOf(row))
    /\ owed' = owed \cup AccountsOf(row)
    /\ UNCHANGED <<today, deadlinePassed, closed, published, available, archived,
                   jobDue, takedown>>

\* Order#cancellation_block_reason is nil: a pending order until the provider's
\* deadline of the delivery day, a confirmed one until the day before.
Cancellable(row) ==
    /\ Active(row) /\ row.linked
    /\ \/ DeliveryDate(row) > today
       \/ /\ row.status = "pending" /\ DeliveryDate(row) = today
          /\ ~DeadlinePassed(row.dish)

\* Order#cancel.
Cancel(o) ==
    /\ Cancellable(orders[o])
    /\ Update(o, [orders[o] EXCEPT !.status = "cancelled"])
    /\ UNCHANGED <<today, deadlinePassed, closed, published, available, archived,
                   amount, jobDue, takedown>>

-----------------------------------------------------------------------------
(* What the provider does.                                                 *)

\* Order#decide("confirmed"): a pending order of any date.
Confirm(o) ==
    /\ orders[o].status = "pending"
    /\ Update(o, [orders[o] EXCEPT !.status = "confirmed"])
    /\ UNCHANGED <<today, deadlinePassed, closed, published, available, archived,
                   amount, jobDue, takedown>>

\* Mutant of Rejectable: a delivered order can still be turned down.
RejectableAnyDay(row) == Active(row)

\* Order#rejectable?: a confirmed order whose delivery has passed was charged.
Rejectable(row) ==
    \/ row.status = "pending"
    \/ row.status = "confirmed" /\ DeliveryDate(row) >= today

\* Order#decide("rejected").
Reject(o) ==
    /\ Rejectable(orders[o])
    /\ Update(o, [orders[o] EXCEPT !.status = "rejected"])
    /\ UNCHANGED <<today, deadlinePassed, closed, published, available, archived,
                   amount, jobDue, takedown>>

\* SchedulesController#create: a provider publishes some of its dishes for a
\* date that has none yet.
Publish(p, date, dishes) ==
    /\ dishes # {}
    /\ \A s \in dishes : SellerOf(s) = p /\ DateOf[s] = date /\ MenuOf[s] \notin archived
    /\ date >= today /\ ~OnWeekend(date) /\ date <= MaximumPublishDate(today)
    /\ <<p, date>> \notin closed
    /\ \A s \in published : SellerOf(s) # p \/ DateOf[s] # date
    /\ published' = published \cup dishes
    /\ available' = available \cup dishes
    /\ UNCHANGED <<today, deadlinePassed, closed, archived, orders, amount, owed,
                   jobDue, takedown>>

\* SchedulesController#availability.
SetAvailability(s, flag) ==
    /\ s \in published
    /\ available' = IF flag THEN available \cup {s} ELSE available \ {s}
    /\ UNCHANGED <<today, deadlinePassed, closed, published, archived, orders,
                   amount, owed, jobDue, takedown>>

\* Provider::ClosuresController#create and #destroy, one day at a time.  A
\* closure cannot start in the past; the orders of its days are not touched.
CloseDay(p, date) ==
    /\ <<p, date>> \notin closed
    /\ date >= today
    /\ closed' = closed \cup {<<p, date>>}
    /\ UNCHANGED <<today, deadlinePassed, published, available, archived, orders,
                   amount, owed, jobDue, takedown>>

ReopenDay(p, date) ==
    /\ <<p, date>> \in closed
    /\ closed' = closed \ {<<p, date>>}
    /\ UNCHANGED <<today, deadlinePassed, published, available, archived, orders,
                   amount, owed, jobDue, takedown>>

\* Provider::OrderDeadlinesController: moves the deadline after the present hour.
MoveDeadline(p) ==
    /\ p \in deadlinePassed
    /\ deadlinePassed' = deadlinePassed \ {p}
    /\ UNCHANGED <<today, closed, published, available, archived, orders, amount,
                   owed, jobDue, takedown>>

-----------------------------------------------------------------------------
(* Taking dishes down: the orders are read first and locked one by one     *)
(* later, and nothing locks the schedule until its row is deleted.         *)

ReadOrders(status, dishes) ==
    {o \in DOMAIN orders : /\ orders[o].linked /\ orders[o].dish \in dishes
                           /\ orders[o].status = status}

Begin(kind, archives, dishes) ==
    /\ kind \in TakedownKinds
    /\ takedown.kind = "none"
    /\ takedown' = [kind |-> kind, archives |-> archives, dishes |-> dishes,
                    pending |-> ReadOrders("pending", dishes),
                    confirmed |-> ReadOrders("confirmed", dishes)]
    /\ UNCHANGED <<today, deadlinePassed, closed, published, available, archived,
                   orders, amount, owed, jobDue>>

\* SchedulesController#destroy up to the SELECT of the active orders.
BeginUnpublish(s) ==
    /\ s \in published /\ DateOf[s] >= today
    /\ Begin("unpublish", {}, {s})

\* Menus::Delete#call up to the load of the schedules with their orders.
BeginDelete(m, kind) ==
    /\ kind # "unpublish"
    /\ m \notin archived
    /\ Begin(kind, {m}, {s \in published : MenuOf[s] = m /\ DateOf[s] >= today})

\* Mutant of RejectAndUnlink: the orders keep the id of the deleted schedule.
RejectOnly(ids, removed) ==
    LET rejected == {o \in ids : Active(orders[o])}
    IN
    /\ orders' = [o \in DOMAIN orders |->
                    [orders[o] EXCEPT !.status = IF o \in rejected THEN "rejected" ELSE @]]
    /\ owed' = owed \cup UNION {AccountsOf(orders[o]) : o \in rejected}

\* Order#reject_for_dish_change! of every order in `ids`, which re-reads its
\* status under the lock; then the removed schedules leave their orders without
\* schedule_id (dependent: :nullify).  The accounts are recomputed on commit.
RejectAndUnlink(ids, removed) ==
    LET rejected == {o \in ids : Active(orders[o])}
    IN
    /\ orders' = [o \in DOMAIN orders |->
                    [orders[o] EXCEPT
                       !.status = IF o \in rejected THEN "rejected" ELSE @,
                       !.linked = @ /\ orders[o].dish \notin removed]]
    /\ owed' = owed \cup UNION {AccountsOf(orders[o]) : o \in rejected}

\* Mutant of FinishUnpublish: the flag of the deleted schedule survives it.
FinishUnpublishAvailable ==
    /\ takedown.kind = "unpublish"
    /\ RejectAndUnlink(takedown.pending \cup takedown.confirmed, takedown.dishes)
    /\ published' = published \ takedown.dishes
    /\ takedown' = NoTakedown
    /\ UNCHANGED <<today, deadlinePassed, closed, available, archived, amount, jobDue>>

FinishUnpublish ==
    /\ takedown.kind = "unpublish"
    /\ RejectAndUnlink(takedown.pending \cup takedown.confirmed, takedown.dishes)
    /\ published' = published \ takedown.dishes
    /\ available' = available \ takedown.dishes
    /\ takedown' = NoTakedown
    /\ UNCHANGED <<today, deadlinePassed, closed, archived, amount, jobDue>>

\* The rest of Menus::Delete#call.  A schedule stays, unavailable, if an order
\* read as confirmed was not among the rejected; the others are deleted.
FinishDelete ==
    LET keeps == takedown.kind = "delete_keep"
        kept == {s \in takedown.dishes :
                   keeps /\ \E o \in takedown.confirmed : orders[o].dish = s}
        removed == takedown.dishes \ kept
    IN
    /\ takedown.kind \in {"delete_keep", "delete_reject"}
    /\ RejectAndUnlink(takedown.pending \cup (IF keeps THEN {} ELSE takedown.confirmed), removed)
    /\ published' = published \ removed
    /\ available' = available \ takedown.dishes
    /\ archived' = archived \cup takedown.archives
    /\ takedown' = NoTakedown
    /\ UNCHANGED <<today, deadlinePassed, closed, amount, jobDue>>

\* The transaction of a takedown fails (a lost connection, or the foreign key of
\* an order that arrived between the last two statements): nothing happened.
AbortTakedown ==
    /\ takedown.kind # "none"
    /\ takedown' = NoTakedown
    /\ UNCHANGED <<today, deadlinePassed, closed, published, available, archived,
                   orders, amount, owed, jobDue>>

-----------------------------------------------------------------------------
(* What nobody asks for: callbacks, jobs and the clock.                    *)

\* Account#sync_amount!, from the callback of a commit or from the job.
SyncAccount(a) ==
    /\ a \in owed
    /\ amount' = Synced(orders, {a})
    /\ owed' = owed \ {a}
    /\ UNCHANGED <<today, deadlinePassed, closed, published, available, archived,
                   orders, jobDue, takedown>>

\* Mutant of RunJob: the orders delivered until the day before.
RunJobForYesterday ==
    /\ jobDue
    /\ jobDue' = FALSE
    /\ owed' = owed \cup Sweep(orders, today - 1)
    /\ UNCHANGED <<today, deadlinePassed, closed, published, available, archived,
                   orders, amount, takedown>>

\* DeliveredOrdersSyncJob#perform, at 00:01, for the date it runs on.
RunJob ==
    /\ jobDue
    /\ jobDue' = FALSE
    /\ owed' = owed \cup Sweep(orders, today)
    /\ UNCHANGED <<today, deadlinePassed, closed, published, available, archived,
                   orders, amount, takedown>>

PassDeadline(p) ==
    /\ p \notin deadlinePassed
    /\ deadlinePassed' = deadlinePassed \cup {p}
    /\ UNCHANGED <<today, closed, published, available, archived, orders, amount,
                   owed, jobDue, takedown>>

\* Midnight.  No request spans it (a takedown lasts milliseconds).
Midnight ==
    /\ today < LastDay
    /\ takedown.kind = "none"
    /\ today' = today + 1
    /\ deadlinePassed' = {}
    /\ jobDue' = TRUE
    /\ UNCHANGED <<closed, published, available, archived, orders, amount, owed,
                   takedown>>

\* The scheduler runs the job of every day on that day (config/recurring.yml).
NextDay == ~jobDue /\ Midnight

-----------------------------------------------------------------------------
Employee ==
    \/ \E c \in Consumers, ids \in (SUBSET OrderIds) \ {{}} :
         \E cart \in Carts(c, ids) : PlaceCart(cart)
    \/ \E o \in DOMAIN orders, q \in 1..MaxUnits : \E charge \in Charges(q) :
         \/ ModifyPending(o, q, charge)
         \/ \E new \in OrderIds : AddUnits(o, new, q, charge) \/ ReplaceConfirmed(o, new, q, charge)
    \/ \E o \in DOMAIN orders : Cancel(o)

Provider ==
    \/ \E o \in DOMAIN orders : Confirm(o) \/ Reject(o)
    \/ \E p \in Providers, date \in Days, dishes \in SUBSET Schedules : Publish(p, date, dishes)
    \/ \E s \in Schedules, flag \in BOOLEAN : SetAvailability(s, flag)
    \/ \E day \in Closable : CloseDay(day[1], day[2]) \/ ReopenDay(day[1], day[2])
    \/ \E p \in HasDeadline : MoveDeadline(p)
    \/ \E s \in Schedules : BeginUnpublish(s)
    \/ \E m \in Menus, kind \in TakedownKinds : BeginDelete(m, kind)
    \/ FinishUnpublish \/ FinishDelete \/ AbortTakedown

System ==
    \/ \E a \in Accounts : SyncAccount(a)
    \/ RunJob
    \/ \E p \in HasDeadline : PassDeadline(p)

Next == Employee \/ Provider \/ System \/ NextDay

Spec == Init /\ [][Next]_vars

\* A thread that committed runs its callbacks, and the scheduler its jobs.
FairSpec == /\ Spec
            /\ \A a \in Accounts : WF_vars(SyncAccount(a))
            /\ WF_vars(RunJob)

-----------------------------------------------------------------------------
(* The scheduler is down for some midnights: the job of those days never    *)
(* runs, and the one that runs next does so for its own date.               *)

MissedJobSpec == Init /\ [][Next \/ Midnight]_vars

-----------------------------------------------------------------------------
(* Properties.                                                             *)

\* Every variable has its type; the rows read by a takedown exist and are on
\* the schedules it removes.
TypeOK ==
    /\ today \in Days
    /\ deadlinePassed \subseteq Providers
    /\ closed \subseteq Providers \X Days
    /\ published \subseteq Schedules /\ available \subseteq published
    /\ archived \subseteq Menus
    /\ DOMAIN orders \subseteq OrderIds
    /\ orders \in [DOMAIN orders -> Order]
    /\ amount \in [Accounts -> Nat]
    /\ owed \subseteq Accounts
    /\ jobDue \in BOOLEAN
    /\ takedown \in Takedown
    /\ takedown.pending \cup takedown.confirmed \subseteq DOMAIN orders

\* A schedule is never oversold (order.rb:158-171, 303-310): whatever carts,
\* modifications, replacements and rejections interleave, the meals of its
\* pending and confirmed orders fit its stock.
StockRespected == \A s \in Schedules \ Unlimited : Reserved(orders, s) <= Stock[s]

\* An order that has a schedule has one that exists: neither a deletion nor a
\* new publication of the same dish leaves a dangling schedule_id.
LinkedToPublished == \A o \in DOMAIN orders : orders[o].linked => orders[o].dish \in published

\* The stored amount of an account is the sum of the delivered, confirmed orders
\* charged to it (account.rb:126-134), unless a recomputation is on its way: the
\* callback of a commit, or today's job for an account it will visit.
Explained(a) == \/ amount[a] = Due(orders, today, a)
                \/ a \in owed
                \/ jobDue /\ a \in Sweep(orders, today)
LedgerExact == \A a \in Accounts : Explained(a)

\* The same for the accounts of the current month when the job may miss days:
\* the next one catches up with them (delivered_orders_sync_job.rb:6-9).
LedgerExactThisMonth == \A a \in Accounts : a[3] = MonthOf[today] => Explained(a)

\* Once nothing more is confirmed, rejected or delivered, every account settles
\* on what its orders add up to: no recomputation is forgotten.
LedgerSettles == <>[](\A a \in Accounts : amount[a] = Due(orders, today, a))

\* The provider accepted the order with its data (order.rb:575-577): as long as
\* it stays confirmed, no modification rewrites its quantity or its price.
AcceptedAsAgreed ==
    [][\A o \in DOMAIN orders :
         orders[o].status = "confirmed" /\ orders'[o].status = "confirmed" =>
            orders'[o] \in {orders[o], [orders[o] EXCEPT !.linked = FALSE]}]_orders

\* What OrderLifecycle sees of an order: its status, "none" before it is placed,
\* and whether it is settled, confirmed with its delivery day over.
StatusOf == [o \in OrderIds |-> IF o \in DOMAIN orders THEN orders[o].status ELSE "none"]
SettledOrders == {o \in DOMAIN orders : /\ orders[o].status = "confirmed"
                                       /\ DeliveryDate(orders[o]) < today}

\* The order book keeps the promises of OrderLifecycle: no order is accepted
\* twice, brought back after it was cancelled or rejected, or taken back once it
\* was delivered and charged (order.rb:224-255, 361-386, 582-620).
Lifecycle == INSTANCE OrderLifecycle WITH status <- StatusOf, settled <- SettledOrders
KeepsLifecycle == Lifecycle!Spec

\* Taking a dish down rejects the orders placed on it (menus/delete.rb:7,
\* schedules_spec.rb:1146): an order that still counts has its schedule, without
\* which nobody can cancel, confirm or reject it.
ActiveOrdersKeepSchedule == \A o \in DOMAIN orders : Active(orders[o]) => orders[o].linked

\* "modificar equivale a cancelar y volver a pedir, así que rige la misma ventana"
\* (order.rb:257-258): past the provider's deadline of the day, when neither a
\* cancellation nor an order is taken, the quantity of an order does not change.
ModificationWindow ==
    [][\A o \in DOMAIN orders :
         DeadlinePassed(orders[o].dish) => orders'[o].units = orders[o].units]_vars

=============================================================================
