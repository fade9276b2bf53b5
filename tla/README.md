# A verification project for GoGrow

GoGrow is a Rails application that brings together the employees of some companies
(`Consumer`), the catering providers that cook for them (`Provider`) and the companies
themselves. A provider saves dishes (`Menu`) and publishes them for dates
(`Schedule`); an employee orders them (`Order`) with whatever subsidies apply
(`Benefit`); every confirmed order is charged, on its delivery day, to an account of
the employee and to one of the company (`Account`), and accounts are settled with
receipts (`Payment`) and invoices (`Invoice`) that somebody reviews.

A Rails server keeps the state; a React front end served through
Inertia (`app/javascript`) keeps drafts, carts, filters, copies of what the server last
said, and requests in flight. The TLA+ modules here model both sides where orderings
matter, TLC checks them on small instances, and TLAPS proves the main results for every
value of the constants.

## 1. Inventory

| Part | State it keeps | Operations | What is hard |
|---|---|---|---|
| business calendar (`calendar.rb`) | none: everything derives from today | which dates can be ordered, shown, published, configured | Fridays, weekends, month ends; three windows derived separately |
| order book (`order.rb`, `schedule.rb`, their controllers) | orders, schedules, availability, closures, deadlines | cart, modify, reorder, cancel, confirm, reject, publish, (un)availability, close, unpublish, delete | stock shared by concurrent requests; replacing a confirmed order; reads made before the locks |
| ledger (`account.rb`, `DeliveredOrdersSyncJob`) | `accounts.amount` | recomputation by callbacks and by the nightly job | callbacks run after the commit; the job may be skipped; months |
| payments and invoices (`payment.rb`, `invoice.rb`) | receipts and invoices of an account, by status | submit, review, delete; invoice, delete | two actors on one receipt; an amount that changes while a receipt is under review |
| pricing (`orders/pricing.rb`) | none: reads benefits and their uses | price of a cart | greedy accumulation, limits per month |
| benefits (`*_benefit.rb`, `benefit_configuration.rb`, two jobs) | benefits, rules, configurations per month | assignment, expiry, configuration | jobs run twice; configurations that cross a month |
| dish families (`menus/update.rb`, `menu_agenda.rb`, `menus/agenda_scheduler.rb`) | a dish, its variants, its agenda of dates | edit from a date, carve ranges, schedule the agenda | orders under edited dates; a scheduler that runs every day |
| ordering (`pages/consumer/dashboard`) | the cart of the tab, the detail that is open, prices asked for | add, edit, price, confirm | prices and orders over a network that reorders and loses; a cart that outlives pages |
| choosing (`weekly-menu.tsx`, `option-choices.tsx`, `lib/favorites.ts`) | filter, notices dismissed, choices by group, stars | filter, choose, dismiss, star | the dish changes while it is chosen; every star is a visit |
| modifying an order (`pages/consumer/orders/edit.tsx`) | the order as loaded, the form, the question asked | modify, add units, replace | the provider decides meanwhile |
| dialogs and forms (30, most over `adaptable-dialog.tsx`) | a form, a stage, a flag, by item or shared | open, type, send, close | a new visit interrupts; answers that are lost; redirects that are not successes |
| fetched details (`account-card.tsx`, `use-benefit-usage.ts`, ...) | what was fetched, what is loading | open, change month, retry, cancel | answers out of order |
| provider's orders (`pages/provider/orders`) | lists, filters, open day | filter, decide, export | filters repeated on the server; a card that leaves its list |
| the form of a dish (`components/menus`) | agenda, groups, scope of an edition, tab | write, publish, edit from a day | rules written twice; days counted twice |
| menu import (`components/menus/import`) | the cards of a file and what to do with each | edit, decide, import | cards matched by a name that changes; all or nothing |
| onboarding (`pages/provider/onboarding`) | the step, its form, its button | continue, skip, go back | visits that keep the page and visits that do not |
| menu by weeks (`pages/schedules`) | week, day, tab | move, switch, edit a dish | the day changes before its week comes |
| subsidies (`components/benefit-configurations`) | what is programmed, the forms | program, replace, give | a month that closes; units and limits |
| employees (`pages/admin/consumers`) | list, months, filter of a sheet | look | one debt computed three ways |
| collections (`pages/provider/collections`) | groups, filters, the review | filter, review, report | books that move under the page |
| alerts and reminders (`notification.rb`, `notifier.rb`, `debt_reminders/`, ...) | open notifications, alert flags | debt alert, reminders, closing them | deduplication without locks |
| sessions, invitations, codes | sessions and one-time codes | log in, invite | no state shared with the rest |
| reports, exports, reading a menu, presentation | none | queries, spreadsheets, calls to a language model, layout | I/O |

How they interact. A page is a copy of what the server said when it was loaded. The
browser runs one handler at a time and renders before the next. A visit of Inertia
asks the server for something and replaces the page's props by the answer; only one is
in flight, so that a new one interrupts it, which does not stop the server from serving
it. Plain fetches (prices, details, statistics) are not visits: any number of them may be
in flight. On the server, a request runs in one thread, with transactions on one PostgreSQL
database at READ COMMITTED and row locks (`SELECT ... FOR UPDATE`); the parts share
the tables and call each other directly. Two kinds of work run outside the request's
transaction: `after_commit` callbacks (the accounts of an order, notifications) and
jobs of Solid Queue on a schedule (`config/recurring.yml`: the ledger at 00:01, the
agenda, the benefits, the reminders). The calendar is read by everybody; the order
book writes the ledger; the ledger's amounts are what payments, invoices, alerts and
reports read.

What makes each part correct:

- *calendar*: nobody can order for a month before its benefits are assigned, and the
  assignment is as late as possible; what can be ordered is shown and publishable; no
  month escapes configuration; the window of orders moves forward without gaps.
- *order book*: a schedule is never oversold; what the provider accepted is not
  rewritten; an order that was cancelled, rejected or delivered stays so; no order
  points at a schedule that is gone, and none that still counts loses its schedule.
- *ledger*: each stored amount is what the delivered, confirmed orders add up to, or a
  recomputation is on its way; in the end every account is exact.
- *payments*: at most one receipt under review per account and one active invoice per
  period; an approved receipt covers what was owed when it was sent; money once
  approved does not disappear.
- *pricing*: a meal never gets more than its price nor a benefit more uses than it has.
- *benefits*: one benefit of each kind per employee and month, whatever jobs repeat.
- *dish families*: a date belongs to at most one variant; days with confirmed orders
  keep the dish they were ordered with.
- *screens*: what is sent, told, counted and shown is of the item, the month or the
  lines it is said to be of, whatever was asked before and in whatever order answers
  came; nothing is done twice, and no wait is for ever; a rule that browser and server
  both have is one rule.
- *alerts*: one open notification per event and subject.

`PROJECT.json` lists these components with their status, and the hazards of the code
at the line where each one bites.

## 2. Modules

| Module | What it is |
|---|---|
| `Calendar` | the rules of `app/models/calendar.rb` as operators on day numbers |
| `BusinessDays` | the days that pass, with months of every length: what the rules promise as time goes by |
| `OrderLifecycle` | abstract specification: what the two sides of an order are promised |
| `OrderBook` | orders, schedules, closures, deadlines, accounts, callbacks, the nightly job and the clock |
| `ReceiptReview` | abstract specification: what both sides of a receipt are promised |
| `Payments` | the receipts, reviews and invoices of one account, over a debt that changes |
| `ConsumerCart` | the cart, from the dish to the order, its prices and the tab's storage |
| `DishChoices` | what an employee chooses of a dish, up to the check of the server |
| `MenuBrowsing` | the filter by provider, the notices of closures, the favourites |
| `OrderEditing` | the page that modifies an order the provider decides upon |
| `FetchedDetails` | four screens that fetch what they show |
| `FormDialogs` | the dialogs and forms that send something, each by its traits |
| `ProviderOrdersPage` | the provider's orders: lists, filters, decisions, the file |
| `MenuAgendas` | the agenda of a dish and the sheet of an edition, against the server |
| `DishOptions` | the groups of options of a dish, in the form and in the server |
| `MenuPublishing` | the page that adds dishes: its two tabs and its dialog |
| `MenuImport` | the review of a menu to import, and the import |
| `ProviderOnboarding` | the steps a new provider is led through |
| `MenuWeek` | a provider's menu, week by week |
| `BaseSubsidy`, `SpecialSubsidies` | the subsidies as HR programs them |
| `EmployeeHistory` | what HR sees of an employee |
| `CollectionsPage` | what a provider is owed, and the review of receipts |
| `MCOrderBook`, `MCPayments`, `MCMenuImport` | instances for TLC |
| `MCAccounts`, `MCQuietScreens`, `MCCompanyScreens`, `MCFlowScreens` | several modules in one instance, see section 3 |
| `BusinessDaysProofs` | theorems about the calendar |
| `OrderBookProofs` | types, stock, amounts (missed jobs included), accepted orders; no dangling schedule; `OrderBook` implements `OrderLifecycle` |
| `PaymentsProofs` | one receipt under review, one invoice; `Payments` implements `ReceiptReview`; what the overlap of requests can break of the collection, and nothing else; the provider's page |
| `ConsumerCartProofs` | the lines, prices, amounts and orders of the cart |
| `QuietScreensProofs` | choices, menu, options, special subsidies, employees |
| `CompanyScreensProofs` | the base subsidy, the edition of an order, fetched details, dialogs |
| `FlowScreensProofs` | publishing, import, weeks, onboarding, the provider's orders, agendas |
| `SumTheorems` | the laws of the sums the models are made of: lemmas, without a state |

A definition called *Mutant of X* is X with a plausible bug: substituted for X, it
makes a property fail. Nothing uses it otherwise. A property that is a conjunction of
named parts has a mutant for each part, next to the definition it breaks;
`PROJECT.json` names one for each property of a run.

### Calendar and BusinessDays

A date is a day number with `Wday(d) = d % 7`, 0 being Sunday, so that
`next_occurring` and `beginning_of_week` are arithmetic. A month is its last day, since
no rule looks at anything else. `BusinessDays` starts on any weekday and lets each
month have 28 to 31 days; every succession of months, real years included, is among
its behaviours.

### OrderBook

State, and what it stands for:

| Variable | In the code |
|---|---|
| `today`, `deadlinePassed` | `Date.current`; the hour compared with `Provider#order_deadline` |
| `closed` | the days covered by `ProviderClosure` rows |
| `published`, `available` | the rows of `schedules`; their `available` flag |
| `archived` | `menus.archived_at` |
| `orders` | the rows of `orders`; `linked` is `schedule_id IS NOT NULL`, `dish` the copy of the dish every row keeps, `share` the `discounted_price` |
| `amount` | `accounts.amount`, 0 when there is no row |
| `owed` | accounts a committed change or a running job will still recompute (`sync_amount!`) |
| `jobDue` | the `DeliveredOrdersSyncJob` of today has not run |
| `takedown` | what an unpublishing or a deletion has read and not yet written |

An action is one database transaction; its name is that of the operation:

| Action | Code |
|---|---|
| `PlaceCart` | `Consumer::OrdersController#create`, `Order.reserve` |
| `ModifyPending`, `AddUnits`, `ReplaceConfirmed` | `Order#modify`, `#reorder_confirmed`: in place; by a complementary order; by cancelling and ordering again |
| `Cancel`, `Confirm`, `Reject` | `Order#cancel`, `#decide` |
| `Publish`, `SetAvailability` | `SchedulesController#create`, `#availability` |
| `CloseDay`, `ReopenDay`, `MoveDeadline`, `PassDeadline` | closures; the order deadline, moved by the provider or passed by the clock |
| `BeginUnpublish`, `FinishUnpublish` | `SchedulesController#destroy`: the SELECT of the orders; then the locks, the rejections and the DELETE |
| `BeginDelete`, `FinishDelete` | `Menus::Delete#call`, keeping or rejecting confirmed orders |
| `AbortTakedown` | the transaction of either fails |
| `SyncAccount`, `RunJob` | `Account#sync_amount!`; `DeliveredOrdersSyncJob#perform` |
| `NextDay` | midnight |

Atomicity. A transaction that locks every row it decides upon (the cart, a
modification, a replacement, a decision) is atomic. Three things are not, and are split:
the callback after a commit (`owed`, then `SyncAccount`), the job (it collects the
accounts, then recomputes them one by one), and taking dishes down, which reads the
orders before it locks anything. Everything else may happen between the two halves.

Money is in whole units; a sum over rows is the cardinality of the set of pairs
`<<row, i>>` with `i` up to the row's value. That keeps the module free of recursion,
which the proofs need. The subsidy of an order is a free choice: a share anywhere from
zero to the price. So the order book holds for whatever `Orders::Pricing` computes.

### OrderLifecycle

An order is `none`, `pending`, `confirmed`, `cancelled` or `rejected`; it is *settled*
once it is confirmed and its delivery day is over. Placing is all or none, acceptance
happens at most once, a cancelled or rejected order never returns, exchanging an
accepted order cancels it and places another in one step or not at all, and a settled
order is fixed for good. The refinement mapping is `StatusOf` and `SettledOrders`.

### Payments

One account, of an employee or of a company (`IsCompany`), since accounts share nothing
here.

| Variable | In the code |
|---|---|
| `phase`, `payable` | whether the month of the account is to come, running (`Account#current?`) or over; `Account#payable_amount` (VAT included, in whole units) |
| `receipts`, `sent` | the rows of `payments`: status and `expected_amount`; their id sequence |
| `invoices`, `issued` | the rows of `invoices`: status; their id sequence |
| `request` | for each request in flight, the step it is about to take and what it has read |
| `peak` | history: the most the account has owed |
| `crossings` | history: what has been done by a request that an approval was committed in the middle of |

A request checks first and writes later, in another statement or another transaction, so
it is a sequence of steps, and the steps of different requests interleave:

| Steps | Code |
|---|---|
| `OpenSubmit`, `Validate`, `Capture`, `InsertReceipt` | `#create` of both payments controllers up to `save`; `only_one_submitted_per_account`; `capture_expected_amount`; the INSERT under the unique index of submitted receipts |
| `OpenReview`, `Decide` | `Provider::PaymentsController#update` up to the lock; `Payment#reject_with`, `#mark_partial` |
| `OpenReview`, `BeginApprove`, `CommitApprove` | the same for `Payment#approve`: the lock and the reads under it; the commit |
| `OpenRemoval`, `Remove` | `#destroy` of both payments controllers: the check; the DELETE |
| `OpenInvoice`, `InsertInvoice` | `Provider::InvoicesController#create`: the validation and `approve_if_account_settled`; the INSERT under the unique index of active invoices |
| `OpenInvoiceRemoval`, `RemoveInvoice` | `Provider::InvoicesController#destroy`: `removable?`; the DELETE |
| `Abandon` | the check fails, the index refuses, the connection is lost, or the transaction is rolled back |
| `ChangeDebt`; `MonthBegins`, `MonthEnds` | `Account#sync_amount!`; the calendar |

A decision is one step after its lock, because nothing it reads can change before it
commits. An approval is two: between its lock and its commit it looks for a pending
invoice, a row it has not locked. What it wrote is invisible until the commit, and the
receipt stays locked (`Locked`), which makes other reviews and removals of it wait.

An account is made by the first order of its month that is confirmed
(`Order#ensure_accounts!`), which may be before that month begins: it is not `current?`, so
it takes receipts and approvals, though it owes nothing yet.

Two things are assumed of the rest of the system. No order of a month to come has been
delivered, so the debt of that month is still. And once the month is over the debt only
grows (an order is confirmed late; a delivered order is never taken back, which `OrderBook`
shows as `KeepsLifecycle`), and the last changes of the month have reached the account.

What a request reads before it writes is under no lock, so an approval committed in
between can break what each step checked. `crossings` records when that has happened:
`"receipt"`, a receipt inserted by a request that an approval crossed; `"invoice"`, an invoice
inserted so, or while an approval is open; `"removal"`, a deletion carried out so; `"early"`,
an approval committed before the month was over. Each promise of the collection is checked
and proved of every behaviour but those where its own crossings have occurred; for two
of them a run shows that the exception is needed.

### ReceiptReview

A receipt is `none`, `submitted`, decided (`approved`, `rejected`, `partial`) or
`deleted`. One is submitted at a time, each is decided at most once, no decision
turns into another, and a deleted one stays deleted. The refinement mapping is
`ReviewStatus`, which reads a missing row with a used id as deleted. Whether a *decided*
receipt may be deleted is left open here: it is the subject of `ApprovedReceiptStays`.

### The screens

A page of the front end is a React component over the props the server gave it. All the
modules about screens read it the same way:

- A handler is one action. The browser runs one at a time and renders before the
  next, so everything it does belongs to it: the state it sets, what it stores in the
  tab, the request it starts, the one it interrupts or aborts.
- A visit of Inertia is three steps: the handler that sends it, the server that serves it
  (`Serve...`), the answer that arrives with new props and its callbacks
  (`...Arrives`), or does not arrive (`...Lost`, `...Fails`). One visit is in flight; a
  new one interrupts it, and the interrupted one goes to a variable of its own
  (`strays`, `adriftMoves`, `overtaken`, ...) from which the server may serve it late.
- A fetch is not a visit: there may be several, they are answered in any order, and
  what the page does with a late one is what its code does (ignores it, aborts it, or takes
  it).
- Lost, refused and failed are different. A redirect with an alert is a success for
  Inertia; validation errors are not; a connection that fails after the server served
  the request leaves its effect behind.
- What other people do to the same rows is an action (`Elsewhere`, `ProgramElsewhere`,
  `ScheduleMoves`, `Others`, ...), not seen by the page until it is loaded again.
- Leaving a page ends its state; what outlives it (the cart, the filter, the notices
  dismissed) is what the code keeps in a layout or in `sessionStorage`.

| Module | Variables of the browser | Variables of the server | Actions to look at first |
|---|---|---|---|
| `ConsumerCart` | `storage` (the tab's carts by session), `page`, `shown`, `detail`, `priced`, `form` | `remaining`, `price`, `orderable`, `orders` | `AddToCart`, `Ask`, `Settle`, `Confirm`, `Create`, `Arrive` |
| `DishChoices` | the menu as loaded, the choice begun, the line of the cart | the groups of the dish | `Choose`, `OrderDish`, `ChangeDish` |
| `MenuBrowsing` | the filter and the list it was picked from, draft of the sheet, notices dismissed, stars on show | the providers there are (`kitchensShown`), stars | `Toggled`, `FilterByProvider`, `GoToMenu`, `Remember`, `StarsAfter` |
| `OrderEditing` | `shown`, `form`, `confirmKind` | `book`, `delivery` | `Modify`, `ConfirmModify`, `ServeModify` with `OrderMore` |
| `FetchedDetails` | `wanted`, `detail`, `loading`, `error`, `summary` | none: an answer is named by what it is of | `SheetArrives`, `MonthArrives`, `Generate`, `PriceArrives` |
| `FormDialogs` | `opened`, `draft`, `busy`, `stage`, by the key of each dialog | `live`, `made` | the record of traits of each of the 30 dialogs in `Dialogs` |
| `ProviderOrdersPage` | lists as loaded, filters, open day, the decision told | the status of every order | `PageFinds` against `FileFinds`, `DecisionArrives` |
| `MenuAgendas` | the agenda in the form, the sheet and its answers | days of the dish, orders accepted | `AgendaProblem` and the server's validation, `AffectedDays`, `Apply` |
| `DishOptions` | groups of the form, the dialog of one | the groups of the dish and of the variant of a day | `GroupOf`, `Assign` |
| `MenuPublishing` | the tab, what is written or picked, the dialog | dishes, days published | `Serves`, `RemoveElsewhere`, `ChangeDay`, `CloseAdded` |
| `MenuImport` | the cards and what to do with each, the dishes as loaded (`savedMenus`) | the dishes and whether they have orders (`menus`) | `AskUpdate`, `MenusMove`, `Send`, `ServeImport` |
| `ProviderOnboarding` | the form, `canContinue`, the dialog of the time | the step and what is saved | `Starts`, `MayContinue`, `TripArrives` |
| `MenuWeek` | `weekOn`, `datePicked`, what the page was given | `rowsSaved`, `shutSaved` | `GoToWeek`, `MoveArrives`, `ReturnToWeek` |
| `BaseSubsidy` | `monthSaid`, `programmedShown`, `entry`, `conflict` | `programmed`, `late`, `monthNow` | `HandleSubmit`, `Created`, `PassCutoff` |
| `SpecialSubsidies` | the fields of the form | the rule kept | `MaxValidity`, `ValidityBetween` |
| `EmployeeHistory` | the page, its year, the sheet and its filter | the accounts, month by month and side by side | `StatusOf`, `MealsOn` |
| `CollectionsPage` | tab, filter, sheet, the review and its result | meals, accounts, receipts | `CollectionStatusOf`, `TotalOutstanding`, `ReviewArrives` |

The cart and the order book meet in `Create`: what it answers (not orderable, not enough
left, another price) is what `PlaceCart` of `OrderBook` decides under its locks; here it
is a stock, a price and a date that change at any moment. The receipts of
`CollectionsPage` are those of `Payments` with the page in front; `OrderEditing` is
`ModifyPending`, `AddUnits` and `ReplaceConfirmed` with the page in front.

Three modules are written about pairs that the code keeps apart.

- *The filter of the menu and its providers.* The filter belongs to the layout and outlives
  the list it was picked from: with every visit providers come and go, `menuAmong` and
  `draftAmong` keep the list that was on show when each was picked, and what is
  promised is about that list. With one provider the shortcut of the favourites
  (`filterByProvider`) names every provider there is; that is an exception of
  `LeavesOneOut`, because the sheet then shows that provider as checked.
- *The orders on show and those of the file.* The browser filters with `PageNormalize`, which
  strips `\p{Diacritic}`, the server with `FileNormalize`, which strips `\p{Mn}`. A word is its
  letters with its marks: accents, which both strip; spacing accents, such as a lone one,
  which only the browser strips; and combining signs that are no accents, which only the
  server does. A word left with nothing is dropped. `FileIsTheList` is promised of the words
  that have no mark of the last two kinds (`SearchedAlike`).
- *The dishes of an import and those saved.* `menus` moves while the review is open
  (`MenusMove`: a dish is made, its order is accepted, it is done away with), and the page
  decides on `savedMenus`, as loaded or as the last answer brought it.

## 3. Runs

| Run | Question | Bounds, and why they are enough |
|---|---|---|
| `takedown` | do ordering, deletion, unpublishing and publication of two dishes leave stock and orders in a legal state? | two dishes on one date, one with the smallest stock, two orders, three days (before, on and after delivery), all three kinds of takedown |
| `settles` | is every amount explained, is an accepted order left alone, is a recomputation ever forgotten? | liveness: no symmetry; one employee and a company, two orders of up to two meals delivered on the last day of a month, so that the job runs in that month and in the next; partial subsidies |
| `accounts` | what if the job skips days? what holds of the collection of an account, whatever two requests do at once and its debt does meanwhile? | two dishes delivered on the two sides of a month end, any of the midnights without job, a day that may be closed after it was ordered, a deadline that passes and is moved. Two requests in flight, of any kind, on an account made before its month, in it or after it: each property is about one row, or about two requests that both want it; two receipts and two invoices, so that one can be removed and another sent; debts up to 2, so that a receipt covers the debt or leaves a rest; one kind of crossing in a behaviour, so that each promise meets those of the others; a company's account, which can do all that an employee's can, and sooner |
| `quiet_screens` | seven screens whose promises are of safety: cart, choices, menu, options, special subsidies, employees, collections | two sessions and two notes, so that carts and lines can be confused; one dish with a stock of two, two picks and two posts, the second of which is a retry; menus whose groups change ids, limits and options; no provider, one or two, so that "all" can be reached one by one, and the only one by the shortcut, and the stars in behaviours of their own, as filter and stars share the page alone; amounts on both sides of 100 and days on both sides of a month end, with the fields that the form does not show as they open; two accounts of a month and one of the year before. Of collections, an employee of a company, two receipts and two verdicts; either two meals, one of them only subsidised so that the company's debt grows past a receipt, and approvals alone, or one meal and any verdict, as what is said of a receipt refused is about that receipt and not about the debt |
| `company_screens` | four screens that wait: fetched details, an order being modified, the base subsidy, the dialogs; and do the claims in `calendar.rb`'s comments hold on every day? | two months and three requests, two of which race; an order of up to two meals, modified twice; two subsidies, two programmings and the month after; two items for each dialog and two requests. 130 days: at least four months, each starting on any weekday and of any length; the rules look at one month and the next week, so every combination occurs |
| `flow_screens` | seven tasks of several visits: orders, agenda, publishing, import, onboarding, weeks, and the cart whose prices move | two orders on two days, searched for with and without the marks each normalisation strips; a week of two days and two weeks, one day closed; a card that can take the name of either of two saved dishes, one of which moves meanwhile; three trips in the onboarding; three dishes in two weeks; two prices asked for |
| `stranded_order` | *violation*: does an order that counts keep its schedule? | one dish, one day |
| `late_modification` | *violation*: is modification closed when cancellation is? | one dish, one day, a deadline |
| `receipt_removed` | *violation*: does a reviewed receipt stay? | two requests in flight, one receipt |
| `paid_twice` | *violation*: does the unique index stop the second of two receipts? | two requests in flight, two receipts, a debt of one unit |
| `import_errors` | *violation*: does a card that fails to import say why? | one card, three names |
| `import_unasked` | *violation*: is an update of a dish with orders always asked about? | one card, two names, one dish that moves |

The screens share no state with each other, so the runs that have several of them give
each behaviour one, through the variable `area`, and hold the others still.
A property there is a conjunction of named parts where they are about one thing
(`CartKept` is `OneLinePerDish`, `LinesWithinStock` and `OnlyOwnCart`), and each part has
its comment. `EveryWaitEnds` is every liveness property of the screens of its run. In
`flow_screens` each task has one flag that says it waits, and a behaviour has one task, so
that no flag is up for ever (`Held ~> ~Held`) says it of each of them.

Deadlock is not checked: the instances end at `LastDay` with every id used, where the
system would go on. In all runs of the order book at most one takedown is in flight,
and none spans midnight (a request lasts milliseconds).

### What the violations show

- `stranded_order`: `SchedulesController#destroy` reads the active orders, rejects
  those, and deletes the schedule, which sets `schedule_id` to null on *every* order it
  then has. An order placed after the SELECT stays `pending` without a schedule: it
  cannot be cancelled, and `belongs_to :schedule` makes every later decision fail its
  validation. The tests and `menus/delete.rb` promise that the pending orders of a
  removed dish are rejected.
- `late_modification`: the comment over `modification_block_reason` says that the
  window of modifications is that of cancelling and ordering again. After the
  provider's deadline of the delivery day neither a cancellation nor an order is
  possible, yet a pending order is modified.
- `import_errors`: the review of an import sends its entries without the keys of their
  cards (`entriesPayload`), so the server files the errors of the row that failed under no
  key, and the page, which looks them up by key, shows none. The comment in `review.tsx`
  says that what is only seen when saving goes back to the card that produced it.
- `receipt_removed`: `#destroy` checks that the receipt it loaded is under review or
  rejected, the provider approves it, and the DELETE removes it all the same. The
  tests say that a reviewed receipt is not removed. A status checked under the lock that
  the review takes would hold.

- `paid_twice`: two receipts sent at once are both validated, and both read the outstanding
  amount; the first is inserted and approved before the second is inserted. The unique
  index only covers receipts under review, so the second goes in, is worth the whole debt
  again, and can be approved. The comment of the controller says that the index stops it.
- `import_unasked`: `askUpdate` decides by the orders that the page was given. An order
  is accepted after that, the update is sent with no question, and `Menus::Import::Save`
  does not look at the orders again. `docs/importar-menu.md` says that it asks first.

Two more overlaps show in `accounts` if the exception of its property is dropped. The
provider uploads an invoice while the last receipt is being approved: the upload reads a
receipt still under review, so the invoice starts pending, and the approval finds no pending
invoice; both commit, and nothing is left to approve it (the tests promise one order and
the other, `spec/requests/provider/payments_spec.rb:84`, `invoices_spec.rb:30`). And the removal
of an invoice asks `removable?` of the row it loaded, and deletes it after an approval has
approved it.

### What else the models show of the screens

Every property of a screen is stated with the exceptions the code has, and the exceptions
are where it surprises. Two are definitions that no run checks because they fail:
`DishOptions!SavedIsAlwaysTheForm` (a form saved a second time adds again the groups it
had added; an empty one opened from a day leaves those of the dish) and
`OrderEditing!ReplacedOnlyIfAsked` (the provider accepts while the page still shows the
order as pending: it is cancelled and another placed without the question of
`edit.tsx:54-55`). The others:

- *Lost answers.* An order, an import or a save of more units whose answer is lost is done
  again when it is retried. The reminder of a debt stays in its sending stage.
- *Prices.* If the prices cannot be had the cart shows 0 and the order carries no expected
  price, so it is taken at any. Dishes that can no longer be ordered are dropped from the
  answer, so the case of 0 that `consumer-cart.tsx:186` excludes does happen.
- *Dishes that change.* A line whose groups were written again keeps choices nobody offers
  and is refused until it is removed.
- *Details.* The sheets of accounts and payments take whatever answer comes: after two are
  opened in a row, or one fails, the detail may be another's. The dialog of payments
  spins for ever if its first request fails.
- *Dialogs.* A dialog shared by a list that can be closed while it sends takes the answer as
  if it were of the item it is open on now; a form inside the content of a dialog can be
  sent twice by closing and opening it. The closing time that is said to be saved is the
  one on show, not the one sent.
- *Agendas.* The first day to go to ignores the end of a range and closures; the amount of
  an edited day is dropped by its form; the sheet of an edition that is closed by an
  error keeps its answers.
- *Publishing.* Dishes picked while a publication is in flight are dropped; one published
  meanwhile stays picked out of sight. The dialog says that a dish was published although it
  was removed elsewhere before the page was loaded.
- *Lists and files.* A search for a spacing accent finds everything in the list, and in
  the file what has that accent, or nothing.
- *The filter.* It may name providers that are gone, and then hide all there are.
- *Import.* A card that is renamed after the question about its dish was answered takes the
  answer to the dish that has its new name, or makes a new one; cards decided while an
  import is in flight lose the decision. An import that updates a dish done away with
  meanwhile imports nothing, and the page says nothing.
- *Weeks.* A day picked while its week is on the way, if the way is crossed or lost, leaves
  the first day of another week on show.
- *Subsidies.* A page opened before the cutoff says a month that is no longer the one that
  is saved; what another person of HR programmed meanwhile may be replaced unseen (the
  question was about what the page showed).
- *Favourites and notices.* A star request that was interrupted may be served last and win.
  Notices dismissed are not forgotten on sign-out, while the cart and the filter are.
- *Employees.* One whose receipt was rejected, and whose amount then fell to what was paid,
  is listed as owing 0 and can be reminded of it.
- *Collections.* An account whose amount fell to 0 hides its receipt under review; a group
  that overpaid passes 100 %; the reason of a rejection is hidden by any earlier approval;
  a report left open by an alert may reject a receipt sent since.

### Fairness

`FairSpec` adds weak fairness of `SyncAccount(a)`, for each account, and of `RunJob`:
a thread that committed goes on to run its callbacks, and the job is a recurring task
of Solid Queue. No operation of a person is fair, and neither is the clock: after the
last operation, all the same, every account must settle. Both actions stay enabled
until taken, so weak fairness is enough. `NextDay` waits for the day's job, which is
what `recurring.yml` configures; `MissedJobSpec` drops that.

On the screens, weak fairness is of the network alone: a request in flight is answered or
fails, in the end (`...Arrives \/ ...Lost`), which every browser guarantees with its
timeouts. Neither of the two is fair by itself, so an answer that never comes is among the
behaviours; nor is the server, nor what a person does. Hence a wait must end whether
its request was served or not, and without help from its user.

## 4. Proofs

Assumptions: those named `...Assumption` in the modules the proofs extend, and nothing
else; TLC evaluates each in the runs of its module.

- *Bounds* are naturals. The sets sums go over are finite: employees, orders, clients,
  meals, the accounts of a year.
- *Null is not a value*: `NoStar`, `NoRule`, `NoVisit`, `NotSent` and the like are none of
  the records they stand for the lack of. TLA+ is untyped, so a proof must be told.
- *The shape of the data*: each employee in a company and each dish of a provider; clients
  are not employees; months do not go back as days pass (`MonthsAssumption`); the ids of
  the groups of a dish differ, and a group takes at least one of its options and no more
  than it has; the stock is within `Schedule::MAX_AMOUNT`.
- *A validation*: `ScheduledAssumption`, that a dish starts out scheduled no further than
  it can be published. Whatever writes a schedule checks that
  (`menus/create.rb:55`, `update.rb:90`, `publish.rb:31`, `agenda_scheduler.rb:21`); without
  it the day a new dish lands on could be hidden by a later one.

What is listed below is proved for every value of the constants these allow. An inductive
invariant is named where the property is not inductive by itself, with what it adds; the longest ones
(`OptionsInv`, `AgendaInv`) were checked by TLC first, on the instances of section 3.

| Theorem | Statement | Argument |
|---|---|---|
| `OrderBookProofs!TypeCorrect` | `Spec => []TypeOK` | one lemma per group of actions; `TypeOK` includes `available \subseteq published` and that a takedown only holds orders that exist |
| `OrderBookProofs!StockNeverOversold` | `Spec => []StockRespected` | inductive with `TypeOK`. The meals of a schedule are split into those of one row and of the rest (`ReservedSplit`), so that each write of a row changes the count by the difference; then one lemma per operation |
| `OrderBookProofs!LedgerAlwaysExplained` | `Spec => []LedgerExact` | inductive with `TypeOK`. A step either writes no row of an account (`SameCharges`, `Untouched`), or recomputes it at once, or leaves it in `owed`; midnight adds deliveries only to accounts the job will visit |
| `OrderBookProofs!AcceptedNeverRewritten` | `Spec => AcceptedAsAgreed` | from `TypeOK`, by cases on the action |
| `OrderBookProofs!NoDanglingSchedule` | `Spec => []LinkedToPublished` | inductive with `TypeOK` |
| `OrderBookProofs!ImplementsLifecycle` | `Spec => KeepsLifecycle` | needs `SnapshotOK`, that the orders a takedown has read belong to dishes with no past date: without it nothing prevents a takedown from rejecting a settled order. One lemma per group of actions maps each to an abstract step or a stutter |
| `BusinessDaysProofs!AssignmentPrecedes`, `AssignmentLatest`, `OrderableShown` | the claims about one date | arithmetic on the weekday, from `TypeOK` |
| `BusinessDaysProofs!MonthsConfigurable`, `WindowMovesForward` | the claims about one midnight | the same, for both dates |
| `PaymentsProofs!TypesCorrect`, `ReviewIsUnique`, `InvoiceIsUnique` | `PaymentsSpec => []PaymentsTypeOK`, `[]OneUnderReview`, `[]OneInvoice` | for any number of requests in flight. The type invariant says that an approval in flight holds a receipt under review, which is inductive only with `Exclusive`: no two approvals hold the same one |
| `PaymentsProofs!ImplementsReview` | `PaymentsSpec => KeepsReview` | from the type invariant: what an approval commits is a decision on an undecided receipt, however long ago it was opened |
| `PaymentsProofs!NobodyPaysTwice` | `PaymentsSpec => []PaidOnceUnlessCrossed` | for any number of requests in flight. Inductive with the type invariant and `OneUnderReview` as `MoneyOK`: the receipt under review, and every one about to be inserted by a request that no approval crossed, also fits in what the account has owed. No hypothesis on the requests: the exception is the event `"receipt"` of `crossings`, and `paid_twice` shows that it is needed |
| `BusinessDaysProofs!MonthsAssignedInTime`, `PaymentsProofs!OneOfEachAtATime` | `[]AssignedInTime`, `[]OneOfEach` | the theorems above, together as the runs check them |
| `ConsumerCartProofs!CartLines`, `OwnCart`, `SpinnerIsAsked`, `AmountOnShow`, `Charged`, `OrderedAndGone`, and `Kept`, `Priced`, `OrderedOnceGone` that join them | the safety properties of the cart, for any sessions, dishes, stocks, prices and number of requests | `CartInv`, inductive, in four parts: the lines (`LinesInv`), prices (`PricesInv`: whoever writes the cart asks for its prices, and whatever is not cancelled is for the items of the cart), amounts (`AmountsInv`), picks (`PicksInv`: a page waits for one order at a time, and meanwhile its lines are those of the order). `OrderedOnce` and `OrderedLeavesTheCart` are not inductive without each other, nor without the rule that a pick on its way unheard is abandoned |
| `CompanyScreensProofs!SubsidyTypes`, `ChangesOnlyTheConfigurable`, `NeverWithout`, `ReplacesAsAnswered`, and `Programmed` that joins them | the base subsidy, for any subsidies and months | the type invariant says of every request on its way, the interrupted ones included, that it is for a month the page has known; the actions of the server then decide alone |
| `CompanyScreensProofs!EditTypes`, `MoreNeverCancels`, `AddsUp`, and `AcceptedKept` that joins them | the modification of an order, for any bound on its units | the type invariant bounds the complementary order by what is left of the units an order may have; then by cases on what `ServeModify` finds |
| `OrderBookProofs!LedgerExactDespiteMissedJobs` | `MissedJobSpec => []LedgerExactThisMonth` | not inductive: the next month becomes this one. `LedgerExactFromNow` says the same of every account that has days left, so that what a job skipped is owed by tomorrow's (`CaughtUpNextDay`), unless the month is over |
| `PaymentsProofs!CollectedPeriodsAreInvoiced` | `PaymentsSpec => []CollectedAndInvoiced` | `CollectionOK`, of behaviours without crossings, for any number of requests: until the month is over nothing is approved, and only then does the debt stop falling (`AccountOK`); a request that sends a receipt found the account owing, and what it read of invoices and approvals still is so (`RequestOK`). One lemma for each group of actions |
| `PaymentsProofs!ApprovedForEver` | `PaymentsSpec => ApprovedStays` | `SafeRemovals`: what a deletion is about to take back is not approved, unless an approval was committed since it was checked, and then carrying it out is the crossing `"removal"` |
| `PaymentsProofs!BooksAlwaysAgree`, `ReviewsAreTold` | `CollectionsSpec => []BooksAgree`, `ReviewedAsTold` | `CollectInv`: types, a number is of one receipt (`Numbered`), the sheet is on a receipt under review (`SheetStands`), what an answer says was done stands (`ReviewStands`). The figures are then sums regrouped (`SumOfGroups`, `SumOfUnion`): the accounts by client, the meals by account, the sales by day |
| `QuietScreensProofs!RefusedIfChanged` | `ChoicesSpec => []RefusedOnlyIfChanged` | `ChoicesInv`: what was chosen under one menu alone fits it, and is complete once it is in the cart; the server takes what fits (`FittingIsTaken`) |
| `QuietScreensProofs!MenuLeftAsChosen` | `BrowsingSpec => []LeftAsChosen` | for any providers, none and one included, that come and go. `BrowsingInv`: filter and draft leave out a provider of the list they were picked from, or are the shortcut to the only one (`FilterInv`); a star that was not crossed is saved as asked, or a request that still has to be served asks for it (`StarsInv`) |
| `QuietScreensProofs!OptionsAsWritten` | `OptionsSpec => []OfferedAsWritten` | `OptionsInv`: the groups of the dish and of its variant have different ids, all handed out (`MenusStand`); until its first save the form names exactly the groups of the one it was opened from (`NamesWhatItOpened`), which is what makes the server keep, drop and copy the right ones |
| `QuietScreensProofs!FormsAgree` | `SpecialSpec => []FormAndServerAgree` | `SpecialInv`: a request was let go by the form on the day it was drawn, and is of the subsidy that is saved unless others changed it; then arithmetic on days, weeks and months, there and back |
| `QuietScreensProofs!DebtIsOne` | `HistorySpec => []OneDebt` | `HistoryInv`: accounts are never closed, so the page knows none the server has not, and a filter stays one of those offered; then the sum of an employee is positive if one of its terms is |
| `CompanyScreensProofs!ShownAsAsked` | `FetchSpec => ShowsWhatWasAsked` | `FetchInv`: of a sheet that nothing raced, the one request in flight is for what is wanted; of the statistics, at most one request of each kind is heeded, for the month on show; of a dish, only that of the selection |
| `CompanyScreensProofs!DialogsKeep` | `Spec => []DialogsKeepTheirWord`, of `FormDialogs` | `DialogInv`, by the traits of the dialogs, not one by one: drafts are for the item the dialog is open on (`Drafts`); what was done, and may still be, was sent by visits that ended, but for the last (`Doings`); a shared dialog that tells cannot be closed before its answer (`Stages`) |
| `FlowScreensProofs!PublishedAsTold` | `PublishingSpec => []PublishedAsSaid` | `PublishInv`: a dish that was made, and not given up, is out of the form, or its news is on the way or told (`MadeOf`); what the news says is published, or was withdrawn elsewhere since (`Told`) |
| `FlowScreensProofs!ImportedAsAsked` | `ImportSpec => []ImportedWithCare` | for dishes and orders that move at any time. `ImportInv`: a card keeps the question it was asked, and whether its page knew of the orders, in flight too (`Asked`, `AskedInFlight`); while the review is open no row is imported but those of the request just served (`OnceOnly`) |
| `FlowScreensProofs!DayStaysPicked` | `WeekSpec => DayKept` | `WeekInv`: the day picked is of the week on show, or of the one on its way, until a way is crossed or lost (`OnItsWay`) |
| `FlowScreensProofs!OnboardingKeepsItsSteps` | `OnboardingSpec => StepsKept` | `OnboardingInv`: what was passed stays whatever is served late (`Passed`); the visit in flight left from the step on show, and what it was served is saved; nothing is adrift until one is given up (`OnTheWay`) |
| `FlowScreensProofs!ListsAlwaysAgree` | `OrdersSpec => []ListsAgree` | the two filters, each through its own normalisation, agree on words whose marks both strip (`FileIsTheSame`). `OrdersInv`: visits are numbered, those taken but not told are in flight or were given up (`VisitsInOrder`), and what is in flight was offered by the page as loaded (`WasOffered`) |
| `FlowScreensProofs!AgendasStayInAgreement` | `AgendaSpec => AgendasAgree` | `AgendaInv`: the request in flight was worked out from the days the page still shows (`AskedOfThePage`), and lands on the first day that will be published (`Lands`). Which day that is, of a weekday or a range, is arithmetic with remainders (`NextDateIs`, `EarliestIs`, `PublishedUntil`) |

Every invariant and every action property of a run that passes has its theorem. Only
model-checked are the liveness properties (`LedgerSettles`, `EveryWaitEnds`: liveness under
fairness is beyond TLAPS here), and what the runs that expect a violation refute. The type
invariants of the screens that no run lists (`...TypeOK` in each module) bound their counters
for TLC; the proofs carry weaker types of their own.

`SumTheorems` is where the amounts come from. A sum is a fold of the community modules,
over the elements of a set in an order of its choice, with a recursive function. Induction
theorems that take an operator cannot be used by the installed provers, so each law
(that the fold is a function at all, that the order does not matter, the sum of a union, of
groups, of two functions) is proved of a smallest counterexample: the sets that fail
it, if any, have a minimal one for inclusion, which is not empty, and without one of
its elements it is smaller. The same shape gives finite sets of integers a largest and a
smallest member, and a set of months its latest.

## 5. Not modelled

- Within the order book: which benefit gives which discount (a free choice, see above);
  notifications and audit events (no operation reads them back); addresses and
  comments; the update of a closure (a deletion and a creation); orders imported without
  delivery date; two takedowns at once; publication by the agenda's job, which adds
  rows as `Publish` does.
- Within payments: the attached files and the provider's bank details, whose checks only
  refuse a request (`Abandon`); the callbacks after each commit (notifications,
  reminders, the debt alert), which write no state modelled here; the rounding of the
  VAT; the statuses `pending` of a receipt and `rejected` of an invoice, which no code
  writes.
- Of the screens: layout, wording, formatting and animation; charts and dashboards that
  only show their props; the primitives of `components/ui`; forms of one field that keep
  nothing; searching by name where nothing else depends on it; what a screen reader hears.
- Of the server behind them: the jobs that assign benefits, the daily run of the agenda,
  notifications, sessions and codes, the order of row locks, `Orders::Pricing` itself, and
  the model that reads a spreadsheet, which is external.

## 6. Plan

Both sides of ordering, collecting, publishing and configuring are in place. What would
add most, in this order:

1. A crash between a commit and its callback in `OrderBook`, with what the job heals.
2. `Benefits`: assignment and expiry across months by jobs that run twice or late, over
   `Calendar`, and `Pricing` as a function against a reference definition.
3. `MenuFamily`: variants of a dish and the scheduler that runs every day over days the
   provider removed. To prove: no two variants share a date.
4. `OrderLocks`: the row locks of the cart, the modification, the takedown and the edition
   of a dish, one by one, for deadlocks.
5. Theorems: one benefit of a kind per employee and month (`Benefits`), no two variants on
   a date (`MenuFamily`), each with the refinement of what the configuration promises; and
   what the job heals after a crash, from `LedgerExactFromNow`.
