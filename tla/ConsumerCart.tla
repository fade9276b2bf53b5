---------------------------- MODULE ConsumerCart ----------------------------
(***************************************************************************)
(* The consumer's cart, from the dish to the order: the weekly menu and    *)
(* its detail view, the cart page, the cart in the session storage of the  *)
(* browser tab, the prices both pages ask for, and the order the cart page *)
(* posts.  It models app/javascript/pages/consumer/dashboard/{index,       *)
(* weekly-menu,dish-detail,cart,consumer-cart,pricing,order-error,         *)
(* confirmation}.tsx and the hooks under them, against the part of         *)
(* Consumer::OrdersController that answers.                                *)
(*                                                                         *)
(* Prices and orders are asked for over the network: an answer may come    *)
(* late, out of order, or never, and the stock, the prices and the dates   *)
(* that take orders change meanwhile.  The browser runs one handler at a   *)
(* time and renders before the next, so a handler is one action; so is a   *)
(* visit to a page, which ends whatever the page it leaves was doing.      *)
(*                                                                         *)
(* A dish sold out and one past its order deadline are both a dish with    *)
(* nothing remaining.  Which address an order goes to is left out; the sheet *)
(* that adds one is in FormDialogs.                                        *)
(***************************************************************************)
EXTENDS Integers, FiniteSets, FiniteSetsExt

CONSTANTS
    Sessions,       \* the consumer sessions the tab goes through
    Schedules,      \* the dishes published
    Notes,          \* notes and options chosen, as one value
    Blank,          \* no notes and no options
    None,           \* null, undefined
    Failed,         \* prices that could not be had
    Benefits,       \* sets of special benefits to apply
    MaxStock,       \* bound: units of a dish
    MaxPrice,       \* bound: what a unit costs
    MaxPicks,       \* bound: dishes put in the cart in all
    MaxRequests,    \* bound: prices asked for at once
    MaxPosts,       \* bound: orders posted in all
    MaxChanges      \* bound: times others change a stock, a price or a date

ASSUME CartAssumption ==
    /\ MaxStock \in Nat \ {0} /\ MaxPrice \in Nat
    /\ MaxPicks \in Nat /\ MaxRequests \in Nat /\ MaxPosts \in Nat
    /\ MaxChanges \in Nat
    /\ Sessions # {} /\ Blank \in Notes /\ Benefits # {}
    /\ \A b \in Benefits : IsFiniteSet(b)
    /\ None # Failed
    /\ \A s \in Schedules, n \in Notes, b \in Benefits : None # <<s, n, b>>

VARIABLES
    session,     \* the session signed in
    storage,     \* sessionStorage, by the session its key names
    page,        \* "menu", "cart" or "confirmation"
    shown,       \* what remains of each dish, as the page was told
    detail,      \* the dish open over the menu
    priced,      \* the last prices kept, with the items they are for
    requests,    \* prices asked for and not answered
    form,        \* the form of the cart page: "idle", "sending", "rejected"
    posts,       \* the orders on their way to the server, or back
    remaining,   \* what remains of each dish
    price,       \* what a unit of each costs
    orderable,   \* the dishes whose date takes orders
    orders,      \* the orders created (history)
    changes,     \* times others changed something
    picks,       \* dishes put in the cart (history)
    abandoned    \* picks whose post was left unanswered (history)

browser == <<session, storage, page, shown, detail, priced, requests, form>>
server == <<remaining, price, orderable, changes>>
history == <<orders, picks, abandoned>>
vars == <<browser, posts, server, history>>

-----------------------------------------------------------------------------
(* Values *)

\* pick is the number of the dish among those put in the cart: what the
\* consumer wants once.  remaining is what the dish had left when it was put.
Line == [schedule : Schedules, notes : Notes, benefits : Benefits,
         quantity : Nat, remaining : 0..MaxStock, pick : Nat]

Item == Schedules \X Nat \X Benefits

\* CartItem["cartId"]
CartId(line) == <<line.schedule, line.notes, line.benefits>>

\* cartPricedItem: what the prices are asked for
Items(lines) == {<<l.schedule, l.quantity, l.benefits>> : l \in lines}

cart == storage[session]

AtMost(a, b) == IF a <= b THEN a ELSE b

\* Orders::Pricing, of the items whose date takes orders: a benefit takes one
\* off the price of each unit.
UnitPrice(s, benefits) ==
    IF Cardinality(benefits) >= price[s] THEN 0 ELSE price[s] - Cardinality(benefits)

Total(items) ==
    MapThenSumSet(LAMBDA i : i[2] * UnitPrice(i[1], i[3]),
                  {i \in items : i[1] \in orderable})

-----------------------------------------------------------------------------
(* Prices *)

\* A mutant of Ask: it waits for the request in flight instead of asking again.
AskOnce(lines) ==
    requests' = IF lines = {} \/ \E r \in requests : ~r.cancelled THEN requests
                ELSE requests \cup {[key |-> Items(lines), cancelled |-> FALSE]}

\* The effect of both pages: when the items change, the answer to the request
\* before is ignored, and an empty cart asks for nothing.
Ask(lines) ==
    requests' = {[r EXCEPT !.cancelled = TRUE] : r \in requests}
                    \cup IF lines = {} THEN {}
                         ELSE {[key |-> Items(lines), cancelled |-> FALSE]}

loading == cart # {} /\ priced.key # Items(cart)

pricing == IF cart = {} THEN None ELSE priced.total

\* What the cart page shows as the total: the spinner, an amount, or nothing
\* worth the name when the prices could not be had.
Shown == IF loading THEN None ELSE pricing

\* A mutant of Settle: every answer is kept, as the prices of the cart of now.
SettleForNow(r, total) ==
    /\ r \in requests
    /\ requests' = requests \ {r}
    /\ priced' = [key |-> Items(cart), total |-> total, of |-> r.key]
    /\ UNCHANGED <<session, storage, page, shown, detail, form, posts, server, history>>

Settle(r, total) ==
    /\ r \in requests
    /\ requests' = requests \ {r}
    /\ priced' = IF r.cancelled THEN priced
                 ELSE [key |-> r.key, total |-> total, of |-> r.key]
    /\ UNCHANGED <<session, storage, page, shown, detail, form, posts, server, history>>

Answer(r) == Settle(r, Total(r.key))
\* A mutant of Fail: an error leaves the prices as they were.
FailSilently(r) ==
    /\ r \in requests
    /\ requests' = requests \ {r}
    /\ UNCHANGED <<session, storage, page, shown, detail, priced, form, posts, server, history>>

Fail(r) == Settle(r, Failed)

NotPriced == [key |-> None, total |-> None, of |-> None]

\* Room for one more request, so that the bound stops handlers, not effects.
CanAsk == Cardinality(requests) < MaxRequests

-----------------------------------------------------------------------------
(* Visits *)

\* The page no longer waits for the order it posted: an answer on its way is
\* dropped, and an order still to be created stays on its way.
Abandon ==
    /\ posts' = {[p EXCEPT !.listening = FALSE] :
                    p \in {q \in posts : q.result = "waiting"}}
    /\ abandoned' = abandoned \cup
           UNION {{l.pick : l \in p.lines} : p \in {q \in posts : q.listening}}

\* A mutant of Leave: the next page finds the form as it was.
LeaveForm ==
    /\ detail' = None
    /\ priced' = NotPriced
    /\ form' = form
    /\ Abandon

\* A visit replaces the page: its state is gone, a visit in flight is
\* interrupted, and the new page asks for the prices of the cart it finds.
Leave ==
    /\ detail' = None
    /\ priced' = NotPriced
    /\ form' = "idle"
    /\ Abandon

VisitMenu ==
    /\ CanAsk
    /\ page' = "menu"
    /\ shown' = remaining
    /\ Leave
    /\ Ask(cart)
    /\ UNCHANGED <<session, storage, server, orders, picks>>

VisitCart ==
    /\ CanAsk
    /\ page' = "cart"
    /\ Leave
    /\ Ask(cart)
    /\ UNCHANGED <<session, storage, shown, server, orders, picks>>

\* A mutant of SignIn: the storage is not cleaned.
SignInOver(s) ==
    /\ s # session
    /\ CanAsk
    /\ session' = s
    /\ page' = "menu"
    /\ shown' = remaining
    /\ Leave
    /\ Ask(storage[s])
    /\ UNCHANGED <<storage, server, orders, picks>>

\* Another employee signs in on the tab.  Every key but the one of the session
\* signed in is removed from the storage.
SignIn(s) ==
    /\ s # session
    /\ CanAsk
    /\ session' = s
    /\ storage' = [t \in Sessions |-> IF t = s THEN storage[t] ELSE {}]
    /\ page' = "menu"
    /\ shown' = remaining
    /\ Leave
    /\ Ask(storage[s])
    /\ UNCHANGED <<server, orders, picks>>

-----------------------------------------------------------------------------
(* The menu and the dish *)

InMenu == page = "menu" /\ detail = None
InDetail == page = "menu" /\ detail # None

Draft(line) ==
    [schedule |-> line.schedule, editing |-> CartId(line),
     quantity |-> line.quantity, notes |-> line.notes]

NewDraft(s) ==
    [schedule |-> s, editing |-> None, quantity |-> 1, notes |-> Blank]

\* MenuItem: a dish with nothing left cannot be opened.
Openable(s) == shown[s] > 0

\* A mutant of OpenDetail: every dish opens as a new one.
OpenNewDetail(s) ==
    /\ InMenu
    /\ Openable(s)
    /\ detail' = NewDraft(s)
    /\ UNCHANGED <<session, storage, page, shown, priced, requests, form,
                   posts, server, history>>

\* openDetail: a dish already in the cart is edited, any other is new.
OpenDetail(s) ==
    /\ InMenu
    /\ Openable(s)
    /\ detail' \in IF \E l \in cart : l.schedule = s
                    THEN {Draft(l) : l \in {m \in cart : m.schedule = s}}
                    ELSE {NewDraft(s)}
    /\ UNCHANGED <<session, storage, page, shown, priced, requests, form,
                   posts, server, history>>

\* The most the detail lets the consumer ask for: what is left of the dish
\* beyond another line of the cart.
MaxQuantity ==
    LET others == {l \in cart : l.schedule = detail.schedule
                                  /\ CartId(l) # detail.editing}
    IN  IF others = {} THEN shown[detail.schedule]
        ELSE shown[detail.schedule] - (CHOOSE l \in others : TRUE).quantity

\* The buttons of QuantityInput, and the notes and options of the dish.
ChangeDraft ==
    /\ InDetail
    /\ \/ /\ detail.quantity > 1
          /\ detail' = [detail EXCEPT !.quantity = @ - 1]
       \/ /\ detail.quantity < MaxQuantity
          /\ detail' = [detail EXCEPT !.quantity = @ + 1]
       \/ \E n \in Notes : detail' = [detail EXCEPT !.notes = n]
    /\ UNCHANGED <<session, storage, page, shown, priced, requests, form,
                   posts, server, history>>

\* A mutant of Merged: the quantity asked for is not limited to what is left.
MergedInFull(lines, line) ==
    IF \E l \in lines : CartId(l) = CartId(line)
      THEN {IF CartId(l) = CartId(line) THEN [l EXCEPT !.quantity = @ + line.quantity]
              ELSE l : l \in lines}
      ELSE lines \cup {line}

\* addToCart, as a function of the lines: with a line being edited, that line
\* is replaced, or merged into the one it now equals; without one, the dish is
\* merged into its equal or becomes a line.
Merged(lines, line) ==
    IF \E l \in lines : CartId(l) = CartId(line)
      THEN {IF CartId(l) = CartId(line)
              THEN [l EXCEPT !.quantity = AtMost(l.remaining, @ + line.quantity)]
              ELSE l : l \in lines}
      ELSE lines \cup {[line EXCEPT !.quantity = AtMost(line.remaining, @)]}

Added(lines, editing, line) ==
    IF editing = None THEN Merged(lines, line)
    ELSE IF \E l \in lines : CartId(l) = editing
      THEN Merged({l \in lines : CartId(l) # editing}, line)
      ELSE lines

\* The benefits start all applied, whatever the line edited had.
AddToCart ==
    /\ InDetail
    /\ CanAsk
    /\ shown[detail.schedule] > 0
    /\ picks < MaxPicks
    /\ \E b \in Benefits :
         LET line == [schedule |-> detail.schedule, notes |-> detail.notes,
                      benefits |-> b, quantity |-> detail.quantity,
                      remaining |-> shown[detail.schedule], pick |-> picks]
             lines == Added(cart, detail.editing, line)
         IN  /\ storage' = [storage EXCEPT ![session] = lines]
             /\ Ask(lines)
    /\ picks' = picks + 1
    /\ detail' = None
    /\ UNCHANGED <<session, page, shown, priced, form, posts, server, orders, abandoned>>

\* handleRemoveFromCartAndBack: the button is there for a line being edited.
RemoveInDetail ==
    /\ InDetail
    /\ CanAsk
    /\ detail.editing # None
    /\ detail.quantity <= 1
    /\ LET lines == {l \in cart : CartId(l) # detail.editing}
       IN  /\ storage' = [storage EXCEPT ![session] = lines]
           /\ Ask(lines)
    /\ detail' = None
    /\ UNCHANGED <<session, page, shown, priced, form, posts, server, history>>

Back ==
    /\ InDetail
    /\ detail' = None
    /\ UNCHANGED <<session, storage, page, shown, priced, requests, form,
                   posts, server, history>>

-----------------------------------------------------------------------------
(* The cart page *)

\* A mutant of InCart: the buttons work while an order is on its way.
InCartAlways == page = "cart" /\ form # "rejected"

\* The page shows the lines and not the error of the last attempt, and its
\* buttons work.
InCart == page = "cart" /\ form = "idle"

Change(lines) ==
    /\ InCart
    /\ CanAsk
    /\ storage' = [storage EXCEPT ![session] = lines]
    /\ Ask(lines)
    /\ UNCHANGED <<session, page, shown, detail, priced, form, posts, server, history>>

SetQuantity(line) ==
    \/ /\ line.quantity < line.remaining
       /\ Change((cart \ {line}) \cup {[line EXCEPT !.quantity = @ + 1]})
    \/ /\ line.quantity > 1
       /\ Change((cart \ {line}) \cup {[line EXCEPT !.quantity = @ - 1]})

\* The minus of a line of one unit is a bin.
Remove(line) == line.quantity <= 1 /\ Change(cart \ {line})

\* confirm.  The total expected is the last one kept, which may be of the cart
\* before; without prices there is none.  Until the first prices come the page
\* is a spinner without a button.
Confirm ==
    /\ InCart
    /\ cart # {}
    /\ ~(loading /\ pricing = None)
    /\ Cardinality(posts) + Cardinality(orders) < MaxPosts
    /\ form' = "sending"
    /\ posts' = posts \cup
          {[lines |-> cart, listening |-> TRUE,
            expected |-> IF pricing = Failed THEN None ELSE pricing,
            seen |-> Shown, result |-> "waiting"]}
    /\ UNCHANGED <<session, storage, page, shown, detail, priced, requests,
                   server, history>>

-----------------------------------------------------------------------------
(* The server *)

\* The units of a dish, one by one.
Units(lines, s) ==
    Cardinality({u \in lines \X (1..MaxStock) :
                    u[1].schedule = s /\ u[2] <= u[1].quantity})

Reservable(lines) ==
    \A s \in {l.schedule : l \in lines} :
        s \in orderable /\ Units(lines, s) <= remaining[s]

\* A mutant of Create: the total is not compared with the one expected.
CreateAtAnyPrice(p) ==
    /\ p.result = "waiting"
    /\ Reservable(p.lines)
    /\ posts' = (posts \ {p}) \cup
          IF p.listening THEN {[p EXCEPT !.result = "created"]} ELSE {}
    /\ orders' = orders \cup
          {[number |-> Cardinality(orders), total |-> Total(Items(p.lines)),
            seen |-> p.seen, picks |-> {l.pick : l \in p.lines}]}
    /\ remaining' = [s \in Schedules |-> remaining[s] - Units(p.lines, s)]
    /\ UNCHANGED <<browser, price, orderable, changes, picks, abandoned>>

\* Consumer::OrdersController#create, one transaction: every dish takes orders,
\* the total is the one expected when there is one, and everything can be
\* reserved; or nothing is created.
Create(p) ==
    /\ p.result = "waiting"
    /\ LET total == Total(Items(p.lines))
           accepted == p.expected \in {None, total} /\ Reservable(p.lines)
       IN  /\ posts' = (posts \ {p}) \cup
                 IF p.listening
                   THEN {[p EXCEPT !.result = IF accepted THEN "created" ELSE "rejected"]}
                   ELSE {}
           /\ IF accepted
                THEN /\ orders' = orders \cup
                          {[number |-> Cardinality(orders), total |-> total,
                            seen |-> p.seen, picks |-> {l.pick : l \in p.lines}]}
                     /\ remaining' = [s \in Schedules |->
                                        remaining[s] - Units(p.lines, s)]
                ELSE UNCHANGED <<orders, remaining>>
    /\ UNCHANGED <<browser, price, orderable, changes, picks, abandoned>>

\* A mutant of Arrive: the cart is kept after the order.
ArriveKeeping(p) ==
    /\ p.listening
    /\ p.result # "waiting"
    /\ page' = IF p.result = "created" THEN "confirmation" ELSE page
    /\ form' = IF p.result = "created" THEN "idle" ELSE "rejected"
    /\ posts' = posts \ {p}
    /\ UNCHANGED <<session, storage, shown, detail, priced, requests, server, history>>

\* The answer reaches the page that posted: onSuccess empties the cart and the
\* confirmation replaces the page; an error stays on it.
Arrive(p) ==
    /\ p.listening
    /\ \/ /\ p.result = "created"
          /\ storage' = [storage EXCEPT ![session] = {}]
          /\ page' = "confirmation"
          /\ form' = "idle"
          /\ priced' = NotPriced
          /\ requests' = {[r EXCEPT !.cancelled = TRUE] : r \in requests}
       \/ /\ p.result = "rejected"
          /\ form' = "rejected"
          /\ UNCHANGED <<storage, page, priced, requests>>
    /\ posts' = posts \ {p}
    /\ UNCHANGED <<session, shown, detail, server, history>>

\* A mutant of Lose: the page keeps waiting.
LoseSilently ==
    /\ form = "sending"
    /\ Abandon
    /\ UNCHANGED <<browser, server, orders, picks>>

\* The connection breaks: the page can be used again, and what it posted may
\* still reach the server, or may have.
Lose ==
    /\ form = "sending"
    /\ form' = "idle"
    /\ Abandon
    /\ UNCHANGED <<session, storage, page, shown, detail, priced, requests,
                   server, orders, picks>>

\* An order nobody waits for never reaches the server.
Forget(p) ==
    /\ ~p.listening
    /\ posts' = posts \ {p}
    /\ UNCHANGED <<browser, server, history>>

\* What others do: orders of other employees and their cancellations, prices
\* and benefits that change, dates that stop taking orders.
Elsewhere ==
    /\ changes < MaxChanges
    /\ changes' = changes + 1
    /\ \E s \in Schedules :
         \/ /\ remaining' \in {[remaining EXCEPT ![s] = n] : n \in 0..MaxStock}
            /\ UNCHANGED <<price, orderable>>
         \/ /\ price' \in {[price EXCEPT ![s] = n] : n \in 0..MaxPrice}
            /\ UNCHANGED <<remaining, orderable>>
         \/ /\ orderable' = orderable \ {s}
            /\ UNCHANGED <<remaining, price>>
    /\ UNCHANGED <<browser, posts, history>>

-----------------------------------------------------------------------------
Init ==
    /\ session \in Sessions
    /\ storage = [s \in Sessions |-> {}]
    /\ page = "menu"
    /\ remaining = [s \in Schedules |-> MaxStock]
    /\ shown = remaining
    /\ detail = None
    /\ priced = NotPriced
    /\ requests = {}
    /\ form = "idle"
    /\ posts = {}
    /\ price = [s \in Schedules |-> MaxPrice]
    /\ orderable = Schedules
    /\ orders = {}
    /\ picks = 0
    /\ changes = 0
    /\ abandoned = {}

Next ==
    \/ VisitMenu \/ VisitCart \/ \E s \in Sessions : SignIn(s)
    \/ \E s \in Schedules : OpenDetail(s)
    \/ ChangeDraft \/ AddToCart \/ RemoveInDetail \/ Back
    \/ \E line \in cart : SetQuantity(line) \/ Remove(line)
    \/ Confirm \/ Lose
    \/ \E p \in posts : Create(p) \/ Arrive(p) \/ Forget(p)
    \/ \E r \in requests : Answer(r) \/ Fail(r)
    \/ Elsewhere

Spec == Init /\ [][Next]_vars

\* The browser ends every request it started: with the answer, or with an error
\* when the connection or the server fails.
CartFairness ==
    /\ WF_vars(\E r \in requests : ~r.cancelled /\ (Answer(r) \/ Fail(r)))
    /\ WF_vars(Lose \/ \E p \in posts : Arrive(p))

-----------------------------------------------------------------------------
(* Properties *)

Picks == 0..(MaxPicks - 1)

\* What the variables hold, and in particular that the storage holds lines, the
\* dish being edited is one of the cart, and the prices kept are of items.
TypeOK ==
    /\ session \in Sessions
    /\ \A s \in Sessions : storage[s] \subseteq Line /\ IsFiniteSet(storage[s])
    /\ page \in {"menu", "cart", "confirmation"}
    /\ shown \in [Schedules -> 0..MaxStock] /\ remaining \in [Schedules -> 0..MaxStock]
    /\ detail # None => /\ page = "menu"
                        /\ detail.editing # None =>
                             \E l \in cart : CartId(l) = detail.editing
    /\ \A r \in requests : r.key \subseteq Item
    /\ form \in {"idle", "sending", "rejected"}
    /\ form # "idle" => page = "cart"
    /\ price \in [Schedules -> Nat] /\ orderable \subseteq Schedules
    /\ picks \in 0..MaxPicks /\ abandoned \subseteq Picks

\* A dish is in the cart once, whatever its notes and benefits: the detail opens
\* on the line there is (index.tsx:49), so the stock a line is limited to is
\* never shared by two of them.
OneLinePerDish ==
    \A s \in Sessions : \A l, m \in storage[s] :
        l.schedule = m.schedule => l = m

\* A line asks for at least one unit and for no more than there were when the
\* dish was put in the cart, through adding, merging, editing and the buttons
\* of the cart page.
LinesWithinStock ==
    \A s \in Sessions : \A l \in storage[s] : l.quantity \in 1..l.remaining

\* While prices are on their way there is a request in flight, not cancelled,
\* for the very items of the cart: the spinner of a page always has an end.
LoadingIsAsked ==
    page # "confirmation" /\ loading =>
        \E r \in requests : ~r.cancelled /\ r.key = Items(cart)

\* The amount a page shows is the answer to what was asked for the lines it
\* shows: an answer that arrives late or out of order is never taken for the
\* cart of another moment (index.tsx:156, cart.tsx:86).
AmountIsOfTheCart ==
    cart # {} /\ Shown \notin {None, Failed} => priced.of = Items(cart)

\* An order is never created for an amount other than the one the consumer had
\* in front when confirming, if there was one: what may change meanwhile, the
\* prices, the benefits, the dates, makes it fail instead.
ChargedAsShown ==
    \A o \in orders : o.seen \notin {None, Failed} => o.total = o.seen

\* What was put in the cart once is ordered once, unless the answer of an order
\* was lost or not waited for: there is nothing in the request that tells the
\* server it is the same.
OrderedOnce ==
    \A o, q \in orders : o # q => o.picks \cap q.picks \subseteq abandoned

\* What was ordered leaves the cart, again unless its answer was lost or is
\* still on its way.
OrderedLeavesTheCart ==
    \A o \in orders, l \in cart :
        l.pick \in o.picks =>
            l.pick \in abandoned
                \/ \E p \in posts : p.listening /\ l \in p.lines

\* The tab keeps the cart of the session signed in and no other.
OnlyOwnCart == \A s \in Sessions \ {session} : storage[s] = {}

\* A confirmation ends: in the confirmation page, in the error, or back in the
\* cart.
ConfirmSettles == form = "sending" ~> form # "sending"

\* The cart is that of whoever is signed in, with a line per dish and no more
\* meals than there were.
CartKept == OneLinePerDish /\ LinesWithinStock /\ OnlyOwnCart

\* The amount on show, or the spinner in its place, is of the lines on show,
\* whatever was asked before and in whatever order it was answered.
PricedAsAsked == LoadingIsAsked /\ AmountIsOfTheCart

\* What was put in the cart once is ordered once, and leaves it, unless the
\* answer was lost or not waited for.
OrderedOnceAndGone == OrderedOnce /\ OrderedLeavesTheCart
=============================================================================
