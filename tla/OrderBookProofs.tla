-------------------------- MODULE OrderBookProofs ---------------------------
(***************************************************************************)
(* What holds of the order book for any number of employees, dishes,       *)
(* orders, meals and days: its types, that no schedule is oversold, that   *)
(* an order that has a schedule does not outlive it, that the orders       *)
(* implement OrderLifecycle, and two promises about money: the stored      *)
(* amount of an account is explained at every moment, and a confirmed      *)
(* order keeps the quantity and price the provider accepted.               *)
(*                                                                         *)
(* Explained, of the amounts, needs no strengthening beyond the types, but *)
(* a step argument per way in which the charges of an account can change:  *)
(* a row of the account is written (then its callback, or the same         *)
(* transaction, recomputes it) or a day passes (then today's job will      *)
(* visit it).                                                              *)
(***************************************************************************)
EXTENDS OrderBook, FiniteSetTheorems, TLAPS

\* The meals and the charges of a set of orders are counted by finite sets.
LEMMA TokensFinite ==
    ASSUME NEW rows, DOMAIN rows \subseteq OrderIds
    PROVE  /\ \A s : IsFiniteSet(MealsOn(rows, s)) /\ Reserved(rows, s) \in Nat
           /\ \A day, a : IsFiniteSet(Charged(rows, day, a)) /\ Due(rows, day, a) \in Nat
<1>1. IsFiniteSet(DOMAIN rows)
  BY BoundsAssumption, FS_Subset
<1>2. IsFiniteSet(1..MaxUnits) /\ IsFiniteSet(1..MaxPrice)
  BY BoundsAssumption, FS_Interval
<1>3. IsFiniteSet((DOMAIN rows) \X (1..MaxUnits)) /\ IsFiniteSet((DOMAIN rows) \X (1..MaxPrice))
  BY <1>1, <1>2, FS_Product
<1>4. \A s : MealsOn(rows, s) \subseteq (DOMAIN rows) \X (1..MaxUnits)
  BY DEF MealsOn
<1>5. \A day, a : Charged(rows, day, a) \subseteq (DOMAIN rows) \X (1..MaxPrice)
  BY DEF Charged
<1> QED BY <1>3, <1>4, <1>5, FS_Subset, FS_CardinalityType DEF Reserved, Due

\* What makes a pair a meal, a charge.
LEMMA MealsMember ==
    ASSUME NEW rows, NEW s, NEW o, NEW i
    PROVE  <<o, i>> \in MealsOn(rows, s) <=>
              /\ o \in DOMAIN rows /\ i \in 1..MaxUnits
              /\ HoldsMeals(rows[o], s) /\ i <= rows[o].units
BY DEF MealsOn

\* A new order is a pending order on its dish, and so is every line of a cart.
LEMMA NewOrderType ==
    ASSUME NEW c \in Consumers, NEW s \in Schedules, NEW q \in 1..MaxUnits,
           NEW charge \in Charges(q)
    PROVE  /\ NewOrder(c, s, q, charge) \in Order
           /\ NewOrder(c, s, q, charge).status = "pending"
           /\ NewOrder(c, s, q, charge).linked
           /\ NewOrder(c, s, q, charge).dish = s
           /\ NewOrder(c, s, q, charge).units = q
           /\ NewOrder(c, s, q, charge).consumer = c
BY DEF NewOrder, Charges, Order, Statuses

LEMMA LinesType ==
    ASSUME NEW c \in Consumers, NEW row \in Lines(c)
    PROVE  row \in Order /\ row.status = "pending" /\ row.linked
<1>1. PICK s \in Schedules, q \in 1..MaxUnits : \E charge \in Charges(q) : row = NewOrder(c, s, q, charge)
  BY DEF Lines
<1> QED BY <1>1, NewOrderType

\* The rows a cart writes.
LEMMA CartType ==
    ASSUME NEW c \in Consumers, NEW ids \in SUBSET OrderIds, NEW cart \in Carts(c, ids)
    PROVE  /\ DOMAIN cart = ids
           /\ cart \in [ids -> Order]
           /\ \A o \in ids : cart[o].status = "pending" /\ cart[o].linked
BY LinesType DEF Carts

\* The two accounts of an order exist.
LEMMA AccountsOfType ==
    ASSUME NEW row \in Order
    PROVE  AccountsOf(row) \subseteq Accounts
BY OwnersAssumption, DishesAssumption, BoundsAssumption
   DEF AccountsOf, Accounts, Order, SellerOf, DeliveryDate, Months

LEMMA SyncedType ==
    ASSUME NEW rows, DOMAIN rows \subseteq OrderIds, NEW S,
           amount \in [Accounts -> Nat], today \in Days
    PROVE  Synced(rows, S) \in [Accounts -> Nat]
BY TokensFinite DEF Synced

\* Writing typed rows over typed rows.
LEMMA WriteType ==
    ASSUME NEW rows, NEW new, rows \in [DOMAIN rows -> Order], new \in [DOMAIN new -> Order]
    PROVE  /\ DOMAIN Write(rows, new) = DOMAIN rows \cup DOMAIN new
           /\ Write(rows, new) \in [DOMAIN Write(rows, new) -> Order]
BY DEF Write

LEMMA InsertType ==
    ASSUME NEW rows, NEW new, NEW row \in Order, rows \in [DOMAIN rows -> Order]
    PROVE  /\ DOMAIN Insert(rows, new, row) = DOMAIN rows \cup {new}
           /\ Insert(rows, new, row) \in [DOMAIN Insert(rows, new, row) -> Order]
           /\ Insert(rows, new, row)[new] = row
           /\ \A o \in DOMAIN rows \ {new} : Insert(rows, new, row)[o] = rows[o]
BY DEF Insert, Write

\* The part of the type that a change of the orders can disturb.
RowsOK == /\ DOMAIN orders \subseteq OrderIds
          /\ orders \in [DOMAIN orders -> Order]
          /\ owed \subseteq Accounts

LEMMA UpdateType ==
    ASSUME RowsOK, NEW o \in DOMAIN orders, NEW row \in Order, Update(o, row)
    PROVE  RowsOK' /\ DOMAIN orders' = DOMAIN orders
BY AccountsOfType DEF RowsOK, Update

LEMMA RejectAndUnlinkType ==
    ASSUME RowsOK, NEW ids \in SUBSET (DOMAIN orders), NEW removed, RejectAndUnlink(ids, removed)
    PROVE  RowsOK' /\ DOMAIN orders' = DOMAIN orders
<1>1. DOMAIN orders' = DOMAIN orders
  BY DEF RejectAndUnlink
<1>2. \A o \in DOMAIN orders : orders'[o] \in Order
  BY DEF RejectAndUnlink, RowsOK, Order, Statuses
<1>3. owed' \subseteq Accounts
  BY AccountsOfType DEF RejectAndUnlink, RowsOK
<1>4. orders' = [o \in DOMAIN orders |-> orders'[o]]
  BY DEF RejectAndUnlink
<1> QED BY <1>1, <1>2, <1>3, <1>4 DEF RowsOK

-----------------------------------------------------------------------------

LEMMA InitTypeOK == Init => TypeOK
<1> SUFFICES ASSUME Init PROVE TypeOK
  OBVIOUS
<1>1. orders \in [DOMAIN orders -> Order] /\ DOMAIN orders = {}
  BY DEF Init
<1>2. takedown \in Takedown /\ takedown.pending = {} /\ takedown.confirmed = {}
  BY DEF Init, NoTakedown, Takedown, Kinds
<1>3. today \in Days /\ amount \in [Accounts -> Nat]
  BY BoundsAssumption DEF Init, Days
<1> QED BY <1>1, <1>2, <1>3 DEF Init, TypeOK

LEMMA EmployeeTypeOK == TypeOK /\ Employee => TypeOK'
<1> SUFFICES ASSUME TypeOK, Employee PROVE TypeOK'
  OBVIOUS
<1>0. RowsOK
  BY DEF TypeOK, RowsOK
<1>1. CASE \E c \in Consumers, ids \in (SUBSET OrderIds) \ {{}} :
             \E cart \in Carts(c, ids) : PlaceCart(cart)
  <2>1. PICK c \in Consumers, ids \in SUBSET OrderIds : \E cart \in Carts(c, ids) : PlaceCart(cart)
    BY <1>1
  <2> PICK cart \in Carts(c, ids) : PlaceCart(cart)
    BY <2>1
  <2>0. PlaceCart(cart)
    OBVIOUS
  <2>2. DOMAIN cart = ids /\ cart \in [DOMAIN cart -> Order]
    BY CartType
  <2>3. orders' \in [DOMAIN orders' -> Order] /\ DOMAIN orders' = DOMAIN orders \cup ids
    BY <2>0, <2>2, WriteType DEF PlaceCart, TypeOK
  <2>4. amount' \in [Accounts -> Nat]
    BY <2>0, <2>3, SyncedType DEF PlaceCart, TypeOK
  <2> QED BY <2>0, <2>3, <2>4 DEF PlaceCart, TypeOK
<1>2. CASE \E o \in DOMAIN orders, q \in 1..MaxUnits : \E charge \in Charges(q) : ModifyPending(o, q, charge)
  <2>0. PICK o \in DOMAIN orders, q \in 1..MaxUnits : \E charge \in Charges(q) : ModifyPending(o, q, charge)
    BY <1>2
  <2>1. PICK charge \in Charges(q) : ModifyPending(o, q, charge)
    BY <2>0
  <2> DEFINE row == [orders[o] EXCEPT !.units = q, !.price = charge[1], !.share = charge[2]]
  <2>2. row \in Order
    <3>1. orders[o] \in Order /\ charge[1] \in 0..MaxPrice /\ charge[2] \in 0..MaxPrice
      BY DEF TypeOK, Charges
    <3> QED BY <3>1 DEF Order
  <2>3. RowsOK' /\ DOMAIN orders' = DOMAIN orders
    BY <1>0, <2>1, <2>2, UpdateType DEF ModifyPending
  <2> QED BY <2>1, <2>3 DEF ModifyPending, TypeOK, RowsOK
<1>3. ASSUME NEW o \in DOMAIN orders, NEW q \in 1..MaxUnits, NEW charge \in Charges(q)
      PROVE  NewOrder(orders[o].consumer, orders[o].dish, q, charge) \in Order
  <2>1. orders[o].consumer \in Consumers /\ orders[o].dish \in Schedules
    BY DEF TypeOK, Order
  <2> QED BY <2>1, NewOrderType
<1>4. CASE \E o \in DOMAIN orders, q \in 1..MaxUnits : \E charge \in Charges(q) :
             \E new \in OrderIds : AddUnits(o, new, q, charge)
  <2>0. PICK o \in DOMAIN orders, q \in 1..MaxUnits :
             \E charge \in Charges(q), new \in OrderIds : AddUnits(o, new, q, charge)
    BY <1>4
  <2>1. PICK charge \in Charges(q), new \in OrderIds : AddUnits(o, new, q, charge)
    BY <2>0
  <2>2. orders' \in [DOMAIN orders' -> Order] /\ DOMAIN orders' = DOMAIN orders \cup {new}
    BY <1>3, <2>1, InsertType DEF AddUnits, TypeOK
  <2>3. amount' \in [Accounts -> Nat]
    BY <2>1, <2>2, SyncedType DEF AddUnits, TypeOK
  <2> QED BY <2>1, <2>2, <2>3 DEF AddUnits, TypeOK
<1>5. CASE \E o \in DOMAIN orders, q \in 1..MaxUnits : \E charge \in Charges(q) :
             \E new \in OrderIds : ReplaceConfirmed(o, new, q, charge)
  <2>0. PICK o \in DOMAIN orders, q \in 1..MaxUnits :
             \E charge \in Charges(q), new \in OrderIds : ReplaceConfirmed(o, new, q, charge)
    BY <1>5
  <2>1. PICK charge \in Charges(q), new \in OrderIds : ReplaceConfirmed(o, new, q, charge)
    BY <2>0
  <2> DEFINE cancelled == [orders EXCEPT ![o].status = "cancelled"]
  <2>2. cancelled \in [DOMAIN cancelled -> Order] /\ DOMAIN cancelled = DOMAIN orders
    BY DEF TypeOK, Order, Statuses
  <2>3. orders' \in [DOMAIN orders' -> Order] /\ DOMAIN orders' = DOMAIN orders \cup {new}
    <3>1. orders' = Insert(cancelled, new, NewOrder(orders[o].consumer, orders[o].dish, q, charge))
      BY <2>1 DEF ReplaceConfirmed
    <3> DEFINE row == NewOrder(orders[o].consumer, orders[o].dish, q, charge)
    <3>2. row \in Order
      BY <1>3
    <3> HIDE DEF cancelled, row
    <3>3. /\ DOMAIN Insert(cancelled, new, row) = DOMAIN cancelled \cup {new}
          /\ Insert(cancelled, new, row) \in [DOMAIN Insert(cancelled, new, row) -> Order]
      BY <2>2, <3>2, InsertType
    <3> QED BY <2>2, <3>1, <3>3 DEF row
  <2>4. amount' \in [Accounts -> Nat]
    BY <2>1, <2>3, SyncedType DEF ReplaceConfirmed, TypeOK
  <2>5. owed' \subseteq Accounts
    BY <2>1, AccountsOfType DEF ReplaceConfirmed, TypeOK
  <2> QED BY <2>1, <2>3, <2>4, <2>5 DEF ReplaceConfirmed, TypeOK
<1>6. CASE \E o \in DOMAIN orders : Cancel(o)
  <2>1. PICK o \in DOMAIN orders : Cancel(o)
    BY <1>6
  <2>2. [orders[o] EXCEPT !.status = "cancelled"] \in Order
    BY DEF TypeOK, Order, Statuses
  <2>3. RowsOK' /\ DOMAIN orders' = DOMAIN orders
    BY <1>0, <2>1, <2>2, UpdateType DEF Cancel
  <2> QED BY <2>1, <2>3 DEF Cancel, TypeOK, RowsOK
<1> QED BY <1>1, <1>2, <1>4, <1>5, <1>6 DEF Employee

LEMMA ProviderTypeOK == TypeOK /\ Provider => TypeOK'
<1> SUFFICES ASSUME TypeOK, Provider PROVE TypeOK'
  OBVIOUS
<1>0. RowsOK
  BY DEF TypeOK, RowsOK
<1>1. ASSUME NEW o \in DOMAIN orders, Confirm(o) \/ Reject(o) PROVE TypeOK'
  <2>1. \A st \in Statuses : [orders[o] EXCEPT !.status = st] \in Order
    BY DEF TypeOK, Order
  <2>2. RowsOK' /\ DOMAIN orders' = DOMAIN orders
    BY <1>0, <1>1, <2>1, UpdateType DEF Confirm, Reject, Statuses
  <2> QED BY <1>1, <2>2 DEF Confirm, Reject, TypeOK, RowsOK
<1>2. ASSUME NEW p \in Providers, NEW date \in Days, NEW dishes \in SUBSET Schedules,
             Publish(p, date, dishes)
      PROVE  TypeOK'
  BY <1>2 DEF Publish, TypeOK
<1>3. ASSUME NEW s \in Schedules, NEW flag \in BOOLEAN, SetAvailability(s, flag) PROVE TypeOK'
  BY <1>3 DEF SetAvailability, TypeOK
<1>4. ASSUME NEW day \in Closable, CloseDay(day[1], day[2]) \/ ReopenDay(day[1], day[2])
      PROVE  TypeOK'
  <2>1. day = <<day[1], day[2]>> /\ day[1] \in Providers /\ day[2] \in Days
    BY BoundsAssumption
  <2> QED BY <1>4, <2>1 DEF CloseDay, ReopenDay, TypeOK
<1>5. ASSUME NEW p \in HasDeadline, MoveDeadline(p) PROVE TypeOK'
  BY <1>5 DEF MoveDeadline, TypeOK
<1>6. ASSUME NEW kind, NEW archives \in SUBSET Menus, NEW dishes \in SUBSET Schedules,
             Begin(kind, archives, dishes)
      PROVE  TypeOK'
  <2>1. takedown' \in Takedown /\ takedown'.pending \cup takedown'.confirmed \subseteq DOMAIN orders
    BY <1>6 DEF Begin, Takedown, Kinds, ReadOrders, TypeOK
  <2> QED BY <1>6, <2>1 DEF Begin, TypeOK
<1>7. ASSUME NEW s \in Schedules, BeginUnpublish(s) PROVE TypeOK'
  BY <1>6, <1>7 DEF BeginUnpublish
<1>8. ASSUME NEW m \in Menus, NEW kind \in TakedownKinds, BeginDelete(m, kind) PROVE TypeOK'
  <2>1. {s \in published : MenuOf[s] = m /\ DateOf[s] >= today} \in SUBSET Schedules
    BY DEF TypeOK
  <2> QED BY <1>6, <1>8, <2>1 DEF BeginDelete
<1>9. /\ NoTakedown \in Takedown /\ NoTakedown.pending = {} /\ NoTakedown.confirmed = {}
      /\ takedown.pending \in SUBSET (DOMAIN orders)
      /\ takedown.confirmed \in SUBSET (DOMAIN orders)
      /\ takedown.archives \in SUBSET Menus
  BY DEF NoTakedown, Takedown, Kinds, TypeOK
<1>10. CASE FinishUnpublish
  <2>1. RowsOK' /\ DOMAIN orders' = DOMAIN orders
    BY <1>0, <1>9, <1>10, RejectAndUnlinkType DEF FinishUnpublish
  <2> QED BY <1>9, <1>10, <2>1 DEF FinishUnpublish, TypeOK, RowsOK
<1>11. CASE FinishDelete
  <2>1. RowsOK' /\ DOMAIN orders' = DOMAIN orders
    BY <1>0, <1>9, <1>11, RejectAndUnlinkType DEF FinishDelete
  <2>2. available' \subseteq published' /\ published' \subseteq Schedules
    BY <1>11 DEF FinishDelete, TypeOK
  <2> QED BY <1>9, <1>11, <2>1, <2>2 DEF FinishDelete, TypeOK, RowsOK
<1>12. CASE AbortTakedown
  BY <1>9, <1>12 DEF AbortTakedown, TypeOK
<1> QED BY <1>1, <1>2, <1>3, <1>4, <1>5, <1>7, <1>8, <1>10, <1>11, <1>12 DEF Provider

LEMMA SystemTypeOK == TypeOK /\ (System \/ Midnight) => TypeOK'
<1> SUFFICES ASSUME TypeOK, System \/ Midnight PROVE TypeOK'
  OBVIOUS
<1>1. ASSUME NEW a \in Accounts, SyncAccount(a) PROVE TypeOK'
  <2>1. amount' \in [Accounts -> Nat]
    BY <1>1, SyncedType DEF SyncAccount, TypeOK
  <2> QED BY <1>1, <2>1 DEF SyncAccount, TypeOK
<1>2. CASE RunJob
  <2>1. Sweep(orders, today) \subseteq Accounts
    BY DEF Sweep
  <2> QED BY <1>2, <2>1 DEF RunJob, TypeOK
<1>3. ASSUME NEW p \in HasDeadline, PassDeadline(p) PROVE TypeOK'
  BY <1>3, BoundsAssumption DEF PassDeadline, TypeOK
<1>4. CASE Midnight
  <2>1. today' \in Days
    BY <1>4, BoundsAssumption DEF Midnight, TypeOK, Days
  <2> QED BY <1>4, <2>1 DEF Midnight, TypeOK
<1> QED BY <1>1, <1>2, <1>3, <1>4 DEF System

\* Every step, with or without the job, keeps the types.
LEMMA StepTypeOK == TypeOK /\ [Next \/ Midnight]_vars => TypeOK'
<1>1. TypeOK /\ UNCHANGED vars => TypeOK'
  BY DEF TypeOK, vars
<1> QED BY <1>1, EmployeeTypeOK, ProviderTypeOK, SystemTypeOK DEF Next, NextDay

\* Whatever the employees, the provider, the jobs and the clock do, the rows stay
\* well formed, only schedules that exist are available, and the orders a
\* takedown has read exist.
THEOREM TypeCorrect == Spec => []TypeOK
<1>1. TypeOK /\ [Next]_vars => TypeOK'
  BY StepTypeOK
<1> QED BY <1>1, InitTypeOK, PTL DEF Spec

-----------------------------------------------------------------------------
(* A schedule is never oversold.  The meals an order holds are pairs        *)
(* <<o, i>>, so the meals of a set of orders are counted by splitting it:   *)
(* into the rows there were and those a cart adds, or into one order and    *)
(* the rest.                                                                *)

\* The meals of the orders other than o.
Others(rows, o, s) == {meal \in MealsOn(rows, s) : meal[1] # o}

\* The meals of one order.
Share(row, s) == IF HoldsMeals(row, s) THEN row.units ELSE 0

LEMMA DisjointUnion ==
    ASSUME NEW S, IsFiniteSet(S), NEW T, IsFiniteSet(T), S \cap T = {}
    PROVE  Cardinality(S \cup T) = Cardinality(S) + Cardinality(T)
<1>1. Cardinality({}) = 0
  BY FS_EmptySet
<1>2. Cardinality(S \cup T) = Cardinality(S) + Cardinality(T) - Cardinality(S \cap T)
  BY FS_Union
<1>3. Cardinality(S) \in Nat /\ Cardinality(T) \in Nat
  BY FS_CardinalityType
<1>4. Cardinality(S \cap T) = 0
  BY <1>1
<1> QED BY <1>2, <1>3, <1>4

\* The meals on a schedule are those of one order and those of the others.
LEMMA ReservedSplit ==
    ASSUME NEW rows, DOMAIN rows \subseteq OrderIds, rows \in [DOMAIN rows -> Order],
           NEW o \in DOMAIN rows, NEW s
    PROVE  /\ Cardinality(Others(rows, o, s)) \in Nat
           /\ Reserved(rows, s) = Cardinality(Others(rows, o, s)) + Share(rows[o], s)
<1>1. IsFiniteSet(MealsOn(rows, s))
  BY TokensFinite
<1>2. IsFiniteSet(Others(rows, o, s)) /\ Cardinality(Others(rows, o, s)) \in Nat
  BY <1>1, FS_Subset, FS_CardinalityType DEF Others
<1>3. rows[o].units \in 1..MaxUnits /\ MaxUnits \in Nat
  BY BoundsAssumption DEF Order
<1>4. CASE HoldsMeals(rows[o], s)
  <2> DEFINE Own == {o} \X (1..rows[o].units)
  <2>1. IsFiniteSet(Own) /\ Cardinality(Own) = rows[o].units
    <3>1. IsFiniteSet({o}) /\ Cardinality({o}) = 1
      BY FS_Singleton
    <3>2. IsFiniteSet(1..rows[o].units) /\ Cardinality(1..rows[o].units) = rows[o].units
      <4>1. \A b \in Int : IsFiniteSet(1..b) /\ Cardinality(1..b) = IF 1 > b THEN 0 ELSE b - 1 + 1
        BY FS_Interval
      <4> QED BY <1>3, <4>1
    <3>3. IsFiniteSet(Own) /\ Cardinality(Own) = Cardinality({o}) * Cardinality(1..rows[o].units)
      BY <3>1, <3>2, FS_Product
    <3> QED BY <1>3, <3>1, <3>2, <3>3
  <2>2. MealsOn(rows, s) = Others(rows, o, s) \cup Own
    BY <1>3, <1>4 DEF MealsOn, Others
  <2>3. Others(rows, o, s) \cap Own = {}
    BY DEF Others
  <2> HIDE DEF Own
  <2>4. Cardinality(MealsOn(rows, s)) = Cardinality(Others(rows, o, s)) + Cardinality(Own)
    BY <1>2, <2>1, <2>2, <2>3, DisjointUnion
  <2> QED BY <1>2, <1>4, <2>1, <2>4 DEF Reserved, Share
<1>5. CASE ~HoldsMeals(rows[o], s)
  <2>1. MealsOn(rows, s) = Others(rows, o, s)
    BY <1>5 DEF MealsOn, Others
  <2> QED BY <1>2, <1>5, <2>1 DEF Reserved, Share
<1> QED BY <1>4, <1>5

\* Changing one row only changes its own meals.
LEMMA ReservedUpdate ==
    ASSUME NEW rows, DOMAIN rows \subseteq OrderIds, rows \in [DOMAIN rows -> Order],
           NEW o \in DOMAIN rows, NEW row \in Order, NEW s
    PROVE  Reserved([rows EXCEPT ![o] = row], s)
              = Reserved(rows, s) - Share(rows[o], s) + Share(row, s)
<1> DEFINE new == [rows EXCEPT ![o] = row]
<1>1. DOMAIN new = DOMAIN rows /\ new \in [DOMAIN new -> Order] /\ new[o] = row
  OBVIOUS
<1>2. Others(new, o, s) = Others(rows, o, s)
  BY DEF Others, MealsOn
<1>3. Share(row, s) \in Nat /\ Share(rows[o], s) \in Nat
  BY BoundsAssumption DEF Share, Order
<1> HIDE DEF new
<1>4. Reserved(new, s) = Cardinality(Others(new, o, s)) + Share(row, s)
  BY <1>1, ReservedSplit
<1>5. Reserved(rows, s) = Cardinality(Others(rows, o, s)) + Share(rows[o], s)
  BY ReservedSplit
<1>6. Cardinality(Others(rows, o, s)) \in Nat
  BY ReservedSplit
<1> QED BY <1>2, <1>3, <1>4, <1>5, <1>6 DEF new

\* A new row adds its own meals.
LEMMA ReservedInsert ==
    ASSUME NEW rows, DOMAIN rows \subseteq OrderIds, rows \in [DOMAIN rows -> Order],
           NEW o \in OrderIds \ DOMAIN rows, NEW row \in Order, NEW s
    PROVE  Reserved(Insert(rows, o, row), s) = Reserved(rows, s) + Share(row, s)
<1> DEFINE new == Insert(rows, o, row)
<1>1. DOMAIN new = DOMAIN rows \cup {o} /\ new \in [DOMAIN new -> Order] /\ new[o] = row
  <2>1. DOMAIN Insert(rows, o, row) = DOMAIN rows \cup {o} /\ Insert(rows, o, row)[o] = row
    BY DEF Insert, Write
  <2>2. Insert(rows, o, row) \in [DOMAIN Insert(rows, o, row) -> Order]
    BY InsertType
  <2> QED BY <2>1, <2>2
<1>2. \A x \in DOMAIN rows : new[x] = rows[x]
  <2>1. \A x \in DOMAIN rows \ {o} : Insert(rows, o, row)[x] = rows[x]
    BY DEF Insert, Write
  <2> QED BY <2>1
<1> HIDE DEF new
<1>3. Others(new, o, s) = MealsOn(rows, s)
  BY <1>1, <1>2 DEF Others, MealsOn
<1>4. Reserved(new, s) = Cardinality(Others(new, o, s)) + Share(row, s)
  BY <1>1, ReservedSplit
<1> QED BY <1>3, <1>4 DEF new, Reserved

\* The rows of a cart add theirs.
LEMMA ReservedWrite ==
    ASSUME NEW rows, DOMAIN rows \subseteq OrderIds, NEW cart, DOMAIN cart \subseteq OrderIds,
           DOMAIN cart \cap DOMAIN rows = {}, NEW s
    PROVE  Reserved(Write(rows, cart), s) = Reserved(rows, s) + Reserved(cart, s)
<1>1. MealsOn(Write(rows, cart), s) = MealsOn(rows, s) \cup MealsOn(cart, s)
  BY DEF MealsOn, Write
<1>2. MealsOn(rows, s) \cap MealsOn(cart, s) = {}
  BY DEF MealsOn
<1>3. IsFiniteSet(MealsOn(rows, s)) /\ IsFiniteSet(MealsOn(cart, s))
  BY TokensFinite
<1> QED BY <1>1, <1>2, <1>3, DisjointUnion DEF Reserved

\* Orders that are only closed or unlinked free meals.
LEMMA ReservedShrinks ==
    ASSUME NEW rows, DOMAIN rows \subseteq OrderIds, NEW new, DOMAIN new = DOMAIN rows, NEW s,
           \A o \in DOMAIN rows : /\ new[o].units = rows[o].units
                                  /\ HoldsMeals(new[o], s) => HoldsMeals(rows[o], s)
    PROVE  Reserved(new, s) <= Reserved(rows, s)
<1>1. MealsOn(new, s) \subseteq MealsOn(rows, s)
  BY DEF MealsOn
<1> QED BY <1>1, TokensFinite, FS_Subset DEF Reserved

-----------------------------------------------------------------------------

LEMMA MaxAmountType == MaxAmount \in Nat
BY SMT DEF MaxAmount

\* What fits what is left fits the stock.
LEMMA FitsStock ==
    ASSUME NEW rows, DOMAIN rows \subseteq OrderIds, NEW s \in Schedules \ Unlimited,
           Reserved(rows, s) <= Stock[s], NEW n \in Int, n <= Remaining(rows, s)
    PROVE  Reserved(rows, s) + n <= Stock[s]
<1>1. Reserved(rows, s) \in Nat /\ Stock[s] \in Nat
  BY TokensFinite, DishesAssumption
<1> QED BY <1>1 DEF Remaining

\* Every line of a cart holds meals, on its dish and no other.
LEMMA NewShare ==
    ASSUME NEW c \in Consumers, NEW d \in Schedules, NEW q \in 1..MaxUnits,
           NEW charge \in Charges(q), NEW s
    PROVE  Share(NewOrder(c, d, q, charge), s) = IF s = d THEN q ELSE 0
BY NewOrderType DEF Share, HoldsMeals, Active

\* Updating a row that then holds no more meals than before.
LEMMA ClosingKeepsStock ==
    ASSUME TypeOK, StockRespected, NEW o \in DOMAIN orders, NEW st \in Statuses,
           Active(orders[o]),
           Update(o, [orders[o] EXCEPT !.status = st])
    PROVE  StockRespected'
<1>1. DOMAIN orders' = DOMAIN orders /\ DOMAIN orders \subseteq OrderIds
  BY DEF Update, TypeOK
<1>2. \A x \in DOMAIN orders : \A s :
        /\ orders'[x].units = orders[x].units
        /\ HoldsMeals(orders'[x], s) => HoldsMeals(orders[x], s)
  BY DEF Update, TypeOK, Order, HoldsMeals
<1>3. \A s \in Schedules : /\ Reserved(orders', s) <= Reserved(orders, s)
                           /\ Reserved(orders', s) \in Nat /\ Reserved(orders, s) \in Nat
                           /\ Stock[s] \in Nat
  BY <1>1, <1>2, ReservedShrinks, TokensFinite, DishesAssumption
<1> QED BY <1>3 DEF StockRespected

LEMMA CartKeepsStock ==
    ASSUME TypeOK, StockRespected, NEW c \in Consumers, NEW ids \in SUBSET OrderIds,
           NEW cart \in Carts(c, ids), PlaceCart(cart)
    PROVE  StockRespected'
<1>1. DOMAIN cart = ids /\ cart \in [ids -> Order]
  BY CartType
<1>2. orders' = Write(orders, cart) /\ ids \cap DOMAIN orders = {} /\ DOMAIN orders \subseteq OrderIds
  BY <1>1 DEF PlaceCart, TypeOK
<1>3. ASSUME NEW s \in Schedules \ Unlimited
      PROVE  Reserved(orders', s) <= Stock[s]
  <2>1. Reserved(orders', s) = Reserved(orders, s) + Reserved(cart, s)
    BY <1>1, <1>2, ReservedWrite
  <2>2. Reserved(orders, s) <= Stock[s] /\ Reserved(orders, s) \in Nat /\ Reserved(cart, s) \in Nat
    BY <1>1, <1>2, TokensFinite DEF StockRespected
  <2>3. CASE \E o \in ids : cart[o].dish = s
    <3>1. Reserved(cart, s) <= Remaining(orders, s)
      BY <1>1, <2>3 DEF PlaceCart
    <3> QED BY <1>2, <2>1, <2>2, <3>1, FitsStock
  <2>4. CASE ~ \E o \in ids : cart[o].dish = s
    <3>1. MealsOn(cart, s) = {}
      BY <1>1, <2>4 DEF MealsOn, HoldsMeals
    <3>2. Reserved(cart, s) = 0
      BY <3>1, FS_EmptySet DEF Reserved
    <3> QED BY <2>1, <2>2, <3>2
  <2> QED BY <2>3, <2>4
<1> QED BY <1>3 DEF StockRespected

LEMMA ModifyKeepsStock ==
    ASSUME TypeOK, StockRespected, NEW o \in DOMAIN orders, NEW q \in 1..MaxUnits,
           NEW charge \in Charges(q), ModifyPending(o, q, charge)
    PROVE  StockRespected'
<1> DEFINE row == [orders[o] EXCEPT !.units = q, !.price = charge[1], !.share = charge[2]]
<1>1. /\ orders[o] \in Order /\ DOMAIN orders \subseteq OrderIds
      /\ orders \in [DOMAIN orders -> Order]
      /\ charge[1] \in 0..MaxPrice /\ charge[2] \in 0..MaxPrice
  BY DEF TypeOK, Charges
<1>2. row \in Order /\ row.units = q /\ \A s : HoldsMeals(row, s) <=> HoldsMeals(orders[o], s)
  BY <1>1 DEF Order, HoldsMeals, Active
<1>3. orders' = [orders EXCEPT ![o] = row]
  BY DEF ModifyPending, Update
<1>4. q - orders[o].units <= Remaining(orders, orders[o].dish)
      /\ q \in Int /\ orders[o].units \in Int
  BY <1>1 DEF ModifyPending, Order
<1> HIDE DEF row
<1>5. ASSUME NEW s \in Schedules \ Unlimited
      PROVE  Reserved(orders', s) <= Stock[s]
  <2>1. Reserved(orders', s) = Reserved(orders, s) - Share(orders[o], s) + Share(row, s)
    <3>1. Reserved([orders EXCEPT ![o] = row], s)
             = Reserved(orders, s) - Share(orders[o], s) + Share(row, s)
      BY <1>1, <1>2, ReservedUpdate
    <3> QED BY <1>3, <3>1
  <2>2. Reserved(orders, s) <= Stock[s] /\ Reserved(orders, s) \in Nat /\ Stock[s] \in Nat
    BY <1>1, TokensFinite, DishesAssumption DEF StockRespected
  <2>3. CASE HoldsMeals(orders[o], s)
    <3>1. s = orders[o].dish /\ Share(orders[o], s) = orders[o].units /\ Share(row, s) = q
      BY <1>2, <2>3 DEF Share, HoldsMeals
    <3>2. Reserved(orders, s) + (q - orders[o].units) <= Stock[s]
      BY <1>1, <1>4, <2>2, <3>1, FitsStock
    <3> QED BY <1>4, <2>1, <2>2, <3>1, <3>2
  <2>4. CASE ~HoldsMeals(orders[o], s)
    <3>1. Share(orders[o], s) = 0 /\ Share(row, s) = 0
      BY <1>2, <2>4 DEF Share
    <3> QED BY <2>1, <2>2, <3>1
  <2> QED BY <2>3, <2>4
<1> QED BY <1>5 DEF StockRespected

\* A new order for what is left.
LEMMA InsertKeepsStock ==
    ASSUME NEW rows, DOMAIN rows \subseteq OrderIds, rows \in [DOMAIN rows -> Order],
           \A s \in Schedules \ Unlimited : Reserved(rows, s) <= Stock[s],
           NEW new \in OrderIds \ DOMAIN rows,
           NEW c \in Consumers, NEW d \in Schedules, NEW q \in 1..MaxUnits,
           NEW charge \in Charges(q), q <= Remaining(rows, d)
    PROVE  \A s \in Schedules \ Unlimited :
              Reserved(Insert(rows, new, NewOrder(c, d, q, charge)), s) <= Stock[s]
<1> DEFINE row == NewOrder(c, d, q, charge)
<1>1. row \in Order /\ \A s : Share(row, s) = IF s = d THEN q ELSE 0
  BY NewOrderType, NewShare
<1>2. q \in Int
  BY BoundsAssumption
<1> HIDE DEF row
<1>3. ASSUME NEW s \in Schedules \ Unlimited
      PROVE  Reserved(Insert(rows, new, row), s) <= Stock[s]
  <2>1. Reserved(Insert(rows, new, row), s) = Reserved(rows, s) + Share(row, s)
    BY <1>1, ReservedInsert
  <2>2. Reserved(rows, s) <= Stock[s] /\ Reserved(rows, s) \in Nat
    BY TokensFinite
  <2>3. CASE s = d
    BY <1>1, <1>2, <2>1, <2>2, <2>3, FitsStock
  <2>4. CASE s # d
    BY <1>1, <2>1, <2>2, <2>4
  <2> QED BY <2>3, <2>4
<1> QED BY <1>3 DEF row

LEMMA AddUnitsKeepsStock ==
    ASSUME TypeOK, StockRespected, NEW o \in DOMAIN orders, NEW new \in OrderIds,
           NEW q \in 1..MaxUnits, NEW charge \in Charges(q), AddUnits(o, new, q, charge)
    PROVE  StockRespected'
<1>1. orders[o].consumer \in Consumers /\ orders[o].dish \in Schedules
  BY DEF TypeOK, Order
<1>2. /\ DOMAIN orders \subseteq OrderIds /\ orders \in [DOMAIN orders -> Order]
      /\ \A s \in Schedules \ Unlimited : Reserved(orders, s) <= Stock[s]
  BY DEF TypeOK, StockRespected
<1>3. /\ new \in OrderIds \ DOMAIN orders /\ q <= Remaining(orders, orders[o].dish)
      /\ orders' = Insert(orders, new, NewOrder(orders[o].consumer, orders[o].dish, q, charge))
  <2>1. Remaining(orders, orders[o].dish) \in Int
    BY <1>1, <1>2, TokensFinite, DishesAssumption, MaxAmountType DEF Remaining
  <2> QED BY <2>1 DEF AddUnits
<1>4. \A s \in Schedules \ Unlimited :
         Reserved(Insert(orders, new, NewOrder(orders[o].consumer, orders[o].dish, q, charge)), s) <= Stock[s]
  BY <1>1, <1>2, <1>3, InsertKeepsStock
<1> QED BY <1>3, <1>4 DEF StockRespected

LEMMA ReplaceKeepsStock ==
    ASSUME TypeOK, StockRespected, NEW o \in DOMAIN orders, NEW new \in OrderIds,
           NEW q \in 1..MaxUnits, NEW charge \in Charges(q), ReplaceConfirmed(o, new, q, charge)
    PROVE  StockRespected'
<1> DEFINE cancelled == [orders EXCEPT ![o].status = "cancelled"]
<1>1. orders[o].consumer \in Consumers /\ orders[o].dish \in Schedules
  BY DEF TypeOK, Order
<1>2. /\ DOMAIN cancelled = DOMAIN orders /\ DOMAIN orders \subseteq OrderIds
      /\ cancelled \in [DOMAIN cancelled -> Order]
  BY DEF TypeOK, Order, Statuses
<1>3. \A x \in DOMAIN orders : \A s :
        /\ cancelled[x].units = orders[x].units
        /\ HoldsMeals(cancelled[x], s) => HoldsMeals(orders[x], s)
  BY DEF TypeOK, Order, HoldsMeals, Active
<1>4. /\ new \in OrderIds \ DOMAIN orders /\ q <= Remaining(cancelled, orders[o].dish)
      /\ orders' = Insert(cancelled, new, NewOrder(orders[o].consumer, orders[o].dish, q, charge))
  BY DEF ReplaceConfirmed
<1> HIDE DEF cancelled
<1>5. \A s \in Schedules \ Unlimited : Reserved(cancelled, s) <= Stock[s]
  <2>1. \A s : /\ Reserved(cancelled, s) <= Reserved(orders, s)
               /\ Reserved(cancelled, s) \in Nat /\ Reserved(orders, s) \in Nat
    BY <1>2, <1>3, ReservedShrinks, TokensFinite
  <2> QED BY <2>1, DishesAssumption DEF StockRespected
<1>6. \A s \in Schedules \ Unlimited :
         Reserved(Insert(cancelled, new, NewOrder(orders[o].consumer, orders[o].dish, q, charge)), s) <= Stock[s]
  BY <1>1, <1>2, <1>4, <1>5, InsertKeepsStock
<1> QED BY <1>4, <1>6 DEF StockRespected

LEMMA TakedownKeepsStock ==
    ASSUME TypeOK, StockRespected, NEW ids, NEW removed, RejectAndUnlink(ids, removed)
    PROVE  StockRespected'
<1>1. DOMAIN orders' = DOMAIN orders /\ DOMAIN orders \subseteq OrderIds
  BY DEF RejectAndUnlink, TypeOK
<1>2. \A x \in DOMAIN orders : \A s :
        /\ orders'[x].units = orders[x].units
        /\ HoldsMeals(orders'[x], s) => HoldsMeals(orders[x], s)
  <2>1. ASSUME NEW x \in DOMAIN orders
        PROVE  /\ orders'[x].units = orders[x].units /\ orders'[x].dish = orders[x].dish
               /\ orders'[x].linked => orders[x].linked
               /\ orders'[x].status \in {"rejected", orders[x].status}
    <3>1. orders[x] \in Order
      BY DEF TypeOK
    <3> QED BY <3>1 DEF RejectAndUnlink, Order
  <2> QED BY <2>1 DEF HoldsMeals, Active
<1>3. \A s : /\ Reserved(orders', s) <= Reserved(orders, s)
             /\ Reserved(orders', s) \in Nat /\ Reserved(orders, s) \in Nat
  BY <1>1, <1>2, ReservedShrinks, TokensFinite
<1> QED BY <1>3, DishesAssumption DEF StockRespected

LEMMA StepKeepsStock == TypeOK /\ StockRespected /\ [Next]_vars => StockRespected'
<1> SUFFICES ASSUME TypeOK, StockRespected, [Next]_vars PROVE StockRespected'
  OBVIOUS
<1>1. CASE UNCHANGED orders
  BY <1>1 DEF StockRespected, Reserved, MealsOn
<1>2. CASE Employee
  <2>1. CASE \E c \in Consumers, ids \in (SUBSET OrderIds) \ {{}} :
               \E cart \in Carts(c, ids) : PlaceCart(cart)
    BY <2>1, CartKeepsStock
  <2>2. ASSUME NEW o \in DOMAIN orders, NEW q \in 1..MaxUnits, NEW charge \in Charges(q),
               \/ ModifyPending(o, q, charge)
               \/ \E new \in OrderIds : AddUnits(o, new, q, charge) \/ ReplaceConfirmed(o, new, q, charge)
        PROVE  StockRespected'
    BY <2>2, ModifyKeepsStock, AddUnitsKeepsStock, ReplaceKeepsStock
  <2>3. ASSUME NEW o \in DOMAIN orders, Cancel(o) PROVE StockRespected'
    BY <2>3, ClosingKeepsStock DEF Cancel, Cancellable, Statuses
  <2> QED BY <1>2, <2>1, <2>2, <2>3 DEF Employee
<1>3. CASE Provider
  <2>1. ASSUME NEW o \in DOMAIN orders, Confirm(o) \/ Reject(o) PROVE StockRespected'
    BY <2>1, ClosingKeepsStock DEF Confirm, Reject, Rejectable, Active, Statuses
  <2>2. CASE FinishUnpublish \/ FinishDelete
    BY <2>2, TakedownKeepsStock DEF FinishUnpublish, FinishDelete
  <2> QED BY <1>1, <1>3, <2>1, <2>2
      DEF Provider, Publish, SetAvailability, CloseDay, ReopenDay, MoveDeadline,
          BeginUnpublish, BeginDelete, Begin, AbortTakedown
<1>4. CASE System \/ NextDay
  BY <1>1, <1>4 DEF System, SyncAccount, RunJob, PassDeadline, NextDay, Midnight
<1> QED BY <1>1, <1>2, <1>3, <1>4 DEF Next, vars

\* The pending and confirmed orders of a dish never hold more meals than its
\* stock (order.rb:158-171, 303-310), for every stock, cart, modification,
\* replacement and takedown.
THEOREM StockNeverOversold == Spec => []StockRespected
<1>1. Init => StockRespected
  <2> SUFFICES ASSUME Init, NEW s \in Schedules \ Unlimited PROVE Reserved(orders, s) <= Stock[s]
    BY DEF StockRespected
  <2>1. MealsOn(orders, s) = {}
    BY DEF Init, MealsOn
  <2>2. Reserved(orders, s) = 0
    BY <2>1, FS_EmptySet DEF Reserved
  <2> QED BY <2>2, DishesAssumption
<1> QED BY <1>1, StepKeepsStock, TypeCorrect, PTL DEF Spec

-----------------------------------------------------------------------------
(* The life of an order.  The only steps that close orders without looking  *)
(* at their date are the ends of a takedown.  What keeps them away from     *)
(* settled orders is what the takedown read at its start (SnapshotOK): only *)
(* orders of the dishes it removes, all of them of today or later, with no  *)
(* midnight in between.                                                     *)

SnapshotOK ==
    /\ takedown.kind = "none" => takedown.dishes = {}
    /\ \A s \in takedown.dishes : DateOf[s] >= today
    /\ \A o \in takedown.pending \cup takedown.confirmed : orders[o].dish \in takedown.dishes

\* No step moves an order to another dish.
LEMMA DishNeverChanges ==
    ASSUME TypeOK, [Next]_vars
    PROVE  DOMAIN orders \subseteq DOMAIN orders'
           /\ \A o \in DOMAIN orders : orders'[o].dish = orders[o].dish
<1> DEFINE Kept == DOMAIN orders \subseteq DOMAIN orders'
                   /\ \A o \in DOMAIN orders : orders'[o].dish = orders[o].dish
<1>0. orders \in [DOMAIN orders -> Order]
  BY DEF TypeOK
<1>1. ASSUME NEW o \in DOMAIN orders, NEW row, row.dish = orders[o].dish, Update(o, row)
      PROVE  Kept
  BY <1>0, <1>1 DEF Update
<1>2. CASE Employee
  <2>1. ASSUME NEW c \in Consumers, NEW ids \in SUBSET OrderIds, NEW cart \in Carts(c, ids),
               PlaceCart(cart)
        PROVE  Kept
    BY <2>1 DEF PlaceCart, Write
  <2>2. ASSUME NEW o \in DOMAIN orders, NEW q \in 1..MaxUnits, NEW charge \in Charges(q),
               ModifyPending(o, q, charge)
        PROVE  Kept
    BY <1>0, <1>1, <2>2 DEF ModifyPending, Order
  <2>3. ASSUME NEW o \in DOMAIN orders, NEW new \in OrderIds,
               NEW q \in 1..MaxUnits, NEW charge \in Charges(q), AddUnits(o, new, q, charge)
        PROVE  Kept
    BY <2>3 DEF AddUnits, Insert, Write
  <2>4. ASSUME NEW o \in DOMAIN orders, NEW new \in OrderIds,
               NEW q \in 1..MaxUnits, NEW charge \in Charges(q), ReplaceConfirmed(o, new, q, charge)
        PROVE  Kept
    <3> DEFINE old == [orders EXCEPT ![o].status = "cancelled"]
    <3>1. DOMAIN old = DOMAIN orders /\ \A x \in DOMAIN orders : old[x].dish = orders[x].dish
      BY <1>0 DEF Order
    <3>2. DOMAIN orders \subseteq DOMAIN orders' /\ \A x \in DOMAIN orders : orders'[x] = old[x]
      BY <2>4, <3>1 DEF ReplaceConfirmed, Insert, Write
    <3> HIDE DEF old
    <3> QED BY <3>1, <3>2
  <2>5. ASSUME NEW o \in DOMAIN orders, Cancel(o) PROVE Kept
    BY <1>0, <1>1, <2>5 DEF Cancel, Order
  <2> QED BY <1>2, <2>1, <2>2, <2>3, <2>4, <2>5 DEF Employee
<1>3. CASE Provider
  <2>1. ASSUME NEW o \in DOMAIN orders, Confirm(o) \/ Reject(o) PROVE Kept
    BY <1>0, <1>1, <2>1 DEF Confirm, Reject, Order
  <2>2. ASSUME NEW ids, NEW removed, RejectAndUnlink(ids, removed) PROVE Kept
    BY <1>0, <2>2 DEF RejectAndUnlink, Order
  <2> QED BY <1>3, <2>1, <2>2
      DEF Provider, Publish, SetAvailability, CloseDay, ReopenDay, MoveDeadline,
          BeginUnpublish, BeginDelete, Begin, FinishUnpublish, FinishDelete, AbortTakedown
<1>4. CASE System \/ NextDay \/ UNCHANGED vars
  BY <1>4 DEF System, SyncAccount, RunJob, PassDeadline, NextDay, Midnight, vars
<1> QED BY <1>2, <1>3, <1>4 DEF Next

LEMMA SnapshotInvariant == Spec => []SnapshotOK
<1>1. Init => SnapshotOK
  BY DEF Init, NoTakedown, SnapshotOK
<1>2. TypeOK /\ SnapshotOK /\ [Next]_vars => SnapshotOK'
  <2> SUFFICES ASSUME TypeOK, SnapshotOK, [Next]_vars PROVE SnapshotOK'
    OBVIOUS
  <2>1. CASE takedown' = NoTakedown
    BY <2>1 DEF SnapshotOK, NoTakedown
  <2>2. CASE takedown' = takedown /\ today' = today
    <3>1. takedown.pending \cup takedown.confirmed \subseteq DOMAIN orders
      BY DEF TypeOK
    <3> QED BY <2>2, <3>1, DishNeverChanges DEF SnapshotOK
  <2>3. ASSUME NEW s \in Schedules, BeginUnpublish(s) PROVE SnapshotOK'
    BY <2>3 DEF BeginUnpublish, Begin, ReadOrders, SnapshotOK
  <2>4. ASSUME NEW m \in Menus, NEW kind \in TakedownKinds, BeginDelete(m, kind) PROVE SnapshotOK'
    <3> DEFINE dishes == {s \in published : MenuOf[s] = m /\ DateOf[s] >= today}
    <3>1. kind # "none"
      BY BoundsAssumption
    <3>2. /\ takedown'.kind = kind /\ takedown'.dishes = dishes /\ today' = today
          /\ orders' = orders
          /\ takedown'.pending = ReadOrders("pending", dishes)
          /\ takedown'.confirmed = ReadOrders("confirmed", dishes)
      BY <2>4 DEF BeginDelete, Begin
    <3> QED BY <3>1, <3>2 DEF ReadOrders, SnapshotOK
  <2>5. CASE NextDay
    BY <2>5 DEF NextDay, Midnight, SnapshotOK
  <2>6. CASE Employee
    <3> DEFINE Same == takedown' = takedown /\ today' = today
    <3>1. \A cart : PlaceCart(cart) => Same
      BY DEF PlaceCart
    <3>2. \A o, q, charge : ModifyPending(o, q, charge) => Same
      BY DEF ModifyPending
    <3>3. \A o, new, q, charge : AddUnits(o, new, q, charge) => Same
      BY DEF AddUnits
    <3>4. \A o, new, q, charge : ReplaceConfirmed(o, new, q, charge) => Same
      BY DEF ReplaceConfirmed
    <3>5. \A o : Cancel(o) => Same
      BY DEF Cancel
    <3> HIDE DEF Same
    <3>6. Same
      BY <2>6, <3>1, <3>2, <3>3, <3>4, <3>5 DEF Employee
    <3> QED BY <2>2, <3>6 DEF Same
  <2>7. CASE Provider
    BY <2>1, <2>2, <2>3, <2>4, <2>7
       DEF Provider, Confirm, Reject, Publish, SetAvailability, CloseDay, ReopenDay,
           MoveDeadline, FinishUnpublish, FinishDelete, AbortTakedown
  <2>8. CASE System \/ UNCHANGED vars
    BY <2>2, <2>8 DEF System, SyncAccount, RunJob, PassDeadline, vars
  <2> QED BY <2>5, <2>6, <2>7, <2>8 DEF Next
<1> QED BY <1>1, <1>2, TypeCorrect, PTL DEF Spec

-----------------------------------------------------------------------------

\* No order keeps the id of a schedule that no longer exists: what Schedule's
\* dependent: :nullify and the checks of available? promise together
\* (schedule.rb:11, 43-45), whatever was ordered while the dish went down.
THEOREM NoDanglingSchedule == Spec => []LinkedToPublished
<1>1. Init => LinkedToPublished
  BY DEF Init, LinkedToPublished
<1>2. TypeOK /\ LinkedToPublished /\ [Next]_vars => LinkedToPublished'
  <2> SUFFICES ASSUME TypeOK, LinkedToPublished, [Next]_vars PROVE LinkedToPublished'
    OBVIOUS
  <2>0. orders \in [DOMAIN orders -> Order]
    BY DEF TypeOK
  <2>1. CASE orders' = orders /\ published \subseteq published'
    BY <2>1 DEF LinkedToPublished
  <2>2. ASSUME NEW o \in DOMAIN orders, NEW row, row.dish = orders[o].dish, Update(o, row),
               published' = published
        PROVE  LinkedToPublished'
    BY <2>0, <2>2 DEF Update, LinkedToPublished
  <2>3. CASE Employee
    <3>1. ASSUME NEW c \in Consumers, NEW ids \in SUBSET OrderIds, NEW cart \in Carts(c, ids),
                 PlaceCart(cart)
          PROVE  LinkedToPublished'
      BY <3>1 DEF PlaceCart, Write, TakesOrders, LinkedToPublished
    <3>2. ASSUME NEW o \in DOMAIN orders, NEW q \in 1..MaxUnits, NEW charge \in Charges(q),
                 ModifyPending(o, q, charge)
          PROVE  LinkedToPublished'
      BY <2>0, <2>2, <3>2 DEF ModifyPending, Order
    <3>3. ASSUME NEW o \in DOMAIN orders, NEW new \in OrderIds,
                 NEW q \in 1..MaxUnits, NEW charge \in Charges(q), AddUnits(o, new, q, charge)
          PROVE  LinkedToPublished'
      BY <3>3 DEF AddUnits, Insert, Write, NewOrder, TakesOrders, LinkedToPublished
    <3>4. ASSUME NEW o \in DOMAIN orders, NEW new \in OrderIds,
                 NEW q \in 1..MaxUnits, NEW charge \in Charges(q), ReplaceConfirmed(o, new, q, charge)
          PROVE  LinkedToPublished'
      <4> DEFINE old == [orders EXCEPT ![o].status = "cancelled"]
                 row == NewOrder(orders[o].consumer, orders[o].dish, q, charge)
      <4>1. /\ DOMAIN old = DOMAIN orders
            /\ \A x \in DOMAIN orders : old[x].dish = orders[x].dish /\ old[x].linked = orders[x].linked
        BY <2>0 DEF Order
      <4>2. row.dish = orders[o].dish
        BY DEF NewOrder
      <4>3. orders' = Insert(old, new, row) /\ published' = published /\ orders[o].dish \in published
        BY <3>4 DEF ReplaceConfirmed, TakesOrders
      <4> HIDE DEF old, row
      <4> QED BY <4>1, <4>2, <4>3 DEF Insert, Write, LinkedToPublished
    <3>5. ASSUME NEW o \in DOMAIN orders, Cancel(o) PROVE LinkedToPublished'
      BY <2>0, <2>2, <3>5 DEF Cancel, Order
    <3> QED BY <2>3, <3>1, <3>2, <3>3, <3>4, <3>5 DEF Employee
  <2>4. CASE Provider
    <3>1. ASSUME NEW o \in DOMAIN orders, Confirm(o) \/ Reject(o) PROVE LinkedToPublished'
      BY <2>0, <2>2, <3>1 DEF Confirm, Reject, Order
    <3>2. ASSUME NEW ids, NEW removed, RejectAndUnlink(ids, removed),
                 published' = published \ removed
          PROVE  LinkedToPublished'
      BY <2>0, <3>2 DEF RejectAndUnlink, Order, LinkedToPublished
    <3> QED BY <2>1, <2>4, <3>1, <3>2
        DEF Provider, Publish, SetAvailability, CloseDay, ReopenDay, MoveDeadline,
            BeginUnpublish, BeginDelete, Begin, FinishUnpublish, FinishDelete, AbortTakedown
  <2>5. CASE System \/ NextDay \/ UNCHANGED vars
    BY <2>1, <2>5 DEF System, SyncAccount, RunJob, PassDeadline, NextDay, Midnight, vars
  <2> QED BY <2>3, <2>4, <2>5 DEF Next
<1> QED BY <1>1, <1>2, TypeCorrect, PTL DEF Spec

-----------------------------------------------------------------------------

\* A step in which no order is placed, decided or delivered is invisible.
LEMMA Invisible ==
    ASSUME TypeOK, DOMAIN orders' = DOMAIN orders, today' = today,
           \A o \in DOMAIN orders : /\ orders'[o].status = orders[o].status
                                    /\ orders'[o].dish = orders[o].dish
    PROVE  StatusOf' = StatusOf /\ SettledOrders' = SettledOrders
BY DEF StatusOf, SettledOrders, DeliveryDate

\* Statuses decide what an order's lifecycle shows.
LEMMA StatusValue ==
    ASSUME TypeOK, NEW o \in DOMAIN orders
    PROVE  o \in OrderIds /\ StatusOf[o] = orders[o].status
BY DEF TypeOK, StatusOf

\* Inserting orders that are not there yet places them.
LEMMA PlacesOrders ==
    ASSUME TypeOK, NEW placed \in SUBSET OrderIds, placed \cap DOMAIN orders = {},
           today' = today,
           DOMAIN orders' = DOMAIN orders \cup placed,
           \A o \in placed : orders'[o].status = "pending",
           \A o \in DOMAIN orders : orders'[o] = orders[o]
    PROVE  Lifecycle!Place(placed)
<1>1. \A o \in placed : StatusOf[o] = "none"
  BY DEF StatusOf
<1>2. StatusOf' = [o \in OrderIds |-> IF o \in placed THEN "pending" ELSE StatusOf[o]]
  BY DEF StatusOf
<1>3. SettledOrders' = SettledOrders
  BY DEF SettledOrders, DeliveryDate
<1> QED BY <1>1, <1>2, <1>3 DEF Lifecycle!Place

\* Closing some open orders.
LEMMA ClosesOrders ==
    ASSUME TypeOK, NEW ids \in SUBSET (DOMAIN orders), NEW st \in {"cancelled", "rejected"},
           \A o \in ids : Active(orders[o]) /\ o \notin SettledOrders,
           today' = today, DOMAIN orders' = DOMAIN orders,
           \A o \in DOMAIN orders :
              /\ orders'[o].status = IF o \in ids THEN st ELSE orders[o].status
              /\ orders'[o].dish = orders[o].dish
    PROVE  /\ \A o \in ids : Lifecycle!Open(o)
           /\ StatusOf' = [o \in OrderIds |-> IF o \in ids THEN st ELSE StatusOf[o]]
           /\ SettledOrders' = SettledOrders
<1>1. \A o \in ids : Lifecycle!Open(o)
  BY StatusValue DEF Lifecycle!Open, Active
<1>2. StatusOf' = [o \in OrderIds |-> IF o \in ids THEN st ELSE StatusOf[o]]
  BY DEF StatusOf, TypeOK
<1>3. SettledOrders' = SettledOrders
  BY DEF SettledOrders, DeliveryDate
<1> QED BY <1>1, <1>2, <1>3

\* A row updated in its own transaction to status st.
LEMMA UpdateEffect ==
    ASSUME TypeOK, NEW o \in DOMAIN orders, NEW row, row.dish = orders[o].dish, Update(o, row)
    PROVE  /\ DOMAIN orders' = DOMAIN orders
           /\ \A x \in DOMAIN orders :
                 /\ orders'[x].status = IF x = o THEN row.status ELSE orders[x].status
                 /\ orders'[x].dish = orders[x].dish
BY DEF Update, TypeOK

LEMMA EmployeeRefines ==
    ASSUME TypeOK, Employee
    PROVE  Lifecycle!Next \/ (StatusOf' = StatusOf /\ SettledOrders' = SettledOrders)
<1>0. orders \in [DOMAIN orders -> Order] /\ DOMAIN orders \subseteq OrderIds
  BY DEF TypeOK
<1>1. ASSUME NEW c \in Consumers, NEW ids \in SUBSET OrderIds, NEW cart \in Carts(c, ids),
             PlaceCart(cart)
      PROVE  Lifecycle!Next
  <2>1. /\ ids \cap DOMAIN orders = {} /\ today' = today
        /\ DOMAIN orders' = DOMAIN orders \cup ids
        /\ \A o \in ids : orders'[o].status = "pending"
        /\ \A o \in DOMAIN orders : orders'[o] = orders[o]
    BY <1>1, CartType DEF PlaceCart, Write
  <2> QED BY <2>1, PlacesOrders DEF Lifecycle!Next
<1>2. ASSUME NEW o \in DOMAIN orders, NEW q \in 1..MaxUnits, NEW charge \in Charges(q),
             ModifyPending(o, q, charge)
      PROVE  StatusOf' = StatusOf /\ SettledOrders' = SettledOrders
  <2> DEFINE row == [orders[o] EXCEPT !.units = q, !.price = charge[1], !.share = charge[2]]
  <2>1. Update(o, row) /\ today' = today
    BY <1>2 DEF ModifyPending
  <2>2. row.dish = orders[o].dish /\ row.status = orders[o].status
    BY <1>0 DEF Order
  <2> HIDE DEF row
  <2> QED BY <2>1, <2>2, UpdateEffect, Invisible
<1>3. ASSUME NEW o \in DOMAIN orders, NEW new \in OrderIds,
             NEW q \in 1..MaxUnits, NEW charge \in Charges(q), AddUnits(o, new, q, charge)
      PROVE  Lifecycle!Next
  <2>1. /\ {new} \cap DOMAIN orders = {} /\ today' = today
        /\ DOMAIN orders' = DOMAIN orders \cup {new}
        /\ \A x \in {new} : orders'[x].status = "pending"
        /\ \A x \in DOMAIN orders : orders'[x] = orders[x]
    BY <1>3 DEF AddUnits, Insert, Write, NewOrder
  <2> QED BY <2>1, PlacesOrders DEF Lifecycle!Next
<1>4. ASSUME NEW o \in DOMAIN orders, NEW new \in OrderIds,
             NEW q \in 1..MaxUnits, NEW charge \in Charges(q), ReplaceConfirmed(o, new, q, charge)
      PROVE  Lifecycle!Next
  <2> DEFINE old == [orders EXCEPT ![o].status = "cancelled"]
             row == NewOrder(orders[o].consumer, orders[o].dish, q, charge)
  <2>1. /\ DOMAIN old = DOMAIN orders /\ old[o].status = "cancelled"
        /\ old[o].dish = orders[o].dish
        /\ \A x \in DOMAIN orders \ {o} : old[x] = orders[x]
    BY <1>0 DEF Order
  <2>2. orders[o].status = "confirmed" /\ new \notin DOMAIN orders /\ today' = today
        /\ orders' = Insert(old, new, row)
    BY <1>4 DEF ReplaceConfirmed
  <2>3. row.status = "pending"
    BY DEF NewOrder
  <2>4. DeliveryDate(orders[o]) \in Int /\ today \in Int
    BY <1>0, DishesAssumption, BoundsAssumption DEF DeliveryDate, Order, Days, TypeOK
  <2>5. o \notin SettledOrders
    BY <1>4, <2>2, <2>4 DEF ReplaceConfirmed, Modifiable, SettledOrders
  <2> HIDE DEF old, row
  <2>6. /\ DOMAIN orders' = DOMAIN orders \cup {new} /\ orders'[new].status = "pending"
        /\ \A x \in DOMAIN orders : orders'[x] = old[x]
    BY <2>1, <2>2, <2>3 DEF Insert, Write
  <2>7. StatusOf' = [StatusOf EXCEPT ![o] = "cancelled", ![new] = "pending"]
    BY <1>0, <2>1, <2>2, <2>6 DEF StatusOf
  <2>8. SettledOrders' = SettledOrders
    BY <2>1, <2>2, <2>5, <2>6 DEF SettledOrders, DeliveryDate
  <2>9. Lifecycle!Exchange(o, new)
    BY <2>2, <2>5, <2>7, <2>8, StatusValue DEF Lifecycle!Exchange, Lifecycle!Open, StatusOf
  <2> QED BY <1>0, <2>9 DEF Lifecycle!Next
<1>5. ASSUME NEW o \in DOMAIN orders, Cancel(o)
      PROVE  Lifecycle!Next
  <2> DEFINE row == [orders[o] EXCEPT !.status = "cancelled"]
  <2>1. Update(o, row) /\ today' = today /\ Cancellable(orders[o])
    BY <1>5 DEF Cancel
  <2>2. row.dish = orders[o].dish /\ row.status = "cancelled"
    BY <1>0 DEF Order
  <2>3. DeliveryDate(orders[o]) \in Int /\ today \in Int
    BY <1>0, DishesAssumption, BoundsAssumption DEF DeliveryDate, Order, Days, TypeOK
  <2>4. Active(orders[o]) /\ o \notin SettledOrders
    BY <2>1, <2>3 DEF Cancellable, SettledOrders, Active
  <2> HIDE DEF row
  <2>5. /\ DOMAIN orders' = DOMAIN orders
        /\ \A x \in DOMAIN orders :
             /\ orders'[x].status = IF x \in {o} THEN "cancelled" ELSE orders[x].status
             /\ orders'[x].dish = orders[x].dish
    BY <2>1, <2>2, UpdateEffect
  <2>6. /\ Lifecycle!Open(o)
        /\ StatusOf' = [x \in OrderIds |-> IF x \in {o} THEN "cancelled" ELSE StatusOf[x]]
        /\ SettledOrders' = SettledOrders
    BY <2>1, <2>4, <2>5, ClosesOrders
  <2>7. Lifecycle!Withdraw(o)
    BY <2>6 DEF Lifecycle!Withdraw, StatusOf
  <2> QED BY <1>0, <2>7 DEF Lifecycle!Next
<1> QED BY <1>1, <1>2, <1>3, <1>4, <1>5 DEF Employee

LEMMA ProviderRefines ==
    ASSUME TypeOK, SnapshotOK, Provider
    PROVE  Lifecycle!Next \/ (StatusOf' = StatusOf /\ SettledOrders' = SettledOrders)
<1>0. orders \in [DOMAIN orders -> Order] /\ DOMAIN orders \subseteq OrderIds
  BY DEF TypeOK
<1>1. today \in Int /\ \A s \in Schedules : DateOf[s] \in Int
  BY DishesAssumption, BoundsAssumption DEF Days, TypeOK
<1>2. ASSUME NEW o \in DOMAIN orders, Confirm(o)
      PROVE  Lifecycle!Next
  <2> DEFINE row == [orders[o] EXCEPT !.status = "confirmed"]
  <2>1. Update(o, row) /\ today' = today /\ orders[o].status = "pending"
    BY <1>2 DEF Confirm
  <2>2. row.dish = orders[o].dish /\ row.status = "confirmed"
    BY <1>0 DEF Order
  <2> HIDE DEF row
  <2>3. /\ DOMAIN orders' = DOMAIN orders
        /\ \A x \in DOMAIN orders :
             /\ orders'[x].status = IF x = o THEN "confirmed" ELSE orders[x].status
             /\ orders'[x].dish = orders[x].dish
    BY <2>1, <2>2, UpdateEffect
  <2>4. StatusOf' = [StatusOf EXCEPT ![o] = "confirmed"] /\ StatusOf[o] = "pending"
    BY <1>0, <2>1, <2>3 DEF StatusOf
  <2>5. SettledOrders' \in {SettledOrders, SettledOrders \cup {o}}
    <3>1. \A x \in DOMAIN orders \ {o} : x \in SettledOrders' <=> x \in SettledOrders
      BY <2>1, <2>3 DEF SettledOrders, DeliveryDate
    <3>2. SettledOrders \subseteq DOMAIN orders /\ SettledOrders' \subseteq DOMAIN orders
      BY <2>3 DEF SettledOrders
    <3>3. o \notin SettledOrders
      BY <2>1 DEF SettledOrders
    <3> QED BY <3>1, <3>2, <3>3
  <2>6. Lifecycle!Accept(o)
    BY <2>4, <2>5 DEF Lifecycle!Accept
  <2> QED BY <1>0, <2>6 DEF Lifecycle!Next
<1>3. ASSUME NEW ids \in SUBSET (DOMAIN orders), \A o \in ids : Active(orders[o]) /\ o \notin SettledOrders,
             today' = today, DOMAIN orders' = DOMAIN orders,
             \A o \in DOMAIN orders :
               /\ orders'[o].status = IF o \in ids THEN "rejected" ELSE orders[o].status
               /\ orders'[o].dish = orders[o].dish
      PROVE  Lifecycle!Next
  <2>1. /\ \A o \in ids : Lifecycle!Open(o)
        /\ StatusOf' = [o \in OrderIds |-> IF o \in ids THEN "rejected" ELSE StatusOf[o]]
        /\ SettledOrders' = SettledOrders
    BY <1>3, ClosesOrders
  <2>2. Lifecycle!Decline(ids)
    BY <2>1 DEF Lifecycle!Decline
  <2> QED BY <1>0, <2>2 DEF Lifecycle!Next
<1>4. ASSUME NEW o \in DOMAIN orders, Reject(o)
      PROVE  Lifecycle!Next
  <2> DEFINE row == [orders[o] EXCEPT !.status = "rejected"]
  <2>1. Update(o, row) /\ today' = today /\ Rejectable(orders[o])
    BY <1>4 DEF Reject
  <2>2. row.dish = orders[o].dish /\ row.status = "rejected"
    BY <1>0 DEF Order
  <2>3. Active(orders[o]) /\ o \notin SettledOrders
    BY <1>0, <1>1, <2>1 DEF Rejectable, SettledOrders, Active, DeliveryDate, Order
  <2> HIDE DEF row
  <2>4. /\ DOMAIN orders' = DOMAIN orders
        /\ \A x \in DOMAIN orders :
             /\ orders'[x].status = IF x \in {o} THEN "rejected" ELSE orders[x].status
             /\ orders'[x].dish = orders[x].dish
    BY <2>1, <2>2, UpdateEffect
  <2> QED BY <1>3, <2>1, <2>3, <2>4
<1>5. ASSUME NEW ids \in SUBSET (takedown.pending \cup takedown.confirmed), NEW removed,
             RejectAndUnlink(ids, removed), today' = today
      PROVE  Lifecycle!Next
  <2> DEFINE rejected == {o \in ids : Active(orders[o])}
  <2>1. rejected \in SUBSET (DOMAIN orders)
    BY DEF TypeOK
  <2>2. \A o \in rejected : Active(orders[o]) /\ o \notin SettledOrders
    <3>1. \A o \in rejected : orders[o].dish \in takedown.dishes
      BY DEF SnapshotOK
    <3>2. \A o \in rejected : DateOf[orders[o].dish] >= today
      BY <3>1 DEF SnapshotOK
    <3>3. \A o \in rejected : DateOf[orders[o].dish] \in Int
      BY <1>0, <1>1, <2>1 DEF Order
    <3> QED BY <1>1, <3>2, <3>3 DEF SettledOrders, DeliveryDate
  <2>3. /\ DOMAIN orders' = DOMAIN orders
        /\ \A o \in DOMAIN orders :
             /\ orders'[o].status = IF o \in rejected THEN "rejected" ELSE orders[o].status
             /\ orders'[o].dish = orders[o].dish
    BY <1>0, <1>5 DEF RejectAndUnlink, Order
  <2> HIDE DEF rejected
  <2> QED BY <1>3, <1>5, <2>1, <2>2, <2>3
<1>6. CASE FinishUnpublish \/ FinishDelete
  BY <1>5, <1>6 DEF FinishUnpublish, FinishDelete
<1>7. CASE orders' = orders /\ today' = today
  BY <1>7 DEF StatusOf, SettledOrders, DeliveryDate
<1> QED BY <1>2, <1>4, <1>6, <1>7
    DEF Provider, Publish, SetAvailability, CloseDay, ReopenDay, MoveDeadline,
        BeginUnpublish, BeginDelete, Begin, AbortTakedown

LEMMA SystemRefines ==
    ASSUME TypeOK, System \/ NextDay
    PROVE  Lifecycle!Next \/ (StatusOf' = StatusOf /\ SettledOrders' = SettledOrders)
<1>1. CASE System
  BY <1>1 DEF System, SyncAccount, RunJob, PassDeadline, StatusOf, SettledOrders, DeliveryDate
<1>2. CASE NextDay
  <2>1. orders' = orders /\ today' = today + 1
    BY <1>2 DEF NextDay, Midnight
  <2>2. today \in Int /\ \A o \in DOMAIN orders : DeliveryDate(orders[o]) \in Int
    BY DishesAssumption, BoundsAssumption DEF Days, TypeOK, Order, DeliveryDate
  <2>3. SettledOrders \subseteq SettledOrders' /\ SettledOrders' \subseteq OrderIds
    BY <2>1, <2>2 DEF SettledOrders, DeliveryDate, TypeOK
  <2>4. \A o \in SettledOrders' : StatusOf[o] = "confirmed"
    BY <2>1, <2>3 DEF SettledOrders, StatusOf
  <2>5. StatusOf' = StatusOf
    BY <2>1 DEF StatusOf
  <2>6. Lifecycle!Settle(SettledOrders')
    BY <2>3, <2>4, <2>5 DEF Lifecycle!Settle
  <2> QED BY <2>3, <2>6 DEF Lifecycle!Next
<1> QED BY <1>1, <1>2

\* The order book implements OrderLifecycle: whatever interleaving of carts,
\* decisions, takedowns and midnights, an order is accepted once at most, never
\* comes back, and is fixed once delivered and charged.
THEOREM ImplementsLifecycle == Spec => KeepsLifecycle
<1>1. Init => Lifecycle!Init
  BY DEF Init, Lifecycle!Init, StatusOf, SettledOrders
<1>2. TypeOK /\ SnapshotOK /\ [Next]_vars => [Lifecycle!Next]_(Lifecycle!vars)
  <2> SUFFICES ASSUME TypeOK, SnapshotOK, [Next]_vars PROVE [Lifecycle!Next]_(Lifecycle!vars)
    OBVIOUS
  <2>1. CASE Next
    BY <2>1, EmployeeRefines, ProviderRefines, SystemRefines DEF Next, Lifecycle!vars
  <2>2. CASE UNCHANGED vars
    BY <2>2 DEF vars, Lifecycle!vars, StatusOf, SettledOrders, DeliveryDate
  <2> QED BY <2>1, <2>2
<1> QED BY <1>1, <1>2, TypeCorrect, SnapshotInvariant, PTL DEF Spec, KeepsLifecycle, Lifecycle!Spec

-----------------------------------------------------------------------------
(* The amounts of the accounts *)


\* The rows of account a that are charged, and for how much, decide its amount.
LEMMA SameCharges ==
    ASSUME NEW rows, NEW new, NEW a, NEW day,
           DOMAIN rows \subseteq DOMAIN new,
           \A o \in DOMAIN new : a \in AccountsOf(new[o]) =>
              /\ o \in DOMAIN rows
              /\ AccountsOf(rows[o]) = AccountsOf(new[o])
              /\ Consumed(rows[o], day) = Consumed(new[o], day)
              /\ PartOf(rows[o], a[1]) = PartOf(new[o], a[1]),
           \A o \in DOMAIN rows : a \in AccountsOf(rows[o]) => a \in AccountsOf(new[o])
    PROVE  /\ Due(new, day, a) = Due(rows, day, a)
           /\ a \in Sweep(rows, day) => a \in Sweep(new, day)
<1>1. Charged(new, day, a) = Charged(rows, day, a)
  BY DEF Charged
<1>2. a \in Sweep(rows, day) => a \in Sweep(new, day)
  BY DEF Sweep
<1> QED BY <1>1, <1>2 DEF Due

\* A transaction recomputes the accounts of S as it leaves the rows, and leaves
\* the others alone.
LEMMA SyncedExplains ==
    ASSUME TypeOK, NEW S, amount' = Synced(orders', S), today' = today,
           NEW a \in S \cap Accounts
    PROVE  Explained(a)'
BY DEF Synced, Explained

\* A step that writes no row of account a leaves it explained, as long as it
\* recomputes and forgets nothing.
LEMMA Untouched ==
    ASSUME NEW a \in Accounts, Explained(a),
           today' = today, jobDue' = jobDue, amount'[a] = amount[a], owed \subseteq owed',
           Due(orders', today, a) = Due(orders, today, a),
           a \in Sweep(orders, today) => a \in Sweep(orders', today)
    PROVE  Explained(a)'
BY DEF Explained

\* A row written in its own transaction.
LEMMA UpdateExplained ==
    ASSUME TypeOK, NEW a \in Accounts, Explained(a), NEW o \in DOMAIN orders, NEW row \in Order,
           row.consumer = orders[o].consumer, row.dish = orders[o].dish, Update(o, row),
           today' = today, jobDue' = jobDue, amount' = amount
    PROVE  Explained(a)'
<1>1. orders' = [orders EXCEPT ![o] = row] /\ orders \in [DOMAIN orders -> Order]
  BY DEF Update, TypeOK
<1>2. AccountsOf(row) = AccountsOf(orders[o])
  BY DEF AccountsOf, DeliveryDate
<1>3. CASE a \in owed'
  BY <1>3 DEF Explained
<1>4. CASE a \notin owed'
  <2>1. /\ owed \subseteq owed'
        /\ a \in AccountsOf(row) => /\ row.status = orders[o].status
                                    /\ row.price = orders[o].price
                                    /\ row.share = orders[o].share
    BY <1>4 DEF Update
  <2>2. a \in AccountsOf(row) => /\ Consumed(orders[o], today) = Consumed(row, today)
                                 /\ PartOf(orders[o], a[1]) = PartOf(row, a[1])
    BY <2>1 DEF Consumed, PartOf, DeliveryDate
  <2>3. DOMAIN orders' = DOMAIN orders /\ orders'[o] = row
        /\ \A x \in DOMAIN orders \ {o} : orders'[x] = orders[x]
    BY <1>1
  <2>4. \A x \in DOMAIN orders :
           /\ AccountsOf(orders[x]) = AccountsOf(orders'[x])
           /\ a \in AccountsOf(orders'[x]) =>
                 /\ Consumed(orders[x], today) = Consumed(orders'[x], today)
                 /\ PartOf(orders[x], a[1]) = PartOf(orders'[x], a[1])
    BY <1>2, <2>2, <2>3
  <2>5. /\ Due(orders', today, a) = Due(orders, today, a)
        /\ a \in Sweep(orders, today) => a \in Sweep(orders', today)
    BY <2>3, <2>4, SameCharges
  <2> QED BY <2>1, <2>5, Untouched
<1> QED BY <1>3, <1>4

\* Rows inserted in a transaction that recomputes their accounts, after changes
\* to old rows that are on their way to `owed`.
LEMMA InsertedExplained ==
    ASSUME TypeOK, NEW a \in Accounts, Explained(a), NEW S,
           today' = today, jobDue' = jobDue, amount' = Synced(orders', S), owed \subseteq owed',
           DOMAIN orders \subseteq DOMAIN orders',
           \A o \in DOMAIN orders' \ DOMAIN orders : AccountsOf(orders'[o]) \subseteq S,
           \A o \in DOMAIN orders : orders'[o] = orders[o] \/ AccountsOf(orders[o]) \subseteq S,
           \A o \in DOMAIN orders : AccountsOf(orders'[o]) = AccountsOf(orders[o])
    PROVE  Explained(a)'
<1>1. CASE a \in S
  BY <1>1, SyncedExplains
<1>2. CASE a \notin S
  <2>1. \A o \in DOMAIN orders' : a \in AccountsOf(orders'[o]) => o \in DOMAIN orders /\ orders'[o] = orders[o]
    BY <1>2
  <2>2. /\ Due(orders', today, a) = Due(orders, today, a)
        /\ a \in Sweep(orders, today) => a \in Sweep(orders', today)
    BY <2>1, SameCharges
  <2>3. amount'[a] = amount[a]
    BY <1>2 DEF Synced
  <2> QED BY <2>2, <2>3, Untouched
<1> QED BY <1>1, <1>2

\* The orders of a dish taken down.
LEMMA RejectAndUnlinkExplained ==
    ASSUME TypeOK, NEW a \in Accounts, Explained(a), NEW ids \in SUBSET (DOMAIN orders), NEW removed,
           RejectAndUnlink(ids, removed),
           today' = today, jobDue' = jobDue, amount' = amount
    PROVE  Explained(a)'
<1>1. DOMAIN orders' = DOMAIN orders /\ owed \subseteq owed'
  BY DEF RejectAndUnlink
<1>2. \A o \in DOMAIN orders : /\ orders'[o].consumer = orders[o].consumer
                               /\ orders'[o].dish = orders[o].dish
                               /\ orders'[o].price = orders[o].price
                               /\ orders'[o].share = orders[o].share
                               /\ \/ orders'[o].status = orders[o].status
                                  \/ AccountsOf(orders[o]) \subseteq owed'
  <2> TAKE o \in DOMAIN orders
  <2>1. orders[o] \in Order
    BY DEF TypeOK
  <2>2. orders'[o] = [orders[o] EXCEPT
                        !.status = IF o \in ids /\ Active(orders[o]) THEN "rejected" ELSE @,
                        !.linked = @ /\ orders[o].dish \notin removed]
    BY DEF RejectAndUnlink
  <2>3. o \in ids /\ Active(orders[o]) => AccountsOf(orders[o]) \subseteq owed'
    BY DEF RejectAndUnlink
  <2> QED BY <2>1, <2>2, <2>3 DEF Order
<1>3. CASE a \in owed'
  BY <1>3 DEF Explained
<1>4. CASE a \notin owed'
  <2>1. \A o \in DOMAIN orders : AccountsOf(orders'[o]) = AccountsOf(orders[o])
    BY <1>2 DEF AccountsOf, DeliveryDate
  <2>2. \A o \in DOMAIN orders : a \in AccountsOf(orders'[o]) =>
           /\ Consumed(orders[o], today) = Consumed(orders'[o], today)
           /\ PartOf(orders[o], a[1]) = PartOf(orders'[o], a[1])
    BY <1>2, <1>4, <2>1 DEF Consumed, PartOf, DeliveryDate
  <2>3. /\ Due(orders', today, a) = Due(orders, today, a)
        /\ a \in Sweep(orders, today) => a \in Sweep(orders', today)
    BY <1>1, <2>1, <2>2, SameCharges
  <2> QED BY <1>1, <2>3, Untouched
<1> QED BY <1>3, <1>4

-----------------------------------------------------------------------------

LEMMA EmployeeExplained ==
    ASSUME TypeOK, Employee, NEW a \in Accounts, Explained(a)
    PROVE  Explained(a)'
<1>1. ASSUME NEW c \in Consumers, NEW ids \in SUBSET OrderIds, NEW cart \in Carts(c, ids),
             PlaceCart(cart)
      PROVE  Explained(a)'
  <2> DEFINE S == UNION {AccountsOf(cart[o]) : o \in DOMAIN cart}
  <2>1. /\ DOMAIN orders' = DOMAIN orders \cup DOMAIN cart
        /\ \A o \in DOMAIN cart : orders'[o] = cart[o]
        /\ \A o \in DOMAIN orders : orders'[o] = orders[o]
    BY <1>1 DEF PlaceCart, Write
  <2>2. \A o \in DOMAIN orders' \ DOMAIN orders : AccountsOf(orders'[o]) \subseteq S
    BY <2>1
  <2>3. today' = today /\ jobDue' = jobDue /\ amount' = Synced(orders', S) /\ owed' = owed
    BY <1>1 DEF PlaceCart
  <2> HIDE DEF S
  <2> QED BY <2>1, <2>2, <2>3, InsertedExplained
<1>2. ASSUME NEW o \in DOMAIN orders, NEW q \in 1..MaxUnits, NEW charge \in Charges(q),
             ModifyPending(o, q, charge)
      PROVE  Explained(a)'
  <2> DEFINE row == [orders[o] EXCEPT !.units = q, !.price = charge[1], !.share = charge[2]]
  <2>1. orders[o] \in Order /\ charge[1] \in 0..MaxPrice /\ charge[2] \in 0..MaxPrice
    BY DEF TypeOK, Charges
  <2>2. row \in Order /\ row.consumer = orders[o].consumer /\ row.dish = orders[o].dish
    BY <2>1 DEF Order
  <2>3. Update(o, row) /\ today' = today /\ jobDue' = jobDue /\ amount' = amount
    BY <1>2 DEF ModifyPending
  <2> HIDE DEF row
  <2> QED BY <2>2, <2>3, UpdateExplained
<1>3. ASSUME NEW o \in DOMAIN orders, NEW q \in 1..MaxUnits, NEW charge \in Charges(q),
             NEW new \in OrderIds,
             AddUnits(o, new, q, charge) \/ ReplaceConfirmed(o, new, q, charge)
      PROVE  Explained(a)'
  <2> DEFINE row == NewOrder(orders[o].consumer, orders[o].dish, q, charge)
             S == AccountsOf(orders[o])
             old == [orders EXCEPT ![o].status = "cancelled"]
  <2>1. new \notin DOMAIN orders /\ today' = today /\ jobDue' = jobDue
        /\ amount' = Synced(orders', S) /\ owed \subseteq owed'
    BY <1>3 DEF AddUnits, ReplaceConfirmed
  <2>2. orders' = Insert(orders, new, row) \/ orders' = Insert(old, new, row)
    BY <1>3 DEF AddUnits, ReplaceConfirmed
  <2>3. AccountsOf(row) = S
    BY DEF AccountsOf, DeliveryDate, NewOrder
  <2>4. DOMAIN old = DOMAIN orders /\ \A x \in DOMAIN orders \ {o} : old[x] = orders[x]
    BY DEF TypeOK
  <2>5. AccountsOf(old[o]) = S
    BY DEF TypeOK, Order, AccountsOf, DeliveryDate
  <2> HIDE DEF row, old
  <2>6. /\ DOMAIN orders' = DOMAIN orders \cup {new} /\ orders'[new] = row
        /\ \A x \in DOMAIN orders : orders'[x] = orders[x] \/ (x = o /\ orders'[x] = old[o])
    BY <2>1, <2>2, <2>4 DEF Insert, Write
  <2>7. /\ DOMAIN orders \subseteq DOMAIN orders'
        /\ \A x \in DOMAIN orders' \ DOMAIN orders : AccountsOf(orders'[x]) \subseteq S
        /\ \A x \in DOMAIN orders : orders'[x] = orders[x] \/ AccountsOf(orders[x]) \subseteq S
        /\ \A x \in DOMAIN orders : AccountsOf(orders'[x]) = AccountsOf(orders[x])
    BY <2>3, <2>5, <2>6
  <2> HIDE DEF S
  <2> QED BY <2>1, <2>7, InsertedExplained
<1>4. ASSUME NEW o \in DOMAIN orders, Cancel(o) PROVE Explained(a)'
  <2> DEFINE row == [orders[o] EXCEPT !.status = "cancelled"]
  <2>1. row \in Order /\ row.consumer = orders[o].consumer /\ row.dish = orders[o].dish
    BY DEF TypeOK, Order, Statuses
  <2>2. Update(o, row) /\ today' = today /\ jobDue' = jobDue /\ amount' = amount
    BY <1>4 DEF Cancel
  <2> HIDE DEF row
  <2> QED BY <2>1, <2>2, UpdateExplained
<1> QED BY <1>1, <1>2, <1>3, <1>4 DEF Employee

LEMMA ProviderExplained ==
    ASSUME TypeOK, Provider, NEW a \in Accounts, Explained(a)
    PROVE  Explained(a)'
<1>1. ASSUME NEW o \in DOMAIN orders, NEW st \in {"confirmed", "rejected"},
             Update(o, [orders[o] EXCEPT !.status = st]),
             today' = today, jobDue' = jobDue, amount' = amount
      PROVE  Explained(a)'
  <2> DEFINE row == [orders[o] EXCEPT !.status = st]
  <2>1. row \in Order /\ row.consumer = orders[o].consumer /\ row.dish = orders[o].dish
    BY DEF TypeOK, Order, Statuses
  <2>2. Update(o, row)
    BY <1>1
  <2> HIDE DEF row
  <2> QED BY <1>1, <2>1, <2>2, UpdateExplained
<1>2. ASSUME NEW o \in DOMAIN orders, Confirm(o) \/ Reject(o) PROVE Explained(a)'
  BY <1>1, <1>2 DEF Confirm, Reject
<1>3. CASE FinishUnpublish \/ FinishDelete
  <2>1. takedown.pending \in SUBSET (DOMAIN orders) /\ takedown.confirmed \in SUBSET (DOMAIN orders)
    BY DEF TypeOK
  <2> QED BY <1>3, <2>1, RejectAndUnlinkExplained DEF FinishUnpublish, FinishDelete
<1>4. CASE UNCHANGED <<orders, amount, owed, jobDue, today>>
  BY <1>4 DEF Explained, Due, Charged, Sweep
<1> QED BY <1>2, <1>3, <1>4
    DEF Provider, Publish, SetAvailability, CloseDay, ReopenDay, MoveDeadline,
        BeginUnpublish, BeginDelete, Begin, AbortTakedown

\* A day passes.  What falls due on the new day belongs to an account its job
\* will visit, and so does what the job of the old day still owed, if it is of
\* the month of the new day.
LEMMA MidnightExplained ==
    ASSUME TypeOK, Midnight, NEW a \in Accounts, Explained(a),
           jobDue /\ a \in Sweep(orders, today) => a[3] = MonthOf[today + 1]
    PROVE  Explained(a)'
<1>1. today' = today + 1 /\ today \in Int /\ jobDue' /\ orders' = orders
      /\ amount' = amount /\ owed' = owed
  BY BoundsAssumption DEF Midnight, TypeOK, Days
<1>2. \A o \in DOMAIN orders : DeliveryDate(orders[o]) \in Int
  BY DishesAssumption, BoundsAssumption DEF TypeOK, Order, DeliveryDate, Days
<1>3. CASE a \in Sweep(orders, today + 1) \/ a \in owed
  BY <1>1, <1>3 DEF Explained
<1>4. CASE a \notin Sweep(orders, today + 1) /\ a \notin owed
  <2>1. amount[a] = Due(orders, today, a)
    <3>1. ASSUME jobDue, a \in Sweep(orders, today)
          PROVE  FALSE
      <4>1. a[3] = MonthOf[today + 1]
        BY <3>1
      <4>2. PICK o \in DOMAIN orders : a \in AccountsOf(orders[o]) /\ Consumed(orders[o], today)
        BY <3>1 DEF Sweep
      <4>3. Consumed(orders[o], today + 1)
        BY <1>1, <1>2, <4>2 DEF Consumed
      <4> QED BY <1>4, <4>1, <4>2, <4>3 DEF Sweep
    <3> QED BY <1>4, <3>1 DEF Explained
  <2>2. ASSUME NEW o \in DOMAIN orders, a \in AccountsOf(orders[o])
        PROVE  Consumed(orders[o], today) = Consumed(orders[o], today + 1)
    <3>1. a[3] = MonthOf[DeliveryDate(orders[o])]
      BY <2>2 DEF AccountsOf
    <3>2. CASE DeliveryDate(orders[o]) = today + 1
      <4>1. ~Consumed(orders[o], today + 1)
        BY <1>4, <2>2, <3>1, <3>2 DEF Sweep
      <4>2. orders[o].status # "confirmed"
        BY <1>1, <3>2, <4>1 DEF Consumed
      <4> QED BY <4>2 DEF Consumed
    <3>3. CASE DeliveryDate(orders[o]) # today + 1
      BY <1>1, <1>2, <3>3 DEF Consumed
    <3> QED BY <3>2, <3>3
  <2>3. Charged(orders, today + 1, a) = Charged(orders, today, a)
    BY <2>2 DEF Charged
  <2> QED BY <1>1, <2>1, <2>3 DEF Explained, Due
<1> QED BY <1>3, <1>4

LEMMA SystemExplained ==
    ASSUME TypeOK, System, NEW a \in Accounts, Explained(a)
    PROVE  Explained(a)'
<1>1. ASSUME NEW b \in Accounts, SyncAccount(b) PROVE Explained(a)'
  <2>1. amount' = Synced(orders, {b}) /\ owed' = owed \ {b} /\ UNCHANGED <<today, jobDue, orders>>
    BY <1>1 DEF SyncAccount
  <2>2. CASE a = b
    BY <2>1, <2>2 DEF Synced, Explained
  <2>3. CASE a # b
    <3>1. amount'[a] = amount[a] /\ (a \in owed => a \in owed')
      BY <2>1, <2>3 DEF Synced
    <3> QED BY <2>1, <3>1 DEF Explained
  <2> QED BY <2>2, <2>3
<1>2. CASE RunJob
  BY <1>2 DEF RunJob, Explained
<1>3. ASSUME NEW p \in HasDeadline, PassDeadline(p) PROVE Explained(a)'
  BY <1>3 DEF PassDeadline, Explained
<1> QED BY <1>1, <1>2, <1>3 DEF System

\* At every moment the stored amount of every account is what its delivered,
\* confirmed orders add up to, unless a callback or today's job is about to
\* recompute it (account.rb:126-134, order.rb:111-112,
\* delivered_orders_sync_job.rb:6-9).
THEOREM LedgerAlwaysExplained == Spec => []LedgerExact
<1>1. Init => LedgerExact
  <2> SUFFICES ASSUME Init, NEW a \in Accounts PROVE Explained(a)
    BY DEF LedgerExact
  <2>1. Charged(orders, today, a) = {}
    BY DEF Init, Charged
  <2>2. Due(orders, today, a) = 0
    BY <2>1, FS_EmptySet DEF Due
  <2> QED BY <2>2 DEF Init, Explained
<1>2. TypeOK /\ LedgerExact /\ [Next]_vars => LedgerExact'
  <2> SUFFICES ASSUME TypeOK, LedgerExact, [Next]_vars, NEW a \in Accounts PROVE Explained(a)'
    BY DEF LedgerExact, Accounts, Months, Days
  <2>1. Explained(a)
    BY DEF LedgerExact
  <2>2. CASE UNCHANGED vars
    BY <2>1, <2>2 DEF vars, Explained, Due, Charged, Sweep
  <2> QED BY <2>1, <2>2, EmployeeExplained, ProviderExplained, SystemExplained, MidnightExplained
          DEF Next, NextDay
<1> QED BY <1>1, <1>2, TypeCorrect, PTL DEF Spec

-----------------------------------------------------------------------------
(* The job misses days.  What it leaves behind at the end of a month is lost *)
(* (it never visits that month again), so the invariant is about the         *)
(* accounts of this month and of the months to come.                         *)

OfThisMonthOn(a) == \E d \in Days : d >= today /\ MonthOf[d] = a[3]
LedgerExactFromNow == \A a \in Accounts : OfThisMonthOn(a) => Explained(a)

\* What today's job owes an account that has days left is owed by tomorrow's too.
LEMMA CaughtUpNextDay ==
    ASSUME TypeOK, Midnight, NEW a \in Accounts, OfThisMonthOn(a)',
           a \in Sweep(orders, today)
    PROVE  a[3] = MonthOf[today + 1]
<1>1. today' = today + 1 /\ today \in Days /\ today + 1 \in Days /\ today \in Int
  BY BoundsAssumption DEF Midnight, TypeOK, Days
<1>2. PICK d \in Days : d >= today + 1 /\ MonthOf[d] = a[3]
  BY <1>1 DEF OfThisMonthOn, Days
<1>3. a[3] = MonthOf[today]
  BY DEF Sweep
<1>4. MonthOf[today] <= MonthOf[today + 1] /\ MonthOf[today + 1] <= MonthOf[d]
  BY <1>1, <1>2, MonthsAssumption, BoundsAssumption DEF Days
<1>5. MonthOf[today] \in Nat /\ MonthOf[today + 1] \in Nat
  BY <1>1, BoundsAssumption
<1> QED BY <1>2, <1>3, <1>4, <1>5

\* When the scheduler is down for some midnights, the accounts of the current
\* month stay explained all the same: the next job catches up with them
\* (delivered_orders_sync_job.rb:6-9).
THEOREM LedgerExactDespiteMissedJobs == MissedJobSpec => []LedgerExactThisMonth
<1>1. Init => TypeOK /\ LedgerExactFromNow
  <2>1. ASSUME Init, NEW a \in Accounts PROVE Explained(a)
    <3>1. Charged(orders, today, a) = {}
      BY <2>1 DEF Init, Charged
    <3>2. Due(orders, today, a) = 0
      BY <3>1, FS_EmptySet DEF Due
    <3> QED BY <2>1, <3>2 DEF Init, Explained
  <2> QED BY <2>1, InitTypeOK DEF LedgerExactFromNow
<1>2. TypeOK /\ LedgerExactFromNow /\ [Next \/ Midnight]_vars => TypeOK' /\ LedgerExactFromNow'
  <2> SUFFICES ASSUME TypeOK, LedgerExactFromNow, [Next \/ Midnight]_vars
               PROVE  LedgerExactFromNow'
    BY StepTypeOK
  <2> SUFFICES ASSUME NEW a \in Accounts, OfThisMonthOn(a)' PROVE Explained(a)'
    BY DEF LedgerExactFromNow, Accounts, Months, Days
  <2>1. CASE Midnight
    <3>1. OfThisMonthOn(a)
      BY <2>1, BoundsAssumption DEF Midnight, OfThisMonthOn, TypeOK, Days
    <3> QED BY <2>1, <3>1, CaughtUpNextDay, MidnightExplained DEF LedgerExactFromNow
  <2>2. CASE ~Midnight
    <3>1. today' = today
      <4>1. CASE Employee
        <5>1. CASE \E cart : PlaceCart(cart)
          BY <5>1 DEF PlaceCart
        <5>2. CASE \E o, q, charge : ModifyPending(o, q, charge)
          BY <5>2 DEF ModifyPending
        <5>3. CASE \E o, new, q, charge : AddUnits(o, new, q, charge)
          BY <5>3 DEF AddUnits
        <5>4. CASE \E o, new, q, charge : ReplaceConfirmed(o, new, q, charge)
          BY <5>4 DEF ReplaceConfirmed
        <5>5. CASE \E o : Cancel(o)
          BY <5>5 DEF Cancel
        <5> QED BY <4>1, <5>1, <5>2, <5>3, <5>4, <5>5 DEF Employee
      <4>2. CASE Provider
        BY <4>2 DEF Provider, Confirm, Reject, Publish, SetAvailability, CloseDay, ReopenDay,
                    MoveDeadline, BeginUnpublish, BeginDelete, Begin, FinishUnpublish,
                    FinishDelete, AbortTakedown
      <4>3. CASE System \/ UNCHANGED vars
        BY <4>3 DEF System, SyncAccount, RunJob, PassDeadline, vars
      <4> QED BY <2>2, <4>1, <4>2, <4>3 DEF Next, NextDay
    <3>2. Explained(a)
      BY <3>1 DEF OfThisMonthOn, LedgerExactFromNow, Days
    <3>3. CASE UNCHANGED vars
      BY <3>2, <3>3 DEF vars, Explained, Due, Charged, Sweep
    <3> QED BY <2>2, <3>2, <3>3, EmployeeExplained, ProviderExplained, SystemExplained
            DEF Next, NextDay
  <2> QED BY <2>1, <2>2
<1>3. TypeOK /\ LedgerExactFromNow => LedgerExactThisMonth
  <2> SUFFICES ASSUME TypeOK, LedgerExactFromNow, NEW a \in Accounts, a[3] = MonthOf[today]
               PROVE  Explained(a)
    BY DEF LedgerExactThisMonth
  <2>1. today \in Days /\ today >= today
    BY BoundsAssumption DEF TypeOK, Days
  <2> QED BY <2>1 DEF LedgerExactFromNow, OfThisMonthOn
<1> QED BY <1>1, <1>2, <1>3, PTL DEF MissedJobSpec

-----------------------------------------------------------------------------

\* A confirmed order keeps the quantity and the price the provider accepted
\* (order.rb:575-577): only its link to a deleted schedule can change.
THEOREM AcceptedNeverRewritten == Spec => AcceptedAsAgreed
<1> DEFINE Kept == \A o \in DOMAIN orders :
                     orders[o].status = "confirmed" /\ orders'[o].status = "confirmed" =>
                        orders'[o] \in {orders[o], [orders[o] EXCEPT !.linked = FALSE]}
<1>1. TypeOK /\ [Next]_vars => [Kept]_orders
  <2> SUFFICES ASSUME TypeOK, Next, orders' # orders PROVE Kept
    BY DEF vars
  <2>0. orders \in [DOMAIN orders -> Order]
    BY DEF TypeOK
  <2>1. CASE Employee
    <3>1. ASSUME NEW c \in Consumers, NEW ids \in SUBSET OrderIds, NEW cart \in Carts(c, ids),
                 PlaceCart(cart)
          PROVE  Kept
      BY <3>1 DEF PlaceCart, Write
    <3>2. ASSUME NEW o \in DOMAIN orders, NEW q \in 1..MaxUnits, NEW charge \in Charges(q),
                 ModifyPending(o, q, charge)
          PROVE  Kept
      BY <2>0, <3>2 DEF ModifyPending, Update
    <3>3. ASSUME NEW o \in DOMAIN orders, NEW new \in OrderIds,
                 NEW q \in 1..MaxUnits, NEW charge \in Charges(q), AddUnits(o, new, q, charge)
          PROVE  Kept
      BY <3>3 DEF AddUnits, Insert, Write
    <3>4. ASSUME NEW o \in DOMAIN orders, NEW new \in OrderIds,
                 NEW q \in 1..MaxUnits, NEW charge \in Charges(q), ReplaceConfirmed(o, new, q, charge)
          PROVE  Kept
      <4> DEFINE old == [orders EXCEPT ![o].status = "cancelled"]
      <4>1. /\ DOMAIN old = DOMAIN orders /\ old[o].status = "cancelled"
            /\ \A x \in DOMAIN orders \ {o} : old[x] = orders[x]
        BY <2>0 DEF Order
      <4>2. \A x \in DOMAIN orders : orders'[x] = old[x]
        BY <3>4, <4>1 DEF ReplaceConfirmed, Insert, Write
      <4> HIDE DEF old
      <4> QED BY <4>1, <4>2
    <3>5. ASSUME NEW o \in DOMAIN orders, Cancel(o) PROVE Kept
      BY <2>0, <3>5 DEF Cancel, Update, Order
    <3> QED BY <2>1, <3>1, <3>2, <3>3, <3>4, <3>5 DEF Employee
  <2>2. CASE Provider
    <3>1. ASSUME NEW o \in DOMAIN orders, Confirm(o) \/ Reject(o) PROVE Kept
      BY <2>0, <3>1 DEF Confirm, Reject, Update, Order
    <3>2. ASSUME NEW ids, NEW removed, RejectAndUnlink(ids, removed) PROVE Kept
      <4>1. ASSUME NEW o \in DOMAIN orders, orders[o].status = "confirmed",
                   orders'[o].status = "confirmed"
            PROVE  orders'[o] \in {orders[o], [orders[o] EXCEPT !.linked = FALSE]}
        <5>1. orders'[o] = [orders[o] EXCEPT
                               !.status = IF o \in ids /\ Active(orders[o]) THEN "rejected" ELSE @,
                               !.linked = @ /\ orders[o].dish \notin removed]
          BY <3>2 DEF RejectAndUnlink
        <5>2. orders[o] \in Order
          BY <2>0
        <5>3. ~(o \in ids /\ Active(orders[o]))
          BY <4>1, <5>1, <5>2 DEF Order
        <5>4. \A row \in Order : [row EXCEPT !.status = row.status, !.linked = row.linked] = row
          BY DEF Order
        <5>5. \A row \in Order : [row EXCEPT !.status = row.status, !.linked = FALSE]
                                   = [row EXCEPT !.linked = FALSE]
          BY DEF Order
        <5>6. \/ orders'[o] = [orders[o] EXCEPT !.status = orders[o].status, !.linked = orders[o].linked]
              \/ orders'[o] = [orders[o] EXCEPT !.status = orders[o].status, !.linked = FALSE]
          <6>1. orders[o].linked \in BOOLEAN
            BY <5>2 DEF Order
          <6>2. CASE orders[o].linked /\ orders[o].dish \notin removed
            BY <5>1, <5>3, <6>1, <6>2
          <6>3. CASE ~(orders[o].linked /\ orders[o].dish \notin removed)
            BY <5>1, <5>3, <6>1, <6>3
          <6> QED BY <6>2, <6>3
        <5> QED BY <5>2, <5>4, <5>5, <5>6
      <4> QED BY <4>1
    <3> QED BY <2>2, <3>1, <3>2
        DEF Provider, Publish, SetAvailability, CloseDay, ReopenDay, MoveDeadline,
            BeginUnpublish, BeginDelete, Begin, FinishUnpublish, FinishDelete, AbortTakedown
  <2>3. CASE System \/ NextDay
    BY <2>3 DEF System, SyncAccount, RunJob, PassDeadline, NextDay, Midnight
  <2> QED BY <2>1, <2>2, <2>3 DEF Next
<1> QED BY <1>1, TypeCorrect, PTL DEF Spec, AcceptedAsAgreed
=============================================================================
