-------------------------- MODULE ConsumerCartProofs --------------------------
(***************************************************************************)
(* What holds of the consumer's cart (ConsumerCart) for any sessions,      *)
(* dishes, stocks, prices and number of requests, however late the answers *)
(* and whatever others change meanwhile.                                   *)
(*                                                                         *)
(* CartInv is inductive, in four parts: the lines of the cart and the dish *)
(* being edited (LinesInv); the prices asked for (PricesInv); the amount   *)
(* agreed to by each order on its way (AmountsInv); and what was put in    *)
(* the cart against what was ordered (PicksInv), where the point is that   *)
(* a page has at most one order it waits for, and while it does its lines  *)
(* are those of the order.                                                 *)
(***************************************************************************)
EXTENDS ConsumerCart, FiniteSetTheorems, TLAPS

Carts == {lines \in SUBSET Line : IsFiniteSet(lines)}

Results == {"waiting", "created", "rejected"}

PostOf(S) == [lines : Carts, listening : BOOLEAN, expected : S, seen : S,
              result : Results]

\* An order on its way; its amounts are of no type in particular.
Post(p) == \E S : p \in PostOf(S)

OneDish(lines) == \A l, m \in lines : l.schedule = m.schedule => l = m

WithinStock(lines) == \A l \in lines : l.quantity \in 1..l.remaining

Ids == Schedules \X Notes \X Benefits

Drafts == [schedule : Schedules, editing : Ids \cup {None}, quantity : Nat \ {0},
           notes : Notes]

CartTypes ==
    /\ session \in Sessions
    /\ storage \in [Sessions -> Carts]
    /\ shown \in [Schedules -> 0..MaxStock] /\ remaining \in [Schedules -> 0..MaxStock]
    /\ picks \in Nat
    /\ \A p \in posts : Post(p)

\* The dish open is the line of the cart it edits, or one the cart has not.
Drafted ==
    detail # None =>
        /\ page = "menu"
        /\ detail \in Drafts
        /\ detail.editing = None =>
             \A l \in cart : l.schedule # detail.schedule
        /\ detail.editing # None =>
             \E l \in cart : CartId(l) = detail.editing /\ l.schedule = detail.schedule

\* A page waits for an answer with its buttons off and its cart as it was sent.
Listened ==
    \A p \in posts : p.listening => page = "cart" /\ form = "sending" /\ p.lines = cart

LinesInv ==
    /\ CartTypes /\ Drafted /\ Listened
    /\ OnlyOwnCart /\ OneLinePerDish /\ LinesWithinStock

-----------------------------------------------------------------------------
(* Values *)

LEMMA LineFields ==
    ASSUME NEW l \in Line
    PROVE  /\ l.schedule \in Schedules /\ l.notes \in Notes /\ l.benefits \in Benefits
           /\ l.quantity \in Nat /\ l.remaining \in 0..MaxStock /\ l.remaining \in Nat
           /\ l.pick \in Nat /\ CartId(l) \in Ids /\ CartId(l) # None
<1>1. /\ l.schedule \in Schedules /\ l.notes \in Notes /\ l.benefits \in Benefits
      /\ l.quantity \in Nat /\ l.remaining \in 0..MaxStock /\ l.remaining \in Nat
      /\ l.pick \in Nat
  BY CartAssumption DEF Line
<1>2. CartId(l) \in Ids
  BY <1>1 DEF CartId, Ids
<1>3. CartId(l) # None
  BY <1>1, CartAssumption DEF CartId
<1> QED BY <1>1, <1>2, <1>3

LEMMA Requantified ==
    ASSUME NEW l \in Line, NEW n \in Nat
    PROVE  /\ [l EXCEPT !.quantity = n] \in Line
           /\ [l EXCEPT !.quantity = n].quantity = n
           /\ [l EXCEPT !.quantity = n].schedule = l.schedule
           /\ [l EXCEPT !.quantity = n].remaining = l.remaining
           /\ [l EXCEPT !.quantity = n].pick = l.pick
BY DEF Line

LEMMA SmallerCart ==
    ASSUME NEW lines \in Carts, NEW rest \in SUBSET lines
    PROVE  rest \in Carts
BY FS_Subset DEF Carts

LEMMA LargerCart ==
    ASSUME NEW lines \in Carts, NEW l \in Line
    PROVE  lines \cup {l} \in Carts
BY FS_AddElement DEF Carts

\* A line with another quantity in its place.
LEMMA LineChanged ==
    ASSUME NEW lines \in Carts, OneDish(lines), WithinStock(lines),
           NEW l \in lines, NEW n \in 1..l.remaining
    PROVE  LET anew == (lines \ {l}) \cup {[l EXCEPT !.quantity = n]}
           IN  /\ anew \in Carts /\ OneDish(anew) /\ WithinStock(anew)
               /\ \A m \in anew : \E k \in lines : m.pick = k.pick
<1> DEFINE m == [l EXCEPT !.quantity = n]
           anew == (lines \ {l}) \cup {m}
<1>1. l \in Line /\ l.remaining \in Nat /\ n \in Nat
  BY LineFields DEF Carts
<1>2. /\ m \in Line /\ m.quantity = n /\ m.schedule = l.schedule
      /\ m.remaining = l.remaining /\ m.pick = l.pick
  BY <1>1, Requantified
<1> HIDE DEF m
<1>3. OneDish(anew)
  BY <1>2 DEF OneDish
<1>4. WithinStock(anew)
  BY <1>2 DEF WithinStock
<1>5. anew \in Carts
  BY <1>2, SmallerCart, LargerCart
<1> QED BY <1>2, <1>3, <1>4, <1>5 DEF m

\* A dish the cart does not have is one more line of it.
LEMMA MergedAnew ==
    ASSUME NEW lines \in Carts, OneDish(lines), WithinStock(lines),
           NEW line \in Line, line.quantity > 0, line.remaining > 0,
           \A l \in lines : l.schedule # line.schedule
    PROVE  /\ Merged(lines, line) \in Carts
           /\ OneDish(Merged(lines, line)) /\ WithinStock(Merged(lines, line))
           /\ \A m \in Merged(lines, line) : \E k \in lines \cup {line} : m.pick = k.pick
<1> DEFINE n == AtMost(line.remaining, line.quantity)
           m == [line EXCEPT !.quantity = n]
<1>1. n \in 1..line.remaining /\ n \in Nat
  BY LineFields DEF AtMost
<1>2. /\ m \in Line /\ m.quantity = n /\ m.schedule = line.schedule
      /\ m.remaining = line.remaining /\ m.pick = line.pick
  <2> HIDE DEF n
  <2> QED BY <1>1, Requantified
<1>3. ~ \E l \in lines : CartId(l) = CartId(line)
  BY DEF CartId
<1>4. Merged(lines, line) = lines \cup {m}
  BY <1>3 DEF Merged
<1> HIDE DEF m, n
<1>5. OneDish(lines \cup {m})
  BY <1>2 DEF OneDish
<1>6. WithinStock(lines \cup {m})
  BY <1>1, <1>2 DEF WithinStock
<1>7. lines \cup {m} \in Carts
  BY <1>2, LargerCart
<1> QED BY <1>2, <1>4, <1>5, <1>6, <1>7

\* The same, of the posts no longer waited for.
LEMMA Unheard ==
    ASSUME NEW p, Post(p)
    PROVE  LET q == [p EXCEPT !.listening = FALSE]
           IN  /\ Post(q) /\ q.listening = FALSE /\ q.lines = p.lines
               /\ q.seen = p.seen /\ q.expected = p.expected /\ q.result = p.result
<1>1. PICK S : p \in PostOf(S)
  BY DEF Post
<1> DEFINE q == [p EXCEPT !.listening = FALSE]
<1>2. q \in PostOf(S)
  BY <1>1 DEF PostOf
<1>3. /\ q.listening = FALSE /\ q.lines = p.lines
      /\ q.seen = p.seen /\ q.expected = p.expected /\ q.result = p.result
  BY <1>1 DEF PostOf
<1> QED BY <1>2, <1>3 DEF Post

LEMMA Answered ==
    ASSUME NEW p, Post(p), NEW result \in Results
    PROVE  LET q == [p EXCEPT !.result = result]
           IN  /\ Post(q) /\ q.listening = p.listening /\ q.lines = p.lines
               /\ q.seen = p.seen /\ q.expected = p.expected /\ q.result = result
<1>1. PICK S : p \in PostOf(S)
  BY DEF Post
<1> DEFINE q == [p EXCEPT !.result = result]
<1>2. q \in PostOf(S)
  BY <1>1 DEF PostOf
<1>3. /\ q.listening = p.listening /\ q.lines = p.lines
      /\ q.seen = p.seen /\ q.expected = p.expected /\ q.result = result
  BY <1>1 DEF PostOf
<1> QED BY <1>2, <1>3 DEF Post

LEMMA Sent ==
    ASSUME NEW lines \in Carts, NEW expected, NEW seen
    PROVE  Post([lines |-> lines, listening |-> TRUE, expected |-> expected,
                 seen |-> seen, result |-> "waiting"])
<1>1. [lines |-> lines, listening |-> TRUE, expected |-> expected,
       seen |-> seen, result |-> "waiting"] \in PostOf({expected, seen})
  BY DEF PostOf, Results
<1> QED BY <1>1 DEF Post

\* Who leaves a page waits for nothing more, and remembers what it waited for.
LEMMA Abandoned ==
    ASSUME \A p \in posts : Post(p), Abandon
    PROVE  /\ \A p \in posts' :
                /\ Post(p) /\ ~p.listening
                /\ \E q \in posts : /\ p.lines = q.lines /\ p.seen = q.seen
                                    /\ p.expected = q.expected
           /\ abandoned \subseteq abandoned'
           /\ \A p \in posts : p.listening => \A l \in p.lines : l.pick \in abandoned'
<1>1. \A p \in posts' : \E q \in posts : p = [q EXCEPT !.listening = FALSE]
  BY DEF Abandon
<1>2. ASSUME NEW p \in posts'
      PROVE  /\ Post(p) /\ ~p.listening
             /\ \E q \in posts : /\ p.lines = q.lines /\ p.seen = q.seen
                                 /\ p.expected = q.expected
  <2>1. PICK q \in posts : p = [q EXCEPT !.listening = FALSE]
    BY <1>1
  <2>2. /\ Post(p) /\ p.listening = FALSE /\ p.lines = q.lines
        /\ p.seen = q.seen /\ p.expected = q.expected
    BY <2>1, Unheard
  <2> QED BY <2>2
<1>3. /\ abandoned \subseteq abandoned'
      /\ \A p \in posts : p.listening => \A l \in p.lines : l.pick \in abandoned'
  BY DEF Abandon
<1> QED BY <1>2, <1>3

-----------------------------------------------------------------------------
(* The lines of the cart, and the dish being edited *)

\* What writes the cart of the session signed in.
LEMMA Rewritten ==
    ASSUME CartTypes, OnlyOwnCart, OneLinePerDish, LinesWithinStock, session' = session,
           NEW lines \in Carts, OneDish(lines), WithinStock(lines),
           storage' = [storage EXCEPT ![session] = lines]
    PROVE  /\ storage' \in [Sessions -> Carts] /\ cart' = lines
           /\ OnlyOwnCart' /\ OneLinePerDish' /\ LinesWithinStock'
<1>1. storage' \in [Sessions -> Carts] /\ cart' = lines
  BY DEF CartTypes, cart
<1>2. \A s \in Sessions : storage'[s] = IF s = session THEN lines ELSE storage[s]
  BY DEF CartTypes
<1>3. OnlyOwnCart'
  BY <1>2 DEF OnlyOwnCart
<1>4. OneLinePerDish'
  BY <1>2 DEF OneLinePerDish, OneDish
<1>5. LinesWithinStock'
  BY <1>2 DEF LinesWithinStock, WithinStock
<1> QED BY <1>1, <1>3, <1>4, <1>5

LEMMA CartHas ==
    ASSUME CartTypes, OneLinePerDish, LinesWithinStock
    PROVE  cart \in Carts /\ OneDish(cart) /\ WithinStock(cart)
BY DEF CartTypes, OneLinePerDish, LinesWithinStock, OneDish, WithinStock, cart

LEMMA LinesInit == Init => LinesInv
<1> SUFFICES ASSUME Init PROVE LinesInv
  OBVIOUS
<1>1. MaxStock \in 0..MaxStock /\ {} \in Carts
  BY CartAssumption, FS_EmptySet DEF Carts
<1>2. CartTypes
  BY <1>1 DEF Init, CartTypes
<1>3. Drafted /\ Listened
  BY DEF Init, Drafted, Listened
<1>4. OnlyOwnCart /\ OneLinePerDish /\ LinesWithinStock
  BY DEF Init, OnlyOwnCart, OneLinePerDish, LinesWithinStock
<1> QED BY <1>2, <1>3, <1>4 DEF LinesInv

\* A step that leaves the cart, the page and the posts alone, and opens no dish.
LEMMA LinesSame ==
    ASSUME LinesInv,
           UNCHANGED <<session, storage, shown, page, form, posts, picks>>,
           remaining' \in [Schedules -> 0..MaxStock], detail' = detail \/ detail' = None
    PROVE  LinesInv'
<1>1. CartTypes'
  BY DEF LinesInv, CartTypes
<1>2. Drafted'
  <2>1. CASE detail' = detail
    BY <2>1 DEF LinesInv, Drafted, cart
  <2>2. CASE detail' = None
    BY <2>2 DEF Drafted
  <2> QED BY <2>1, <2>2
<1>3. Listened'
  BY DEF LinesInv, Listened, cart
<1>4. OnlyOwnCart' /\ OneLinePerDish' /\ LinesWithinStock'
  BY DEF LinesInv, OnlyOwnCart, OneLinePerDish, LinesWithinStock
<1> QED BY <1>1, <1>2, <1>3, <1>4 DEF LinesInv

LEMMA LinesVisit ==
    ASSUME LinesInv, VisitMenu \/ VisitCart \/ \E s \in Sessions : SignIn(s)
    PROVE  LinesInv'
<1>1. /\ Leave /\ session' \in Sessions /\ remaining' = remaining /\ picks' = picks
      /\ shown' \in [Schedules -> 0..MaxStock]
  BY DEF VisitMenu, VisitCart, SignIn, server, LinesInv, CartTypes
<1>2. \A p \in posts' : Post(p) /\ ~p.listening
  BY <1>1, Abandoned DEF Leave, LinesInv, CartTypes
<1>3. /\ storage' \in [Sessions -> Carts]
      /\ \A s \in Sessions : storage'[s] = {} \/ (s = session' /\ storage'[s] = storage[s])
  BY DEF VisitMenu, VisitCart, SignIn, LinesInv, CartTypes, OnlyOwnCart
<1>4. CartTypes'
  BY <1>1, <1>2, <1>3 DEF LinesInv, CartTypes
<1>5. OnlyOwnCart' /\ OneLinePerDish' /\ LinesWithinStock'
  BY <1>3 DEF LinesInv, OnlyOwnCart, OneLinePerDish, LinesWithinStock
<1>6. Drafted' /\ Listened'
  BY <1>1, <1>2 DEF Leave, Drafted, Listened
<1> QED BY <1>4, <1>5, <1>6 DEF LinesInv

LEMMA LinesOpen ==
    ASSUME LinesInv, NEW s \in Schedules, OpenDetail(s)
    PROVE  LinesInv'
<1>1. /\ page = "menu"
      /\ UNCHANGED <<session, storage, shown, page, form, posts, picks, remaining>>
  BY DEF OpenDetail, InMenu, server, history
<1>2. cart' = cart /\ cart \in Carts /\ WithinStock(cart)
  BY <1>1, CartHas DEF LinesInv, cart
<1>3. Drafted'
  <2>1. CASE \E l \in cart : l.schedule = s
    <3>1. PICK l \in cart : l.schedule = s /\ detail' = Draft(l)
      BY <2>1 DEF OpenDetail
    <3>2. /\ l \in Line /\ l.quantity \in Nat \ {0} /\ l.notes \in Notes
          /\ CartId(l) \in Ids /\ CartId(l) # None
      BY <1>2, LineFields DEF WithinStock, Carts
    <3>3. /\ detail' \in Drafts /\ detail'.editing = CartId(l)
          /\ detail'.schedule = l.schedule
      BY <3>1, <3>2 DEF Draft, Drafts
    <3> QED BY <1>1, <1>2, <3>1, <3>2, <3>3 DEF Drafted
  <2>2. CASE ~ \E l \in cart : l.schedule = s
    <3>1. detail' = NewDraft(s)
      BY <2>2 DEF OpenDetail
    <3>2. Blank \in Notes
      BY CartAssumption
    <3>3. detail' \in Drafts /\ detail'.editing = None /\ detail'.schedule = s
      BY <3>1, <3>2 DEF NewDraft, Drafts
    <3> QED BY <1>1, <1>2, <2>2, <3>3 DEF Drafted
  <2> QED BY <2>1, <2>2
<1>4. CartTypes' /\ Listened'
  BY <1>1, <1>2 DEF LinesInv, CartTypes, Listened
<1>5. OnlyOwnCart' /\ OneLinePerDish' /\ LinesWithinStock'
  BY <1>1 DEF LinesInv, OnlyOwnCart, OneLinePerDish, LinesWithinStock
<1> QED BY <1>3, <1>4, <1>5 DEF LinesInv

LEMMA LinesDraft == ASSUME LinesInv, ChangeDraft PROVE LinesInv'
<1>1. /\ detail # None /\ page = "menu" /\ detail \in Drafts
      /\ UNCHANGED <<session, storage, shown, page, form, posts, picks, remaining>>
  BY DEF ChangeDraft, InDetail, server, history, LinesInv, Drafted
<1>2. cart' = cart
  BY <1>1 DEF cart
<1>3. /\ detail' \in Drafts /\ detail'.editing = detail.editing
      /\ detail'.schedule = detail.schedule
  <2>1. CASE detail.quantity > 1 /\ detail' = [detail EXCEPT !.quantity = @ - 1]
    <3>1. detail.quantity - 1 \in Nat \ {0}
      BY <1>1, <2>1 DEF Drafts
    <3> QED BY <1>1, <2>1, <3>1 DEF Drafts
  <2>2. CASE detail' = [detail EXCEPT !.quantity = @ + 1]
    <3>1. detail.quantity + 1 \in Nat \ {0}
      BY <1>1 DEF Drafts
    <3> QED BY <1>1, <2>2, <3>1 DEF Drafts
  <2>3. CASE \E n \in Notes : detail' = [detail EXCEPT !.notes = n]
    BY <1>1, <2>3 DEF Drafts
  <2> QED BY <2>1, <2>2, <2>3 DEF ChangeDraft
<1>4. Drafted'
  BY <1>1, <1>2, <1>3 DEF LinesInv, Drafted
<1>5. CartTypes' /\ Listened'
  BY <1>1, <1>2 DEF LinesInv, CartTypes, Listened
<1>6. OnlyOwnCart' /\ OneLinePerDish' /\ LinesWithinStock'
  BY <1>1 DEF LinesInv, OnlyOwnCart, OneLinePerDish, LinesWithinStock
<1> QED BY <1>4, <1>5, <1>6 DEF LinesInv

\* The line that replaces the one being edited, or the dish the cart has not.
LEMMA AddsALine ==
    ASSUME LinesInv, AddToCart
    PROVE  \E lines \in Carts :
             /\ OneDish(lines) /\ WithinStock(lines)
             /\ storage' = [storage EXCEPT ![session] = lines]
             /\ \A m \in lines : m.pick = picks \/ \E l \in cart : m.pick = l.pick
<1>1. /\ detail # None /\ detail \in Drafts /\ page = "menu"
      /\ detail'  = None /\ picks' = picks + 1
      /\ UNCHANGED <<session, page, shown, form, posts, remaining>>
  BY DEF AddToCart, InDetail, server, LinesInv, Drafted
<1>2. PICK b \in Benefits :
        LET line == [schedule |-> detail.schedule, notes |-> detail.notes,
                     benefits |-> b, quantity |-> detail.quantity,
                     remaining |-> shown[detail.schedule], pick |-> picks]
        IN  storage' = [storage EXCEPT ![session] = Added(cart, detail.editing, line)]
  BY DEF AddToCart
<1> DEFINE line == [schedule |-> detail.schedule, notes |-> detail.notes,
                    benefits |-> b, quantity |-> detail.quantity,
                    remaining |-> shown[detail.schedule], pick |-> picks]
           rest == {l \in cart : CartId(l) # detail.editing}
<1>3. /\ line \in Line /\ line.quantity > 0 /\ line.remaining > 0
      /\ line.schedule = detail.schedule
  <2>1. detail.quantity \in Nat /\ detail.quantity > 0
    BY <1>1 DEF Drafts
  <2>2. /\ detail.schedule \in Schedules /\ detail.notes \in Notes
        /\ shown[detail.schedule] \in 0..MaxStock /\ shown[detail.schedule] > 0
        /\ picks \in Nat
    BY <1>1 DEF Drafts, AddToCart, LinesInv, CartTypes
  <2> QED BY <2>1, <2>2 DEF Line
<1> HIDE DEF line
<1>4. cart \in Carts /\ OneDish(cart) /\ WithinStock(cart)
  BY CartHas DEF LinesInv
<1>5. PICK lines \in {cart, rest} :
        /\ \A l \in lines : l.schedule # detail.schedule
        /\ Added(cart, detail.editing, line) = Merged(lines, line)
  <2>1. CASE detail.editing = None
    BY <1>1, <2>1 DEF Added, LinesInv, Drafted
  <2>2. CASE detail.editing # None
    <3>1. PICK l \in cart : CartId(l) = detail.editing /\ l.schedule = detail.schedule
      BY <1>1, <2>2 DEF LinesInv, Drafted
    <3>2. \A m \in rest : m.schedule # detail.schedule
      BY <1>4, <3>1 DEF OneDish
    <3> QED BY <2>2, <3>1, <3>2 DEF Added
  <2> QED BY <2>1, <2>2
<1>6. lines \in Carts /\ OneDish(lines) /\ WithinStock(lines)
  BY <1>4, <1>5, SmallerCart DEF OneDish, WithinStock
<1>7. /\ Merged(lines, line) \in Carts
      /\ OneDish(Merged(lines, line)) /\ WithinStock(Merged(lines, line))
      /\ \A m \in Merged(lines, line) : \E k \in lines \cup {line} : m.pick = k.pick
  BY <1>3, <1>5, <1>6, MergedAnew
<1>8. storage' = [storage EXCEPT ![session] = Merged(lines, line)]
  BY <1>2, <1>5 DEF line
<1>9. line.pick = picks /\ lines \subseteq cart
  BY <1>5 DEF line
<1> QED BY <1>7, <1>8, <1>9

LEMMA LinesAdd == ASSUME LinesInv, AddToCart PROVE LinesInv'
<1>1. /\ page = "menu" /\ detail' = None /\ picks' = picks + 1
      /\ UNCHANGED <<session, page, shown, form, posts, remaining>>
  BY DEF AddToCart, InDetail, server
<1>2. /\ storage' \in [Sessions -> Carts]
      /\ OnlyOwnCart' /\ OneLinePerDish' /\ LinesWithinStock'
  BY <1>1, AddsALine, Rewritten DEF LinesInv
<1>3. CartTypes'
  BY <1>1, <1>2 DEF LinesInv, CartTypes
<1>4. Drafted' /\ Listened'
  BY <1>1 DEF LinesInv, Drafted, Listened
<1> QED BY <1>2, <1>3, <1>4 DEF LinesInv

LEMMA LinesRemove == ASSUME LinesInv, RemoveInDetail PROVE LinesInv'
<1> DEFINE lines == {l \in cart : CartId(l) # detail.editing}
<1>1. /\ page = "menu" /\ detail' = None
      /\ storage' = [storage EXCEPT ![session] = lines]
      /\ UNCHANGED <<session, page, shown, form, posts, remaining, picks>>
  BY DEF RemoveInDetail, InDetail, server, history
<1>2. lines \in Carts /\ OneDish(lines) /\ WithinStock(lines)
  BY CartHas, SmallerCart DEF LinesInv, OneDish, WithinStock
<1>3. /\ storage' \in [Sessions -> Carts]
      /\ OnlyOwnCart' /\ OneLinePerDish' /\ LinesWithinStock'
  <2> HIDE DEF lines
  <2> QED BY <1>1, <1>2, Rewritten DEF LinesInv
<1>4. CartTypes'
  BY <1>1, <1>3 DEF LinesInv, CartTypes
<1>5. Drafted' /\ Listened'
  BY <1>1 DEF LinesInv, Drafted, Listened
<1> QED BY <1>3, <1>4, <1>5 DEF LinesInv

\* The buttons of the cart page; nothing is waited for while they work.
LEMMA LinesChange ==
    ASSUME LinesInv, NEW lines \in Carts, OneDish(lines), WithinStock(lines),
           Change(lines)
    PROVE  LinesInv'
<1>1. /\ page = "cart" /\ form = "idle" /\ detail' = detail
      /\ storage' = [storage EXCEPT ![session] = lines]
      /\ UNCHANGED <<session, page, shown, form, posts, remaining, picks>>
  BY DEF Change, InCart, server, history
<1>2. /\ storage' \in [Sessions -> Carts]
      /\ OnlyOwnCart' /\ OneLinePerDish' /\ LinesWithinStock'
  BY <1>1, Rewritten DEF LinesInv
<1>3. CartTypes'
  BY <1>1, <1>2 DEF LinesInv, CartTypes
<1>4. Drafted' /\ Listened'
  BY <1>1 DEF LinesInv, Drafted, Listened
<1> QED BY <1>2, <1>3, <1>4 DEF LinesInv

\* The lines the buttons leave, and whose they were.
LEMMA Buttons ==
    ASSUME LinesInv, NEW line \in cart, SetQuantity(line) \/ Remove(line)
    PROVE  \E lines \in Carts :
             /\ OneDish(lines) /\ WithinStock(lines) /\ Change(lines)
             /\ \A m \in lines : \E k \in cart : m.pick = k.pick
<1>1. cart \in Carts /\ OneDish(cart) /\ WithinStock(cart)
  BY CartHas DEF LinesInv
<1>2. line.quantity \in 1..line.remaining /\ line.remaining \in Nat
  BY <1>1, LineFields DEF WithinStock, Carts
<1>3. CASE Remove(line)
  <2>1. Change(cart \ {line})
    BY <1>3 DEF Remove
  <2>2. OneDish(cart \ {line}) /\ WithinStock(cart \ {line})
    BY <1>1 DEF OneDish, WithinStock
  <2>3. cart \ {line} \in Carts
    BY <1>1, SmallerCart
  <2> QED BY <2>1, <2>2, <2>3
<1>4. CASE SetQuantity(line)
  <2>1. PICK n \in {line.quantity + 1, line.quantity - 1} :
          /\ n \in 1..line.remaining
          /\ Change((cart \ {line}) \cup {[line EXCEPT !.quantity = n]})
    <3>1. CASE line.quantity < line.remaining
               /\ Change((cart \ {line}) \cup {[line EXCEPT !.quantity = @ + 1]})
      <4>1. line.quantity + 1 \in 1..line.remaining
        BY <1>2, <3>1
      <4> QED BY <3>1, <4>1
    <3>2. CASE line.quantity > 1
               /\ Change((cart \ {line}) \cup {[line EXCEPT !.quantity = @ - 1]})
      <4>1. line.quantity - 1 \in 1..line.remaining
        BY <1>2, <3>2
      <4> QED BY <3>2, <4>1
    <3> QED BY <1>4, <3>1, <3>2 DEF SetQuantity
  <2> DEFINE lines == (cart \ {line}) \cup {[line EXCEPT !.quantity = n]}
  <2>2. /\ lines \in Carts /\ OneDish(lines) /\ WithinStock(lines)
        /\ \A m \in lines : \E k \in cart : m.pick = k.pick
    BY <1>1, <2>1, LineChanged
  <2> QED BY <2>1, <2>2
<1> QED BY <1>3, <1>4

\* The order confirmed is of the cart as it is, which stays until the answer.
LEMMA Confirmed ==
    ASSUME LinesInv, Confirm
    PROVE  \E p : /\ posts' = posts \cup {p}
                  /\ Post(p) /\ p.listening /\ p.lines = cart /\ p.result = "waiting"
                  /\ p.seen \notin {None, Failed} => p.expected = p.seen
<1> DEFINE expected == IF pricing = Failed THEN None ELSE pricing
           p == [lines |-> cart, listening |-> TRUE, expected |-> expected,
                 seen |-> Shown, result |-> "waiting"]
<1>1. posts' = posts \cup {p}
  BY DEF Confirm
<1>2. Post(p)
  BY Sent, CartHas DEF LinesInv
<1>3. p.listening /\ p.lines = cart /\ p.result = "waiting"
  OBVIOUS
<1>4. p.seen \notin {None, Failed} => p.expected = p.seen
  BY DEF Shown
<1> QED BY <1>1, <1>2, <1>3, <1>4

LEMMA LinesConfirm == ASSUME LinesInv, Confirm PROVE LinesInv'
<1>1. /\ page = "cart" /\ form = "idle" /\ form' = "sending"
      /\ UNCHANGED <<session, storage, page, shown, detail, remaining, picks>>
      /\ cart' = cart
  BY DEF Confirm, InCart, server, history, cart
<1>2. PICK p : /\ posts' = posts \cup {p}
               /\ Post(p) /\ p.listening /\ p.lines = cart
  BY Confirmed
<1>3. CartTypes'
  BY <1>1, <1>2 DEF LinesInv, CartTypes
<1>4. Drafted' /\ Listened'
  BY <1>1, <1>2 DEF LinesInv, Drafted, Listened
<1>5. OnlyOwnCart' /\ OneLinePerDish' /\ LinesWithinStock'
  BY <1>1 DEF LinesInv, OnlyOwnCart, OneLinePerDish, LinesWithinStock
<1> QED BY <1>3, <1>4, <1>5 DEF LinesInv

LEMMA UnitsType ==
    ASSUME NEW lines \in Carts, NEW s \in Schedules
    PROVE  /\ Units(lines, s) \in Nat
           /\ s \notin {l.schedule : l \in lines} => Units(lines, s) = 0
<1> DEFINE units == {u \in lines \X (1..MaxStock) :
                       u[1].schedule = s /\ u[2] <= u[1].quantity}
<1>1. IsFiniteSet(lines) /\ IsFiniteSet(1..MaxStock)
  BY FS_Interval, CartAssumption DEF Carts
<1>2. IsFiniteSet(lines \X (1..MaxStock))
  BY <1>1, FS_Product
<1>3. IsFiniteSet(units)
  BY <1>2, FS_Subset
<1>4. Units(lines, s) \in Nat
  BY <1>3, FS_CardinalityType DEF Units
<1>5. ASSUME s \notin {l.schedule : l \in lines} PROVE Units(lines, s) = 0
  <2>1. units = {}
    BY <1>5
  <2> QED BY <2>1, FS_EmptySet DEF Units
<1> QED BY <1>4, <1>5

\* What a post becomes when the server serves it: nothing, if nobody waits for
\* it, or itself with the answer.
LEMMA Served ==
    ASSUME CartTypes, NEW p \in posts, Create(p)
    PROVE  /\ p.result = "waiting" /\ remaining' \in [Schedules -> 0..MaxStock]
           /\ UNCHANGED <<browser, picks, abandoned>>
           /\ ~p.listening => posts' = posts \ {p}
           /\ p.listening =>
                \E q : /\ posts' = (posts \ {p}) \cup {q}
                       /\ Post(q) /\ q.listening /\ q.lines = p.lines
                       /\ q.seen = p.seen /\ q.expected = p.expected
                       /\ q.result \in {"created", "rejected"}
                       /\ orders' # orders => q.result = "created"
<1>1. Post(p)
  BY DEF CartTypes
<1>2. p.lines \in Carts
  BY <1>1 DEF Post, PostOf
<1>3. remaining' \in [Schedules -> 0..MaxStock]
  <2>1. CASE remaining' = remaining
    BY <2>1 DEF CartTypes
  <2>2. CASE /\ Reservable(p.lines)
             /\ remaining' = [s \in Schedules |-> remaining[s] - Units(p.lines, s)]
    <3>1. ASSUME NEW s \in Schedules
          PROVE  remaining[s] - Units(p.lines, s) \in 0..MaxStock
      <4>1. remaining[s] \in 0..MaxStock /\ Units(p.lines, s) \in Nat /\ MaxStock \in Nat
        BY <1>2, UnitsType, CartAssumption DEF CartTypes
      <4>2. Units(p.lines, s) <= remaining[s]
        BY <1>2, <2>2, <4>1, UnitsType DEF Reservable
      <4> QED BY <4>1, <4>2
    <3> QED BY <2>2, <3>1
  <2> QED BY <2>1, <2>2 DEF Create
<1>4. ASSUME p.listening
      PROVE  \E q : /\ posts' = (posts \ {p}) \cup {q}
                    /\ Post(q) /\ q.listening /\ q.lines = p.lines
                    /\ q.seen = p.seen /\ q.expected = p.expected
                    /\ q.result \in {"created", "rejected"}
                    /\ orders' # orders => q.result = "created"
  <2>1. PICK result \in {"created", "rejected"} :
          /\ posts' = (posts \ {p}) \cup {[p EXCEPT !.result = result]}
          /\ orders' # orders => result = "created"
    BY <1>4 DEF Create
  <2> DEFINE q == [p EXCEPT !.result = result]
  <2>2. /\ Post(q) /\ q.listening = p.listening /\ q.lines = p.lines
        /\ q.seen = p.seen /\ q.expected = p.expected /\ q.result = result
    BY <1>1, Answered DEF Results
  <2> HIDE DEF q
  <2> QED BY <1>4, <2>1, <2>2 DEF q
<1>5. /\ p.result = "waiting" /\ UNCHANGED <<browser, picks, abandoned>>
      /\ ~p.listening => posts' = posts \ {p}
  BY DEF Create
<1> QED BY <1>3, <1>4, <1>5

LEMMA LinesCreate == ASSUME LinesInv, NEW p \in posts, Create(p) PROVE LinesInv'
<1>1. /\ UNCHANGED <<session, storage, page, shown, detail, form, picks>>
      /\ remaining' \in [Schedules -> 0..MaxStock] /\ cart' = cart
      /\ ~p.listening => posts' = posts \ {p}
      /\ p.listening => \E q : /\ posts' = (posts \ {p}) \cup {q}
                               /\ Post(q) /\ q.listening /\ q.lines = p.lines
  BY Served DEF browser, LinesInv, cart
<1>2. CartTypes'
  BY <1>1 DEF LinesInv, CartTypes
<1>3. Listened'
  BY <1>1 DEF LinesInv, Listened
<1>4. Drafted'
  BY <1>1 DEF LinesInv, Drafted
<1>5. OnlyOwnCart' /\ OneLinePerDish' /\ LinesWithinStock'
  BY <1>1 DEF LinesInv, OnlyOwnCart, OneLinePerDish, LinesWithinStock
<1> QED BY <1>2, <1>3, <1>4, <1>5 DEF LinesInv

\* At most one order on its way is waited for.
OneListener == \A p, q \in posts : p.listening /\ q.listening => p = q

LEMMA LinesArrive ==
    ASSUME LinesInv, OneListener, NEW p \in posts, Arrive(p)
    PROVE  LinesInv'
<1>1. /\ page = "cart" /\ posts' = posts \ {p} /\ p.listening
      /\ UNCHANGED <<session, shown, detail, remaining, picks>>
  BY DEF Arrive, server, history, LinesInv, Listened
<1>2. storage' = storage \/ storage' = [storage EXCEPT ![session] = {}]
  BY DEF Arrive
<1>3. {} \in Carts /\ OneDish({}) /\ WithinStock({})
  BY FS_EmptySet DEF Carts, OneDish, WithinStock
<1>4. /\ storage' \in [Sessions -> Carts]
      /\ OnlyOwnCart' /\ OneLinePerDish' /\ LinesWithinStock'
  <2>1. CASE storage' = storage
    BY <1>1, <2>1
       DEF LinesInv, CartTypes, OnlyOwnCart, OneLinePerDish, LinesWithinStock
  <2>2. CASE storage' = [storage EXCEPT ![session] = {}]
    BY <1>1, <1>3, <2>2, Rewritten DEF LinesInv
  <2> QED BY <1>2, <2>1, <2>2
<1>5. CartTypes'
  BY <1>1, <1>4 DEF LinesInv, CartTypes
<1>6. Drafted'
  BY <1>1 DEF LinesInv, Drafted
<1>7. Listened'
  BY <1>1 DEF OneListener, Listened
<1> QED BY <1>4, <1>5, <1>6, <1>7 DEF LinesInv

LEMMA LinesPosts ==
    ASSUME LinesInv, Lose \/ \E p \in posts : Forget(p)
    PROVE  LinesInv'
<1>1. /\ UNCHANGED <<session, storage, page, shown, detail, remaining, picks>>
      /\ cart' = cart
  BY DEF Lose, Forget, browser, server, history, cart
<1>2. /\ \A p \in posts' : Post(p)
      /\ (\A p \in posts' : ~p.listening) \/ (posts' \subseteq posts /\ form' = form)
  <2>1. CASE Lose
    BY <2>1, Abandoned DEF Lose, LinesInv, CartTypes
  <2>2. CASE \E p \in posts : Forget(p)
    BY <2>2 DEF Forget, browser, LinesInv, CartTypes
  <2> QED BY <2>1, <2>2
<1>3. CartTypes' /\ Drafted' /\ Listened'
  BY <1>1, <1>2 DEF LinesInv, CartTypes, Drafted, Listened
<1>4. OnlyOwnCart' /\ OneLinePerDish' /\ LinesWithinStock'
  BY <1>1 DEF LinesInv, OnlyOwnCart, OneLinePerDish, LinesWithinStock
<1> QED BY <1>3, <1>4 DEF LinesInv

LEMMA LinesStep == LinesInv /\ OneListener /\ [Next]_vars => LinesInv'
<1> SUFFICES ASSUME LinesInv, OneListener, [Next]_vars PROVE LinesInv'
  OBVIOUS
<1>1. CASE VisitMenu \/ VisitCart \/ \E s \in Sessions : SignIn(s)
  BY <1>1, LinesVisit
<1>2. CASE \E s \in Schedules : OpenDetail(s)
  BY <1>2, LinesOpen
<1>3. CASE ChangeDraft \/ AddToCart \/ RemoveInDetail
  BY <1>3, LinesDraft, LinesAdd, LinesRemove
<1>4. CASE Back
  BY <1>4, LinesSame DEF Back, server, history, LinesInv, CartTypes
<1>5. CASE \E line \in cart : SetQuantity(line) \/ Remove(line)
  BY <1>5, Buttons, LinesChange
<1>6. CASE Confirm
  BY <1>6, LinesConfirm
<1>7. CASE \E p \in posts : Create(p) \/ Arrive(p)
  BY <1>7, LinesCreate, LinesArrive
<1>8. CASE Lose \/ \E p \in posts : Forget(p)
  BY <1>8, LinesPosts
<1>9. CASE \E r \in requests : Answer(r) \/ Fail(r)
  BY <1>9, LinesSame DEF Answer, Fail, Settle, server, history, LinesInv, CartTypes
<1>10. CASE Elsewhere
  <2>1. remaining' \in [Schedules -> 0..MaxStock]
    BY <1>10 DEF Elsewhere, LinesInv, CartTypes
  <2> QED BY <1>10, <2>1, LinesSame DEF Elsewhere, browser, history
<1>11. CASE UNCHANGED vars
  BY <1>11, LinesSame DEF vars, browser, server, history, LinesInv, CartTypes
<1> QED
  BY <1>1, <1>2, <1>3, <1>4, <1>5, <1>6, <1>7, <1>8, <1>9, <1>10, <1>11 DEF Next

-----------------------------------------------------------------------------
(* The prices *)

\* An answer still waited for is of the cart there is.
PricesInv ==
    /\ requests \subseteq [key : SUBSET Item, cancelled : BOOLEAN]
    /\ \A r \in requests : ~r.cancelled => r.key = Items(cart)
    /\ LoadingIsAsked /\ priced.of = priced.key

LEMMA ItemsType == ASSUME NEW lines \in Carts PROVE Items(lines) \in SUBSET Item
BY LineFields DEF Items, Item, Carts

\* The requests before, none of them waited for any more.
Cancelled == {[r EXCEPT !.cancelled = TRUE] : r \in requests}

LEMMA CancelledType ==
    ASSUME requests \subseteq [key : SUBSET Item, cancelled : BOOLEAN]
    PROVE  /\ Cancelled \subseteq [key : SUBSET Item, cancelled : BOOLEAN]
           /\ \A r \in Cancelled : r.cancelled
BY DEF Cancelled

\* Whoever writes the cart asks for its prices.
LEMMA AsksForItsCart ==
    ASSUME LinesInv, [Next]_vars
    PROVE  \/ UNCHANGED <<session, storage, priced, requests>> /\ page' = page
           \/ /\ page' = "confirmation" /\ priced' = NotPriced
              /\ requests' = Cancelled
           \/ Ask(cart') /\ priced' \in {priced, NotPriced}
           \/ /\ UNCHANGED <<session, storage, page>>
              /\ \E r \in requests : \E total : Settle(r, total)
<1> DEFINE Goal == \/ UNCHANGED <<session, storage, priced, requests>> /\ page' = page
                   \/ /\ page' = "confirmation" /\ priced' = NotPriced
                      /\ requests' = Cancelled
                   \/ Ask(cart') /\ priced' \in {priced, NotPriced}
                   \/ /\ UNCHANGED <<session, storage, page>>
                      /\ \E r \in requests : \E total : Settle(r, total)
<1>1. \A lines : storage' = [storage EXCEPT ![session] = lines] /\ session' = session
                 => cart' = lines
  BY DEF cart, LinesInv, CartTypes
<1>2. CASE VisitMenu \/ VisitCart
  <2>1. cart' = cart
    BY <1>2 DEF VisitMenu, VisitCart, cart
  <2> QED BY <1>2, <2>1 DEF VisitMenu, VisitCart, Leave
<1>3. CASE \E s \in Sessions : SignIn(s)
  <2>1. PICK s \in Sessions : SignIn(s)
    BY <1>3
  <2>2. cart' = storage[s]
    BY <2>1 DEF SignIn, cart
  <2> QED BY <2>1, <2>2 DEF SignIn, Leave
<1>4. CASE AddToCart \/ RemoveInDetail
  BY <1>1, <1>4 DEF AddToCart, RemoveInDetail
<1>5. CASE \E line \in cart : SetQuantity(line) \/ Remove(line)
  BY <1>1, <1>5 DEF SetQuantity, Remove, Change
<1>6. CASE \/ \E s \in Schedules : OpenDetail(s)
           \/ ChangeDraft \/ Back \/ Confirm \/ Lose \/ Elsewhere \/ UNCHANGED vars
           \/ \E p \in posts : Create(p) \/ Forget(p)
  <2>1. UNCHANGED <<session, storage, page, priced, requests>>
    BY <1>6 DEF OpenDetail, ChangeDraft, Back, Confirm, Lose, Elsewhere, Create, Forget,
                vars, browser
  <2> QED BY <2>1
<1>7. CASE \E p \in posts : Arrive(p)
  BY <1>7 DEF Arrive, Cancelled
<1>8. CASE \E r \in requests : Answer(r) \/ Fail(r)
  BY <1>8 DEF Answer, Fail, Settle
<1> QED BY <1>2, <1>3, <1>4, <1>5, <1>6, <1>7, <1>8 DEF Next

LEMMA PricesStep == LinesInv /\ PricesInv /\ [Next]_vars /\ LinesInv' => PricesInv'
<1> SUFFICES ASSUME LinesInv, PricesInv, [Next]_vars, LinesInv' PROVE PricesInv'
  OBVIOUS
<1>1. CASE UNCHANGED <<session, storage, priced, requests>> /\ page' = page
  BY <1>1 DEF PricesInv, LoadingIsAsked, loading, cart
<1>2. CASE page' = "confirmation" /\ priced' = NotPriced /\ requests' = Cancelled
  BY <1>2, CancelledType DEF PricesInv, LoadingIsAsked, NotPriced
<1>3. CASE Ask(cart') /\ priced' \in {priced, NotPriced}
  <2> DEFINE asked == [key |-> Items(cart'), cancelled |-> FALSE]
  <2>1. /\ asked \in [key : SUBSET Item, cancelled : BOOLEAN]
        /\ asked.key = Items(cart') /\ ~asked.cancelled
    <3>1. cart' \in Carts
      BY DEF LinesInv, CartTypes, cart
    <3> QED BY <3>1, ItemsType
  <2>2. requests' = Cancelled \cup IF cart' = {} THEN {} ELSE {asked}
    BY <1>3 DEF Ask, Cancelled
  <2>3. priced'.of = priced'.key
    BY <1>3 DEF PricesInv, NotPriced
  <2> HIDE DEF asked
  <2>4. /\ requests' \subseteq [key : SUBSET Item, cancelled : BOOLEAN]
        /\ \A r \in requests' : ~r.cancelled => r.key = Items(cart')
    BY <2>1, <2>2, CancelledType DEF PricesInv
  <2>5. LoadingIsAsked'
    BY <2>1, <2>2 DEF LoadingIsAsked, loading
  <2> QED BY <2>3, <2>4, <2>5 DEF PricesInv
<1>4. CASE /\ UNCHANGED <<session, storage, page>>
           /\ \E r \in requests : \E total : Settle(r, total)
  <2>1. PICK r \in requests : \E total : Settle(r, total)
    BY <1>4
  <2>2. cart' = cart /\ requests' = requests \ {r}
    BY <1>4, <2>1 DEF Settle, cart
  <2>3. CASE r.cancelled
    <3>1. priced' = priced
      BY <2>1, <2>3 DEF Settle
    <3> QED BY <1>4, <2>2, <2>3, <3>1 DEF PricesInv, LoadingIsAsked, loading
  <2>4. CASE ~r.cancelled
    <3>1. PICK total : priced' = [key |-> r.key, total |-> total, of |-> r.key]
      BY <2>1, <2>4 DEF Settle
    <3>2. priced'.key = Items(cart) /\ priced'.of = priced'.key
      BY <2>4, <3>1 DEF PricesInv
    <3> QED BY <1>4, <2>2, <3>2 DEF PricesInv, LoadingIsAsked, loading
  <2> QED BY <2>3, <2>4
<1> QED BY <1>1, <1>2, <1>3, <1>4, AsksForItsCart

-----------------------------------------------------------------------------
(* The amount agreed to *)

AmountsInv ==
    /\ \A p \in posts : p.seen \notin {None, Failed} => p.expected = p.seen
    /\ ChargedAsShown

\* Posts come from posts, or from what the page shows.
LEMMA PostsStep ==
    ASSUME LinesInv, [Next]_vars
    PROVE  \A p \in posts' :
             \/ \E q \in posts : p.seen = q.seen /\ p.expected = q.expected
             \/ Confirm /\ (p.seen \notin {None, Failed} => p.expected = p.seen)
<1> DEFINE From == \A p \in posts' :
             \/ \E q \in posts : p.seen = q.seen /\ p.expected = q.expected
             \/ Confirm /\ (p.seen \notin {None, Failed} => p.expected = p.seen)
<1>1. CASE posts' \subseteq posts
  BY <1>1
<1>2. CASE Abandon
  BY <1>2, Abandoned DEF LinesInv, CartTypes
<1>3. CASE Confirm
  BY <1>3, Confirmed
<1>4. CASE \E p \in posts : Create(p)
  <2>1. PICK p \in posts : Create(p)
    BY <1>4
  <2>2. CASE ~p.listening
    BY <2>1, <2>2, Served DEF LinesInv
  <2>3. CASE p.listening
    <3>1. PICK q : /\ posts' = (posts \ {p}) \cup {q}
                   /\ q.seen = p.seen /\ q.expected = p.expected
      BY <2>1, <2>3, Served DEF LinesInv
    <3> QED BY <3>1
  <2> QED BY <2>2, <2>3
<1> QED
  BY <1>1, <1>2, <1>3, <1>4
     DEF Next, VisitMenu, VisitCart, SignIn, Leave, OpenDetail, ChangeDraft, AddToCart,
         RemoveInDetail, Back, SetQuantity, Remove, Change, Lose, Arrive, Forget, Answer,
         Fail, Settle, Elsewhere, vars

\* An order is created for the total expected, if there is one.
LEMMA Creates ==
    ASSUME NEW p \in posts, Create(p), orders' # orders
    PROVE  \E o : /\ orders' = orders \cup {o}
                  /\ o.seen = p.seen /\ o.picks = {l.pick : l \in p.lines}
                  /\ p.expected \in {None, o.total}
<1> DEFINE o == [number |-> Cardinality(orders), total |-> Total(Items(p.lines)),
                 seen |-> p.seen, picks |-> {l.pick : l \in p.lines}]
<1>1. orders' = orders \cup {o} /\ p.expected \in {None, Total(Items(p.lines))}
  BY DEF Create
<1>2. /\ o.seen = p.seen /\ o.picks = {l.pick : l \in p.lines}
      /\ o.total = Total(Items(p.lines))
  OBVIOUS
<1> QED BY <1>1, <1>2

LEMMA OrdersStep ==
    ASSUME [Next]_vars, ~ \E p \in posts : Create(p)
    PROVE  orders' = orders
BY DEF Next, VisitMenu, VisitCart, SignIn, OpenDetail, ChangeDraft, AddToCart,
       RemoveInDetail, Back, SetQuantity, Remove, Change, Confirm, Lose, Arrive, Forget,
       Answer, Fail, Settle, Elsewhere, vars, history

LEMMA AmountsStep == LinesInv /\ AmountsInv /\ [Next]_vars => AmountsInv'
<1> SUFFICES ASSUME LinesInv, AmountsInv, [Next]_vars PROVE AmountsInv'
  OBVIOUS
<1>1. \A p \in posts' : p.seen \notin {None, Failed} => p.expected = p.seen
  BY PostsStep DEF AmountsInv
<1>2. ChargedAsShown'
  <2>1. CASE orders' = orders
    BY <2>1 DEF AmountsInv, ChargedAsShown
  <2>2. CASE orders' # orders
    <3>1. PICK p \in posts : \E o : /\ orders' = orders \cup {o} /\ o.seen = p.seen
                                     /\ p.expected \in {None, o.total}
      BY <2>2, OrdersStep, Creates
    <3>2. PICK o : /\ orders' = orders \cup {o} /\ o.seen = p.seen
                   /\ p.expected \in {None, o.total}
      BY <3>1
    <3> QED BY <3>2 DEF AmountsInv, ChargedAsShown
  <2> QED BY <2>1, <2>2
<1> QED BY <1>1, <1>2 DEF AmountsInv

-----------------------------------------------------------------------------
(* What was put in the cart, and what was ordered *)

\* An order nobody waits for is of picks abandoned; numbers are given in turn;
\* and a pick ordered is still in the cart only while its answer is on its way.
PicksInv ==
    /\ OneListener
    /\ \A p \in posts : ~p.listening => \A l \in p.lines : l.pick \in abandoned
    /\ \A l \in cart : l.pick < picks
    /\ \A p \in posts : \A l \in p.lines : l.pick < picks
    /\ \A o \in orders : o.picks \subseteq Nat /\ \A k \in o.picks : k < picks
    /\ \A o \in orders, l \in cart :
         l.pick \in o.picks =>
            \/ l.pick \in abandoned
            \/ \E p \in posts : p.listening /\ p.result = "created" /\ l \in p.lines
    /\ OrderedOnce

CartInv == LinesInv /\ PricesInv /\ AmountsInv /\ PicksInv

LEMMA CartInit == Init => CartInv
<1> SUFFICES ASSUME Init PROVE CartInv
  OBVIOUS
<1>1. PricesInv
  BY DEF Init, PricesInv, LoadingIsAsked, loading, cart, NotPriced
<1>2. AmountsInv
  BY DEF Init, AmountsInv, ChargedAsShown
<1>3. PicksInv
  BY DEF Init, PicksInv, OneListener, OrderedOnce, cart
<1> QED BY <1>1, <1>2, <1>3, LinesInit DEF CartInv

\* The buttons of the cart, and of a dish, which work when no order is waited
\* for: a line has the pick it had, or a new one.
LEMMA PicksEdit ==
    ASSUME LinesInv, LinesInv', PicksInv, UNCHANGED <<posts, orders, abandoned>>,
           \A p \in posts : ~p.listening,
           picks' \in {picks, picks + 1},
           \A m \in cart' : \/ \E l \in cart : m.pick = l.pick
                            \/ m.pick = picks /\ picks' = picks + 1
    PROVE  PicksInv'
<1>1. picks \in Nat /\ cart \in SUBSET Line /\ \A p \in posts : p.lines \in SUBSET Line
  BY CartHas DEF LinesInv, CartTypes, Carts, Post, PostOf
<1>2. (\A l \in cart' : l.pick < picks')
  BY <1>1, LineFields DEF PicksInv
<1>3. \A p \in posts' : \A l \in p.lines : l.pick < picks'
  BY <1>1, LineFields DEF PicksInv
<1>4. \A o \in orders' : o.picks \subseteq Nat /\ \A k \in o.picks : k < picks'
  BY <1>1 DEF PicksInv
<1>5. \A o \in orders', l \in cart' : l.pick \in o.picks => l.pick \in abandoned'
  <2> SUFFICES ASSUME NEW o \in orders, NEW m \in cart', m.pick \in o.picks
               PROVE  m.pick \in abandoned
    OBVIOUS
  <2>1. m.pick < picks /\ m.pick \in Nat
    BY DEF PicksInv
  <2>2. PICK l \in cart : m.pick = l.pick
    BY <1>1, <2>1
  <2> QED BY <2>2 DEF PicksInv
<1>6. OneListener' /\ OrderedOnce'
  BY DEF PicksInv, OneListener, OrderedOnce
<1>7. \A p \in posts' : ~p.listening => \A l \in p.lines : l.pick \in abandoned'
  BY DEF PicksInv
<1> QED BY <1>2, <1>3, <1>4, <1>5, <1>6, <1>7 DEF PicksInv

\* Leaving the page, or losing the connection.
LEMMA PicksAbandon ==
    ASSUME LinesInv, PicksInv, Abandon, cart' \subseteq cart,
           UNCHANGED <<orders, picks>>
    PROVE  PicksInv'
<1>1. /\ \A p \in posts' :
           ~p.listening /\ \E q \in posts : p.lines = q.lines
      /\ abandoned \subseteq abandoned'
      /\ \A p \in posts : p.listening => \A l \in p.lines : l.pick \in abandoned'
  BY Abandoned DEF LinesInv, CartTypes
<1>2. OneListener' /\ OrderedOnce'
  BY <1>1 DEF PicksInv, OneListener, OrderedOnce
<1>3. \A p \in posts' : \A l \in p.lines : l.pick \in abandoned' /\ l.pick < picks'
  BY <1>1 DEF PicksInv
<1>4. \A o \in orders', l \in cart' : l.pick \in o.picks => l.pick \in abandoned'
  BY <1>1 DEF PicksInv
<1> QED BY <1>2, <1>3, <1>4 DEF PicksInv

LEMMA PicksConfirm == ASSUME LinesInv, PicksInv, Confirm PROVE PicksInv'
<1>1. /\ form = "idle" /\ UNCHANGED <<orders, picks, abandoned>> /\ cart' = cart
  BY DEF Confirm, InCart, history, cart
<1>2. \A p \in posts : ~p.listening
  BY <1>1 DEF LinesInv, Listened
<1>3. PICK p : posts' = posts \cup {p} /\ p.listening /\ p.lines = cart
  BY Confirmed
<1>4. OneListener' /\ OrderedOnce'
  BY <1>1, <1>2, <1>3 DEF PicksInv, OneListener, OrderedOnce
<1>5. \A o \in orders', l \in cart' : l.pick \in o.picks => l.pick \in abandoned'
  BY <1>1, <1>2 DEF PicksInv
<1> QED BY <1>1, <1>3, <1>4, <1>5 DEF PicksInv

\* The order created is of picks no order has, unless they were abandoned.
LEMMA PicksCreate ==
    ASSUME LinesInv, PicksInv, [Next]_vars, NEW p \in posts, Create(p)
    PROVE  PicksInv'
<1>1. /\ p.result = "waiting" /\ UNCHANGED <<picks, abandoned>> /\ cart' = cart
      /\ p.lines \in SUBSET Line
  BY Served DEF browser, LinesInv, CartTypes, cart, Post, PostOf, Carts
<1>2. \A o \in orders, l \in p.lines : l.pick \in o.picks => l.pick \in abandoned
  <2>1. CASE p.listening
    <3>1. p.lines = cart
      BY <2>1 DEF LinesInv, Listened
    <3>2. \A q \in posts : q.listening => q.result = "waiting"
      BY <1>1, <2>1 DEF PicksInv, OneListener
    <3> QED BY <3>1, <3>2 DEF PicksInv
  <2>2. CASE ~p.listening
    BY <2>2 DEF PicksInv
  <2> QED BY <2>1, <2>2
<1>3. \A o \in orders, l \in cart :
        l.pick \in o.picks =>
           \/ l.pick \in abandoned
           \/ \E q \in posts \ {p} :
                q.listening /\ q.result = "created" /\ l \in q.lines
  BY <1>1 DEF PicksInv
<1>4. /\ posts \ {p} \subseteq posts'
      /\ \A q \in posts' : \/ q \in posts \ {p}
                           \/ q.listening /\ p.listening /\ q.lines = p.lines
      /\ \A q, r \in posts' \ (posts \ {p}) : q = r
      /\ p.listening /\ orders' # orders =>
           \E q \in posts' : q.listening /\ q.result = "created" /\ q.lines = p.lines
  <2>1. CASE ~p.listening
    BY <2>1, Served DEF LinesInv
  <2>2. CASE p.listening
    <3>1. PICK q : /\ posts' = (posts \ {p}) \cup {q} /\ q.listening
                   /\ q.lines = p.lines
                   /\ orders' # orders => q.result = "created"
      BY <2>2, Served DEF LinesInv
    <3> QED BY <2>2, <3>1
  <2> QED BY <2>1, <2>2
<1>5. OneListener'
  BY <1>4 DEF PicksInv, OneListener
<1>6. /\ \A q \in posts' : ~q.listening => \A l \in q.lines : l.pick \in abandoned
      /\ \A q \in posts' : \A l \in q.lines : l.pick < picks
  BY <1>4 DEF PicksInv
<1>7. CASE orders' = orders
  BY <1>1, <1>3, <1>4, <1>5, <1>6, <1>7 DEF PicksInv, OrderedOnce
<1>8. CASE orders' # orders
  <2>1. PICK o : orders' = orders \cup {o} /\ o.picks = {l.pick : l \in p.lines}
    BY <1>8, Creates
  <2>2. o.picks \subseteq Nat /\ \A k \in o.picks : k < picks
    BY <1>1, <2>1, LineFields DEF PicksInv
  <2>3. \A q \in orders : o.picks \cap q.picks \subseteq abandoned
    BY <1>2, <2>1
  <2>4. OrderedOnce'
    BY <1>1, <2>1, <2>3 DEF PicksInv, OrderedOnce
  <2>5. \A l \in cart :
          l.pick \in o.picks =>
             \/ l.pick \in abandoned
             \/ \E q \in posts' : q.listening /\ q.result = "created" /\ l \in q.lines
    <3>1. CASE p.listening
      <4>1. p.lines = cart
        BY <3>1 DEF LinesInv, Listened
      <4> QED BY <1>4, <1>8, <3>1, <4>1
    <3>2. CASE ~p.listening
      BY <2>1, <3>2 DEF PicksInv
    <3> QED BY <3>1, <3>2
  <2>6. \A q \in orders', l \in cart :
          l.pick \in q.picks =>
             \/ l.pick \in abandoned
             \/ \E r \in posts' : r.listening /\ r.result = "created" /\ l \in r.lines
    BY <1>3, <1>4, <2>1, <2>5
  <2>7. \A q \in orders' : q.picks \subseteq Nat /\ \A k \in q.picks : k < picks
    BY <2>1, <2>2 DEF PicksInv
  <2> QED BY <1>1, <1>5, <1>6, <2>4, <2>6, <2>7 DEF PicksInv
<1> QED BY <1>7, <1>8

LEMMA PicksPosts ==
    ASSUME LinesInv, PicksInv, NEW p \in posts, Arrive(p) \/ Forget(p)
    PROVE  PicksInv'
<1>1. posts' = posts \ {p} /\ UNCHANGED <<orders, picks, abandoned>>
  BY DEF Arrive, Forget, history
<1>2. \/ cart' = {}
      \/ cart' = cart /\ (p.listening => p.result # "created")
  <2>1. CASE Forget(p)
    BY <2>1 DEF Forget, browser, cart
  <2>2. CASE Arrive(p) /\ storage' = storage
    <3>1. cart' = cart
      BY <2>2 DEF Arrive, cart
    <3>2. CASE p.result = "created"
      <4>1. storage' = [storage EXCEPT ![session] = {}] /\ session' = session
        BY <2>2, <3>2 DEF Arrive
      <4> QED BY <4>1 DEF cart, LinesInv, CartTypes
    <3> QED BY <3>1, <3>2
  <2>3. CASE Arrive(p) /\ storage' = [storage EXCEPT ![session] = {}]
    BY <2>3 DEF Arrive, cart, LinesInv, CartTypes
  <2> QED BY <2>1, <2>2, <2>3 DEF Arrive
<1>3. OneListener' /\ OrderedOnce'
  BY <1>1 DEF PicksInv, OneListener, OrderedOnce
<1>4. \A o \in orders', l \in cart' :
        l.pick \in o.picks =>
           \/ l.pick \in abandoned'
           \/ \E q \in posts' : q.listening /\ q.result = "created" /\ l \in q.lines
  BY <1>1, <1>2 DEF PicksInv
<1> QED BY <1>1, <1>2, <1>3, <1>4 DEF PicksInv

LEMMA PicksStep == LinesInv /\ PicksInv /\ [Next]_vars /\ LinesInv' => PicksInv'
<1> SUFFICES ASSUME LinesInv, PicksInv, [Next]_vars, LinesInv' PROVE PicksInv'
  OBVIOUS
<1> DEFINE Writes(lines) == /\ storage' = [storage EXCEPT ![session] = lines]
                            /\ session' = session
<1>1. \A lines : Writes(lines) => cart' = lines
  BY DEF cart, LinesInv, CartTypes
<1>2. CASE VisitMenu \/ VisitCart \/ Lose
  <2>1. Abandon /\ UNCHANGED <<orders, picks, storage, session>>
    BY <1>2 DEF VisitMenu, VisitCart, Lose, Leave
  <2>2. cart' = cart
    BY <2>1 DEF cart
  <2> QED BY <2>1, <2>2, PicksAbandon
<1>3. CASE \E s \in Sessions : SignIn(s)
  <2>1. PICK s \in Sessions : SignIn(s)
    BY <1>3
  <2>2. cart' = {}
    BY <2>1 DEF SignIn, cart, LinesInv, OnlyOwnCart
  <2>3. Abandon /\ UNCHANGED <<orders, picks>>
    BY <2>1 DEF SignIn, Leave
  <2> QED BY <2>2, <2>3, PicksAbandon
<1>4. CASE AddToCart
  <2>1. /\ page = "menu" /\ picks' = picks + 1
        /\ UNCHANGED <<posts, orders, abandoned>>
    BY <1>4 DEF AddToCart, InDetail
  <2>2. \A p \in posts : ~p.listening
    BY <2>1 DEF LinesInv, Listened
  <2>3. \A m \in cart' : m.pick = picks \/ \E l \in cart : m.pick = l.pick
    <3>1. PICK lines : /\ Writes(lines)
                       /\ \A m \in lines : m.pick = picks \/ \E l \in cart : m.pick = l.pick
      BY <1>4, AddsALine DEF AddToCart
    <3> QED BY <1>1, <3>1
  <2> QED BY <2>1, <2>2, <2>3, PicksEdit
<1>5. CASE RemoveInDetail
  <2>1. page = "menu" /\ UNCHANGED <<posts, orders, abandoned, picks>>
    BY <1>5 DEF RemoveInDetail, InDetail, history
  <2>2. \A p \in posts : ~p.listening
    BY <2>1 DEF LinesInv, Listened
  <2>3. cart' \subseteq cart
    BY <1>1, <1>5 DEF RemoveInDetail
  <2> QED BY <2>1, <2>2, <2>3, PicksEdit
<1>6. CASE \E line \in cart : SetQuantity(line) \/ Remove(line)
  <2>1. PICK lines \in Carts : /\ Change(lines)
                               /\ \A m \in lines : \E k \in cart : m.pick = k.pick
    BY <1>6, Buttons
  <2>2. form = "idle" /\ UNCHANGED <<posts, orders, abandoned, picks>>
    BY <2>1 DEF Change, InCart, history
  <2>3. \A p \in posts : ~p.listening
    BY <2>2 DEF LinesInv, Listened
  <2>4. cart' = lines
    BY <1>1, <2>1 DEF Change
  <2> QED BY <2>1, <2>2, <2>3, <2>4, PicksEdit
<1>7. CASE Confirm
  BY <1>7, PicksConfirm
<1>8. CASE \E p \in posts : Create(p)
  BY <1>8, PicksCreate
<1>9. CASE \E p \in posts : Arrive(p) \/ Forget(p)
  BY <1>9, PicksPosts
<1>10. CASE \/ \E s \in Schedules : OpenDetail(s)
            \/ ChangeDraft \/ Back \/ Elsewhere \/ UNCHANGED vars
            \/ \E r \in requests : Answer(r) \/ Fail(r)
  <2>1. UNCHANGED <<session, storage, posts, orders, picks, abandoned>>
    BY <1>10 DEF OpenDetail, ChangeDraft, Back, Elsewhere, Answer, Fail, Settle,
                 vars, browser, history
  <2> QED BY <2>1 DEF PicksInv, OneListener, OrderedOnce, cart
<1> QED
  BY <1>2, <1>3, <1>4, <1>5, <1>6, <1>7, <1>8, <1>9, <1>10 DEF Next

-----------------------------------------------------------------------------
LEMMA CartStep == CartInv /\ [Next]_vars => CartInv'
<1> SUFFICES ASSUME CartInv, [Next]_vars PROVE CartInv'
  OBVIOUS
<1>1. LinesInv'
  BY LinesStep DEF CartInv, PicksInv
<1>2. PricesInv' /\ AmountsInv' /\ PicksInv'
  BY <1>1, PricesStep, AmountsStep, PicksStep DEF CartInv
<1> QED BY <1>1, <1>2 DEF CartInv

LEMMA CartInvariant == Spec => []CartInv
BY CartInit, CartStep, PTL DEF Spec

\* A dish is in the cart once, and a line asks for no more than there was of it.
THEOREM CartLines == Spec => [](OneLinePerDish /\ LinesWithinStock)
<1>1. CartInv => OneLinePerDish /\ LinesWithinStock
  BY DEF CartInv, LinesInv
<1> QED BY <1>1, CartInvariant, PTL

\* The tab keeps the cart of the session signed in and no other.
THEOREM OwnCart == Spec => []OnlyOwnCart
<1>1. CartInv => OnlyOwnCart
  BY DEF CartInv, LinesInv
<1> QED BY <1>1, CartInvariant, PTL

\* While the prices are a spinner they have been asked for.
THEOREM SpinnerIsAsked == Spec => []LoadingIsAsked
<1>1. CartInv => LoadingIsAsked
  BY DEF CartInv, PricesInv
<1> QED BY <1>1, CartInvariant, PTL

\* The amount on show is the answer to what was asked for the lines on show.
THEOREM AmountOnShow == Spec => []AmountIsOfTheCart
<1>1. CartInv => AmountIsOfTheCart
  BY DEF CartInv, PricesInv, AmountIsOfTheCart, Shown, loading
<1> QED BY <1>1, CartInvariant, PTL

\* An order is created for the amount on show when it was confirmed.
THEOREM Charged == Spec => []ChargedAsShown
<1>1. CartInv => ChargedAsShown
  BY DEF CartInv, AmountsInv
<1> QED BY <1>1, CartInvariant, PTL

\* What was put in the cart once is ordered once, and then leaves it, unless an
\* answer was lost or not waited for.
THEOREM OrderedAndGone == Spec => [](OrderedOnce /\ OrderedLeavesTheCart)
<1>1. CartInv => OrderedOnce /\ OrderedLeavesTheCart
  BY DEF CartInv, PicksInv, OrderedLeavesTheCart
<1> QED BY <1>1, CartInvariant, PTL

\* The lines of the cart and whose cart it is, together.
THEOREM Kept == Spec => []CartKept
BY CartLines, OwnCart, PTL DEF CartKept

\* The amount on show and the spinner in its place, together.
THEOREM Priced == Spec => []PricedAsAsked
BY SpinnerIsAsked, AmountOnShow, PTL DEF PricedAsAsked

\* OrderedAndGone under the name of the property.
THEOREM OrderedOnceGone == Spec => []OrderedOnceAndGone
BY OrderedAndGone, PTL DEF OrderedOnceAndGone
=============================================================================
