-------------------------- MODULE FlowScreensProofs --------------------------
(***************************************************************************)
(* What holds of the tasks of a provider that take several steps and       *)
(* answers, for any number of dishes, days, rows, weeks and visits:        *)
(* publishing dishes (MenuPublishing), importing them (MenuImport), going  *)
(* through the menu by weeks (MenuWeek), the onboarding                    *)
(* (ProviderOnboarding), the list of orders (ProviderOrdersPage) and the   *)
(* agenda of a dish (MenuAgendas).  Each page has one visit in flight and  *)
(* may interrupt it, and the server may serve what was interrupted: the    *)
(* arguments say at every moment which visit, or which of those given up,  *)
(* still owes what is missing.                                             *)
(***************************************************************************)
EXTENDS MenuPublishing, MenuImport, MenuWeek, ProviderOnboarding,
        ProviderOrdersPage, MenuAgendas, SumTheorems, TLAPS

-----------------------------------------------------------------------------
(* Publishing dishes *)

\* The news there may be of dishes added.
News == [open : BOOLEAN, origin : {"none", "new", "saved"}, day : PublishDays \cup {NoDay},
         menus : SUBSET Dishes]

PublishTypes ==
    /\ tabShown \in {"new", "saved"}
    /\ written \in 0..writings /\ writings \in 0..MaxWritten
    /\ day \in PublishDays \cup {NoDay} /\ picked \subseteq Dishes
    /\ picked # {} => day \in PublishDays
    /\ visit \in Requests \cup {NoVisit} /\ heard \in BOOLEAN
    /\ adrift \subseteq Creations \cup Publications
    /\ added \in News
    /\ publishedShown \subseteq Dishes \X PublishDays
    /\ published \subseteq Dishes \X PublishDays
    /\ made \in [1..MaxWritten -> Nat] /\ unheard \subseteq 1..MaxWritten
    /\ visits \in 0..MaxVisits

Creating(number) == visit # NoVisit /\ visit.asks.kind = "create" /\ visit.asks.number = number

\* A dish made, and not given up, is no longer in the form, or its news is on the way or told.
MadeOf(number) ==
    /\ number > writings => made[number] = 0
    /\ Creating(number) => number <= writings /\ (heard \/ written # number)
    /\ number \notin unheard =>
         /\ made[number] <= 1
         /\ \A asks \in adrift : asks.kind = "create" => asks.number # number
         /\ made[number] = 1 =>
              \/ Creating(number) /\ visit.answer = "done"
              \/ ~Creating(number) /\ written # number
              \/ ~Creating(number) /\ added.open /\ added.origin = "new"

Told ==
    /\ added.open => visit = NoVisit
    /\ added.open => added.menus \X {added.day} \subseteq publishedShown \cup withdrawn
    /\ visit # NoVisit /\ visit.answer = "done" /\ visit.asks.kind = "publish" =>
         visit.asks.menus \X {visit.asks.day} \subseteq published \cup withdrawn
    /\ \A asks \in adrift : asks.kind = "create" => asks.number \in 1..writings

Offered == visits = 0 => visit = NoVisit /\ picked \subseteq Available

PublishInv ==
    /\ PublishTypes
    /\ \A number \in 1..MaxWritten : MadeOf(number)
    /\ Told
    /\ Offered

LEMMA PublishStarts == PublishingInit => PublishInv
<1> SUFFICES ASSUME PublishingInit PROVE PublishInv
  OBVIOUS
<1>1. PublishTypes
  <2>1. added \in News
    BY DEF PublishingInit, News, NotAdded
  <2>2. made \in [1..MaxWritten -> Nat]
    BY DEF PublishingInit
  <2>3. written \in 0..writings /\ writings \in 0..MaxWritten /\ visits \in 0..MaxVisits
    BY PublishingAssumption DEF PublishingInit
  <2> QED BY <2>1, <2>2, <2>3 DEF PublishingInit, PublishTypes
<1>2. ASSUME NEW number \in 1..MaxWritten PROVE MadeOf(number)
  BY DEF PublishingInit, MadeOf, Creating, NotAdded
<1>3. Told /\ Offered
  BY DEF PublishingInit, Told, Offered, NotAdded
<1> QED BY <1>1, <1>2, <1>3 DEF PublishInv

\* The page as it is filled in: nothing is sent, made or told.
LEMMA WritingKeeps ==
  ASSUME PublishInv, WriteDish \/ SwitchTab \/ ChangeDay \/ Toggle
  PROVE  PublishInv'
<1>1. /\ PublishTypes /\ Told /\ Offered
      /\ \A number \in 1..MaxWritten : MadeOf(number)
  BY DEF PublishInv
<1>2. ~added.open
  BY DEF WriteDish, SwitchTab, ChangeDay, Toggle, AtPage
<1>3. UNCHANGED <<visit, adrift, added, publishedShown, published, withdrawn, made, unheard,
                  visits>>
  BY DEF WriteDish, SwitchTab, ChangeDay, Toggle
<1>4. \/ heard' = heard /\ written' = written /\ writings' = writings
      \/ heard' = heard /\ written' = writings' /\ writings' = writings + 1
         /\ writings < MaxWritten
      \/ heard' = FALSE /\ written' = 0 /\ writings' = writings
  BY DEF WriteDish, SwitchTab, ChangeDay, Toggle
<1>5. writings \in Nat /\ writings' \in Nat /\ written \in Nat /\ MaxWritten \in Nat
  BY <1>1, <1>4, PublishingAssumption DEF PublishTypes
<1>6. /\ tabShown' \in {"new", "saved"} /\ day' \in PublishDays \cup {NoDay}
      /\ picked' \subseteq Dishes /\ (picked' # {} => day' \in PublishDays)
  BY <1>1 DEF PublishTypes, WriteDish, SwitchTab, ChangeDay, Toggle, Available
<1>7. PublishTypes'
  <2>1. written' \in 0..writings' /\ writings' \in 0..MaxWritten
    BY <1>1, <1>4, <1>5 DEF PublishTypes
  <2>2. heard' \in BOOLEAN
    BY <1>1, <1>4 DEF PublishTypes
  <2> QED BY <1>1, <1>3, <1>6, <2>1, <2>2 DEF PublishTypes
<1>8. ASSUME NEW number \in 1..MaxWritten PROVE MadeOf(number)'
  <2>1. MadeOf(number) /\ made[number] \in Nat
    BY <1>1 DEF PublishTypes
  <2>2. Creating(number)' = Creating(number)
    BY <1>3 DEF Creating
  <2>3. written' = written \/ written' = 0 \/ (written' = writings + 1 /\ writings' = writings + 1)
    BY <1>4
  <2>4. number > writings' => made[number] = 0
    BY <1>4, <1>5, <2>1 DEF MadeOf
  <2>5. Creating(number) => number <= writings' /\ (heard' \/ written' # number)
    BY <1>4, <1>5, <2>1 DEF MadeOf
  <2>6. made[number] = 1 /\ written # number => written' # number
    BY <1>4, <1>5, <2>1 DEF MadeOf
  <2> QED BY <1>3, <2>1, <2>2, <2>4, <2>5, <2>6 DEF MadeOf
<1>9. Told'
  BY <1>1, <1>3, <1>4, <1>5 DEF Told
<1>10. Offered'
  <2>1. visits = 0 => picked' \subseteq Available'
    <3>1. picked' = {} \/ (day' = day /\ picked' \subseteq picked \cup Available)
      BY DEF WriteDish, SwitchTab, ChangeDay, Toggle
    <3> QED BY <1>1, <1>3, <3>1 DEF Offered, Available
  <2> QED BY <1>1, <1>3, <2>1 DEF Offered
<1> QED BY <1>7, <1>8, <1>9, <1>10 DEF PublishInv

\* A dish is sent only if it was not made, or was given up.
LEMMA SendingKeeps ==
  ASSUME PublishInv, CreateDish \/ PublishDishes
  PROVE  PublishInv'
<1>1. /\ PublishTypes /\ Told /\ Offered
      /\ \A number \in 1..MaxWritten : MadeOf(number)
  BY DEF PublishInv
<1>2. ~added.open /\ ~(visit # NoVisit /\ heard)
  BY DEF CreateDish, PublishDishes, AtPage
<1>3. PICK request \in Creations \cup Publications :
        /\ Visit(request)
        /\ request.kind = "create" => request.number = written
        /\ request.kind \in {"create", "publish"}
        /\ request.kind = "create" => written \in 1..MaxWritten
  <2>1. CASE CreateDish
    <3>1. written \in 1..MaxWritten
      BY <1>1, <2>1, PublishingAssumption DEF CreateDish, PublishTypes
    <3>2. [kind |-> "create", number |-> written] \in Creations
      BY <3>1 DEF Creations
    <3> QED BY <2>1, <3>1, <3>2 DEF CreateDish
  <2>2. CASE PublishDishes
    <3>2. picked \in (SUBSET Dishes) \ {{}} /\ day \in PublishDays
      BY <1>1, <2>2 DEF PublishDishes, PublishTypes
    <3>1. [kind |-> "publish", day |-> day, menus |-> picked] \in Publications
      BY <3>2 DEF Publications
    <3> QED BY <2>2, <3>1 DEF PublishDishes
  <2> QED BY <2>1, <2>2
<1>4. /\ visits' = visits + 1 /\ visits < MaxVisits
      /\ visit' = [asks |-> request, answer |-> "waiting"] /\ heard'
      /\ unheard' = unheard \cup Unheard(visit)
      /\ adrift' = IF visit # NoVisit /\ visit.answer = "waiting"
                   THEN adrift \cup {visit.asks} ELSE adrift
  BY <1>3 DEF Visit
<1>5. UNCHANGED <<tabShown, written, writings, day, picked, added, publishedShown, published,
                  withdrawn, made>>
  BY DEF CreateDish, PublishDishes
<1>6. visit # NoVisit =>
        /\ visit.asks \in Creations \cup Publications
        /\ visit.asks.kind = "create" => visit.asks.number \in 1..MaxWritten
  BY <1>1 DEF PublishTypes, Requests, Creations, Publications
<1>7. visit' \in Requests /\ visit' # NoVisit /\ visit'.asks = request
      /\ visit'.answer = "waiting"
  BY <1>4, NoVisitAssumption DEF Requests
<1>8. PublishTypes'
  <2>1. unheard' \subseteq 1..MaxWritten /\ adrift' \subseteq Creations \cup Publications
    BY <1>1, <1>4, <1>6 DEF PublishTypes, Unheard
  <2>2. visits' \in 0..MaxVisits
    BY <1>1, <1>4, PublishingAssumption DEF PublishTypes
  <2> QED BY <1>1, <1>4, <1>5, <1>7, <2>1, <2>2 DEF PublishTypes
<1>9. ASSUME NEW number \in 1..MaxWritten PROVE MadeOf(number)'
  <2>1. MadeOf(number) /\ made[number] \in Nat /\ written <= writings
    BY <1>1, PublishingAssumption DEF PublishTypes
  <2>2. Creating(number) => number \in unheard'
    BY <1>4 DEF Creating, Unheard
  <2>3. Creating(number)' => number = written /\ number <= writings
    BY <1>3, <1>7, <2>1 DEF Creating
  <2>4. number \notin unheard' =>
          /\ made[number] <= 1 /\ (made[number] = 1 => written # number)
          /\ \A asks \in adrift' : asks.kind = "create" => asks.number # number
    BY <1>2, <1>4, <2>1, <2>2 DEF MadeOf, Creating
  <2>5. (number > writings => made[number] = 0)'
    BY <1>5, <2>1 DEF MadeOf
  <2>6. Creating(number)' => number <= writings' /\ heard'
    BY <1>4, <1>5, <2>3
  <2>7. number \notin unheard' =>
          made'[number] <= 1
            /\ (made'[number] = 1 => ~Creating(number)' /\ written' # number)
    BY <1>5, <2>3, <2>4
  <2> QED BY <2>4, <2>5, <2>6, <2>7 DEF MadeOf
<1>10. Told'
  <2>1. \A asks \in adrift' : asks.kind = "create" => asks.number \in 1..writings
    <3>1. visit # NoVisit /\ visit.asks.kind = "create" => visit.asks.number \in 1..writings
      BY <1>1, <1>6 DEF MadeOf, Creating, PublishTypes
    <3> QED BY <1>1, <1>4, <3>1 DEF Told
  <2> QED BY <1>1, <1>2, <1>5, <1>7, <2>1 DEF Told
<1>11. Offered'
  BY <1>1, <1>4 DEF Offered, PublishTypes
<1> QED BY <1>8, <1>9, <1>10, <1>11 DEF PublishInv

\* What the server makes of a request: of one sent last, or of one given up.
LEMMA ServedPublishing ==
  ASSUME PublishInv, NEW asks \in Creations \cup Publications, Serves(asks)
  PROVE  /\ made' \in [1..MaxWritten -> Nat] /\ published \subseteq published'
         /\ published' \subseteq Dishes \X PublishDays
         /\ asks.kind = "publish" => asks.menus \X {asks.day} \subseteq published'
         /\ \A number \in 1..MaxWritten :
              \/ made'[number] = made[number]
              \/ asks.kind = "create" /\ asks.number = number
                 /\ made'[number] = made[number] + 1
<1>1. made \in [1..MaxWritten -> Nat] /\ published \subseteq Dishes \X PublishDays
  BY DEF PublishInv, PublishTypes
<1>2. CASE asks.kind = "create"
  <2>1. asks.number \in 1..MaxWritten
    BY <1>2 DEF Creations, Publications
  <2> QED BY <1>1, <1>2, <2>1 DEF Serves
<1>3. CASE asks.kind # "create"
  <2>1. asks.menus \subseteq Dishes /\ asks.day \in PublishDays
    BY <1>3 DEF Creations, Publications
  <2>2. asks.menus \X {asks.day} \subseteq Dishes \X PublishDays
    BY <2>1
  <2>3. UNCHANGED made /\ published' = published \cup (asks.menus \X {asks.day})
    BY <1>3 DEF Serves
  <2> QED BY <1>1, <1>3, <2>2, <2>3
<1> QED BY <1>2, <1>3

LEMMA ServingKeeps == PublishInv /\ ServeVisit => PublishInv'
<1> SUFFICES ASSUME PublishInv, ServeVisit PROVE PublishInv'
  OBVIOUS
<1>1. /\ PublishTypes /\ Told /\ Offered
      /\ \A number \in 1..MaxWritten : MadeOf(number)
  BY DEF PublishInv
<1>2. /\ visit # NoVisit /\ visit.answer = "waiting"
      /\ \/ Serves(visit.asks) /\ visit' = [visit EXCEPT !.answer = "done"]
         \/ visit' = [visit EXCEPT !.answer = "refused"] /\ UNCHANGED <<published, made>>
      /\ UNCHANGED <<tabShown, written, writings, day, picked, heard, adrift, added,
                     publishedShown, unheard, visits>>
  BY DEF ServeVisit
<1>3. visit \in Requests /\ visit.asks \in Creations \cup Publications
  BY <1>1, <1>2 DEF PublishTypes, Requests
<1>4. /\ visit' \in Requests /\ visit' # NoVisit /\ visit'.asks = visit.asks
      /\ visit'.answer = "done" \/ (visit'.answer = "refused" /\ UNCHANGED <<published, made>>)
  <2>1. visit' \in Requests /\ visit'.asks = visit.asks
    BY <1>2, <1>3 DEF Requests
  <2>2. visit'.answer = "done" \/ (visit'.answer = "refused" /\ UNCHANGED <<published, made>>)
    BY <1>2, <1>3 DEF Requests
  <2> QED BY <2>1, <2>2, NoVisitAssumption
<1>5. /\ made' \in [1..MaxWritten -> Nat] /\ published \subseteq published'
      /\ published' \subseteq Dishes \X PublishDays
      /\ visit'.answer = "done" /\ visit.asks.kind = "publish" =>
           visit.asks.menus \X {visit.asks.day} \subseteq published'
      /\ \A number \in 1..MaxWritten :
           \/ made'[number] = made[number]
           \/ visit'.answer = "done" /\ Creating(number) /\ made'[number] = made[number] + 1
  <2>1. CASE Serves(visit.asks) /\ visit' = [visit EXCEPT !.answer = "done"]
    <3>1. visit'.answer = "done"
      BY <1>3, <2>1 DEF Requests
    <3> QED BY <1>2, <1>3, <2>1, <3>1, ServedPublishing DEF Creating
  <2>2. CASE visit' = [visit EXCEPT !.answer = "refused"] /\ UNCHANGED <<published, made>>
    <3>1. visit'.answer = "refused"
      BY <1>3, <2>2 DEF Requests
    <3> QED BY <1>1, <2>2, <3>1 DEF PublishTypes
  <2> QED BY <1>2, <2>1, <2>2
<1>6. PublishTypes'
  BY <1>1, <1>2, <1>4, <1>5 DEF PublishTypes
<1>7. ASSUME NEW number \in 1..MaxWritten PROVE MadeOf(number)'
  <2>1. MadeOf(number) /\ made[number] \in Nat /\ written <= writings
    BY <1>1, PublishingAssumption DEF PublishTypes
  <2>2. Creating(number)' = Creating(number)
    BY <1>2, <1>4 DEF Creating
  <2>3. CASE made'[number] = made[number]
    BY <1>2, <2>1, <2>2, <2>3 DEF MadeOf
  <2>4. CASE visit'.answer = "done" /\ Creating(number) /\ made'[number] = made[number] + 1
    <3>1. number \notin unheard => made[number] = 0
      BY <1>2, <2>1, <2>4 DEF MadeOf
    <3>2. ~(number > writings) /\ (heard \/ written # number)
      BY <1>1, <2>1, <2>4, PublishingAssumption DEF MadeOf, PublishTypes
    <3> QED BY <1>2, <2>1, <2>2, <2>4, <3>1, <3>2 DEF MadeOf
  <2> QED BY <1>5, <2>3, <2>4
<1>8. Told' /\ Offered'
  BY <1>1, <1>2, <1>4, <1>5 DEF Told, Offered
<1> QED BY <1>6, <1>7, <1>8 DEF PublishInv

\* Served late is only what was given up.
LEMMA AdriftKeeps == PublishInv /\ ServeAdrift => PublishInv'
<1> SUFFICES ASSUME PublishInv, ServeAdrift PROVE PublishInv'
  OBVIOUS
<1>1. /\ PublishTypes /\ Told /\ Offered
      /\ \A number \in 1..MaxWritten : MadeOf(number)
  BY DEF PublishInv
<1>2. PICK asks \in adrift :
        adrift' = adrift \ {asks} /\ (Serves(asks) \/ UNCHANGED <<published, made>>)
  BY DEF ServeAdrift
<1>3. UNCHANGED <<tabShown, written, writings, day, picked, visit, heard, added,
                  publishedShown, withdrawn, unheard, visits>>
  BY DEF ServeAdrift
<1>4. /\ made' \in [1..MaxWritten -> Nat] /\ published \subseteq published'
      /\ published' \subseteq Dishes \X PublishDays
      /\ \A number \in 1..MaxWritten :
           \/ made'[number] = made[number]
           \/ asks.kind = "create" /\ asks.number = number
  <2>1. asks \in Creations \cup Publications
    BY <1>1 DEF PublishTypes
  <2>2. CASE Serves(asks)
    BY <2>1, <2>2, ServedPublishing
  <2>3. CASE UNCHANGED <<published, made>>
    BY <1>1, <2>3 DEF PublishTypes
  <2> QED BY <1>2, <2>2, <2>3
<1>5. PublishTypes'
  BY <1>1, <1>2, <1>3, <1>4 DEF PublishTypes
<1>6. ASSUME NEW number \in 1..MaxWritten PROVE MadeOf(number)'
  <2>1. MadeOf(number)
    BY <1>1
  <2>2. Creating(number)' = Creating(number)
    BY <1>3 DEF Creating
  <2>3. CASE asks.kind = "create" /\ asks.number = number
    <3>1. number \in unheard /\ ~(number > writings)
      BY <1>1, <2>1, <2>3, PublishingAssumption DEF MadeOf, Told, PublishTypes
    <3> QED BY <1>3, <2>1, <2>2, <3>1 DEF MadeOf
  <2>4. CASE made'[number] = made[number]
    BY <1>2, <1>3, <2>1, <2>2, <2>4 DEF MadeOf
  <2> QED BY <1>4, <2>3, <2>4
<1>7. Told' /\ Offered'
  BY <1>1, <1>2, <1>3, <1>4 DEF Told, Offered, Available
<1> QED BY <1>5, <1>6, <1>7 DEF PublishInv

LEMMA ArrivingKeeps == PublishInv /\ VisitArrives => PublishInv'
<1> SUFFICES ASSUME PublishInv, VisitArrives PROVE PublishInv'
  OBVIOUS
<1>1. /\ PublishTypes /\ Told /\ Offered
      /\ \A number \in 1..MaxWritten : MadeOf(number)
  BY DEF PublishInv
<1>2. /\ visit # NoVisit /\ visit.answer # "waiting" /\ publishedShown' = published
      /\ visit' = NoVisit /\ heard' = FALSE
      /\ added' = IF visit.answer = "refused" THEN added
                  ELSE IF visit.asks.kind = "create"
                  THEN [open |-> TRUE, origin |-> "new", day |-> NoDay, menus |-> {}]
                  ELSE [open |-> TRUE, origin |-> "saved", day |-> visit.asks.day,
                        menus |-> visit.asks.menus]
      /\ picked' \in {picked, {}}
      /\ UNCHANGED <<tabShown, written, writings, day, adrift, published, withdrawn, made,
                     unheard, visits>>
  BY DEF VisitArrives
<1>3. visit \in Requests /\ visit.asks \in Creations \cup Publications
      /\ visit.answer \in {"done", "refused"}
  BY <1>1, <1>2 DEF PublishTypes, Requests
<1>4. added' \in News /\ ~added.open
  <2>1. visit.asks.kind = "create" \/ (visit.asks.day \in PublishDays /\ visit.asks.menus \subseteq Dishes)
    BY <1>3 DEF Creations, Publications
  <2> QED BY <1>1, <1>2, <2>1 DEF News, Told, PublishTypes
<1>5. PublishTypes'
  BY <1>1, <1>2, <1>4 DEF PublishTypes
<1>6. ASSUME NEW number \in 1..MaxWritten PROVE MadeOf(number)'
  <2>1. MadeOf(number) /\ made[number] \in Nat
    BY <1>1 DEF PublishTypes
  <2>2. ~Creating(number)'
    BY <1>2 DEF Creating
  <2>3. CASE Creating(number) /\ visit.answer = "done"
    <3>1. added'.open /\ added'.origin = "new"
      BY <1>2, <2>3 DEF Creating
    <3> QED BY <1>2, <2>1, <2>2, <3>1 DEF MadeOf
  <2>4. CASE ~(Creating(number) /\ visit.answer = "done")
    BY <1>2, <1>4, <2>1, <2>2, <2>4 DEF MadeOf
  <2> QED BY <2>3, <2>4
<1>7. Told'
  <2>1. added'.open => added'.menus \X {added'.day} \subseteq published \cup withdrawn
    <3>1. CASE visit.answer = "refused"
      BY <1>2, <1>4, <3>1
    <3>2. CASE visit.answer = "done" /\ visit.asks.kind = "create"
      BY <1>2, <3>2
    <3>3. CASE visit.answer = "done" /\ visit.asks.kind # "create"
      <4>1. visit.asks.kind = "publish"
        BY <1>3, <3>3 DEF Creations, Publications
      <4> QED BY <1>1, <1>2, <3>3, <4>1 DEF Told
    <3> QED BY <1>3, <3>1, <3>2, <3>3
  <2> QED BY <1>1, <1>2, <2>1 DEF Told
<1>8. Offered'
  BY <1>1, <1>2 DEF Offered
<1> QED BY <1>5, <1>6, <1>7, <1>8 DEF PublishInv

LEMMA LosingKeeps == PublishInv /\ VisitLost => PublishInv'
<1> SUFFICES ASSUME PublishInv, VisitLost PROVE PublishInv'
  OBVIOUS
<1>1. /\ PublishTypes /\ Told /\ Offered
      /\ \A number \in 1..MaxWritten : MadeOf(number)
  BY DEF PublishInv
<1>2. /\ visit # NoVisit /\ visit' = NoVisit /\ heard' = FALSE
      /\ unheard' = unheard \cup Unheard(visit)
      /\ adrift' = IF visit.answer = "waiting" THEN adrift \cup {visit.asks} ELSE adrift
      /\ UNCHANGED <<tabShown, written, writings, day, picked, added, publishedShown,
                     published, withdrawn, made, visits>>
  BY DEF VisitLost
<1>3. /\ visit.asks \in Creations \cup Publications
      /\ visit.asks.kind = "create" => visit.asks.number \in 1..MaxWritten
  BY <1>1, <1>2 DEF PublishTypes, Requests, Creations, Publications
<1>4. PublishTypes'
  <2>1. unheard' \subseteq 1..MaxWritten /\ adrift' \subseteq Creations \cup Publications
    BY <1>1, <1>2, <1>3 DEF PublishTypes, Unheard
  <2> QED BY <1>1, <1>2, <2>1 DEF PublishTypes
<1>5. ASSUME NEW number \in 1..MaxWritten PROVE MadeOf(number)'
  <2>1. MadeOf(number)
    BY <1>1
  <2>2. ~Creating(number)' /\ (Creating(number) => number \in unheard')
    BY <1>2 DEF Creating, Unheard
  <2>3. number \notin unheard' =>
          \A asks \in adrift' : asks.kind = "create" => asks.number # number
    BY <1>2, <2>1, <2>2 DEF MadeOf, Creating
  <2> QED BY <1>2, <2>1, <2>2, <2>3 DEF MadeOf
<1>6. Told'
  <2>1. visit.asks.kind = "create" => visit.asks.number \in 1..writings
    BY <1>1, <1>2, <1>3 DEF MadeOf, Creating, PublishTypes
  <2> QED BY <1>1, <1>2, <2>1 DEF Told
<1>7. Offered'
  BY <1>1, <1>2 DEF Offered
<1> QED BY <1>4, <1>5, <1>6, <1>7 DEF PublishInv

LEMMA ClosingKeeps == PublishInv /\ (CloseAdded \/ PublishElsewhere) => PublishInv'
<1> SUFFICES ASSUME PublishInv, CloseAdded \/ PublishElsewhere PROVE PublishInv'
  OBVIOUS
<1>1. /\ PublishTypes /\ Told /\ Offered
      /\ \A number \in 1..MaxWritten : MadeOf(number)
  BY DEF PublishInv
<1>2. UNCHANGED <<tabShown, writings, day, picked, visit, heard, adrift, publishedShown,
                  withdrawn, made, unheard, visits>>
  BY DEF CloseAdded, PublishElsewhere
<1>3. published \subseteq published' /\ published' \subseteq Dishes \X PublishDays
  BY <1>1 DEF CloseAdded, PublishElsewhere, PublishTypes
<1>4. \/ added' = added /\ written' = written
      \/ /\ added' = NotAdded /\ added.open
         /\ written' = IF added.origin = "new" THEN 0 ELSE written
  BY DEF CloseAdded, PublishElsewhere
<1>5. PublishTypes'
  <2>1. added' \in News
    <3>1. NotAdded \in News
      BY DEF News, NotAdded
    <3> QED BY <1>1, <1>4, <3>1 DEF PublishTypes
  <2>2. written' \in 0..writings
    BY <1>1, <1>4 DEF PublishTypes
  <2> QED BY <1>1, <1>2, <1>3, <2>1, <2>2 DEF PublishTypes
<1>6. ASSUME NEW number \in 1..MaxWritten PROVE MadeOf(number)'
  <2>1. MadeOf(number) /\ (Creating(number)' = Creating(number)) /\ number # 0
    BY <1>1, <1>2 DEF Creating
  <2>2. CASE added' = added /\ written' = written
    BY <1>2, <2>1, <2>2 DEF MadeOf
  <2>3. CASE added.open /\ written' = IF added.origin = "new" THEN 0 ELSE written
    <3>1. ~Creating(number)
      BY <1>1, <2>3 DEF Told, Creating
    <3> QED BY <1>2, <2>1, <2>3, <3>1 DEF MadeOf
  <2> QED BY <1>4, <2>2, <2>3
<1>7. Told'
  BY <1>1, <1>2, <1>3, <1>4 DEF Told, NotAdded
<1>8. Offered'
  BY <1>1, <1>2 DEF Offered, Available
<1> QED BY <1>5, <1>6, <1>7, <1>8 DEF PublishInv

\* What is taken down while an answer is on its way is remembered; earlier, the answer
\* has not been given, and later the page has it.
LEMMA RemovingKeeps == PublishInv /\ RemoveElsewhere => PublishInv'
<1> SUFFICES ASSUME PublishInv, RemoveElsewhere PROVE PublishInv'
  OBVIOUS
<1>1. PICK pair \in published :
        /\ published' = published \ {pair}
        /\ withdrawn' = IF visit # NoVisit /\ visit.answer # "waiting"
                        THEN withdrawn \cup {pair} ELSE withdrawn
  BY DEF RemoveElsewhere
<1>2. UNCHANGED <<tabShown, written, writings, day, picked, visit, heard, adrift, added,
                  publishedShown, made, unheard, visits>>
  BY DEF RemoveElsewhere
<1>3. PublishTypes'
  BY <1>1, <1>2 DEF PublishInv, PublishTypes
<1>4. ASSUME NEW number \in 1..MaxWritten PROVE MadeOf(number)'
  BY <1>2 DEF PublishInv, MadeOf, Creating
<1>5. Told'
  BY <1>1, <1>2 DEF PublishInv, Told
<1>6. Offered'
  BY <1>2 DEF PublishInv, Offered, Available
<1> QED BY <1>3, <1>4, <1>5, <1>6 DEF PublishInv

LEMMA PublishStep == PublishInv /\ [PublishingNext]_publishingVars => PublishInv'
<1> SUFFICES ASSUME PublishInv, [PublishingNext]_publishingVars PROVE PublishInv'
  OBVIOUS
<1>1. CASE UNCHANGED publishingVars
  BY <1>1 DEF publishingVars, PublishInv, PublishTypes, MadeOf, Creating, Told, Offered, Available
<1>2. CASE PublishingNext
  BY <1>2, WritingKeeps, SendingKeeps, ServingKeeps, AdriftKeeps, ArrivingKeeps, LosingKeeps,
     ClosingKeeps, RemovingKeeps DEF PublishingNext
<1> QED BY <1>1, <1>2

\* However many dishes are written, tabs switched and answers lost or interrupted, a dish is
\* made once unless its answer was lost, what the dialog says is published is on the page but
\* for what another window took down meanwhile, and what is picked was on offer
\* (new-menu-form.tsx:235, saved-menus-tab.tsx:204, new.tsx:120).
THEOREM PublishedAsTold == PublishingSpec => []PublishedAsSaid
<1>1. PublishInv => PublishedAsSaid
  <2> SUFFICES ASSUME PublishInv PROVE PublishedAsSaid
    OBVIOUS
  <2>1. ASSUME NEW number \in 1..writings, made[number] > 1 PROVE number \in unheard
    <3>1. number \in 1..MaxWritten
      BY PublishingAssumption DEF PublishInv, PublishTypes
    <3> QED BY <2>1, <3>1 DEF PublishInv, PublishTypes, MadeOf
  <2>2. SaysWhatWasPublished /\ PickedAreOffered
    BY DEF PublishInv, Told, Offered, SaysWhatWasPublished, PickedAreOffered
  <2> QED BY <2>1, <2>2 DEF PublishedAsSaid, MadeOnce
<1> QED BY <1>1, PublishStarts, PublishStep, PTL DEF PublishingSpec

-----------------------------------------------------------------------------
(* Importing dishes *)

\* An update of a dish, not renamed since, was asked about, or the page knew of no order of
\* that dish and rejects none.
AskedAbout(card) ==
    card.action = "update" /\ ~card.renamed =>
      card.askedAbout = card.name \/ (~card.knew /\ ~card.reject)

CardsTypes ==
    /\ menus \in DishStates /\ savedMenus \in DishStates
    /\ cards \in [Cards -> CardRecords \cup {NoName}]
    /\ editingCard \in Present \cup {NoName} /\ updatingCard \in Present \cup {NoName}
    /\ importing \in ImportRequests \cup {NoName}
    /\ imported \in [Cards -> Nat] /\ unanswered \subseteq Cards

Asked == \A key \in Present : AskedAbout(cards[key])

AskedInFlight ==
    importing # NoName =>
      \A key \in DOMAIN importing.entries : AskedAbout(importing.entries[key])

\* Of the rows whose answers came, nothing is imported yet while the review is open, but for
\* those of the request the server has just served.
OnceOnly ==
    /\ importing # NoName => step = "review"
    /\ \A key \in Cards \ unanswered :
         /\ imported[key] <= 1
         /\ imported[key] = 1 =>
              \/ step = "imported"
              \/ importing # NoName /\ importing.answer = "done"
                 /\ key \in DOMAIN importing.entries

ImportInv == CardsTypes /\ Asked /\ AskedInFlight /\ OnceOnly

LEMMA ImportStarts == ImportInit => ImportInv
BY DEF ImportInit, ImportInv, CardsTypes, Asked, AskedInFlight, OnceOnly, Present

\* The dishes elsewhere matter to no card.
LEMMA MovingKeeps == ImportInv /\ MenusMove => ImportInv'
<1> SUFFICES ASSUME ImportInv, MenusMove PROVE ImportInv'
  OBVIOUS
<1>1. PICK name \in Names, state \in {"none", "saved", "ordered"} :
         menus' = [menus EXCEPT ![name] = state]
  BY DEF MenusMove
<1>2. menus' \in DishStates
  BY <1>1 DEF ImportInv, CardsTypes, DishStates
<1>3. UNCHANGED <<savedMenus, step, cards, editingCard, updatingCard, importing, imported,
                  unanswered>>
  BY DEF MenusMove, sheetVars
<1> QED BY <1>2, <1>3
        DEF ImportInv, CardsTypes, Asked, AskedAbout, AskedInFlight, OnceOnly, Present

\* Reading the file.
LEMMA FileKeeps == ImportInv /\ (ChooseFile \/ Upload \/ FileRead) => ImportInv'
<1> SUFFICES ASSUME ImportInv, ChooseFile \/ Upload \/ FileRead PROVE ImportInv'
  OBVIOUS
<1>1. /\ CardsTypes /\ Asked /\ AskedInFlight /\ OnceOnly
  BY DEF ImportInv
<1>2. step = "upload" /\ importing = NoName
      /\ UNCHANGED <<menus, editingCard, updatingCard, importing, imported, unanswered>>
      /\ savedMenus' \in {savedMenus, menus}
  BY <1>1 DEF ChooseFile, Upload, FileRead, OnceOnly, requestVars
<1>3. \/ UNCHANGED <<step, cards>>
      \/ /\ step' = "review"
         /\ \E names \in [Cards -> Names], wrong \in SUBSET Cards :
              cards' = [key \in Cards |-> FreshCard(names[key], key \in wrong)]
  BY DEF ChooseFile, Upload, FileRead
<1>4. CASE UNCHANGED <<step, cards>>
  BY <1>1, <1>2, <1>4 DEF ImportInv, CardsTypes, Asked, AskedInFlight, OnceOnly, Present
<1>5. CASE /\ step' = "review"
           /\ \E names \in [Cards -> Names], wrong \in SUBSET Cards :
                cards' = [key \in Cards |-> FreshCard(names[key], key \in wrong)]
  <2>1. PICK names \in [Cards -> Names], wrong \in SUBSET Cards :
          cards' = [key \in Cards |-> FreshCard(names[key], key \in wrong)]
    BY <1>5
  <2>2. ASSUME NEW key \in Cards
        PROVE  /\ cards'[key] \in CardRecords /\ cards'[key] # NoName
               /\ cards'[key].action = "none"
    <3>1. names[key] \in Names /\ (key \in wrong) \in BOOLEAN
      OBVIOUS
    <3>2. cards'[key] = FreshCard(names[key], key \in wrong)
      BY <2>1
    <3>3. cards'[key] \in CardRecords /\ cards'[key].action = "none"
      BY <3>1, <3>2 DEF FreshCard, CardRecords
    <3> QED BY <3>3, NoNameAssumption
  <2>3. cards' \in [Cards -> CardRecords \cup {NoName}] /\ Present' = Cards
    BY <2>1, <2>2 DEF Present
  <2> QED BY <1>1, <1>2, <1>5, <2>2, <2>3
          DEF ImportInv, CardsTypes, Asked, AskedAbout, AskedInFlight, OnceOnly, Present
<1> QED BY <1>3, <1>4, <1>5

\* A card decided again, where what is decided writes over nothing unasked.
LEMMA DecidedCard ==
  ASSUME ImportInv, NEW key \in Present, NEW card \in CardRecords \cup {NoName},
         Decides(key, card), card # NoName => AskedAbout(card),
         editingCard' \in {editingCard, NoName}, updatingCard' \in {updatingCard, NoName},
         card = NoName => editingCard' # key /\ updatingCard' # key
  PROVE  ImportInv'
<1>1. /\ CardsTypes /\ Asked /\ AskedInFlight /\ OnceOnly
  BY DEF ImportInv
<1>2. /\ cards' = [cards EXCEPT ![key] = card]
      /\ UNCHANGED <<menus, savedMenus, step, importing, imported, unanswered>>
  BY DEF Decides, sheetVars, requestVars
<1>3. key \in Cards /\ cards \in [Cards -> CardRecords \cup {NoName}]
  BY <1>1 DEF Present, CardsTypes
<1>4. /\ cards' \in [Cards -> CardRecords \cup {NoName}]
      /\ \A other \in Cards : cards'[other] = IF other = key THEN card ELSE cards[other]
  BY <1>2, <1>3
<1>5. CardsTypes'
  <2>1. Present \ {key} \subseteq Present' /\ (card # NoName => key \in Present')
    BY <1>3, <1>4 DEF Present
  <2> QED BY <1>1, <1>2, <1>4, <2>1 DEF CardsTypes
<1>6. Asked'
  BY <1>1, <1>3, <1>4 DEF Asked, Present, AskedAbout
<1>7. AskedInFlight' /\ OnceOnly'
  BY <1>1, <1>2 DEF AskedInFlight, AskedAbout, OnceOnly
<1> QED BY <1>5, <1>6, <1>7 DEF ImportInv

\* What is decided of a card.
LEMMA DecidedIs ==
  ASSUME NEW old \in CardRecords, NEW action \in {"none", "create", "update"},
         NEW reject \in BOOLEAN
  PROVE  /\ Decided(old, action, reject) \in CardRecords
         /\ Decided(old, action, reject).action = action
         /\ Decided(old, action, reject).name = old.name
         /\ Decided(old, action, reject).reject = reject
         /\ Decided(old, action, reject).knew = (savedMenus[old.name] = "ordered")
         /\ Decided(old, action, reject) # NoName
<1> DEFINE knew == savedMenus[old.name] = "ordered"
<1>1. knew \in BOOLEAN
  OBVIOUS
<1>2. Decided(old, action, reject) =
        [old EXCEPT !.action = action, !.reject = reject, !.renamed = FALSE, !.knew = knew]
  BY DEF Decided
<1> HIDE DEF knew
<1>3. Decided(old, action, reject) \in CardRecords
  BY <1>1, <1>2 DEF CardRecords
<1>4. /\ Decided(old, action, reject).action = action
      /\ Decided(old, action, reject).name = old.name
      /\ Decided(old, action, reject).reject = reject
      /\ Decided(old, action, reject).knew = knew
  BY <1>2 DEF CardRecords
<1> USE DEF knew
<1> QED BY <1>3, <1>4, NoNameAssumption

LEMMA ReviewKeeps ==
  ASSUME ImportInv, NEW key \in Cards, RemoveCard(key) \/ Duplicate(key) \/ Reset(key)
  PROVE  ImportInv'
<1>1. key \in Present /\ Reviewing /\ UNCHANGED <<editingCard, updatingCard>>
  BY DEF RemoveCard, Duplicate, Reset
<1>2. cards[key] \in CardRecords
  BY <1>1 DEF ImportInv, CardsTypes, Present
<1>3. CASE RemoveCard(key)
  <2>1. editingCard # key /\ updatingCard # key
    BY <1>1, ImportAssumption DEF Reviewing
  <2> QED BY <1>1, <1>3, <2>1, DecidedCard DEF RemoveCard
<1>4. CASE Duplicate(key)
  <2> DEFINE card == Decided(cards[key], "create", FALSE)
  <2>1. card \in CardRecords /\ card.action = "create" /\ card # NoName
    BY <1>2, DecidedIs
  <2>2. Decides(key, card)
    BY <1>4 DEF Duplicate
  <2> HIDE DEF card
  <2> QED BY <1>1, <2>1, <2>2, DecidedCard DEF AskedAbout
<1>5. CASE Reset(key)
  <2> DEFINE reset == Decided(cards[key], "none", FALSE)
             card == [reset EXCEPT !.askedAbout = NoName]
  <2>1. reset \in CardRecords /\ reset.action = "none"
    BY <1>2, DecidedIs
  <2>2. Decides(key, card)
    BY <1>5 DEF Reset
  <2> HIDE DEF reset
  <2>3. card \in CardRecords /\ card.action = "none"
    BY <2>1 DEF CardRecords
  <2> HIDE DEF card
  <2> QED BY <1>1, <2>2, <2>3, NoNameAssumption, DecidedCard DEF AskedAbout
<1> QED BY <1>3, <1>4, <1>5

LEMMA AskKeeps ==
  ASSUME ImportInv, NEW key \in Cards, AskUpdate(key) \/ EditCard(key)
  PROVE  ImportInv'
<1>1. key \in Present /\ Reviewing
  BY DEF AskUpdate, EditCard
<1>2. cards[key] \in CardRecords
  BY <1>1 DEF ImportInv, CardsTypes, Present
<1>3. CASE EditCard(key) \/ savedMenus[cards[key].name] = "ordered"
  <2>1. /\ UNCHANGED <<menus, savedMenus, step, cards, importing, imported, unanswered>>
        /\ editingCard' \in {editingCard, key} /\ updatingCard' \in {updatingCard, key}
    BY <1>3 DEF AskUpdate, EditCard, sheetVars, requestVars
  <2> QED BY <1>1, <2>1
          DEF ImportInv, CardsTypes, Asked, AskedAbout, AskedInFlight, OnceOnly, Present
<1>4. CASE AskUpdate(key) /\ savedMenus[cards[key].name] # "ordered"
  <2> DEFINE card == Decided(cards[key], "update", FALSE)
  <2>1. card \in CardRecords /\ card # NoName /\ AskedAbout(card)
    BY <1>2, <1>4, DecidedIs DEF AskedAbout
  <2>2. Decides(key, card) /\ UNCHANGED <<editingCard, updatingCard>>
    BY <1>4 DEF AskUpdate
  <2> HIDE DEF card
  <2> QED BY <1>1, <2>1, <2>2, DecidedCard
<1> QED BY <1>3, <1>4

\* What the dialog and the form give back.
LEMMA AnswerKeeps == ImportInv /\ AnswerUpdate => ImportInv'
<1> SUFFICES ASSUME ImportInv, AnswerUpdate PROVE ImportInv'
  OBVIOUS
<1>1. updatingCard \in Present /\ updatingCard' = NoName /\ UNCHANGED editingCard
  BY DEF AnswerUpdate, ImportInv, CardsTypes
<1>2. cards[updatingCard] \in CardRecords
  BY <1>1 DEF ImportInv, CardsTypes, Present
<1>3. CASE UNCHANGED cards /\ UNCHANGED sheetVars /\ UNCHANGED requestVars
  BY <1>1, <1>3 DEF ImportInv, CardsTypes, Asked, AskedAbout, AskedInFlight, OnceOnly, Present,
                    sheetVars, requestVars
<1>4. ASSUME NEW reject \in BOOLEAN,
             Decides(updatingCard,
                     [Decided(cards[updatingCard], "update", reject) EXCEPT
                        !.askedAbout = cards[updatingCard].name])
      PROVE  ImportInv'
  <2> DEFINE decided == Decided(cards[updatingCard], "update", reject)
             name == cards[updatingCard].name
             card == [decided EXCEPT !.askedAbout = name]
  <2>1. decided \in CardRecords /\ decided.name = name /\ name \in Names
    BY <1>2, DecidedIs DEF CardRecords
  <2>2. Decides(updatingCard, card)
    BY <1>4
  <2> HIDE DEF decided, name
  <2>3. card \in CardRecords /\ card.name = name /\ card.askedAbout = name
    BY <2>1 DEF CardRecords
  <2> HIDE DEF card
  <2>4. AskedAbout(card) /\ card # NoName
    BY <2>3, NoNameAssumption DEF AskedAbout
  <2> QED BY <1>1, <2>2, <2>3, <2>4, DecidedCard
<1> QED BY <1>3, <1>4 DEF AnswerUpdate

LEMMA DraftKeeps == ImportInv /\ ApplyDraft => ImportInv'
<1> SUFFICES ASSUME ImportInv, ApplyDraft PROVE ImportInv'
  OBVIOUS
<1> DEFINE old == cards[editingCard]
<1>1. editingCard \in Present /\ editingCard' = NoName /\ UNCHANGED updatingCard
  BY DEF ApplyDraft, ImportInv, CardsTypes
<1>2. old \in CardRecords /\ AskedAbout(old)
  BY <1>1 DEF ImportInv, CardsTypes, Present, Asked
<1>3. CASE UNCHANGED cards /\ UNCHANGED sheetVars /\ UNCHANGED requestVars
  BY <1>1, <1>3 DEF ImportInv, CardsTypes, Asked, AskedAbout, AskedInFlight, OnceOnly, Present,
                    sheetVars, requestVars
<1>4. ASSUME NEW name \in Names,
             Decides(editingCard,
                     [old EXCEPT !.name = name, !.wrong = FALSE,
                        !.renamed = @ \/ (old.action # "none" /\ name # old.name)])
      PROVE  ImportInv'
  <2> DEFINE renamed == old.renamed \/ (old.action # "none" /\ name # old.name)
             card == [old EXCEPT !.name = name, !.wrong = FALSE, !.renamed = renamed]
  <2>1. renamed \in BOOLEAN
    BY <1>2 DEF CardRecords
  <2>2. Decides(editingCard, card)
    BY <1>4
  <2>3. /\ card \in CardRecords /\ card.name = name /\ card.action = old.action
        /\ card.askedAbout = old.askedAbout /\ card.renamed = renamed
        /\ card.knew = old.knew /\ card.reject = old.reject
    <3> HIDE DEF renamed
    <3> QED BY <1>2, <2>1 DEF CardRecords
  <2>4. AskedAbout(card) /\ card # NoName
    BY <1>2, <2>3, NoNameAssumption DEF AskedAbout
  <2> HIDE DEF card
  <2> QED BY <1>1, <2>2, <2>3, <2>4, DecidedCard
<1> QED BY <1>3, <1>4 DEF ApplyDraft

LEMMA SentEntries ==
  ASSUME ImportInv
  PROVE  /\ Request \in ImportRequests
         /\ \A key \in DOMAIN Entries : AskedAbout(Entries[key])
<1> DEFINE sending == {k \in Present : Status(cards[k]) \in {"new", "updated"}}
<1>1. ASSUME NEW key \in sending
      PROVE  Entry(cards[key]) \in EntryRecords /\ AskedAbout(Entry(cards[key]))
  <2> DEFINE card == cards[key]
             action == IF card.action = "update" /\ MatchSaved(card.name)
                       THEN "update" ELSE "create"
  <2>1. card \in CardRecords /\ AskedAbout(card)
    BY DEF ImportInv, CardsTypes, Present, Asked
  <2>2. Entry(card) = [name |-> card.name, action |-> action, reject |-> card.reject,
                       askedAbout |-> card.askedAbout, knew |-> card.knew,
                       renamed |-> card.renamed]
    BY DEF Entry
  <2>3. action \in {"create", "update"} /\ (action = "update" => card.action = "update")
    OBVIOUS
  <2>4. /\ card.name \in Names /\ card.reject \in BOOLEAN
        /\ card.askedAbout \in Names \cup {NoName} /\ card.renamed \in BOOLEAN
        /\ card.knew \in BOOLEAN
    BY <2>1 DEF CardRecords
  <2> HIDE DEF card, action
  <2>5. Entry(card) \in EntryRecords
    BY <2>2, <2>3, <2>4 DEF EntryRecords
  <2>6. AskedAbout(Entry(card))
    BY <2>1, <2>2, <2>3 DEF AskedAbout
  <2> QED BY <2>5, <2>6 DEF card
<1>2. Entries = [key \in sending |-> Entry(cards[key])]
  BY DEF Entries
<1>3. sending \in SUBSET Cards
  BY DEF Present
<1> HIDE DEF sending
<1>4. Entries \in [sending -> EntryRecords] /\ DOMAIN Entries = sending
  BY <1>1, <1>2
<1>5. Entries \in UNION {[keys -> EntryRecords] : keys \in SUBSET Cards}
  BY <1>3, <1>4
<1>6. Request \in ImportRequests
  BY <1>5 DEF Request, ImportRequests, ImportInv, CardsTypes
<1> QED BY <1>1, <1>2, <1>4, <1>6

LEMMA SendKeeps == ImportInv /\ Send => ImportInv'
<1> SUFFICES ASSUME ImportInv, Send PROVE ImportInv'
  OBVIOUS
<1>1. /\ CardsTypes /\ Asked /\ AskedInFlight /\ OnceOnly
  BY DEF ImportInv
<1>2. /\ step = "review" /\ importing = NoName
      /\ importing' = Request
      /\ UNCHANGED <<menus, savedMenus, step, cards, editingCard, updatingCard, imported,
                     unanswered>>
  BY DEF Send, Reviewing, sheetVars
<1>3. importing' \in ImportRequests /\ importing'.entries = Entries
  BY <1>2, SentEntries DEF Request
<1>4. CardsTypes' /\ Asked'
  BY <1>1, <1>2, <1>3 DEF CardsTypes, Present, Asked, AskedAbout
<1>5. AskedInFlight'
  <2>1. \A key \in DOMAIN importing'.entries : AskedAbout(importing'.entries[key])
    BY <1>3, SentEntries
  <2> QED BY <2>1 DEF AskedInFlight, AskedAbout
<1>6. OnceOnly'
  BY <1>1, <1>2 DEF OnceOnly
<1> QED BY <1>4, <1>5, <1>6 DEF ImportInv

\* Every row of the request, or none.
LEMMA ImportServedKeeps == ImportInv /\ ServeImport => ImportInv'
<1> SUFFICES ASSUME ImportInv, ServeImport PROVE ImportInv'
  OBVIOUS
<1>1. /\ CardsTypes /\ Asked /\ AskedInFlight /\ OnceOnly
  BY DEF ImportInv
<1>2. /\ importing # NoName /\ importing.answer = "waiting"
      /\ UNCHANGED <<savedMenus, step, cards, editingCard, updatingCard, unanswered>>
      /\ menus' \in DishStates
  BY <1>1 DEF ServeImport, sheetVars, CardsTypes
<1>3. importing \in ImportRequests
  BY <1>1, <1>2 DEF CardsTypes
<1>4. DOMAIN importing.entries \subseteq Cards
  BY <1>3 DEF ImportRequests
<1>5. /\ importing' \in ImportRequests /\ importing'.entries = importing.entries
      /\ \/ /\ importing'.answer = "done"
            /\ imported' = [key \in Cards |-> imported[key]
                              + IF key \in DOMAIN importing.entries THEN 1 ELSE 0]
         \/ UNCHANGED imported
  <2>1. menus \in DishStates
    BY <1>1 DEF CardsTypes
  <2>2. CASE /\ importing' = [importing EXCEPT !.answer = "done", !.saved = menus]
             /\ imported' = [key \in Cards |-> imported[key]
                               + IF key \in DOMAIN importing.entries THEN 1 ELSE 0]
    BY <1>3, <2>1, <2>2 DEF ImportRequests
  <2>3. CASE /\ \E key \in DOMAIN importing.entries :
                  importing' =
                    [importing EXCEPT !.answer = "failed", !.failed = key, !.saved = menus]
             /\ UNCHANGED imported
    BY <1>3, <1>4, <2>1, <2>3 DEF ImportRequests
  <2>4. CASE importing' = [importing EXCEPT !.answer = "missing"] /\ UNCHANGED imported
    BY <1>3, <2>4 DEF ImportRequests
  <2> QED BY <2>2, <2>3, <2>4 DEF ServeImport
<1>6. /\ imported' \in [Cards -> Nat]
      /\ \A key \in Cards : \/ imported'[key] = imported[key]
                            \/ /\ imported'[key] = imported[key] + 1
                               /\ importing'.answer = "done"
                               /\ key \in DOMAIN importing.entries
  <2>1. imported \in [Cards -> Nat]
    BY <1>1 DEF CardsTypes
  <2> QED BY <1>5, <2>1
<1>7. importing' # NoName
  BY <1>5, NoNameAssumption
<1>8. CardsTypes' /\ Asked' /\ AskedInFlight'
  BY <1>1, <1>2, <1>5, <1>6 DEF CardsTypes, Present, Asked, AskedAbout, AskedInFlight
<1>9. OnceOnly'
  <2>1. ASSUME NEW key \in Cards \ unanswered
        PROVE  /\ imported'[key] <= 1
               /\ imported'[key] = 1 =>
                    \/ step = "imported"
                    \/ importing'.answer = "done" /\ key \in DOMAIN importing.entries
    <3>1. imported[key] = 0
      BY <1>1, <1>2 DEF OnceOnly, CardsTypes
    <3> QED BY <1>6, <3>1
  <2> QED BY <1>1, <1>2, <1>5, <1>7, <2>1 DEF OnceOnly
<1> QED BY <1>8, <1>9 DEF ImportInv

LEMMA ImportEndsKeeps == ImportInv /\ (ImportArrives \/ ImportLost) => ImportInv'
<1> SUFFICES ASSUME ImportInv, ImportArrives \/ ImportLost PROVE ImportInv'
  OBVIOUS
<1>1. /\ CardsTypes /\ Asked /\ AskedInFlight /\ OnceOnly
  BY DEF ImportInv
<1>2. /\ importing # NoName /\ importing' = NoName
      /\ UNCHANGED <<menus, editingCard, updatingCard, imported>>
      /\ savedMenus' \in {savedMenus, importing.saved}
  BY DEF ImportArrives, ImportLost
<1>3. importing \in ImportRequests /\ DOMAIN importing.entries \subseteq Cards
      /\ savedMenus' \in DishStates
  BY <1>1, <1>2 DEF CardsTypes, ImportRequests
<1>4. cards' = cards
  <2>1. [key \in Cards |-> cards[key]] = cards
    BY <1>1 DEF CardsTypes
  <2> QED BY <2>1 DEF ImportArrives, ImportLost, KeysOfErrors
<1>5. \/ step' = "imported" /\ unanswered' = unanswered
      \/ step' = step /\ unanswered' = unanswered /\ importing.answer # "done"
      \/ step' = step /\ unanswered' = unanswered \cup DOMAIN importing.entries
  BY DEF ImportArrives, ImportLost, sheetVars
<1>6. CardsTypes' /\ Asked' /\ AskedInFlight'
  BY <1>1, <1>2, <1>3, <1>4, <1>5
     DEF CardsTypes, Present, Asked, AskedAbout, AskedInFlight
<1>7. OnceOnly'
  BY <1>1, <1>2, <1>5 DEF OnceOnly
<1> QED BY <1>6, <1>7 DEF ImportInv

LEMMA RestartKeeps == ImportInv /\ Restart => ImportInv'
<1> SUFFICES ASSUME ImportInv, Restart PROVE ImportInv'
  OBVIOUS
<1>1. importing = NoName
  BY DEF ImportInv, OnceOnly, Restart
<1>2. /\ importing' = NoName /\ cards' = [key \in Cards |-> NoName]
      /\ editingCard' = NoName /\ updatingCard' = NoName
      /\ imported' = [key \in Cards |-> 0] /\ unanswered' = {}
      /\ UNCHANGED menus /\ savedMenus' = menus
  BY <1>1 DEF Restart
<1> QED BY <1>2 DEF ImportInv, CardsTypes, Asked, AskedInFlight, OnceOnly, Present

LEMMA ImportStep == ImportInv /\ [ImportNext]_importVars => ImportInv'
<1> SUFFICES ASSUME ImportInv, [ImportNext]_importVars PROVE ImportInv'
  OBVIOUS
<1>1. CASE UNCHANGED importVars
  BY <1>1 DEF importVars, ImportInv, CardsTypes, Asked, AskedAbout, AskedInFlight, OnceOnly,
              Present
<1>2. CASE ImportNext
  BY <1>2, MovingKeeps, FileKeeps, ReviewKeeps, AskKeeps, AnswerKeeps, DraftKeeps, SendKeeps,
     ImportServedKeeps, ImportEndsKeeps, RestartKeeps DEF ImportNext
<1> QED BY <1>1, <1>2

\* Whatever the spreadsheet says, however its cards are decided, renamed and sent again, and
\* whatever becomes of the dishes elsewhere meanwhile: a dish with orders accepted is written
\* over unasked only if the page did not know of them when that was decided, or the card was
\* renamed after it; orders are rejected only if that was answered for their dish; and no row
\* is imported twice unless an answer was lost (components/menus/import/review.tsx:103-119,
\* saved_menus.rb:37-44, Menus::Import::Save).
THEOREM ImportedAsAsked == ImportSpec => []ImportedWithCare
<1>1. ImportInv => ImportedWithCare
  <2> SUFFICES ASSUME ImportInv PROVE ImportedWithCare
    OBVIOUS
  <2>1. AsksBeforeOverwriting
    BY DEF ImportInv, AskedInFlight, AskedAbout, AsksBeforeOverwriting
  <2>3. RejectsAsAnswered
    BY DEF ImportInv, AskedInFlight, AskedAbout, RejectsAsAnswered
  <2>2. ASSUME NEW key \in Cards, imported[key] > 1 PROVE key \in unanswered
    <3>1. imported[key] \in Nat
      BY DEF ImportInv, CardsTypes
    <3> QED BY <2>2, <3>1 DEF ImportInv, OnceOnly
  <2> QED BY <2>1, <2>2, <2>3 DEF ImportedWithCare, ImportedOnce
<1> QED BY <1>1, ImportStarts, ImportStep, PTL DEF ImportSpec

-----------------------------------------------------------------------------
(* The menu by weeks *)

\* Every day is one of its week, and the days of a week are of no other.
LEMMA DayOfItsWeek ==
  /\ \A date \in Nat : WeekOf(date) \in Nat /\ date \in DatesOf(WeekOf(date))
  /\ \A week \in Nat : \A date \in DatesOf(week) : date \in Nat /\ WeekOf(date) = week
<1>1. WorkingDays \in Nat /\ WorkingDays > 0
  BY WeekAssumption
<1>2. ASSUME NEW date \in Nat
      PROVE  WeekOf(date) \in Nat /\ date \in DatesOf(WeekOf(date))
  <2>1. /\ date \div WorkingDays \in Nat
        /\ (date \div WorkingDays) * WorkingDays <= date
        /\ date < (date \div WorkingDays) * WorkingDays + WorkingDays
    BY <1>1
  <2>2. (date \div WorkingDays) * WorkingDays \in Nat
    BY <1>1, <2>1
  <2> QED BY <1>1, <2>1, <2>2 DEF WeekOf, DatesOf
<1>3. ASSUME NEW week \in Nat, NEW date \in DatesOf(week)
      PROVE  date \in Nat /\ WeekOf(date) = week
  <2> DEFINE its == date \div WorkingDays
  <2>1. /\ week * WorkingDays \in Nat /\ date \in Nat
        /\ week * WorkingDays <= date /\ date < week * WorkingDays + WorkingDays
    BY <1>1 DEF DatesOf
  <2>2. its \in Nat /\ its * WorkingDays <= date /\ date < its * WorkingDays + WorkingDays
    BY <1>1, <2>1
  <2> HIDE DEF its
  <2>3. ~(its < week)
    <3>1. its < week => (its + 1) * WorkingDays <= week * WorkingDays
      BY <1>1, <2>2
    <3> QED BY <1>1, <2>1, <2>2, <3>1
  <2>4. ~(week < its)
    <3>1. week < its => (week + 1) * WorkingDays <= its * WorkingDays
      BY <1>1, <2>2
    <3> QED BY <1>1, <2>1, <2>2, <3>1
  <2> QED BY <2>1, <2>2, <2>3, <2>4 DEF WeekOf, its
<1> QED BY <1>2, <1>3

LEMMA WeeksOfTheMenu ==
  /\ MenuDates \subseteq Nat /\ \A date \in MenuDates : WeekOf(date) \in 0..LastWeek
  /\ \A week \in 0..LastWeek : DatesOf(week) \subseteq MenuDates
  /\ ThisDay \in MenuDates
  /\ \A week \in 0..LastWeek : DefaultDay(week) \in DatesOf(week)
<1>1. WorkingDays \in Nat /\ WorkingDays > 0 /\ LastWeek \in Nat /\ ThisDay \in MenuDates
  BY WeekAssumption DEF MenuDates
<1>2. MenuDates \subseteq Nat
  BY DEF MenuDates
<1>3. ASSUME NEW date \in MenuDates PROVE WeekOf(date) \in 0..LastWeek
  <2>1. /\ date \in Nat /\ date < WorkingDays * (LastWeek + 1) /\ WeekOf(date) \in Nat
        /\ WeekOf(date) * WorkingDays <= date
    BY <1>1, <1>2, DayOfItsWeek DEF MenuDates, DatesOf
  <2>2. WeekOf(date) > LastWeek =>
          (LastWeek + 1) * WorkingDays <= WeekOf(date) * WorkingDays
    BY <1>1, <2>1
  <2> QED BY <1>1, <2>1, <2>2
<1>4. ASSUME NEW week \in 0..LastWeek PROVE DatesOf(week) \subseteq MenuDates
  <2>1. (week + 1) * WorkingDays <= (LastWeek + 1) * WorkingDays
    BY <1>1
  <2>2. week * WorkingDays \in Nat /\ (week + 1) * WorkingDays = week * WorkingDays + WorkingDays
        /\ WorkingDays * (LastWeek + 1) = (LastWeek + 1) * WorkingDays
        /\ WorkingDays * (LastWeek + 1) \in Nat
    BY <1>1
  <2> QED BY <1>1, <2>1, <2>2 DEF DatesOf, MenuDates
<1>5. ASSUME NEW week \in 0..LastWeek PROVE DefaultDay(week) \in DatesOf(week)
  <2>1. ThisDay \in DatesOf(WeekOf(ThisDay))
    BY <1>1, <1>2, DayOfItsWeek
  <2>2. week * WorkingDays \in DatesOf(week)
    BY <1>1 DEF DatesOf
  <2> QED BY <2>1, <2>2 DEF DefaultDay
<1> QED BY <1>1, <1>2, <1>3, <1>4, <1>5

WeekTypes ==
    /\ weekTab \in {"week", "saved"} /\ weekOn \in 0..LastWeek /\ datePicked \in MenuDates
    /\ moving \in MoveRecords \cup {NoMove} /\ dishPage \in Addresses \cup {NoMove}
    /\ strayed \in BOOLEAN

\* Where the page is going: to the week of the day picked, or nowhere.
OnItsWay ==
    /\ dishPage # NoMove => moving = NoMove
    /\ moving # NoMove =>
         /\ moving.asks.kind = "toggle" => moving.asks.week = weekOn
         /\ moving.asks.kind = "week" => ~moving.refused
         /\ moving.lands # -1 /\ ~moving.refused => moving.lands = moving.asks.week
    /\ dishPage = NoMove /\ ~strayed =>
         IF moving # NoMove /\ moving.asks.kind = "week"
         THEN datePicked \in DatesOf(moving.asks.week)
         ELSE datePicked \in DatesOf(weekOn)

WeekInv == WeekTypes /\ OnItsWay

LEMMA WeekStarts == WeekInit => WeekInv
<1> SUFFICES ASSUME WeekInit PROVE WeekInv
  OBVIOUS
<1>1. /\ ThisDay \in MenuDates /\ ThisDay \in Nat
      /\ weekOn \in 0..LastWeek /\ datePicked \in DatesOf(weekOn)
  BY WeeksOfTheMenu, DayOfItsWeek DEF WeekInit
<1>2. WeekTypes
  BY <1>1 DEF WeekInit, WeekTypes
<1>3. OnItsWay
  BY <1>1 DEF WeekInit, OnItsWay
<1> QED BY <1>2, <1>3 DEF WeekInv

LEMMA DayOnShow ==
  ASSUME weekOn \in 0..LastWeek
  PROVE  DayOn \in DatesOf(weekOn)
<1>1. weekOn * WorkingDays \in DatesOf(weekOn)
  BY WeekAssumption DEF DatesOf
<1> QED BY <1>1 DEF DayOn

\* A visit that starts.
LEMMA MoveStarts ==
  ASSUME NEW week \in 0..LastWeek, NEW row \in Rows \cup {NoMove}, NEW on \in BOOLEAN,
         NEW kind \in {"week", "toggle"},
         Move([kind |-> kind, week |-> week, row |-> row, on |-> on])
  PROVE  /\ moving' \in MoveRecords /\ moving' # NoMove
         /\ moving'.asks.kind = kind /\ moving'.asks.week = week
         /\ moving'.lands = -1 /\ moving'.refused = FALSE
<1> DEFINE asks == [kind |-> kind, week |-> week, row |-> row, on |-> on]
<1>1. moving' = [asks |-> asks, lands |-> -1, refused |-> FALSE]
  BY DEF Move
<1>2. asks \in [kind : {"week", "toggle"}, week : 0..LastWeek, row : Rows \cup {NoMove},
                on : BOOLEAN]
  OBVIOUS
<1>3. asks.kind = kind /\ asks.week = week /\ -1 \in -1..LastWeek
  BY WeekAssumption
<1> HIDE DEF asks
<1>4. moving' \in MoveRecords
  BY <1>1, <1>2, <1>3 DEF MoveRecords
<1> QED BY <1>1, <1>3, <1>4, NoMoveAssumption

LEMMA LeavingKeeps ==
  ASSUME WeekInv,
         PickWeekTab \/ PickDate \/ ServeMoveLate \/ ShutDay \/ MoveLost \/ EditDish
  PROVE  WeekInv'
<1>1. /\ WeekTypes /\ OnItsWay
  BY DEF WeekInv
<1>2. CASE PickWeekTab \/ ServeMoveLate \/ ShutDay
  <2>1. weekTab' \in {"week", "saved"}
        /\ UNCHANGED <<weekOn, datePicked, moving, strayed, dishPage>>
    BY <1>1, <1>2 DEF PickWeekTab, ServeMoveLate, ShutDay, WeekTypes
  <2> QED BY <1>1, <2>1 DEF WeekInv, WeekTypes, OnItsWay
<1>3. CASE PickDate
  <2>1. /\ dishPage = NoMove /\ datePicked' \in DatesOf(weekOn)
        /\ strayed' = (moving # NoMove /\ moving.asks.kind = "week")
        /\ UNCHANGED <<weekTab, weekOn, moving, dishPage>>
    BY <1>3 DEF PickDate, AtWeek
  <2>2. datePicked' \in MenuDates
    BY <1>1, <2>1, WeeksOfTheMenu DEF WeekTypes
  <2> QED BY <1>1, <2>1, <2>2 DEF WeekInv, WeekTypes, OnItsWay
<1>4. CASE MoveLost
  BY <1>1, <1>4 DEF MoveLost, WeekInv, WeekTypes, OnItsWay
<1>5. CASE EditDish
  <2>1. /\ dishPage' = [day |-> DayOn, tab |-> weekTab] /\ moving' = NoMove
        /\ UNCHANGED <<weekTab, weekOn, datePicked, strayed>>
    BY <1>5 DEF EditDish
  <2>2. DayOn \in MenuDates /\ weekTab \in {"week", "saved"}
    BY <1>1, DayOnShow, WeeksOfTheMenu DEF WeekTypes
  <2>3. dishPage' \in Addresses
    BY <2>1, <2>2 DEF Addresses
  <2> QED BY <1>1, <2>1, <2>3, NoMoveAssumption DEF WeekInv, WeekTypes, OnItsWay
<1> QED BY <1>2, <1>3, <1>4, <1>5

LEMMA AskingKeeps == WeekInv /\ (GoToWeek \/ ToggleRow) => WeekInv'
<1> SUFFICES ASSUME WeekInv, GoToWeek \/ ToggleRow PROVE WeekInv'
  OBVIOUS
<1>1. /\ WeekTypes /\ OnItsWay
  BY DEF WeekInv
<1>2. CASE GoToWeek
  <2>1. PICK week \in {weekOn - 1, weekOn + 1} \cap 0..LastWeek :
          /\ Move([kind |-> "week", week |-> week, row |-> NoMove, on |-> FALSE])
          /\ datePicked' = DefaultDay(week)
    BY <1>2 DEF GoToWeek
  <2>2. /\ moving' \in MoveRecords /\ moving' # NoMove /\ moving'.asks.kind = "week"
        /\ moving'.asks.week = week /\ moving'.lands = -1 /\ moving'.refused = FALSE
    BY <2>1, MoveStarts
  <2>3. datePicked' \in DatesOf(week) /\ datePicked' \in MenuDates
    BY <2>1, WeeksOfTheMenu
  <2>4. /\ dishPage = NoMove /\ strayed' = FALSE /\ UNCHANGED <<weekTab, weekOn, dishPage>>
    BY <1>2 DEF GoToWeek, AtWeek
  <2> QED BY <1>1, <2>2, <2>3, <2>4 DEF WeekInv, WeekTypes, OnItsWay
<1>3. CASE ToggleRow
  <2>1. PICK row \in Rows :
          Move([kind |-> "toggle", week |-> WeekOf(DayOn), row |-> row, on |-> ~rowsOn[row]])
    BY <1>3 DEF ToggleRow
  <2>2. /\ dishPage = NoMove /\ strayed' = (strayed \/ datePicked # DayOn)
        /\ UNCHANGED <<weekTab, weekOn, datePicked, dishPage>>
    BY <1>3 DEF ToggleRow, AtWeek
  <2>3. WeekOf(DayOn) = weekOn /\ DayOn \in DatesOf(weekOn) /\ weekOn \in 0..LastWeek
    BY <1>1, DayOnShow, DayOfItsWeek DEF WeekTypes
  <2>4. /\ moving' \in MoveRecords /\ moving' # NoMove /\ moving'.asks.kind = "toggle"
        /\ moving'.asks.week = weekOn /\ moving'.lands = -1 /\ moving'.refused = FALSE
    BY <2>1, <2>3, MoveStarts
  <2> QED BY <1>1, <2>2, <2>3, <2>4 DEF WeekInv, WeekTypes, OnItsWay
<1> QED BY <1>2, <1>3

LEMMA LandingKeeps == WeekInv /\ (ServeMove \/ MoveArrives \/ ReturnToWeek) => WeekInv'
<1> SUFFICES ASSUME WeekInv, ServeMove \/ MoveArrives \/ ReturnToWeek PROVE WeekInv'
  OBVIOUS
<1>1. /\ WeekTypes /\ OnItsWay
  BY DEF WeekInv
<1>2. CASE ServeMove
  <2> DEFINE lands == IF Refused(moving.asks) THEN WeekOf(ThisDay) ELSE moving.asks.week
             refused == Refused(moving.asks)
  <2>1. /\ moving # NoMove /\ moving.lands = -1
        /\ moving' = [moving EXCEPT !.lands = lands, !.refused = refused]
        /\ UNCHANGED <<weekTab, weekOn, datePicked, strayed, dishPage>>
    BY <1>2 DEF ServeMove
  <2>2. moving \in MoveRecords /\ moving.asks.week \in 0..LastWeek
    BY <1>1, <2>1 DEF WeekTypes, MoveRecords
  <2>3. /\ lands \in -1..LastWeek /\ refused \in BOOLEAN
        /\ ~refused => lands = moving.asks.week
        /\ moving.asks.kind = "week" => ~refused
    BY <2>2, WeeksOfTheMenu DEF Refused
  <2> HIDE DEF lands, refused
  <2>4. /\ moving' \in MoveRecords /\ moving'.asks = moving.asks /\ moving'.lands = lands
        /\ moving'.refused = refused
    BY <2>1, <2>2, <2>3 DEF MoveRecords
  <2>5. moving' # NoMove
    BY <2>4, NoMoveAssumption
  <2> QED BY <1>1, <2>1, <2>3, <2>4, <2>5 DEF WeekInv, WeekTypes, OnItsWay
<1>3. CASE MoveArrives
  <2>1. /\ moving # NoMove /\ moving.lands # -1 /\ weekOn' = moving.lands
        /\ strayed' = (strayed \/ moving.refused) /\ moving' = NoMove
        /\ UNCHANGED <<weekTab, datePicked, dishPage>>
    BY <1>3 DEF MoveArrives
  <2>2. moving \in MoveRecords /\ moving.lands \in 0..LastWeek /\ moving.refused \in BOOLEAN
        /\ moving.asks.kind \in {"week", "toggle"}
    BY <1>1, <2>1 DEF WeekTypes, MoveRecords
  <2> QED BY <1>1, <2>1, <2>2 DEF WeekInv, WeekTypes, OnItsWay
<1>4. CASE ReturnToWeek
  <2>1. /\ dishPage # NoMove /\ weekTab' = dishPage.tab /\ dishPage' = NoMove
        /\ weekOn' = (IF dishPage.tab = "saved" THEN WeekOf(ThisDay) ELSE WeekOf(dishPage.day))
        /\ datePicked' = DateAddressed(dishPage.day, dishPage.tab)
        /\ strayed' = FALSE /\ moving' = moving
    BY <1>4 DEF ReturnToWeek
  <2>2. dishPage.day \in MenuDates /\ dishPage.tab \in {"week", "saved"} /\ moving = NoMove
    BY <1>1, <2>1 DEF WeekTypes, Addresses, OnItsWay
  <2>3. weekOn' \in 0..LastWeek /\ datePicked' \in DatesOf(weekOn')
    <3>1. CASE dishPage.tab = "saved"
      BY <2>1, <3>1, WeeksOfTheMenu DEF DateAddressed
    <3>2. CASE dishPage.tab # "saved"
      BY <2>1, <2>2, <3>2, WeeksOfTheMenu, DayOfItsWeek DEF DateAddressed
    <3> QED BY <3>1, <3>2
  <2> QED BY <2>1, <2>2, <2>3, WeeksOfTheMenu DEF WeekInv, WeekTypes, OnItsWay
<1> QED BY <1>2, <1>3, <1>4

LEMMA WeekStep == WeekInv /\ [WeekNext]_weekVars => WeekInv'
<1> SUFFICES ASSUME WeekInv, [WeekNext]_weekVars PROVE WeekInv'
  OBVIOUS
<1>1. CASE UNCHANGED weekVars
  BY <1>1 DEF weekVars, WeekInv, WeekTypes, OnItsWay
<1>2. CASE WeekNext
  BY <1>2, LeavingKeeps, AskingKeeps, LandingKeeps DEF WeekNext
<1> QED BY <1>1, <1>2

\* However the weeks, the days and the switches are pressed and their answers come, are lost
\* or refused, the day that was picked is the one on show, or is on its way; and from the page
\* of a dish one comes back to it (components/schedules/week-day-tabs.tsx:67,
\* pages/schedules/index.tsx:70).
THEOREM DayStaysPicked == WeekSpec => DayKept
<1> DEFINE BackWhereItWas ==
             ReturnToWeek => /\ weekTab' = dishPage.tab
                             /\ dishPage.tab = "week" => DayOn' = dishPage.day
<1>1. WeekInv => DayPickedIsOnShow
  <2> SUFFICES ASSUME WeekInv, dishPage = NoMove, ~strayed
               PROVE  \/ datePicked \in DatesOf(weekOn)
                      \/ /\ moving # NoMove /\ moving.asks.kind = "week"
                         /\ WeekOf(datePicked) = moving.asks.week
    BY DEF DayPickedIsOnShow
  <2>1. CASE moving # NoMove /\ moving.asks.kind = "week"
    <3>1. moving.asks.week \in Nat /\ datePicked \in DatesOf(moving.asks.week)
      BY <2>1 DEF WeekInv, WeekTypes, OnItsWay, MoveRecords
    <3> QED BY <2>1, <3>1, DayOfItsWeek
  <2>2. CASE ~(moving # NoMove /\ moving.asks.kind = "week")
    BY <2>2 DEF WeekInv, OnItsWay
  <2> QED BY <2>1, <2>2
<1>2. WeekInv /\ [WeekNext]_weekVars => [BackWhereItWas]_weekVars
  <2> SUFFICES ASSUME WeekInv, ReturnToWeek, dishPage.tab = "week" PROVE DayOn' = dishPage.day
    BY DEF ReturnToWeek
  <2>1. dishPage.day \in Nat
    BY WeeksOfTheMenu DEF ReturnToWeek, WeekInv, WeekTypes, Addresses
  <2>2. datePicked' = dishPage.day /\ weekOn' = WeekOf(dishPage.day)
    BY DEF ReturnToWeek, DateAddressed
  <2> QED BY <2>1, <2>2, DayOfItsWeek DEF DayOn
<1> HIDE DEF BackWhereItWas
<1>3. WeekSpec => []DayPickedIsOnShow /\ [][BackWhereItWas]_weekVars
  BY <1>1, <1>2, WeekStarts, WeekStep, PTL DEF WeekSpec
<1>4. [][BackWhereItWas]_weekVars => ReturnsWhereItWas
  BY DEF BackWhereItWas, ReturnsWhereItWas
<1> QED BY <1>3, <1>4 DEF DayKept

-----------------------------------------------------------------------------
(* The onboarding *)

\* What is asked of the server is whole: a time, a delivery, a step there is.
WellAsked(asks) ==
    /\ asks \in Asks
    /\ asks.kind = "time" => asks.time # NoTime /\ asks.step = 2
    /\ asks.kind = "continue" => asks.step \in 1..4 /\ (asks.step = 3 => asks.delivery # "none")
    /\ asks.kind \in {"skip", "page", "errors"} => asks.step \in 1..3

StepsTypes ==
    /\ atStep \in 0..Dashboard /\ details \in BOOLEAN /\ canContinue \in BOOLEAN
    /\ deliveryChosen \in DeliveryChoices /\ subscribed \subseteq Alerts
    /\ timeDialog \in [open : BOOLEAN, stage : {"form", "saved"}, time : Times \cup {NoTime},
                       sending : BOOLEAN]
    /\ savedProvider \in Providers /\ shownProvider \in Providers
    /\ trip \in Trips \cup {NoTrip} /\ raced \in BOOLEAN /\ touched \in BOOLEAN
    /\ continued \subseteq 1..LastStep

\* What was passed stays, whatever is served late.
Passed ==
    /\ atStep \in {Finished, Dashboard} => savedProvider.onboarded
    /\ 1 \in continued => savedProvider.details
    /\ 2 \in continued => savedProvider.deadline # NoTime
    /\ 3 \in continued => savedProvider.delivery # "none"
    /\ shownProvider.deadline # NoTime => savedProvider.deadline # NoTime

\* The visit in flight left from the step shown, and what it was served is saved.
TripOK ==
    /\ WellAsked(trip.asks)
    /\ trip.asks.kind = "page" /\ trip.asks.step = 1 => atStep # 1
    /\ trip.asks.kind \in {"continue", "errors"} /\ trip.asks.step = 1 => atStep = 1
    /\ trip.asks.kind = "continue" /\ trip.asks.step = 2 => savedProvider.deadline # NoTime
    /\ trip.lands # -1 =>
         /\ trip.lands = LandsOn(trip.asks)
         /\ Onboards(trip.asks) => savedProvider.onboarded
         /\ trip.asks.kind = "continue" =>
              /\ trip.asks.step = 1 => savedProvider.details
              /\ trip.asks.step = 3 => savedProvider.delivery # "none"
              /\ trip.asks.step = 4 /\ ~raced => savedProvider.alerts = trip.asks.alerts
         /\ trip.asks.kind = "time" /\ ~raced => savedProvider.deadline = trip.asks.time

\* Nothing is adrift until a visit is given up, and the dialog of the time waits for none
\* once it says the time was saved.
OnTheWay ==
    /\ \A asks \in adriftTrips : WellAsked(asks)
    /\ ~raced => adriftTrips = {}
    /\ trip # NoTrip => TripOK
    /\ timeDialog.open /\ timeDialog.stage = "saved" => trip = NoTrip
    /\ /\ trip # NoTrip /\ trip.asks.kind = "time" /\ shownProvider.deadline = NoTime
       /\ timeDialog.open /\ ~raced /\ ~touched
       => timeDialog.time = trip.asks.time

OnboardingInv == StepsTypes /\ ContinueMatchesForm /\ Passed /\ OnTheWay

LEMMA SavedByTheServer ==
  ASSUME NEW provider \in Providers, NEW asks, WellAsked(asks)
  PROVE  /\ Saved(provider, asks) \in Providers
         /\ provider.onboarded \/ Onboards(asks) => Saved(provider, asks).onboarded
         /\ provider.details => Saved(provider, asks).details
         /\ provider.deadline # NoTime => Saved(provider, asks).deadline # NoTime
         /\ provider.delivery # "none" => Saved(provider, asks).delivery # "none"
         /\ asks.kind = "continue" /\ asks.step = 1 => Saved(provider, asks).details
         /\ asks.kind = "continue" /\ asks.step = 3 => Saved(provider, asks).delivery # "none"
         /\ asks.kind = "continue" /\ asks.step = 4 => Saved(provider, asks).alerts = asks.alerts
         /\ asks.kind = "time" => Saved(provider, asks).deadline = asks.time
<1> DEFINE onboards == provider.onboarded \/ Onboards(asks)
           onboarded == [provider EXCEPT !.onboarded = onboards]
<1>1. asks.delivery \in DeliveryChoices /\ asks.alerts \in SUBSET Alerts
      /\ asks.time \in Times \cup {NoTime}
  BY DEF WellAsked, Asks
<1>2. onboards \in BOOLEAN
  BY DEF Providers, Onboards
<1> HIDE DEF onboards
<1>3. /\ onboarded \in Providers /\ onboarded.onboarded = onboards
      /\ onboarded.details = provider.details /\ onboarded.deadline = provider.deadline
      /\ onboarded.delivery = provider.delivery /\ onboarded.alerts = provider.alerts
  BY <1>2 DEF Providers
<1>4. CASE asks.kind = "continue" /\ asks.step = 1
  <2>1. Saved(provider, asks) = [onboarded EXCEPT !.details = TRUE]
    BY <1>4 DEF Saved, onboards
  <2> HIDE DEF onboarded
  <2>2. /\ Saved(provider, asks) \in Providers /\ Saved(provider, asks).details
        /\ Saved(provider, asks).onboarded = onboards
        /\ Saved(provider, asks).deadline = provider.deadline
        /\ Saved(provider, asks).delivery = provider.delivery
    BY <1>3, <2>1 DEF Providers
  <2>3. asks.step # 3 /\ asks.step # 4 /\ asks.kind # "time"
    BY <1>4
  <2> QED BY <2>2, <2>3 DEF onboards
<1>5. CASE asks.kind = "continue" /\ asks.step = 3
  <2>1. Saved(provider, asks) = [onboarded EXCEPT !.delivery = asks.delivery]
    BY <1>5 DEF Saved, onboards
  <2>2. asks.delivery # "none"
    BY <1>5 DEF WellAsked
  <2> HIDE DEF onboarded
  <2> QED BY <1>1, <1>3, <1>5, <2>1, <2>2 DEF Providers, onboards
<1>6. CASE asks.kind = "continue" /\ asks.step = 4
  <2>1. Saved(provider, asks) = [onboarded EXCEPT !.alertsSet = TRUE, !.alerts = asks.alerts]
    BY <1>6 DEF Saved, onboards
  <2> HIDE DEF onboarded
  <2>2. /\ Saved(provider, asks) \in Providers
        /\ Saved(provider, asks).details = provider.details
        /\ Saved(provider, asks).onboarded = onboards
        /\ Saved(provider, asks).deadline = provider.deadline
        /\ Saved(provider, asks).delivery = provider.delivery
        /\ Saved(provider, asks).alerts = asks.alerts
    BY <1>1, <1>3, <2>1 DEF Providers
  <2>3. asks.step # 1 /\ asks.step # 3 /\ asks.kind # "time"
    BY <1>6
  <2> QED BY <2>2, <2>3 DEF onboards
<1>7. CASE asks.kind = "time"
  <2>1. Saved(provider, asks) = [onboarded EXCEPT !.deadline = asks.time]
    BY <1>7 DEF Saved, onboards
  <2>2. asks.time # NoTime
    BY <1>7 DEF WellAsked
  <2> HIDE DEF onboarded
  <2> QED BY <1>1, <1>3, <1>7, <2>1, <2>2 DEF Providers, onboards
<1>8. CASE asks.kind # "time" /\ ~(asks.kind = "continue" /\ asks.step \in {1, 3, 4})
  <2>1. Saved(provider, asks) = onboarded
    BY <1>8 DEF Saved, onboards
  <2> HIDE DEF onboarded
  <2> QED BY <1>3, <1>8, <2>1 DEF onboards
<1> QED BY <1>4, <1>5, <1>6, <1>7, <1>8

LEMMA OnboardingStarts == OnboardingInit => OnboardingInv
<1> SUFFICES ASSUME OnboardingInit PROVE OnboardingInv
  OBVIOUS
<1>1. Unconfigured \in Providers
  BY DEF Unconfigured, Providers, DeliveryChoices
<1>2. \A time \in Times : Configured(time) \in Providers
  BY DEF Configured, Providers, DeliveryChoices
<1>3. savedProvider \in Providers
  BY <1>1, <1>2 DEF OnboardingInit
<1>4. ClosedTime \in [open : BOOLEAN, stage : {"form", "saved"}, time : Times \cup {NoTime},
                      sending : BOOLEAN] /\ ~ClosedTime.open
  BY DEF ClosedTime
<1>5. /\ details \in BOOLEAN /\ canContinue \in BOOLEAN /\ deliveryChosen \in DeliveryChoices
      /\ subscribed \subseteq Alerts /\ ContinueMatchesForm
  BY <1>3 DEF OnboardingInit, Providers, FirstCanContinue, FirstDelivery, FirstSubscribed,
              ContinueMatchesForm
<1>6. atStep \in 0..Dashboard /\ atStep \notin {Finished, Dashboard}
  BY DEF OnboardingInit, LastStep, Finished, Dashboard
<1>7. StepsTypes
  BY <1>3, <1>4, <1>5, <1>6 DEF OnboardingInit, StepsTypes
<1>8. Passed /\ OnTheWay
  BY <1>4, <1>6 DEF OnboardingInit, Passed, OnTheWay
<1> QED BY <1>5, <1>7, <1>8 DEF OnboardingInv

\* A visit that starts, of what is asked for at the step shown.
LEMMA TravelStarts ==
  ASSUME OnboardingInv, NEW asks, WellAsked(asks), Travel(asks)
  PROVE  /\ trip' \in Trips /\ trip' # NoTrip /\ trip'.asks = asks /\ trip'.lands = -1
         /\ raced' \in BOOLEAN /\ touched' = FALSE
         /\ \A other \in adriftTrips' : WellAsked(other)
         /\ ~raced' => adriftTrips' = {}
<1>1. trip' = [asks |-> asks, lands |-> -1] /\ touched' = FALSE
      /\ adriftTrips' = (IF Waits(trip) THEN adriftTrips \cup {trip.asks} ELSE adriftTrips)
      /\ raced' = (raced \/ trip # NoTrip)
  BY DEF Travel
<1>2. asks \in Asks /\ -1 \in -1..Dashboard
  BY DEF WellAsked, Dashboard
<1>3. trip' \in Trips
  BY <1>1, <1>2 DEF Trips
<1>4. /\ \A other \in adriftTrips' : WellAsked(other)
      /\ ~raced' => adriftTrips' = {}
  BY <1>1 DEF OnboardingInv, OnTheWay, TripOK, Waits
<1> QED BY <1>1, <1>3, <1>4, NoTripAssumption

LEMMA TravelKeeps ==
  ASSUME OnboardingInv, NEW asks, WellAsked(asks), Travel(asks),
         UNCHANGED <<StepShown, savedProvider, continued>>,
         timeDialog' \in [open : BOOLEAN, stage : {"form", "saved"},
                          time : Times \cup {NoTime}, sending : BOOLEAN],
         ~(timeDialog'.open /\ timeDialog'.stage = "saved"),
         asks.kind = "time" /\ timeDialog'.open => timeDialog'.time = asks.time,
         asks.kind = "page" /\ asks.step = 1 => atStep # 1,
         asks.kind \in {"continue", "errors"} /\ asks.step = 1 => atStep = 1,
         asks.kind = "continue" /\ asks.step = 2 => shownProvider.deadline # NoTime
  PROVE  OnboardingInv'
<1>1. StepsTypes /\ ContinueMatchesForm /\ Passed /\ OnTheWay
  BY DEF OnboardingInv
<1>2. UNCHANGED <<atStep, details, canContinue, deliveryChosen, subscribed, shownProvider,
                  savedProvider, continued>>
  BY DEF StepShown
<1>3. /\ trip' \in Trips /\ trip' # NoTrip /\ trip'.asks = asks /\ trip'.lands = -1
      /\ raced' \in BOOLEAN /\ touched' = FALSE
      /\ \A other \in adriftTrips' : WellAsked(other)
      /\ ~raced' => adriftTrips' = {}
  BY TravelStarts
<1>4. StepsTypes' /\ ContinueMatchesForm' /\ Passed'
  BY <1>1, <1>2, <1>3 DEF StepsTypes, ContinueMatchesForm, Passed
<1>5. WellAsked(trip'.asks)
  BY <1>3
<1>6. TripOK'
  BY <1>1, <1>2, <1>3, <1>5 DEF TripOK, Passed, WellAsked
<1>7. OnTheWay'
  BY <1>3, <1>6 DEF OnTheWay, WellAsked
<1> QED BY <1>4, <1>7 DEF OnboardingInv

LEMMA AskingWell ==
  ASSUME NEW kind \in {"page", "intro", "skip", "continue", "time", "errors"},
         NEW at \in 0..Finished
  PROVE  /\ Asking(kind, at) \in Asks /\ Asking(kind, at).kind = kind
         /\ Asking(kind, at).step = at
BY DEF Asking, Asks, DeliveryChoices

LEMMA SteppingKeeps ==
  ASSUME OnboardingInv, Start \/ SkipIntro \/ Skip \/ GoBack \/ Continue
  PROVE  OnboardingInv'
<1>1. StepsTypes /\ ContinueMatchesForm /\ Passed /\ OnTheWay
  BY DEF OnboardingInv
<1>2. ~timeDialog.open /\ UNCHANGED <<StepShown, timeDialog, savedProvider, continued>>
  BY DEF Start, SkipIntro, Skip, GoBack, Continue, AtStep
<1>3. timeDialog \in [open : BOOLEAN, stage : {"form", "saved"}, time : Times \cup {NoTime},
                      sending : BOOLEAN]
  BY <1>1 DEF StepsTypes
<1>4. CASE Start
  <2>1. WellAsked(Asking("page", 1)) /\ Asking("page", 1).kind = "page"
    BY AskingWell DEF WellAsked, Finished
  <2>2. Travel(Asking("page", 1)) /\ atStep # 1
    BY <1>4 DEF Start, AtStep, Introduction
  <2> QED BY <1>2, <1>3, <2>1, <2>2, TravelKeeps
<1>5. CASE SkipIntro
  <2>1. WellAsked(Asking("intro", 0)) /\ Asking("intro", 0).kind = "intro"
    BY AskingWell DEF WellAsked, Finished
  <2>2. Travel(Asking("intro", 0))
    BY <1>5 DEF SkipIntro, Introduction
  <2> QED BY <1>2, <1>3, <2>1, <2>2, TravelKeeps
<1>6. CASE Skip
  <2>1. atStep \in 1..3 /\ Travel(Asking("skip", atStep))
    BY <1>6 DEF Skip, LastStep
  <2>2. WellAsked(Asking("skip", atStep)) /\ Asking("skip", atStep).kind = "skip"
    BY <2>1, AskingWell DEF WellAsked, Finished
  <2> QED BY <1>2, <1>3, <2>1, <2>2, TravelKeeps
<1>7. CASE GoBack
  <2>1. atStep - 1 \in 1..3 /\ Travel(Asking("page", atStep - 1))
    BY <1>7 DEF GoBack, LastStep
  <2>2. WellAsked(Asking("page", atStep - 1)) /\ Asking("page", atStep - 1).kind = "page"
        /\ Asking("page", atStep - 1).step = atStep - 1
    BY <2>1, AskingWell DEF WellAsked, Finished
  <2>3. atStep - 1 = 1 => atStep # 1
    BY <2>1
  <2> QED BY <1>2, <1>3, <2>1, <2>2, <2>3, TravelKeeps
<1>8. CASE Continue
  <2> DEFINE delivery == IF atStep = 3 THEN deliveryChosen ELSE "none"
             alerts == IF atStep = 4 THEN subscribed ELSE {}
             asks == [Asking("continue", atStep) EXCEPT !.delivery = delivery,
                                                        !.alerts = alerts]
  <2>1. atStep \in 1..4 /\ MayContinue(atStep) /\ Travel(asks)
    BY <1>8 DEF Continue, LastStep
  <2>6. delivery \in DeliveryChoices /\ alerts \in SUBSET Alerts
    BY <1>1 DEF StepsTypes, DeliveryChoices
  <2>7. atStep = 3 => delivery # "none"
    <3>1. CASE atStep = 3
      BY <2>1, <3>1 DEF MayContinue
    <3> QED BY <3>1
  <2>8. atStep = 2 => shownProvider.deadline # NoTime
    <3>1. CASE atStep = 2
      BY <2>1, <3>1 DEF MayContinue
    <3> QED BY <3>1
  <2>2. /\ delivery \in DeliveryChoices /\ alerts \in SUBSET Alerts
        /\ atStep = 3 => delivery # "none"
        /\ atStep = 2 => shownProvider.deadline # NoTime
    BY <2>6, <2>7, <2>8
  <2> HIDE DEF delivery, alerts
  <2>3. Asking("continue", atStep) \in Asks /\ Asking("continue", atStep).kind = "continue"
        /\ Asking("continue", atStep).step = atStep
    BY <2>1, AskingWell DEF Finished
  <2>4. /\ asks \in Asks /\ asks.kind = "continue" /\ asks.step = atStep
        /\ asks.delivery = delivery
    BY <2>2, <2>3 DEF Asks
  <2> HIDE DEF asks
  <2>5. WellAsked(asks)
    BY <2>1, <2>2, <2>4 DEF WellAsked
  <2> QED BY <1>2, <1>3, <2>1, <2>2, <2>4, <2>5, TravelKeeps
<1> QED BY <1>4, <1>5, <1>6, <1>7, <1>8

LEMMA TimesKeep == OnboardingInv /\ (SaveTime \/ ChangeTime) => OnboardingInv'
<1> SUFFICES ASSUME OnboardingInv, SaveTime \/ ChangeTime PROVE OnboardingInv'
  OBVIOUS
<1>1. StepsTypes /\ ContinueMatchesForm /\ Passed /\ OnTheWay
  BY DEF OnboardingInv
<1>2. PICK chosen \in Times :
        /\ Travel([Asking("time", 2) EXCEPT !.time = chosen])
        /\ UNCHANGED <<StepShown, savedProvider, continued>>
        /\ timeDialog' \in [open : BOOLEAN, stage : {"form", "saved"},
                            time : Times \cup {NoTime}, sending : BOOLEAN]
        /\ ~(timeDialog'.open /\ timeDialog'.stage = "saved")
        /\ timeDialog'.open => timeDialog'.time = chosen
  <2>1. CASE SaveTime
    <3>1. timeDialog.time \in Times
      BY <1>1, <2>1 DEF SaveTime, StepsTypes
    <3>2. /\ timeDialog' \in [open : BOOLEAN, stage : {"form", "saved"},
                              time : Times \cup {NoTime}, sending : BOOLEAN]
          /\ timeDialog'.stage = "form" /\ timeDialog'.time = timeDialog.time
      BY <1>1, <2>1 DEF SaveTime, StepsTypes
    <3> QED BY <2>1, <3>1, <3>2 DEF SaveTime
  <2>2. CASE ChangeTime
    BY <1>1, <2>2 DEF ChangeTime, AtStep, StepsTypes
  <2> QED BY <2>1, <2>2
<1> DEFINE asks == [Asking("time", 2) EXCEPT !.time = chosen]
<1>3. Asking("time", 2) \in Asks /\ Asking("time", 2).kind = "time"
      /\ Asking("time", 2).step = 2
  BY AskingWell DEF Finished
<1>4. asks \in Asks /\ asks.kind = "time" /\ asks.step = 2 /\ asks.time = chosen
  BY <1>3 DEF Asks
<1>5. Travel(asks)
  BY <1>2
<1> HIDE DEF asks
<1>6. WellAsked(asks)
  BY <1>4, OnboardingAssumption DEF WellAsked
<1> QED BY <1>2, <1>4, <1>5, <1>6, TravelKeeps

\* The page as it is filled in.
LEMMA FillingKeeps ==
  ASSUME OnboardingInv,
         ChangeDetails \/ ChooseDelivery \/ ToggleAlert \/ OpenTime \/ PickTime \/ CloseTime
  PROVE  OnboardingInv'
<1>1. StepsTypes /\ ContinueMatchesForm /\ Passed /\ OnTheWay
  BY DEF OnboardingInv
<1>2. UNCHANGED <<atStep, shownProvider, trip, adriftTrips, savedProvider, continued, raced>>
  BY DEF ChangeDetails, ChooseDelivery, ToggleAlert, OpenTime, PickTime, CloseTime, StepShown
<1>3. /\ deliveryChosen' \in DeliveryChoices /\ subscribed' \subseteq Alerts
      /\ details' \in BOOLEAN /\ canContinue' \in BOOLEAN /\ ContinueMatchesForm'
  <2>1. CASE ChangeDetails
    <3>1. details' = ~details /\ canContinue' = details'
          /\ UNCHANGED <<atStep, deliveryChosen, subscribed>>
      BY <2>1 DEF ChangeDetails
    <3>2. details \in BOOLEAN /\ deliveryChosen \in DeliveryChoices /\ subscribed \subseteq Alerts
      BY <1>1 DEF StepsTypes
    <3>3. details' \in BOOLEAN
      BY <3>1, <3>2
    <3> QED BY <3>1, <3>2, <3>3 DEF ContinueMatchesForm
  <2>2. CASE ChooseDelivery
    BY <1>1, <2>2 DEF ChooseDelivery, StepsTypes, DeliveryChoices, ContinueMatchesForm
  <2>3. CASE ToggleAlert
    BY <1>1, <2>3 DEF ToggleAlert, StepsTypes, ContinueMatchesForm
  <2>4. CASE OpenTime \/ PickTime \/ CloseTime
    <3>1. UNCHANGED <<atStep, details, canContinue, deliveryChosen, subscribed>>
      BY <2>4 DEF OpenTime, PickTime, CloseTime, StepShown
    <3> QED BY <1>1, <3>1 DEF StepsTypes, ContinueMatchesForm
  <2> QED BY <2>1, <2>2, <2>3, <2>4
<1>4. /\ timeDialog' \in [open : BOOLEAN, stage : {"form", "saved"},
                          time : Times \cup {NoTime}, sending : BOOLEAN]
      /\ timeDialog'.open /\ timeDialog'.stage = "saved" =>
           timeDialog.open /\ timeDialog.stage = "saved"
      /\ timeDialog'.open /\ trip # NoTrip /\ ~touched' =>
           timeDialog.open /\ ~touched /\ timeDialog'.time = timeDialog.time
      /\ touched' \in BOOLEAN
  <2>1. CASE ChangeDetails \/ ChooseDelivery \/ ToggleAlert
    BY <1>1, <2>1 DEF ChangeDetails, ChooseDelivery, ToggleAlert, StepsTypes
  <2>2. CASE OpenTime
    <3>1. /\ timeDialog' \in [open : BOOLEAN, stage : {"form", "saved"},
                              time : Times \cup {NoTime}, sending : BOOLEAN]
          /\ timeDialog'.stage = "form" /\ touched' = (touched \/ trip # NoTrip)
      BY <2>2 DEF OpenTime, ClosedTime
    <3> QED BY <1>1, <3>1
  <2>3. CASE PickTime
    <3>1. /\ timeDialog' \in [open : BOOLEAN, stage : {"form", "saved"},
                              time : Times \cup {NoTime}, sending : BOOLEAN]
          /\ timeDialog'.stage = "form" /\ touched' = (touched \/ trip # NoTrip)
      BY <1>1, <2>3 DEF PickTime, StepsTypes
    <3> QED BY <1>1, <3>1
  <2>4. CASE CloseTime
    <3>1. /\ timeDialog' \in [open : BOOLEAN, stage : {"form", "saved"},
                              time : Times \cup {NoTime}, sending : BOOLEAN]
          /\ ~timeDialog'.open /\ touched' = touched
      BY <1>1, <2>4 DEF CloseTime, StepsTypes
    <3> QED BY <1>1, <3>1 DEF StepsTypes
  <2> QED BY <2>1, <2>2, <2>3, <2>4
<1>5. StepsTypes' /\ Passed'
  BY <1>1, <1>2, <1>3, <1>4 DEF StepsTypes, Passed
<1>6. OnTheWay'
  BY <1>1, <1>2, <1>4 DEF OnTheWay, TripOK
<1> QED BY <1>3, <1>5, <1>6 DEF OnboardingInv

\* Where a visit lands: the first step is only asked for by going there, or by staying, and
\* whoever lands past the last step passed it or skipped the introduction.
LEMMA LandingSteps ==
  ASSUME NEW asks, WellAsked(asks)
  PROVE  /\ LandsOn(asks) \in 0..Dashboard
         /\ LandsOn(asks) = 1 => asks.kind \in {"page", "errors"} /\ asks.step = 1
         /\ LandsOn(asks) \in {Finished, Dashboard} => Onboards(asks)
         /\ LandsOn(asks) = Finished => asks.kind = "continue" /\ asks.step = 4
<1>1. asks.kind \in {"page", "intro", "skip", "continue", "time", "errors"}
      /\ asks.step \in 0..5
  BY DEF WellAsked, Asks, Finished
<1>2. CASE asks.kind = "intro"
  BY <1>2 DEF LandsOn, Onboards, Finished, Dashboard
<1>3. CASE asks.kind = "skip"
  <2>1. LandsOn(asks) = asks.step + 1 /\ asks.step \in 1..3
    BY <1>3 DEF LandsOn, WellAsked
  <2> QED BY <2>1 DEF Finished, Dashboard
<1>4. CASE asks.kind = "continue"
  <2>1. LandsOn(asks) = asks.step + 1 /\ asks.step \in 1..4
    BY <1>4 DEF LandsOn, WellAsked
  <2>2. asks.step = 4 => Onboards(asks)
    BY <1>4 DEF Onboards, LastStep
  <2> QED BY <1>4, <2>1, <2>2 DEF Finished, Dashboard
<1>5. CASE asks.kind \in {"page", "time", "errors"}
  <2>1. LandsOn(asks) = asks.step
    BY <1>5 DEF LandsOn
  <2>2. asks.step \in 1..3 /\ (asks.kind = "time" => asks.step = 2)
    BY <1>5 DEF WellAsked
  <2>3. asks.kind = "time" => asks.step # 1
    BY <2>2
  <2> QED BY <1>5, <2>1, <2>2, <2>3 DEF Finished, Dashboard
<1> QED BY <1>1, <1>2, <1>3, <1>4, <1>5

\* The server saves what was asked, and says where to go.
LEMMA SavingKeeps ==
  ASSUME OnboardingInv, Serve, savedProvider' = Saved(savedProvider, trip.asks),
         trip' = [trip EXCEPT !.lands = LandsOn(trip.asks)]
  PROVE  OnboardingInv'
<1>1. StepsTypes /\ ContinueMatchesForm /\ Passed /\ OnTheWay
  BY DEF OnboardingInv
<1>2. UNCHANGED <<StepShown, timeDialog, adriftTrips, continued, raced, touched>>
      /\ trip # NoTrip /\ trip.lands = -1
  BY DEF Serve, Waits
<1>3. trip \in Trips /\ savedProvider \in Providers /\ TripOK /\ WellAsked(trip.asks)
  BY <1>1, <1>2 DEF StepsTypes, OnTheWay, TripOK
<1>4. /\ savedProvider' \in Providers
      /\ savedProvider.onboarded \/ Onboards(trip.asks) => savedProvider'.onboarded
      /\ savedProvider.details => savedProvider'.details
      /\ savedProvider.deadline # NoTime => savedProvider'.deadline # NoTime
      /\ savedProvider.delivery # "none" => savedProvider'.delivery # "none"
      /\ trip.asks.kind = "continue" /\ trip.asks.step = 1 => savedProvider'.details
      /\ trip.asks.kind = "continue" /\ trip.asks.step = 3 => savedProvider'.delivery # "none"
      /\ trip.asks.kind = "continue" /\ trip.asks.step = 4 =>
           savedProvider'.alerts = trip.asks.alerts
      /\ trip.asks.kind = "time" => savedProvider'.deadline = trip.asks.time
  BY <1>3, SavedByTheServer
<1>5. LandsOn(trip.asks) \in -1..Dashboard
  BY <1>3, LandingSteps DEF Dashboard
<1>6. trip' \in Trips /\ trip'.asks = trip.asks /\ trip'.lands = LandsOn(trip.asks)
  BY <1>3, <1>5 DEF Trips
<1>7. StepsTypes' /\ ContinueMatchesForm' /\ Passed'
  <2>1. UNCHANGED <<atStep, details, canContinue, deliveryChosen, subscribed, shownProvider>>
    BY <1>2 DEF StepShown
  <2> QED BY <1>1, <1>2, <1>4, <1>6, <2>1 DEF StepsTypes, ContinueMatchesForm, Passed
<1>8. TripOK'
  <2>1. trip'.lands = LandsOn(trip'.asks) /\ WellAsked(trip'.asks) /\ UNCHANGED <<atStep, raced>>
    BY <1>2, <1>3, <1>6 DEF StepShown
  <2>2. Onboards(trip'.asks) => savedProvider'.onboarded
    BY <1>4, <1>6
  <2> QED BY <1>3, <1>4, <1>6, <2>1, <2>2 DEF TripOK
<1>9. OnTheWay'
  BY <1>1, <1>2, <1>6, <1>8 DEF OnTheWay, StepShown
<1> QED BY <1>7, <1>9 DEF OnboardingInv

\* The server refuses: the answer is the same step, with what was wrong.
LEMMA RefusingKeeps ==
  ASSUME OnboardingInv, Serve, MayRefuse(trip.asks), UNCHANGED savedProvider,
         trip' = [trip EXCEPT !.lands = trip.asks.step, !.asks.kind = "errors"]
  PROVE  OnboardingInv'
<1>1. StepsTypes /\ ContinueMatchesForm /\ Passed /\ OnTheWay
  BY DEF OnboardingInv
<1>2. UNCHANGED <<StepShown, timeDialog, adriftTrips, continued, raced, touched>>
      /\ trip # NoTrip /\ trip.lands = -1
  BY DEF Serve, Waits
<1>3. trip \in Trips /\ TripOK /\ WellAsked(trip.asks)
  BY <1>1, <1>2 DEF StepsTypes, OnTheWay, TripOK
<1>4. trip.asks \in Asks /\ trip.asks.step \in 1..3 /\ trip.asks.step \in -1..Dashboard
  BY <1>3 DEF WellAsked, MayRefuse, Dashboard
<1>5. /\ trip' \in Trips /\ trip'.lands = trip.asks.step
      /\ trip'.asks = [trip.asks EXCEPT !.kind = "errors"]
  <2>1. [trip.asks EXCEPT !.kind = "errors"] \in Asks
    BY <1>4 DEF Asks
  <2> QED BY <1>3, <1>4, <2>1 DEF Trips
<1>6. trip'.asks \in Asks /\ trip'.asks.kind = "errors" /\ trip'.asks.step = trip.asks.step
  BY <1>4, <1>5 DEF Asks
<1>7. WellAsked(trip'.asks) /\ LandsOn(trip'.asks) = trip.asks.step /\ ~Onboards(trip'.asks)
  BY <1>4, <1>6 DEF WellAsked, LandsOn, Onboards
<1>8. trip.asks.step = 1 => atStep = 1
  BY <1>3 DEF MayRefuse, TripOK, WellAsked
<1>9. StepsTypes' /\ ContinueMatchesForm' /\ Passed'
  <2>1. UNCHANGED <<atStep, details, canContinue, deliveryChosen, subscribed, shownProvider>>
    BY <1>2 DEF StepShown
  <2> QED BY <1>1, <1>2, <1>5, <2>1 DEF StepsTypes, ContinueMatchesForm, Passed
<1>10. TripOK'
  <2>1. atStep' = atStep
    BY <1>2 DEF StepShown
  <2> QED BY <1>5, <1>6, <1>7, <1>8, <2>1 DEF TripOK
<1>11. OnTheWay'
  BY <1>1, <1>2, <1>6, <1>10 DEF OnTheWay
<1> QED BY <1>9, <1>11 DEF OnboardingInv

LEMMA ServeLateKeeps == OnboardingInv /\ ServeLate => OnboardingInv'
<1> SUFFICES ASSUME OnboardingInv, ServeLate PROVE OnboardingInv'
  OBVIOUS
<1>1. StepsTypes /\ ContinueMatchesForm /\ Passed /\ OnTheWay
  BY DEF OnboardingInv
<1>2. PICK asks \in adriftTrips :
        /\ adriftTrips' = adriftTrips \ {asks}
        /\ \/ savedProvider' = Saved(savedProvider, asks)
           \/ UNCHANGED savedProvider
        /\ UNCHANGED <<StepShown, timeDialog, trip, continued, raced, touched>>
  BY DEF ServeLate
<1>3. WellAsked(asks) /\ raced /\ savedProvider \in Providers
  BY <1>1 DEF OnTheWay, StepsTypes
<1>4. /\ savedProvider' \in Providers
      /\ savedProvider.onboarded => savedProvider'.onboarded
      /\ savedProvider.details => savedProvider'.details
      /\ savedProvider.deadline # NoTime => savedProvider'.deadline # NoTime
      /\ savedProvider.delivery # "none" => savedProvider'.delivery # "none"
  BY <1>2, <1>3, SavedByTheServer
<1>5. UNCHANGED <<atStep, details, canContinue, deliveryChosen, subscribed, shownProvider>>
  BY <1>2 DEF StepShown
<1>6. StepsTypes' /\ ContinueMatchesForm' /\ Passed'
  BY <1>1, <1>2, <1>4, <1>5 DEF StepsTypes, ContinueMatchesForm, Passed
<1>7. trip # NoTrip => TripOK'
  BY <1>1, <1>2, <1>3, <1>4, <1>5 DEF OnTheWay, TripOK
<1>8. OnTheWay'
  BY <1>1, <1>2, <1>3, <1>5, <1>7 DEF OnTheWay
<1> QED BY <1>6, <1>8 DEF OnboardingInv

\* What the dialog of the time is after an answer; it says what was saved, or is closed.
LEMMA DialogAfterAnswer ==
  ASSUME OnboardingInv, TripArrives
  PROVE  /\ timeDialog' \in [open : BOOLEAN, stage : {"form", "saved"},
                             time : Times \cup {NoTime}, sending : BOOLEAN]
         /\ timeDialog'.open /\ timeDialog'.stage = "saved" /\ ~raced /\ ~touched =>
              timeDialog'.time = savedProvider.deadline
<1>1. StepsTypes /\ OnTheWay
  BY DEF OnboardingInv
<1>2. /\ trip # NoTrip /\ trip.lands # -1
      /\ timeDialog' = TimeAfter(trip.asks)
  BY DEF TripArrives, Waits
<1>3. /\ timeDialog \in [open : BOOLEAN, stage : {"form", "saved"},
                         time : Times \cup {NoTime}, sending : BOOLEAN]
      /\ TripOK /\ trip.asks \in Asks /\ trip.asks.time \in Times \cup {NoTime}
      /\ ~(timeDialog.open /\ timeDialog.stage = "saved")
  BY <1>1, <1>2 DEF StepsTypes, OnTheWay, TripOK, WellAsked, Asks
<1>4. CASE trip.asks.kind = "errors"
  <2>1. timeDialog' = [timeDialog EXCEPT !.sending = FALSE]
    BY <1>2, <1>4 DEF TimeAfter
  <2> QED BY <1>3, <2>1
<1>5. CASE trip.asks.kind = "time" /\ shownProvider.deadline = NoTime
  <2>1. timeDialog' = [timeDialog EXCEPT !.stage = "saved", !.sending = FALSE]
    BY <1>2, <1>5 DEF TimeAfter
  <2>2. ~raced => savedProvider.deadline = trip.asks.time
    BY <1>2, <1>3, <1>5 DEF TripOK
  <2>3. timeDialog.open /\ ~raced /\ ~touched => timeDialog.time = trip.asks.time
    BY <1>1, <1>2, <1>5 DEF OnTheWay
  <2>4. /\ timeDialog' \in [open : BOOLEAN, stage : {"form", "saved"},
                            time : Times \cup {NoTime}, sending : BOOLEAN]
        /\ timeDialog'.open = timeDialog.open /\ timeDialog'.time = timeDialog.time
    BY <1>3, <2>1
  <2> QED BY <2>2, <2>3, <2>4
<1>6. CASE trip.asks.kind = "time" /\ shownProvider.deadline # NoTime
  <2>1. timeDialog' = [open |-> TRUE, stage |-> "saved", time |-> trip.asks.time,
                       sending |-> FALSE]
    BY <1>2, <1>6 DEF TimeAfter
  <2>2. ~raced => savedProvider.deadline = trip.asks.time
    BY <1>2, <1>3, <1>6 DEF TripOK
  <2> QED BY <1>3, <2>1, <2>2
<1>7. CASE trip.asks.kind \notin {"errors", "time"}
  <2>1. timeDialog' = ClosedTime
    BY <1>2, <1>7 DEF TimeAfter
  <2> QED BY <2>1 DEF ClosedTime
<1> QED BY <1>4, <1>5, <1>6, <1>7

LEMMA TripArrivesKeeps == OnboardingInv /\ TripArrives => OnboardingInv'
<1> SUFFICES ASSUME OnboardingInv, TripArrives PROVE OnboardingInv'
  OBVIOUS
<1>1. StepsTypes /\ ContinueMatchesForm /\ Passed /\ OnTheWay
  BY DEF OnboardingInv
<1>2. /\ trip # NoTrip /\ trip.lands # -1
      /\ atStep' = trip.lands /\ shownProvider' = savedProvider
      /\ details' = (IF trip.lands = atStep THEN details ELSE savedProvider.details)
      /\ canContinue' = (IF Starts(trip.asks)
                         THEN FirstCanContinue(trip.lands, savedProvider) ELSE canContinue)
      /\ deliveryChosen' = (IF trip.lands = atStep THEN deliveryChosen
                            ELSE FirstDelivery(savedProvider))
      /\ subscribed' = (IF trip.lands = atStep THEN subscribed
                        ELSE FirstSubscribed(savedProvider))
      /\ continued' = (IF trip.asks.kind = "continue" THEN continued \cup {trip.asks.step}
                       ELSE continued)
      /\ trip' = NoTrip /\ touched' = FALSE
      /\ UNCHANGED <<adriftTrips, savedProvider, raced>>
  BY DEF TripArrives, Waits
<1>3. /\ savedProvider \in Providers /\ TripOK /\ WellAsked(trip.asks)
      /\ trip.lands = LandsOn(trip.asks)
      /\ Onboards(trip.asks) => savedProvider.onboarded
  BY <1>1, <1>2 DEF StepsTypes, OnTheWay, TripOK
<1>4. /\ trip.lands \in 0..Dashboard
      /\ trip.lands = 1 => trip.asks.kind \in {"page", "errors"} /\ trip.asks.step = 1
      /\ trip.lands \in {Finished, Dashboard} => savedProvider.onboarded
  BY <1>3, LandingSteps
<1>5. savedProvider.details \in BOOLEAN /\ savedProvider.delivery \in DeliveryChoices
      /\ savedProvider.alerts \subseteq Alerts
  BY <1>3 DEF Providers
<1>6. FirstCanContinue(trip.lands, savedProvider) \in BOOLEAN
      /\ FirstDelivery(savedProvider) \in DeliveryChoices
      /\ FirstSubscribed(savedProvider) \subseteq Alerts
  BY <1>5 DEF FirstCanContinue, FirstDelivery, FirstSubscribed
<1>7. trip.asks.kind = "continue" => trip.asks.step \in 1..4
  BY <1>3 DEF WellAsked
<1>8. StepsTypes'
  <2>1. /\ details' \in BOOLEAN /\ canContinue' \in BOOLEAN
        /\ deliveryChosen' \in DeliveryChoices /\ subscribed' \subseteq Alerts
        /\ continued' \subseteq 1..LastStep
    BY <1>1, <1>2, <1>5, <1>6, <1>7 DEF StepsTypes, LastStep
  <2> QED BY <1>1, <1>2, <1>3, <1>4, <2>1, DialogAfterAnswer DEF StepsTypes
<1>9. ContinueMatchesForm'
  <2> SUFFICES ASSUME trip.lands = 1 PROVE canContinue' <=> details'
    BY <1>2 DEF ContinueMatchesForm
  <2>1. CASE trip.asks.kind = "page"
    <3>1. atStep # 1
      BY <1>3, <1>4, <2>1 DEF TripOK
    <3>2. details' = savedProvider.details
      BY <1>2, <3>1
    <3>3. canContinue' = savedProvider.details
      BY <1>2, <1>5, <2>1 DEF Starts, FirstCanContinue
    <3> QED BY <3>2, <3>3
  <2>2. CASE trip.asks.kind = "errors"
    <3>1. atStep = 1
      BY <1>3, <1>4, <2>2 DEF TripOK
    <3>2. details' = details /\ canContinue' = canContinue
      BY <1>2, <2>2, <3>1 DEF Starts
    <3> QED BY <1>1, <3>1, <3>2 DEF ContinueMatchesForm
  <2> QED BY <1>4, <2>1, <2>2
<1>10. Passed'
  <2>1. trip.asks.kind = "continue" =>
          /\ trip.asks.step = 1 => savedProvider.details
          /\ trip.asks.step = 2 => savedProvider.deadline # NoTime
          /\ trip.asks.step = 3 => savedProvider.delivery # "none"
    BY <1>2, <1>3 DEF TripOK
  <2> QED BY <1>1, <1>2, <1>4, <2>1 DEF Passed
<1>11. OnTheWay'
  BY <1>1, <1>2 DEF OnTheWay
<1> QED BY <1>8, <1>9, <1>10, <1>11 DEF OnboardingInv

LEMMA LoseTripKeeps == OnboardingInv /\ LoseTrip => OnboardingInv'
<1> SUFFICES ASSUME OnboardingInv, LoseTrip PROVE OnboardingInv'
  OBVIOUS
<1>1. StepsTypes /\ ContinueMatchesForm /\ Passed /\ OnTheWay
  BY DEF OnboardingInv
<1>2. /\ trip # NoTrip /\ trip' = NoTrip /\ raced' = TRUE /\ touched' = FALSE
      /\ adriftTrips' = (IF Waits(trip) THEN adriftTrips \cup {trip.asks} ELSE adriftTrips)
      /\ timeDialog' = [timeDialog EXCEPT !.sending = FALSE]
      /\ UNCHANGED <<atStep, details, canContinue, deliveryChosen, subscribed, shownProvider,
                     savedProvider, continued>>
  BY DEF LoseTrip, StepShown
<1>3. timeDialog' \in [open : BOOLEAN, stage : {"form", "saved"}, time : Times \cup {NoTime},
                       sending : BOOLEAN]
  BY <1>1, <1>2 DEF StepsTypes
<1>4. WellAsked(trip.asks)
  BY <1>1, <1>2 DEF OnTheWay, TripOK
<1>5. StepsTypes' /\ ContinueMatchesForm' /\ Passed'
  BY <1>1, <1>2, <1>3 DEF StepsTypes, ContinueMatchesForm, Passed
<1>6. OnTheWay'
  BY <1>1, <1>2, <1>4 DEF OnTheWay
<1> QED BY <1>5, <1>6 DEF OnboardingInv

LEMMA OnboardingStep == OnboardingInv /\ [OnboardingNext]_onboardingVars => OnboardingInv'
<1> SUFFICES ASSUME OnboardingInv, [OnboardingNext]_onboardingVars PROVE OnboardingInv'
  OBVIOUS
<1>1. CASE UNCHANGED onboardingVars
  BY <1>1 DEF onboardingVars, OnboardingInv, StepsTypes, ContinueMatchesForm, Passed, OnTheWay,
              TripOK
<1>2. CASE Serve
  BY <1>2, SavingKeeps, RefusingKeeps DEF Serve
<1>3. CASE OnboardingNext /\ ~Serve
  BY <1>3, SteppingKeeps, TimesKeep, FillingKeeps, ServeLateKeeps, TripArrivesKeeps,
     LoseTripKeeps DEF OnboardingNext
<1> QED BY <1>1, <1>2, <1>3

\* No step but an answer makes the dialog say a time was saved, and it says the one that was.
LEMMA TimeIsSaid ==
  ASSUME OnboardingInv, OnboardingNext, timeDialog'.open, timeDialog'.stage = "saved",
         ~raced', ~touched
  PROVE  timeDialog'.time = shownProvider'.deadline
<1>1. StepsTypes /\ OnTheWay
  BY DEF OnboardingInv
<1>2. timeDialog \in [open : BOOLEAN, stage : {"form", "saved"}, time : Times \cup {NoTime},
                      sending : BOOLEAN]
  BY <1>1 DEF StepsTypes
<1>3. TripArrives
  <2>1. ~(Start \/ SkipIntro \/ Skip \/ GoBack \/ ChangeDetails \/ ChooseDelivery \/ ToggleAlert
            \/ Continue)
    BY DEF Start, SkipIntro, Skip, GoBack, ChangeDetails, ChooseDelivery, ToggleAlert, Continue,
           AtStep
  <2>2. ~(OpenTime \/ ChangeTime)
    BY DEF OpenTime, ChangeTime, AtStep, ClosedTime
  <2>3. ~(PickTime \/ SaveTime \/ CloseTime)
    BY <1>2 DEF PickTime, SaveTime, CloseTime
  <2>4. ~Serve
    BY <1>1 DEF Serve, Waits, OnTheWay
  <2>5. ~(ServeLate \/ LoseTrip)
    BY <1>1 DEF ServeLate, LoseTrip, OnTheWay
  <2> QED BY <2>1, <2>2, <2>3, <2>4, <2>5 DEF OnboardingNext
<1>4. shownProvider' = savedProvider /\ UNCHANGED raced
  BY <1>3 DEF TripArrives
<1> QED BY <1>3, <1>4, DialogAfterAnswer

\* Whatever visits are interrupted, lost, served late or refused: the button of the first step
\* is enabled exactly when its form is whole, whoever is shown the end is onboarded, a step
\* left with its button is configured, the notifications are those that were chosen, and the
\* dialog of the closing time says the time that was saved (pages/provider/onboarding/
\* show.tsx:63, controllers/provider/onboarding_controller.rb:19,
\* components/provider/closing-time-section.tsx:46).
THEOREM OnboardingKeepsItsSteps == OnboardingSpec => StepsKept
<1> DEFINE TimeSaid == timeDialog'.open /\ timeDialog'.stage = "saved" /\ ~raced' /\ ~touched
                         => timeDialog'.time = shownProvider'.deadline
           Kept == /\ ContinueMatchesForm /\ FinishedIsOnboarded /\ ContinuedIsConfigured
                   /\ AlertsAreTheChosen
<1>1. OnboardingInv => Kept
  <2> SUFFICES ASSUME OnboardingInv PROVE Kept
    OBVIOUS
  <2>1. ContinueMatchesForm /\ FinishedIsOnboarded /\ ContinuedIsConfigured
    BY DEF OnboardingInv, Passed, FinishedIsOnboarded, ContinuedIsConfigured
  <2>2. AlertsAreTheChosen
    <3> SUFFICES ASSUME trip # NoTrip, trip.lands = Finished, ~raced
                 PROVE  savedProvider.alerts = trip.asks.alerts
      BY DEF AlertsAreTheChosen
    <3>1. TripOK /\ WellAsked(trip.asks) /\ trip.lands # -1 /\ trip.lands = LandsOn(trip.asks)
      BY DEF OnboardingInv, OnTheWay, TripOK, Finished
    <3>2. trip.asks.kind = "continue" /\ trip.asks.step = 4
      BY <3>1, LandingSteps
    <3> QED BY <3>1, <3>2 DEF TripOK
  <2> QED BY <2>1, <2>2
<1>2. OnboardingInv /\ [OnboardingNext]_onboardingVars => [TimeSaid]_onboardingVars
  BY TimeIsSaid
<1> HIDE DEF TimeSaid, Kept
<1>3. OnboardingSpec => []Kept /\ [][TimeSaid]_onboardingVars
  BY <1>1, <1>2, OnboardingStarts, OnboardingStep, PTL DEF OnboardingSpec
<1>4. [][TimeSaid]_onboardingVars => SaysTheTimeSaved
  BY DEF TimeSaid, SaysTheTimeSaved
<1>5. []Kept => [](ContinueMatchesForm /\ FinishedIsOnboarded /\ ContinuedIsConfigured
                     /\ AlertsAreTheChosen)
  BY PTL DEF Kept
<1> QED BY <1>3, <1>4, <1>5 DEF StepsKept

-----------------------------------------------------------------------------
(* The orders of a provider *)

\* Without the marks the page takes out, a word is its letters and the others; and
\* so in the file.
LEMMA Normalized ==
    ASSUME NEW x, x = [letters |-> x.letters, marks |-> x.marks]
    PROVE  /\ PageNormalize(x)
                = [letters |-> x.letters, marks |-> x.marks \ {"accent", "spacing"}]
           /\ FileNormalize(x)
                = [letters |-> x.letters, marks |-> x.marks \ {"accent", "sign"}]
<1>1. ASSUME NEW letters, NEW marks, NEW others, x = [letters |-> letters, marks |-> marks]
      PROVE  [x EXCEPT !.marks = @ \ others] = [letters |-> letters, marks |-> marks \ others]
  <2>1. [[letters |-> letters, marks |-> marks] EXCEPT !.marks = @ \ others]
          = [letters |-> letters, marks |-> marks \ others]
    OBVIOUS
  <2> QED BY <1>1, <2>1, Zenon
<1> QED BY <1>1 DEF PageNormalize, FileNormalize

\* A word that both sides read alike is found by both or by none.
LEMMA FoundAlike ==
    ASSUME NEW x, IsWord(x), Ordinary(x), x.letters # "",
           NEW texts, \A y \in texts : y = [letters |-> y.letters, marks |-> y.marks],
           \A y \in texts : y.letters = x.letters => Ordinary(y)
    PROVE  Within(PageNormalize(x), {PageNormalize(y) : y \in texts})
             <=> Within(FileNormalize(x), {FileNormalize(y) : y \in texts})
<1> DEFINE plain == [letters |-> x.letters, marks |-> {}]
<1>1. PageNormalize(x) = plain /\ FileNormalize(x) = plain
  <2>1. x.marks \ {"accent", "spacing"} = {} /\ x.marks \ {"accent", "sign"} = {}
    BY DEF Ordinary
  <2>2. x = [letters |-> x.letters, marks |-> x.marks]
    BY DEF IsWord
  <2> QED BY <2>1, <2>2, Normalized
<1>2. ASSUME NEW y \in texts, y.letters = x.letters
      PROVE  PageNormalize(y) = plain /\ FileNormalize(y) = plain
  <2>1. y.marks \ {"accent", "spacing"} = {} /\ y.marks \ {"accent", "sign"} = {}
    BY <1>2 DEF Ordinary
  <2> QED BY <1>2, <2>1, Normalized
<1>3. \A y \in texts : /\ PageNormalize(y).letters = y.letters
                        /\ FileNormalize(y).letters = y.letters
  <2>1. ASSUME NEW text, NEW letters, NEW marks, text = [letters |-> letters, marks |-> marks]
        PROVE  /\ PageNormalize(text).letters = text.letters
               /\ FileNormalize(text).letters = text.letters
    BY <2>1 DEF PageNormalize, FileNormalize
  <2>2. \A y \in texts : \E letters, marks : y = [letters |-> letters, marks |-> marks]
    BY Zenon
  <2> QED BY <2>1, <2>2, Zenon
<1>4. plain.letters = x.letters /\ plain.letters # ""
  OBVIOUS
<1> HIDE DEF plain
<1>5. ASSUME NEW words
      PROVE  Within(plain, words) <=> plain \in words
  BY <1>4 DEF Within
<1>6. /\ plain \in {PageNormalize(y) : y \in texts} <=> \E y \in texts : y.letters = x.letters
      /\ plain \in {FileNormalize(y) : y \in texts} <=> \E y \in texts : y.letters = x.letters
  <2>1. ASSUME NEW y \in texts
        PROVE  /\ plain = PageNormalize(y) <=> y.letters = x.letters
               /\ plain = FileNormalize(y) <=> y.letters = x.letters
    BY <1>2, <1>3, <1>4
  <2> QED BY <2>1
<1> QED BY <1>1, <1>5, <1>6

\* A word without letters that both read alike is none for both.
LEMMA NoneAlike ==
    ASSUME NEW x, IsWord(x), Ordinary(x)
    PROVE  /\ PageNormalize(x) = NoLetters <=> x.letters = ""
           /\ FileNormalize(x) = NoLetters <=> x.letters = ""
<1>1. x.marks \ {"accent", "spacing"} = {} /\ x.marks \ {"accent", "sign"} = {}
  BY DEF Ordinary
<1>2. x = [letters |-> x.letters, marks |-> x.marks]
  BY DEF IsWord
<1>3. /\ PageNormalize(x) = [letters |-> x.letters, marks |-> {}]
      /\ FileNormalize(x) = [letters |-> x.letters, marks |-> {}]
  BY <1>1, <1>2, Normalized
<1>4. [letters |-> x.letters, marks |-> {}] = NoLetters <=> x.letters = ""
  BY DEF NoLetters
<1> QED BY <1>3, <1>4

LEMMA SearchFindsAlike ==
    ASSUME filter.search \in Searches, SearchedAlike,
           NEW o \in Loaded, listed[o] = current[o]
    PROVE  PageFinds(o, listed[o]) <=> FileFinds(o, current[o])
<1> DEFINE texts == Texts(o, listed[o])
           InPage(x) == Within(PageNormalize(x), {PageNormalize(y) : y \in texts})
           InFile(x) == Within(FileNormalize(x), {FileNormalize(y) : y \in texts})
<1>1. o \in Orders
  BY DEF Loaded, OrdersIn
<1>2. \A y \in texts : y = [letters |-> y.letters, marks |-> y.marks]
  BY <1>1, PageAssumption DEF Texts, IsWord
<1>3. \A x \in filter.search : IsWord(x) /\ Ordinary(x)
  BY PageAssumption DEF SearchedAlike
<1>4. \A x \in filter.search : \A y \in texts : y.letters = x.letters => Ordinary(y)
  <2> SUFFICES ASSUME NEW x \in filter.search, NEW y \in texts, y.letters = x.letters
               PROVE  Ordinary(y)
    OBVIOUS
  <2>1. CASE y \in TextOf[o]
    BY <2>1 DEF SearchedAlike
  <2>2. CASE y = [letters |-> listed[o], marks |-> {}]
    BY <2>2 DEF Ordinary
  <2> QED BY <2>1, <2>2 DEF Texts
<1> HIDE DEF texts
<1>5. \A x \in filter.search : x.letters # "" => (InPage(x) <=> InFile(x))
  BY <1>2, <1>3, <1>4, FoundAlike
<1>6. \A x \in filter.search : /\ PageNormalize(x) = NoLetters <=> x.letters = ""
                               /\ FileNormalize(x) = NoLetters <=> x.letters = ""
  BY <1>3, NoneAlike
<1>7. PageFinds(o, listed[o]) <=> \A x \in filter.search : x.letters # "" => InPage(x)
  BY <1>6 DEF PageFinds, texts
<1>8. FileFinds(o, current[o]) <=> \A x \in filter.search : x.letters # "" => InFile(x)
  BY <1>6 DEF FileFinds, texts
<1> HIDE DEF InPage, InFile
<1> QED BY <1>5, <1>7, <1>8

LEMMA FileIsTheSame == filter \in Filters => FileIsTheList
<1> SUFFICES ASSUME filter \in Filters, UpToDate, SearchedAlike PROVE Exported = Visible
  BY DEF FileIsTheList
<1>1. listed = current /\ Loaded = OrdersIn(filter.period, current, calendar)
  BY DEF UpToDate, Loaded
<1>2. ASSUME NEW o \in Loaded
      PROVE  VisibleInFile(o) <=> /\ filter.status # "all" => listed[o] = filter.status
                                  /\ filter.delivery # "all" => MethodOf[o] = filter.delivery
                                  /\ PageFinds(o, listed[o])
  <2>1. PageFinds(o, listed[o]) <=> FileFinds(o, current[o])
    BY <1>1, SearchFindsAlike DEF Filters
  <2>2. /\ filter.status # "all" <=> filter.status \in {"pending", "confirmed"}
        /\ filter.delivery # "all" <=> filter.delivery \in {"office", "home"}
    BY DEF Filters
  <2> QED BY <1>1, <2>1, <2>2 DEF VisibleInFile
<1> QED BY <1>1, <1>2 DEF Exported, Visible, FilterOrders

\* A decision in flight is the last one, and the server has taken it only if the
\* answer says so; those given up are others.
VisitsInOrder ==
    /\ takenVisits \cup unheardVisits \subseteq 1..decisions
    /\ \A d \in overtaken : d.visit \in unheardVisits
    /\ deciding # Nobody =>
         /\ deciding.visit \in 1..decisions /\ deciding.visit \notin unheardVisits
         /\ deciding.visit \in takenVisits <=> deciding.answer = "done"

\* What is in flight was on offer in the page, which has not come again.
WasOffered ==
    deciding # Nobody =>
        \/ listed[deciding.id] = "pending"
        \/ /\ listed[deciding.id] = "confirmed" /\ deciding.status = "rejected"
           /\ DateOf[deciding.id] >= listedOn

OrdersInv ==
    /\ decisions \in 0..MaxDecisions /\ filter \in Filters
    /\ deciding \in InFlight \cup {Nobody}
    /\ VisitsInOrder /\ WasOffered /\ TakenIsTold

LEMMA OrdersStart == OrdersInit => OrdersInv
<1> SUFFICES ASSUME OrdersInit PROVE OrdersInv
  OBVIOUS
<1>1. filter \in Filters
  BY PageAssumption DEF OrdersInit, Filters
<1> QED BY <1>1, PageAssumption
        DEF OrdersInit, OrdersInv, VisitsInOrder, WasOffered, TakenIsTold

LEMMA ControlsKeep ==
    ASSUME OrdersInv,
           \/ \E period \in {"upcoming", "history"} : SelectPeriod(period)
           \/ \E status \in {"pending", "confirmed", "all"} : SelectStatus(status)
           \/ \E words \in Searches : TypeSearch(words)
           \/ \E method \in {"all", "office", "home"} : ApplyDelivery(method)
           \/ \E date \in Dates : ToggleDay(date)
    PROVE  OrdersInv'
<1>1. UNCHANGED <<listed, listedOn, deciding, overtaken, decisions, takenVisits,
                  toldVisits, unheardVisits>>
  BY DEF SelectPeriod, SelectStatus, TypeSearch, ApplyDelivery, ToggleDay, ControlsMove,
         visitsPast
<1>2. filter' \in Filters
  BY DEF OrdersInv, Filters, SelectPeriod, SelectStatus, TypeSearch, ApplyDelivery, ToggleDay
<1> QED BY <1>1, <1>2 DEF OrdersInv, VisitsInOrder, WasOffered, TakenIsTold

LEMMA DecideKeeps ==
    ASSUME OrdersInv, NEW o \in Orders, NEW status \in {"confirmed", "rejected"},
           Decide(o, status)
    PROVE  OrdersInv'
<1> DEFINE new == [visit |-> decisions + 1, id |-> o, status |-> status,
                   answer |-> "waiting"]
<1>1. /\ decisions \in Nat /\ decisions + 1 \in 1..MaxDecisions
      /\ decisions' = decisions + 1 /\ deciding' = new
  BY PageAssumption DEF OrdersInv, Decide
<1>2. new \in InFlight
  BY <1>1 DEF InFlight, DecisionVisits
<1>3. VisitsInOrder'
  <2>1. takenVisits' \cup unheardVisits' \subseteq 1..decisions'
    <3>1. 1..decisions \subseteq 1..decisions'
      BY <1>1
    <3>2. /\ takenVisits \cup unheardVisits \subseteq 1..decisions
          /\ deciding # Nobody => deciding.visit \in 1..decisions
      BY DEF OrdersInv, VisitsInOrder
    <3>3. /\ takenVisits' = takenVisits
          /\ unheardVisits' = IF deciding = Nobody THEN unheardVisits
                              ELSE unheardVisits \cup {deciding.visit}
      BY DEF Decide, NotHeardOf
    <3> QED BY <3>1, <3>2, <3>3
  <2>2. (\A d \in overtaken : d.visit \in unheardVisits)'
    BY DEF OrdersInv, VisitsInOrder, Decide, NotHeardOf, DecisionOf
  <2>3. decisions + 1 \notin unheardVisits' /\ decisions + 1 \notin takenVisits'
    BY <1>1 DEF OrdersInv, VisitsInOrder, Decide, NotHeardOf
  <2>4. new.visit = decisions + 1 /\ new.answer = "waiting"
    OBVIOUS
  <2>5. decisions + 1 \in 1..decisions'
    BY <1>1
  <2> HIDE DEF new
  <2> QED BY <1>1, <2>1, <2>2, <2>3, <2>4, <2>5 DEF VisitsInOrder
<1>4. WasOffered'
  BY <1>1 DEF WasOffered, Decide, CanDecide
<1>5. TakenIsTold'
  BY DEF OrdersInv, TakenIsTold, Decide, NotHeardOf
<1> QED BY <1>1, <1>2, <1>3, <1>4, <1>5 DEF OrdersInv, Decide, controls

\* Whatever the server does with it, a visit given up is told to nobody.
LEMMA ServingKeepsOrders ==
    ASSUME OrdersInv, ServeDecision \/ (\E d \in overtaken : ServeOvertaken(d))
    PROVE  OrdersInv'
<1>1. CASE ServeDecision
  <2> DEFINE answer == IF Decidable(deciding.id, deciding.status) THEN "done" ELSE "alert"
  <2>1. deciding \in InFlight /\ deciding.answer = "waiting"
    BY <1>1 DEF OrdersInv, ServeDecision
  <2>2. deciding' = [deciding EXCEPT !.answer = answer]
    BY <1>1 DEF ServeDecision
  <2>3. answer \in {"done", "alert"}
    OBVIOUS
  <2>4. takenVisits' = IF answer = "done" THEN takenVisits \cup {deciding.visit}
                       ELSE takenVisits
    BY <1>1 DEF ServeDecision, Answers
  <2> HIDE DEF answer
  <2>5. /\ deciding' \in InFlight /\ deciding'.answer = answer
        /\ deciding'.visit = deciding.visit /\ deciding'.id = deciding.id
        /\ deciding'.status = deciding.status
    BY <2>1, <2>2, <2>3 DEF InFlight
  <2>6. deciding # Nobody /\ deciding' # Nobody
    BY <2>1, <2>5, NobodyAssumption
  <2>7. UNCHANGED <<filter, listed, listedOn, overtaken, decisions, toldVisits, unheardVisits>>
    BY <1>1 DEF ServeDecision, controls
  <2>8. VisitsInOrder'
    BY <2>1, <2>3, <2>4, <2>5, <2>6, <2>7 DEF OrdersInv, VisitsInOrder
  <2>9. WasOffered' /\ TakenIsTold'
    BY <2>4, <2>5, <2>6, <2>7 DEF OrdersInv, WasOffered, TakenIsTold
  <2> QED BY <2>5, <2>7, <2>8, <2>9 DEF OrdersInv
<1>2. ASSUME NEW d \in overtaken, ServeOvertaken(d) PROVE OrdersInv'
  <2>1. d.visit \in unheardVisits /\ d.visit \in 1..decisions
    BY DEF OrdersInv, VisitsInOrder
  <2>2. /\ overtaken' \subseteq overtaken
        /\ UNCHANGED <<filter, listed, listedOn, deciding, decisions, toldVisits, unheardVisits>>
    BY <1>2 DEF ServeOvertaken, controls
  <2>3. takenVisits' = takenVisits \/ takenVisits' = takenVisits \cup {d.visit}
    BY <1>2 DEF ServeOvertaken, Answers
  <2>4. VisitsInOrder'
    BY <2>1, <2>2, <2>3 DEF OrdersInv, VisitsInOrder
  <2>5. WasOffered' /\ TakenIsTold'
    BY <2>1, <2>2, <2>3 DEF OrdersInv, WasOffered, TakenIsTold
  <2> QED BY <2>2, <2>4, <2>5 DEF OrdersInv
<1> QED BY <1>1, <1>2

LEMMA EndingKeepsOrders ==
    ASSUME OrdersInv, DecisionArrives \/ DecisionLost \/ CloseDecided \/ Meanwhile
    PROVE  OrdersInv'
<1>1. CASE DecisionArrives
  <2>1. VisitsInOrder' /\ WasOffered'
    BY <1>1 DEF OrdersInv, VisitsInOrder, WasOffered, DecisionArrives
  <2>2. TakenIsTold'
    <3>1. CASE deciding.answer = "done"
      BY <1>1, <3>1 DEF OrdersInv, VisitsInOrder, TakenIsTold, DecisionArrives
    <3>2. CASE deciding.answer # "done"
      BY <1>1, <3>2 DEF OrdersInv, VisitsInOrder, TakenIsTold, DecisionArrives
    <3> QED BY <3>1, <3>2
  <2> QED BY <1>1, <2>1, <2>2 DEF OrdersInv, DecisionArrives, controls
<1>2. CASE DecisionLost
  <2>1. VisitsInOrder' /\ WasOffered'
    BY <1>2 DEF OrdersInv, VisitsInOrder, WasOffered, DecisionLost, NotHeardOf, DecisionOf
  <2>2. TakenIsTold'
    BY <1>2 DEF OrdersInv, TakenIsTold, DecisionLost, NotHeardOf
  <2> QED BY <1>2, <2>1, <2>2 DEF OrdersInv, DecisionLost, controls
<1>3. CASE CloseDecided \/ Meanwhile
  <2>1. UNCHANGED <<filter, listed, listedOn, deciding, overtaken, decisions, takenVisits,
                    toldVisits, unheardVisits>>
    BY <1>3 DEF CloseDecided, Meanwhile, controls, visitsPast
  <2> QED BY <2>1 DEF OrdersInv, VisitsInOrder, WasOffered, TakenIsTold
<1> QED BY <1>1, <1>2, <1>3

LEMMA OrdersStep == OrdersInv /\ [OrdersNext]_ordersVars => OrdersInv'
<1> SUFFICES ASSUME OrdersInv, [OrdersNext]_ordersVars PROVE OrdersInv'
  OBVIOUS
<1>1. CASE UNCHANGED ordersVars
  BY <1>1 DEF ordersVars, OrdersInv, VisitsInOrder, WasOffered, TakenIsTold
<1>2. CASE OrdersNext
  BY <1>2, ControlsKeep, DecideKeeps, ServingKeepsOrders, EndingKeepsOrders DEF OrdersNext
<1> QED BY <1>1, <1>2

\* Whatever is filtered, decided, interrupted or lost, the file exported has the
\* orders of the list although each side strips a text of its own marks
\* (lib/provider-orders.ts:30, services/provider/orders_export.rb:84), as long as the
\* words searched for have none that only one side strips; a decision the server took
\* is told although its card leaves the list, and one it refused is not
\* (components/orders/provider-order-actions.tsx:87); and what a card offers
\* (Order#rejectable?) is taken (Order#decide) while nothing has changed.
THEOREM ListsAlwaysAgree == OrdersSpec => []ListsAgree
<1>1. OrdersInv => ListsAgree
  <2> SUFFICES ASSUME OrdersInv PROVE ListsAgree
    OBVIOUS
  <2>1. FileIsTheList /\ TakenIsTold
    BY FileIsTheSame DEF OrdersInv
  <2>2. OfferedIsTaken
    BY DEF OrdersInv, WasOffered, OfferedIsTaken, Decidable
  <2> QED BY <2>1, <2>2 DEF ListsAgree
<1> QED BY <1>1, OrdersStart, OrdersStep, PTL DEF OrdersSpec

-----------------------------------------------------------------------------
(* On which days a dish is offered *)

LEMMA Divided ==
    ASSUME NEW a \in Nat
    PROVE  /\ a \div Week \in Nat /\ a % Week \in 0..(Week - 1)
           /\ a = Week * (a \div Week) + (a % Week)
BY AgendaAssumption

LEMMA LaterWeek ==
    ASSUME NEW x \in Nat, NEW y \in Nat, x < y PROVE Week * x + Week =< Week * y
<1>1. y = x + 1 + (y - x - 1) /\ y - x - 1 \in Nat
  OBVIOUS
<1>2. Week * y = Week * x + Week + Week * (y - x - 1)
  BY <1>1, AgendaAssumption
<1>3. Week * (y - x - 1) \in Nat /\ Week * x \in Nat /\ Week \in Nat
  BY <1>1, AgendaAssumption
<1> QED BY <1>2, <1>3

LEMMA OneRemainder ==
    ASSUME NEW q \in Nat, NEW r \in 0..(Week - 1)
    PROVE  /\ (Week * q + r) % Week = r
           /\ (Week * q + r) \div Week = q
<1>1. Week \in Nat \ {0} /\ Week * q + r \in Nat
  BY AgendaAssumption
<1> DEFINE p == (Week * q + r) \div Week
           s == (Week * q + r) % Week
<1>2. p \in Nat /\ s \in 0..(Week - 1) /\ Week * q + r = Week * p + s
  BY <1>1, Divided
<1> HIDE DEF p, s
<1>3. Week * p \in Nat /\ Week * q \in Nat
  BY <1>1, <1>2
<1>4. (p < q => Week * p + Week =< Week * q) /\ (q < p => Week * q + Week =< Week * p)
  BY <1>2, LaterWeek
<1> DEFINE u == Week * p
           v == Week * q
<1>5. /\ u \in Nat /\ v \in Nat /\ v + r = u + s
      /\ (p < q => u + Week =< v) /\ (q < p => v + Week =< u)
      /\ (p = q => u = v)
  BY <1>2, <1>3, <1>4
<1> HIDE DEF u, v
<1>6. p = q /\ s = r
  BY <1>1, <1>2, <1>5
<1> QED BY <1>6 DEF p, s

\* Every weekday comes once in as many days as a week has.
LEMMA NextDateIs ==
    ASSUME NEW weekday \in Weekdays, NEW from \in Nat \ {0}
    PROVE  /\ NextDateFor(weekday, from) \in from..(from + Week - 1)
           /\ Cwday(NextDateFor(weekday, from)) = weekday
<1> DEFINE q == (from - 1) \div Week
           r == (from - 1) % Week
<1>1. q \in Nat /\ r \in 0..(Week - 1) /\ from - 1 = Week * q + r
  BY Divided
<1>2. Week \in Nat \ {0} /\ weekday - 1 \in 0..(Week - 1) /\ Week * q \in Nat
      /\ Week * (q + 1) = Week * q + Week
  BY <1>1, AgendaAssumption DEF Weekdays
<1> HIDE DEF q, r
<1>3. \E d \in from..(from + Week - 1) : Cwday(d) = weekday
  <2> DEFINE v == Week * q
  <2>1. CASE weekday - 1 >= r
    <3> DEFINE d == v + (weekday - 1) + 1
    <3>1. d \in from..(from + Week - 1) /\ d - 1 = v + (weekday - 1)
      <4>1. v \in Nat /\ from - 1 = v + r
        BY <1>1, <1>2
      <4> HIDE DEF v
      <4> QED BY <1>1, <1>2, <2>1, <4>1
    <3>2. (v + (weekday - 1)) % Week = weekday - 1
      BY <1>1, <1>2, OneRemainder
    <3>3. Cwday(d) = weekday
      <4> HIDE DEF v, d
      <4> QED BY <3>1, <3>2, <1>2 DEF Cwday, Weekdays
    <3> QED BY <3>1, <3>3
  <2>2. CASE ~(weekday - 1 >= r)
    <3> DEFINE u == Week * (q + 1)
               d == u + (weekday - 1) + 1
    <3>1. d \in from..(from + Week - 1) /\ d - 1 = u + (weekday - 1)
      <4>1. v \in Nat /\ from - 1 = v + r /\ u = v + Week
        BY <1>1, <1>2
      <4> HIDE DEF v, u
      <4> QED BY <1>1, <1>2, <2>2, <4>1
    <3>2. (u + (weekday - 1)) % Week = weekday - 1
      <4>1. q + 1 \in Nat
        BY <1>1
      <4> QED BY <1>2, <4>1, OneRemainder
    <3>3. Cwday(d) = weekday
      <4> HIDE DEF u, d
      <4> QED BY <3>1, <3>2, <1>2 DEF Cwday, Weekdays
    <3> QED BY <3>1, <3>3
  <2> QED BY <2>1, <2>2
<1> QED BY <1>3 DEF NextDateFor

LEMMA EarliestIs ==
    ASSUME NEW days, days \subseteq Nat, days # {}
    PROVE  Earliest(days) \in days /\ \A d \in days : Earliest(days) =< d
<1>1. PICK n \in days : TRUE
  OBVIOUS
<1> DEFINE some == days \cap 0..n
<1>2. IsFiniteSet(some) /\ some \subseteq Int /\ some # {}
  <2>1. IsFiniteSet(0..n)
    BY <1>1, FS_Interval
  <2> QED BY <1>1, <2>1, FS_Subset
<1>3. \E m \in some : \A y \in some : m =< y
  <2> HIDE DEF some
  <2> QED BY <1>2, SmallestIsThere
<1>4. PICK m \in some : \A y \in some : m =< y
  BY <1>3
<1>5. m \in days /\ \A d \in days : m =< d
  BY <1>1, <1>4
<1> QED BY <1>5 DEF Earliest

\* How far dishes are published: at least a week on, and further every day.
LEMMA PublishedUntil ==
    ASSUME NEW d \in Nat \ {0}, NEW later \in Nat, d =< later
    PROVE  /\ MaximumPublishDate(d) \in Nat
           /\ d + Week - 1 =< MaximumPublishDate(d)
           /\ MaximumPublishDate(d) =< MaximumPublishDate(later)
<1> DEFINE q == (d - 1) \div Week
           r == (d - 1) % Week
           p == (later - 1) \div Week
           s == (later - 1) % Week
<1>1. /\ q \in Nat /\ r \in 0..(Week - 1) /\ d - 1 = Week * q + r
      /\ p \in Nat /\ s \in 0..(Week - 1) /\ later - 1 = Week * p + s
  <2>1. d - 1 \in Nat /\ later - 1 \in Nat
    OBVIOUS
  <2> QED BY <2>1, Divided
<1>2. /\ MaximumPublishDate(d) = (q + 2) * Week
      /\ MaximumPublishDate(later) = (p + 2) * Week
  BY DEF MaximumPublishDate
<1> HIDE DEF q, r, p, s
<1>3. Week \in Nat \ {0}
  BY AgendaAssumption
<1>4. /\ (q + 2) * Week = Week * q + Week + Week /\ (p + 2) * Week = Week * p + Week + Week
      /\ Week * q \in Nat /\ Week * p \in Nat
  BY <1>1, <1>3
<1>5. p < q => Week * p + Week =< Week * q
  BY <1>1, LaterWeek
<1>6. q < p => Week * q + Week =< Week * p
  BY <1>1, LaterWeek
<1> DEFINE u == Week * q
           v == Week * p
<1>7. /\ u \in Nat /\ v \in Nat /\ d - 1 = u + r /\ later - 1 = v + s
      /\ MaximumPublishDate(d) = u + Week + Week
      /\ MaximumPublishDate(later) = v + Week + Week
      /\ (p < q => v + Week =< u) /\ (q < p => u + Week =< v) /\ (p = q => u = v)
  BY <1>1, <1>2, <1>4, <1>5, <1>6
<1> HIDE DEF u, v
<1> QED BY <1>1, <1>3, <1>7

LEMMA CwdayIs == ASSUME NEW d \in Nat \ {0} PROVE Cwday(d) \in Weekdays
<1>1. (d - 1) % Week \in 0..(Week - 1)
  BY Divided
<1> DEFINE r == (d - 1) % Week
<1> HIDE DEF r
<1>2. r + 1 \in 1..Week
  BY <1>1, AgendaAssumption DEF r
<1> QED BY <1>2 DEF Cwday, Weekdays, r

\* A draft as the form keeps it: a day that is chosen can still be published, and
\* is of the weekday chosen.
OneDay(draft) ==
    draft.mode = "single" =>
      /\ draft.date =< MaximumPublishDate(today)
      /\ IF draft.date = Empty THEN draft.weekdays = {}
         ELSE draft.weekdays = {Cwday(draft.date)}

AgendaTypes ==
    /\ editing \in BOOLEAN
    /\ today \in Nat \ {0} /\ openedOn \in Nat \ {0} /\ openedOn =< today
    /\ agenda \in AnyDraft
    /\ scheduled \subseteq Nat /\ accepted \subseteq scheduled
    /\ daysShown \in [scheduled : SUBSET Nat, accepted : SUBSET Nat]
    /\ sheet \in [open : BOOLEAN, scope : {"day", "saved"}, reject : BOOLEAN, step : BOOLEAN]
    /\ sent # NotSent => sent \in SaveRecords
    /\ landing \in Nat

\* A new dish has no sheet and no order accepted; only one lands.
OneTask ==
    /\ ~editing => ~sheet.open /\ accepted = {}
    /\ landing # Empty => ~editing /\ sent = NotSent

Lands(lands) ==
    lands # Empty /\ lands \notin ClosedDays /\ scheduled # {} => lands = Earliest(scheduled)

\* The request in flight was worked out from the days the page still shows.
AskedOfThePage ==
    sent # NotSent =>
      /\ sent.reject => sent.asked
      /\ editing => sent.seen = AffectedDays(sent.agenda, sent.scope, daysShown.scheduled,
                                             openedOn)
      /\ ~editing =>
           /\ ~sent.reject /\ AgendaProblem(sent.agenda) = "none"
           /\ sent.lands = FirstPublishedDate(sent.agenda, openedOn)
           /\ sent.answer = "done" => Lands(sent.lands)

AgendaInv ==
    /\ AgendaTypes
    /\ OneDay(agenda)
    /\ OneTask
    /\ AskedOfThePage
    /\ Lands(landing)

LEMMA AgendaStarts == AgendaInit => AgendaInv
<1> SUFFICES ASSUME AgendaInit PROVE AgendaInv
  OBVIOUS
<1>1. DaysAtFirst \subseteq Nat \ {0} /\ scheduled \subseteq DaysAtFirst /\ today = 1
  BY AgendaAssumption DEF AgendaInit
<1>2. MaximumPublishDate(1) \in Nat /\ 1 =< MaximumPublishDate(1)
  BY PublishedUntil, AgendaAssumption
<1>3. agenda \in AnyDraft /\ OneDay(agenda)
  <2>1. CASE agenda = InitialAgenda("none", {}, Empty, Empty, Empty)
    <3>1. agenda = [mode |-> "single", weekdays |-> {}, date |-> Empty, starts |-> Empty,
                    ends |-> Empty]
      BY <2>1 DEF InitialAgenda
    <3> QED BY <1>1, <1>2, <3>1 DEF AnyDraft, OneDay, Empty
  <2>2. ASSUME NEW d \in DaysAtFirst \cup {1},
               agenda = InitialAgenda("single", {Cwday(d)}, d, Empty, Empty)
        PROVE  agenda \in AnyDraft /\ OneDay(agenda)
    <3>1. agenda = [mode |-> "single", weekdays |-> {Cwday(d)}, date |-> d,
                    starts |-> Empty, ends |-> Empty]
      BY <2>2 DEF InitialAgenda
    <3>2. d \in Nat \ {0} /\ Cwday(d) \in Weekdays /\ d =< MaximumPublishDate(1)
      BY <1>1, <1>2, <2>2, CwdayIs, ScheduledAssumption
    <3> QED BY <1>1, <3>1, <3>2 DEF AnyDraft, OneDay, Empty
  <2>3. ASSUME NEW d \in DaysAtFirst, NEW mode \in {"weekly", "range"}, NEW e \in {Empty, d},
               agenda = InitialAgenda(mode, {Cwday(d)}, Empty, 1, e)
        PROVE  agenda \in AnyDraft /\ OneDay(agenda)
    <3>1. agenda = [mode |-> mode, weekdays |-> {Cwday(d)}, date |-> Empty,
                    starts |-> 1, ends |-> e]
      BY <2>3 DEF InitialAgenda
    <3>2. d \in Nat \ {0} /\ Cwday(d) \in Weekdays
      BY <1>1, CwdayIs
    <3> QED BY <3>1, <3>2 DEF AnyDraft, OneDay, Empty
  <2>4. Cwday(1) = 1
    <3>1. 0 = Week * 0 + 0 /\ 0 \in 0..(Week - 1)
      BY AgendaAssumption
    <3>2. 0 % Week = 0
      BY <3>1, OneRemainder
    <3> QED BY <3>2 DEF Cwday
  <2> QED BY <1>1, <2>1, <2>2, <2>3, <2>4 DEF AgendaInit, Opens
<1>4. AgendaTypes
  <2>1. scheduled \subseteq Nat /\ accepted \subseteq scheduled
    BY <1>1 DEF AgendaInit
  <2> QED BY <1>1, <1>3, <2>1 DEF AgendaInit, AgendaTypes, ClosedSheet, Empty
<1>5. OneTask /\ AskedOfThePage /\ Lands(landing)
  BY DEF AgendaInit, OneTask, AskedOfThePage, Lands, ClosedSheet
<1> QED BY <1>3, <1>4, <1>5 DEF AgendaInv

\* What is pressed leaves a draft that can be kept.
LEMMA DraftIsKept ==
    ASSUME AgendaInv, ChangeAgenda
    PROVE  \E draft \in AnyDraft : OneDay(draft) /\ Edits(draft)
<1>1. /\ agenda \in AnyDraft /\ OneDay(agenda) /\ openedOn \in Nat \ {0}
      /\ today \in Nat \ {0} /\ openedOn =< today
  BY DEF AgendaInv, AgendaTypes
<1>2. /\ MaximumPublishDate(openedOn) \in Nat /\ MaximumPublishDate(today) \in Nat
      /\ openedOn + Week - 1 =< MaximumPublishDate(openedOn)
      /\ MaximumPublishDate(openedOn) =< MaximumPublishDate(today)
  BY <1>1, PublishedUntil
<1>3. ASSUME NEW weekday \in Weekdays
      PROVE  /\ NextDateFor(weekday, openedOn) \in Nat \ {0}
             /\ NextDateFor(weekday, openedOn) =< MaximumPublishDate(today)
             /\ Cwday(NextDateFor(weekday, openedOn)) = weekday
  BY <1>1, <1>2, NextDateIs, AgendaAssumption
<1>4. ASSUME NEW weekday \in Weekdays, ChangeWeekdays(weekday)
      PROVE  \E draft \in AnyDraft : OneDay(draft) /\ Edits(draft)
  <2>1. CASE agenda.mode # "single"
    <3> DEFINE some == IF weekday \in agenda.weekdays THEN agenda.weekdays \ {weekday}
                       ELSE agenda.weekdays \cup {weekday}
               draft == [agenda EXCEPT !.weekdays = some]
    <3>1. some \in SUBSET Weekdays
      BY <1>1 DEF AnyDraft
    <3>2. Edits(draft)
      BY <1>4, <2>1 DEF ChangeWeekdays
    <3>3. draft \in AnyDraft /\ OneDay(draft)
      <4> HIDE DEF some
      <4> QED BY <1>1, <2>1, <3>1 DEF AnyDraft, OneDay
    <3> HIDE DEF draft
    <3> QED BY <3>2, <3>3
  <2>2. CASE agenda.mode = "single" /\ weekday \in agenda.weekdays
    <3> DEFINE draft == [agenda EXCEPT !.weekdays = {}, !.date = Empty]
    <3>1. Edits(draft)
      BY <1>4, <2>2 DEF ChangeWeekdays
    <3>2. draft \in AnyDraft
      BY <1>1 DEF AnyDraft, Empty
    <3>3. draft.date = Empty /\ draft.weekdays = {} /\ Empty =< MaximumPublishDate(today)
      BY <1>1, <1>2 DEF AnyDraft, Empty
    <3>4. OneDay(draft)
      <4> HIDE DEF draft
      <4> QED BY <3>3 DEF OneDay
    <3> HIDE DEF draft
    <3> QED BY <3>1, <3>2, <3>4
  <2>3. CASE agenda.mode = "single" /\ weekday \notin agenda.weekdays
    <3> DEFINE next == NextDateFor(weekday, openedOn)
               draft == [agenda EXCEPT !.weekdays = {weekday}, !.date = next]
    <3>1. Edits(draft)
      BY <1>4, <2>3 DEF ChangeWeekdays
    <3>2. draft \in AnyDraft /\ OneDay(draft)
      <4>1. next \in Nat \ {0} /\ next =< MaximumPublishDate(today) /\ Cwday(next) = weekday
        BY <1>3
      <4> HIDE DEF next
      <4> QED BY <1>1, <4>1 DEF AnyDraft, OneDay, Empty
    <3> HIDE DEF draft
    <3> QED BY <3>1, <3>2
  <2> QED BY <2>1, <2>2, <2>3
<1>5. ASSUME NEW mode \in {"single", "weekly", "range"}, ChangeMode(mode)
      PROVE  \E draft \in AnyDraft : OneDay(draft) /\ Edits(draft)
  <2>1. CASE mode # "single"
    <3> DEFINE starts == IF agenda.starts # Empty THEN agenda.starts ELSE openedOn
               draft == [agenda EXCEPT !.mode = mode, !.starts = starts]
    <3>1. Edits(draft)
      BY <1>5, <2>1 DEF ChangeMode
    <3>2. draft \in AnyDraft /\ OneDay(draft)
      <4>1. starts \in Nat
        BY <1>1 DEF AnyDraft
      <4> HIDE DEF starts
      <4> QED BY <1>1, <2>1, <4>1 DEF AnyDraft, OneDay
    <3> HIDE DEF draft
    <3> QED BY <3>1, <3>2
  <2>2. CASE mode = "single" /\ agenda.weekdays = {}
    <3> DEFINE draft == [agenda EXCEPT !.mode = mode, !.date = Empty]
    <3>1. Edits(draft)
      BY <1>5, <2>2 DEF ChangeMode
    <3>2. draft \in AnyDraft
      BY <1>1, <2>2 DEF AnyDraft, Empty
    <3>3. draft.date = Empty /\ draft.weekdays = {} /\ Empty =< MaximumPublishDate(today)
      BY <1>1, <1>2, <2>2 DEF AnyDraft, Empty
    <3>4. OneDay(draft)
      <4> HIDE DEF draft
      <4> QED BY <3>3 DEF OneDay
    <3> HIDE DEF draft
    <3> QED BY <3>1, <3>2, <3>4
  <2>3. CASE mode = "single" /\ agenda.weekdays # {}
    <3> DEFINE weekday == Earliest(agenda.weekdays)
               next == NextDateFor(weekday, openedOn)
               draft == [agenda EXCEPT !.mode = mode, !.weekdays = {weekday}, !.date = next]
    <3>1. Edits(draft)
      BY <1>5, <2>3 DEF ChangeMode
    <3>2. weekday \in Weekdays
      <4>1. agenda.weekdays \subseteq Weekdays
        BY <1>1 DEF AnyDraft
      <4>2. agenda.weekdays \subseteq Nat
        BY <4>1 DEF Weekdays
      <4> QED BY <2>3, <4>1, <4>2, EarliestIs
    <3>3. draft \in AnyDraft /\ OneDay(draft)
      <4>1. next \in Nat \ {0} /\ next =< MaximumPublishDate(today) /\ Cwday(next) = weekday
        BY <1>3, <3>2
      <4> HIDE DEF next, weekday
      <4> QED BY <1>1, <2>3, <3>2, <4>1 DEF AnyDraft, OneDay, Empty
    <3> HIDE DEF draft
    <3> QED BY <3>1, <3>3
  <2> QED BY <2>1, <2>2, <2>3
<1>6. ASSUME NEW date \in Days, ChangeDate(date)
      PROVE  \E draft \in AnyDraft : OneDay(draft) /\ Edits(draft)
  <2> DEFINE new == Picked(agenda.date, date)
             some == IF new = Empty THEN {} ELSE {Cwday(new)}
             draft == [agenda EXCEPT !.date = new, !.weekdays = some]
  <2>1. Edits(draft) /\ date \in Nat \ {0} /\ date =< MaximumPublishDate(openedOn)
    BY <1>6, AgendaAssumption DEF ChangeDate, Days
  <2>2. new \in Nat /\ new =< MaximumPublishDate(today)
    BY <1>2, <2>1 DEF Picked, Empty
  <2>3. some \subseteq Weekdays
    BY <2>2, CwdayIs DEF Empty
  <2>4. draft \in AnyDraft /\ OneDay(draft)
    <3>1. new = Empty => some = {}
      OBVIOUS
    <3>2. new # Empty => some = {Cwday(new)}
      OBVIOUS
    <3> HIDE DEF new, some
    <3> QED BY <1>1, <2>2, <2>3, <3>1, <3>2 DEF AnyDraft, OneDay
  <2> HIDE DEF draft
  <2> QED BY <2>1, <2>4
<1>7. ASSUME NEW date \in Days, ChangeStarts(date) \/ ChangeEnds(date)
      PROVE  \E draft \in AnyDraft : OneDay(draft) /\ Edits(draft)
  <2>1. date \in Nat
    BY AgendaAssumption DEF Days
  <2>2. CASE ChangeStarts(date)
    <3> DEFINE new == Picked(agenda.starts, date)
               draft == [agenda EXCEPT !.starts = new]
    <3>1. Edits(draft) /\ agenda.mode # "single"
      BY <2>2 DEF ChangeStarts
    <3>2. new \in Nat
      BY <2>1 DEF Picked, Empty
    <3>3. draft \in AnyDraft /\ OneDay(draft)
      <4> HIDE DEF new
      <4> QED BY <1>1, <3>1, <3>2 DEF AnyDraft, OneDay
    <3> HIDE DEF draft
    <3> QED BY <3>1, <3>3
  <2>3. CASE ChangeEnds(date)
    <3> DEFINE new == Picked(agenda.ends, date)
               draft == [agenda EXCEPT !.ends = new]
    <3>1. Edits(draft) /\ agenda.mode # "single"
      BY <2>3 DEF ChangeEnds
    <3>2. new \in Nat
      BY <2>1 DEF Picked, Empty
    <3>3. draft \in AnyDraft /\ OneDay(draft)
      <4> HIDE DEF new
      <4> QED BY <1>1, <3>1, <3>2 DEF AnyDraft, OneDay
    <3> HIDE DEF draft
    <3> QED BY <3>1, <3>3
  <2> QED BY <1>7, <2>2, <2>3
<1> QED BY <1>4, <1>5, <1>6, <1>7 DEF ChangeAgenda

\* Any change to the form keeps what the request in flight was worked out from.
LEMMA DraftChanges == AgendaInv /\ ChangeAgenda => AgendaInv'
<1> SUFFICES ASSUME AgendaInv, ChangeAgenda PROVE AgendaInv'
  OBVIOUS
<1>1. PICK draft \in AnyDraft : OneDay(draft) /\ Edits(draft)
  BY DraftIsKept
<1>2. /\ agenda' = draft
      /\ UNCHANGED <<editing, today, openedOn, scheduled, accepted, daysShown, sheet, saved,
                     sent, landing, sends>>
  BY <1>1 DEF Edits
<1>3. AgendaTypes' /\ OneDay(agenda)'
  BY <1>1, <1>2 DEF AgendaInv, AgendaTypes, OneDay
<1>4. OneTask' /\ AskedOfThePage' /\ Lands(landing)'
  BY <1>2 DEF AgendaInv, OneTask, AskedOfThePage, Lands
<1> QED BY <1>3, <1>4 DEF AgendaInv

LEMMA AffectedIs ==
    ASSUME NEW draft \in AnyDraft, NEW scope \in {"day", "saved"}, NEW days, days \subseteq Nat,
           NEW d
    PROVE  AffectedDays(draft, scope, days, d) \in SUBSET Nat
BY DEF AffectedDays, ModeOf, AnyDraft

\* The first day of a repetition, of all its days and not only of the week looked at.
LEMMA FirstIs ==
    ASSUME NEW draft \in AnyDraft, NEW d \in Nat \ {0},
           draft.weekdays # {}, draft.mode # "single"
    PROVE  /\ FirstPublishedDate(draft, d) \in Nat \ {0}
           /\ FirstPublishedDate(draft, d) >= Later(draft.starts, d)
           /\ Cwday(FirstPublishedDate(draft, d)) \in draft.weekdays
           /\ \A e \in Nat : e >= Later(draft.starts, d) /\ Cwday(e) \in draft.weekdays
                => FirstPublishedDate(draft, d) =< e
<1> DEFINE from == Later(draft.starts, d)
           window == {e \in from..(from + Week - 1) : Cwday(e) \in draft.weekdays}
<1>1. from \in Nat \ {0} /\ Week \in Nat \ {0} /\ draft.weekdays \subseteq Weekdays
  BY AgendaAssumption DEF Later, AnyDraft
<1>2. FirstPublishedDate(draft, d) = Earliest(window)
  BY DEF FirstPublishedDate
<1> HIDE DEF from
<1>3. PICK weekday \in draft.weekdays : weekday \in Weekdays
  BY <1>1
<1>4. NextDateFor(weekday, from) \in window
  BY <1>1, <1>3, NextDateIs
<1>5. window \subseteq Nat /\ window # {}
  BY <1>1, <1>4
<1>6. Earliest(window) \in window /\ \A e \in window : Earliest(window) =< e
  <2> HIDE DEF window
  <2> QED BY <1>5, EarliestIs
<1> DEFINE first == Earliest(window)
<1>7. first \in from..(from + Week - 1) /\ Cwday(first) \in draft.weekdays
  BY <1>6
<1>8. ASSUME NEW e \in Nat, e >= from, Cwday(e) \in draft.weekdays PROVE first =< e
  <2>1. CASE e =< from + Week - 1
    <3>1. e \in window
      BY <1>1, <1>8, <2>1
    <3> HIDE DEF window
    <3> QED BY <1>6, <3>1
  <2>2. CASE ~(e =< from + Week - 1)
    <3> HIDE DEF first
    <3> QED BY <1>1, <1>7, <1>8, <2>2
  <2> QED BY <2>1, <2>2
<1> HIDE DEF first, window
<1>9. first \in Nat \ {0} /\ first >= from
  BY <1>1, <1>7
<1> QED BY <1>2, <1>7, <1>8, <1>9 DEF first, from

LEMMA FirstIsADay ==
    ASSUME NEW draft \in AnyDraft, NEW d \in Nat \ {0}
    PROVE  FirstPublishedDate(draft, d) \in Nat
<1>1. CASE draft.weekdays = {} \/ draft.mode = "single"
  BY <1>1 DEF FirstPublishedDate, AnyDraft, Empty
<1>2. CASE draft.weekdays # {} /\ draft.mode # "single"
  BY <1>2, FirstIs
<1> QED BY <1>1, <1>2

\* What the page works out and what the server publishes have the same first day.
LEMMA ServedWhereItLands ==
    ASSUME NEW draft \in AnyDraft, AgendaProblem(draft) = "none", ValidAgenda(draft),
           today \in Nat \ {0}, openedOn \in Nat \ {0}, openedOn =< today,
           FirstPublishedDate(draft, openedOn) \notin ClosedDays, NewDates(draft) # {}
    PROVE  FirstPublishedDate(draft, openedOn) = Earliest(NewDates(draft))
<1> DEFINE first == FirstPublishedDate(draft, openedOn)
<1>1. draft.weekdays # {} /\ ModeOf(draft) = draft.mode
      /\ draft.mode \in {"single", "weekly", "range"}
  BY DEF NewDates, ModeOf, AnyDraft
<1>2. CASE draft.mode = "single"
  <2>1. first = draft.date /\ NewDates(draft) = {draft.date}
    BY <1>1, <1>2 DEF FirstPublishedDate, NewDates
  <2>2. {draft.date} \subseteq Nat
    BY DEF AnyDraft
  <2> QED BY <2>1, <2>2, EarliestIs
<1>3. CASE draft.mode # "single"
  <2>1. NewDates(draft) = DatesUntil(draft)
    BY <1>1, <1>3 DEF NewDates
  <2>2. draft.starts \in Nat /\ draft.starts >= today
    BY <1>1, <1>3 DEF ValidAgenda, AnyDraft
  <2>3. Later(draft.starts, today) = draft.starts /\ Later(draft.starts, openedOn) = draft.starts
    BY <2>2 DEF Later
  <2>4. /\ first \in Nat \ {0} /\ first >= draft.starts /\ Cwday(first) \in draft.weekdays
        /\ \A e \in Nat : e >= draft.starts /\ Cwday(e) \in draft.weekdays => first =< e
    BY <1>1, <1>3, <2>3, FirstIs
  <2> HIDE DEF first
  <2>5. \A e \in DatesUntil(draft) : e \in Nat /\ first =< e
    BY <2>3, <2>4, AgendaAssumption DEF DatesUntil, Days
  <2>6. PICK e \in DatesUntil(draft) : TRUE
    BY <2>1
  <2>7. first \in DatesUntil(draft)
    <3>1. /\ e \in 1..LastDay /\ e =< MaximumPublishDate(today)
          /\ draft.mode = "range" => e =< draft.ends
      BY <2>6 DEF DatesUntil, Days
    <3>2. first =< e /\ LastDay \in Nat
      BY <2>5, <2>6, AgendaAssumption
    <3>3. MaximumPublishDate(today) \in Nat /\ draft.ends \in Nat
      BY PublishedUntil DEF AnyDraft
    <3>4. first \in Days /\ first =< MaximumPublishDate(today)
          /\ (draft.mode = "range" => first =< draft.ends)
      BY <2>4, <3>1, <3>2, <3>3 DEF Days
    <3> QED BY <2>3, <2>4, <3>4 DEF DatesUntil, first
  <2>8. DatesUntil(draft) \subseteq Nat
    BY <2>5
  <2>9. /\ Earliest(DatesUntil(draft)) \in DatesUntil(draft)
        /\ Earliest(DatesUntil(draft)) =< first
    BY <2>6, <2>7, <2>8, EarliestIs
  <2>10. first =< Earliest(DatesUntil(draft)) /\ Earliest(DatesUntil(draft)) \in Nat
    BY <2>5, <2>9
  <2> QED BY <2>1, <2>4, <2>9, <2>10 DEF first
<1> QED BY <1>2, <1>3

LEMMA AgendaIsSubmitted == AgendaInv /\ Submit => AgendaInv'
<1> SUFFICES ASSUME AgendaInv, Submit PROVE AgendaInv'
  OBVIOUS
<1>1. UNCHANGED <<editing, today, openedOn, agenda, edits, scheduled, accepted, daysShown,
                  landing>>
      /\ landing = Empty /\ sent = NotSent
  BY DEF Submit, FieldsFree
<1>2. CASE editing
  <2>1. sheet' = [sheet EXCEPT !.open = TRUE] /\ UNCHANGED sent
    BY <1>2 DEF Submit
  <2>2. AgendaTypes'
    BY <1>1, <2>1 DEF AgendaInv, AgendaTypes
  <2>3. OneDay(agenda)' /\ OneTask' /\ AskedOfThePage' /\ Lands(landing)'
    BY <1>1, <1>2, <2>1 DEF AgendaInv, OneDay, OneTask, AskedOfThePage, Lands
  <2> QED BY <2>2, <2>3 DEF AgendaInv
<1>3. CASE ~editing
  <2>1. /\ AgendaProblem(agenda) = "none"
        /\ sent' = [agenda |-> agenda, scope |-> "day", reject |-> FALSE, asked |-> FALSE,
                    seen |-> {}, answer |-> "waiting",
                    lands |-> FirstPublishedDate(agenda, openedOn)]
        /\ UNCHANGED sheet
    BY <1>3 DEF Submit, Sends
  <2>2. FirstPublishedDate(agenda, openedOn) \in Nat
    BY FirstIsADay DEF AgendaInv, AgendaTypes
  <2>3. sent' \in SaveRecords
    BY <2>1, <2>2 DEF SaveRecords, AgendaInv, AgendaTypes
  <2>4. AgendaTypes'
    BY <1>1, <2>1, <2>3 DEF AgendaInv, AgendaTypes
  <2>5. OneDay(agenda)' /\ OneTask' /\ Lands(landing)'
    BY <1>1, <2>1 DEF AgendaInv, OneDay, OneTask, Lands
  <2>6. AskedOfThePage'
    BY <1>1, <1>3, <2>1 DEF AskedOfThePage
  <2> QED BY <2>4, <2>5, <2>6 DEF AgendaInv
<1> QED BY <1>2, <1>3

LEMMA SheetAnswers == AgendaInv /\ (AnswerQuestions \/ CloseSheet) => AgendaInv'
<1> SUFFICES ASSUME AgendaInv, AnswerQuestions \/ CloseSheet PROVE AgendaInv'
  OBVIOUS
<1>1. /\ UNCHANGED <<editing, today, openedOn, agenda, edits, scheduled, accepted, daysShown,
                     saved, sent, landing, sends>>
      /\ sheet.open
  BY DEF AnswerQuestions, CloseSheet
<1>2. sheet' \in [open : BOOLEAN, scope : {"day", "saved"}, reject : BOOLEAN, step : BOOLEAN]
  <2>1. sheet \in [open : BOOLEAN, scope : {"day", "saved"}, reject : BOOLEAN, step : BOOLEAN]
    BY DEF AgendaInv, AgendaTypes
  <2>2. CASE AnswerQuestions
    BY <2>1, <2>2 DEF AnswerQuestions
  <2>3. CASE CloseSheet
    BY <2>3 DEF CloseSheet, ClosedSheet
  <2> QED BY <2>2, <2>3
<1>3. AgendaTypes'
  BY <1>1, <1>2 DEF AgendaInv, AgendaTypes
<1>4. OneDay(agenda)' /\ OneTask' /\ AskedOfThePage' /\ Lands(landing)'
  BY <1>1 DEF AgendaInv, OneDay, OneTask, AskedOfThePage, Lands
<1> QED BY <1>3, <1>4 DEF AgendaInv

\* Orders are rejected by a sheet that has its question on show.
LEMMA ChangesAreApplied == AgendaInv /\ Apply => AgendaInv'
<1> SUFFICES ASSUME AgendaInv, Apply PROVE AgendaInv'
  OBVIOUS
<1>1. /\ UNCHANGED <<editing, today, openedOn, agenda, edits, scheduled, accepted, daysShown,
                     sheet, saved, landing>>
      /\ sheet.open /\ editing /\ landing = Empty
  BY DEF Apply, AgendaInv, OneTask
<1> DEFINE reject == SomeConfirmed /\ sheet.reject
           asked == AsksAboutOrders
<1>2. sent' = [agenda |-> agenda, scope |-> sheet.scope, reject |-> reject, asked |-> asked,
               seen |-> Affected, answer |-> "waiting", lands |-> Empty]
  BY DEF Apply, Sends
<1>3. reject => asked
  BY DEF Apply, AsksAboutOrders, Stage
<1>4. reject \in BOOLEAN /\ asked \in BOOLEAN
  BY DEF AsksAboutOrders, SomeConfirmed, AgendaInv, AgendaTypes
<1>5. Affected \in SUBSET Nat /\ agenda \in AnyDraft /\ sheet.scope \in {"day", "saved"}
  BY AffectedIs DEF Affected, AgendaInv, AgendaTypes
<1> HIDE DEF reject, asked
<1>6. sent' \in SaveRecords
  BY <1>2, <1>4, <1>5 DEF SaveRecords, Empty
<1>7. AgendaTypes'
  BY <1>1, <1>6 DEF AgendaInv, AgendaTypes
<1>8. OneDay(agenda)' /\ OneTask' /\ Lands(landing)'
  BY <1>1 DEF AgendaInv, OneDay, OneTask, Lands
<1>9. AskedOfThePage'
  BY <1>1, <1>2, <1>3 DEF AskedOfThePage, Affected
<1> QED BY <1>7, <1>8, <1>9 DEF AgendaInv

LEMMA SavingEnds == AgendaInv /\ (SaveDone \/ SaveLost) => AgendaInv'
<1> SUFFICES ASSUME AgendaInv, SaveDone \/ SaveLost PROVE AgendaInv'
  OBVIOUS
<1>1. sent # NotSent /\ sent' = NotSent /\ UNCHANGED <<editing, today, agenda, scheduled, accepted>>
  BY DEF SaveDone, SaveLost, menuFormVars
<1>2. /\ openedOn' \in {openedOn, today}
      /\ daysShown' \in [scheduled : SUBSET Nat, accepted : SUBSET Nat]
  <2>1. /\ scheduled \subseteq Nat /\ accepted \subseteq Nat
        /\ daysShown \in [scheduled : SUBSET Nat, accepted : SUBSET Nat]
    BY DEF AgendaInv, AgendaTypes
  <2>2. CASE SaveLost
    BY <2>1, <2>2 DEF SaveLost, menuFormVars
  <2>3. CASE SaveDone
    <3> DEFINE days == {d \in scheduled : d >= today}
               busy == {d \in accepted : d >= today}
    <3>1. daysShown' = [scheduled |-> days, accepted |-> busy] /\ openedOn' = today
      BY <2>3 DEF SaveDone, Reloaded
    <3>2. days \in SUBSET Nat /\ busy \in SUBSET Nat
      BY <2>1
    <3> HIDE DEF days, busy
    <3> QED BY <3>1, <3>2
  <2> QED BY <2>2, <2>3
<1>3. /\ sheet' \in [open : BOOLEAN, scope : {"day", "saved"}, reject : BOOLEAN, step : BOOLEAN]
      /\ ~editing => sheet' = sheet
  <2>1. sheet \in [open : BOOLEAN, scope : {"day", "saved"}, reject : BOOLEAN, step : BOOLEAN]
    BY DEF AgendaInv, AgendaTypes
  <2> QED BY <2>1 DEF SaveDone, SaveLost, menuFormVars
<1>4. /\ landing' \in Nat /\ (landing' # Empty => ~editing) /\ Lands(landing)'
  <2>1. CASE landing' = landing
    BY <1>1, <2>1 DEF AgendaInv, AgendaTypes, OneTask, Lands
  <2>2. CASE landing' # landing
    <3>1. /\ ~editing /\ sent.answer = "done" /\ landing' = sent.lands
      BY <2>2 DEF SaveDone, SaveLost, menuFormVars
    <3>2. sent.lands \in Nat /\ Lands(sent.lands)
      BY <1>1, <3>1 DEF AgendaInv, AgendaTypes, AskedOfThePage, SaveRecords
    <3> QED BY <1>1, <3>1, <3>2 DEF Lands
  <2> QED BY <2>1, <2>2
<1>5. AgendaTypes'
  BY <1>1, <1>2, <1>3, <1>4 DEF AgendaInv, AgendaTypes
<1>6. OneDay(agenda)' /\ OneTask' /\ AskedOfThePage'
  BY <1>1, <1>3, <1>4 DEF AgendaInv, OneDay, OneTask, AskedOfThePage
<1> QED BY <1>4, <1>5, <1>6 DEF AgendaInv

LEMMA AnotherIsAdded == AgendaInv /\ AddAnother => AgendaInv'
<1> SUFFICES ASSUME AgendaInv, AddAnother PROVE AgendaInv'
  OBVIOUS
<1>1. /\ ~editing /\ landing' = Empty /\ openedOn' = today
      /\ agenda' = [mode |-> "single", weekdays |-> {Cwday(today)}, date |-> today,
                    starts |-> Empty, ends |-> Empty]
      /\ scheduled' = {} /\ accepted' = {} /\ sent = NotSent
      /\ UNCHANGED <<editing, today, daysShown, sheet, saved, sent>>
  BY DEF AddAnother, InitialAgenda, AgendaInv, OneTask
<1>2. today \in Nat \ {0} /\ Cwday(today) \in Weekdays /\ today =< MaximumPublishDate(today)
  <2>1. today \in Nat \ {0}
    BY DEF AgendaInv, AgendaTypes
  <2>2. MaximumPublishDate(today) \in Nat /\ today + Week - 1 =< MaximumPublishDate(today)
    BY <2>1, PublishedUntil
  <2> QED BY <2>1, <2>2, CwdayIs, AgendaAssumption
<1>3. agenda' \in AnyDraft /\ OneDay(agenda)'
  BY <1>1, <1>2 DEF AnyDraft, OneDay, Empty
<1>4. AgendaTypes'
  BY <1>1, <1>2, <1>3 DEF AgendaInv, AgendaTypes, Empty
<1>5. OneTask' /\ AskedOfThePage' /\ Lands(landing)'
  BY <1>1 DEF AgendaInv, OneTask, AskedOfThePage, Lands
<1> QED BY <1>3, <1>4, <1>5 DEF AgendaInv

LEMMA SaveIsServed == AgendaInv /\ ServeSave => AgendaInv'
<1> SUFFICES ASSUME AgendaInv, ServeSave PROVE AgendaInv'
  OBVIOUS
<1>1. /\ sent \in SaveRecords /\ sent # NotSent /\ sent.answer = "waiting"
      /\ UNCHANGED <<editing, today, openedOn, agenda, daysShown, sheet, landing>>
  BY DEF ServeSave, AgendaInv, AgendaTypes, menuFormVars
<1>2. PICK answer \in {"done", "refused"} :
        /\ sent' = [sent EXCEPT !.answer = answer]
        /\ answer = "done" => ValidAgenda(sent.agenda)
        /\ IF answer = "done"
           THEN /\ scheduled' = IF editing THEN scheduled \cup NewDates(sent.agenda)
                                ELSE NewDates(sent.agenda)
                /\ accepted' = IF sent.reject
                               THEN accepted \ AffectedSchedules(sent.agenda, sent.scope)
                               ELSE accepted
           ELSE UNCHANGED <<scheduled, accepted>>
  BY DEF ServeSave
<1>3. /\ sent' \in SaveRecords /\ sent'.answer = answer
      /\ sent'.agenda = sent.agenda /\ sent'.scope = sent.scope /\ sent'.reject = sent.reject
      /\ sent'.asked = sent.asked /\ sent'.seen = sent.seen /\ sent'.lands = sent.lands
  BY <1>1, <1>2 DEF SaveRecords
<1>4. NewDates(sent.agenda) \subseteq Nat
  BY <1>1, AgendaAssumption DEF NewDates, DatesUntil, Days, SaveRecords, AnyDraft, ModeOf
<1>5. /\ scheduled' \subseteq Nat /\ accepted' \subseteq scheduled'
      /\ ~editing => accepted' = {}
  <2>1. scheduled \subseteq Nat /\ accepted \subseteq scheduled /\ (~editing => accepted = {})
    BY DEF AgendaInv, AgendaTypes, OneTask
  <2> QED BY <1>2, <1>4, <2>1
<1>6. AgendaTypes'
  BY <1>1, <1>3, <1>5 DEF AgendaInv, AgendaTypes
<1>7. landing = Empty
  BY <1>1 DEF AgendaInv, OneTask
<1>8. OneDay(agenda)' /\ OneTask' /\ Lands(landing)'
  BY <1>1, <1>5, <1>7 DEF AgendaInv, OneDay, OneTask, Lands
<1>9. ASSUME ~editing, answer = "done" PROVE Lands(sent.lands)'
  <2>1. /\ AgendaProblem(sent.agenda) = "none"
        /\ sent.lands = FirstPublishedDate(sent.agenda, openedOn)
        /\ sent.agenda \in AnyDraft /\ ValidAgenda(sent.agenda)
    BY <1>1, <1>2, <1>9 DEF AgendaInv, AskedOfThePage, SaveRecords
  <2>2. scheduled' = NewDates(sent.agenda)
    BY <1>2, <1>9
  <2>3. today \in Nat \ {0} /\ openedOn \in Nat \ {0} /\ openedOn =< today
    BY DEF AgendaInv, AgendaTypes
  <2>4. sent.lands \notin ClosedDays /\ NewDates(sent.agenda) # {}
          => sent.lands = Earliest(NewDates(sent.agenda))
    BY <2>1, <2>3, ServedWhereItLands
  <2> QED BY <1>3, <2>2, <2>4 DEF Lands
<1>10. AskedOfThePage'
  <2>1. /\ sent.reject => sent.asked
        /\ editing => sent.seen = AffectedDays(sent.agenda, sent.scope, daysShown.scheduled,
                                               openedOn)
        /\ ~editing => /\ ~sent.reject /\ AgendaProblem(sent.agenda) = "none"
                       /\ sent.lands = FirstPublishedDate(sent.agenda, openedOn)
    BY <1>1 DEF AgendaInv, AskedOfThePage
  <2> QED BY <1>1, <1>3, <1>9, <2>1 DEF AskedOfThePage
<1> QED BY <1>6, <1>8, <1>10 DEF AgendaInv

LEMMA ScheduleIsMoved == AgendaInv /\ ScheduleMoves => AgendaInv'
<1> SUFFICES ASSUME AgendaInv, ScheduleMoves PROVE AgendaInv'
  OBVIOUS
<1>1. UNCHANGED <<editing, openedOn, agenda, daysShown, sheet, landing, sent>>
  BY DEF ScheduleMoves, menuFormVars
<1>2. /\ scheduled \subseteq Nat /\ accepted \subseteq scheduled /\ agenda \in AnyDraft
      /\ today \in Nat \ {0} /\ openedOn \in Nat \ {0} /\ openedOn =< today
      /\ OneDay(agenda)
  BY DEF AgendaInv, AgendaTypes
<1>3. /\ today' \in {today, today + 1}
      /\ scheduled' \subseteq Nat /\ accepted' \subseteq scheduled'
      /\ ~editing => UNCHANGED <<scheduled, accepted>>
  <2>1. DaysAtFirst \subseteq Nat
    BY AgendaAssumption
  <2>2. CASE UNCHANGED today
    <3>1. editing \/ UNCHANGED <<scheduled, accepted>>
      BY <2>2, <1>2 DEF ScheduleMoves
    <3>2. \/ UNCHANGED <<scheduled, accepted>>
          \/ \E d \in DaysAtFirst :
               \/ d \in scheduled /\ accepted' = accepted \cup {d} /\ UNCHANGED scheduled
               \/ scheduled' = scheduled \cup {d} /\ UNCHANGED accepted
               \/ /\ d \in scheduled \ accepted
                  /\ scheduled' = scheduled \ {d} /\ UNCHANGED accepted
      BY <2>2 DEF ScheduleMoves
    <3>3. CASE UNCHANGED <<scheduled, accepted>>
      BY <1>2, <2>2, <3>3
    <3>4. ASSUME NEW d \in DaysAtFirst, d \in scheduled, accepted' = accepted \cup {d},
                 UNCHANGED scheduled
          PROVE  scheduled' \subseteq Nat /\ accepted' \subseteq scheduled'
      BY <1>2, <3>4
    <3>5. ASSUME NEW d \in DaysAtFirst, scheduled' = scheduled \cup {d}, UNCHANGED accepted
          PROVE  scheduled' \subseteq Nat /\ accepted' \subseteq scheduled'
      BY <1>2, <2>1, <3>5
    <3>6. ASSUME NEW d \in scheduled \ accepted, scheduled' = scheduled \ {d}, UNCHANGED accepted
          PROVE  scheduled' \subseteq Nat /\ accepted' \subseteq scheduled'
      BY <1>2, <3>6
    <3>7. scheduled' \subseteq Nat /\ accepted' \subseteq scheduled'
      BY <3>2, <3>3, <3>4, <3>5, <3>6
    <3> QED BY <2>2, <3>1, <3>7
  <2>3. CASE ~UNCHANGED today
    BY <1>2, <2>3 DEF ScheduleMoves
  <2> QED BY <2>2, <2>3
<1>4. AgendaTypes'
  BY <1>1, <1>2, <1>3 DEF AgendaInv, AgendaTypes
<1>5. OneDay(agenda)'
  <2>1. /\ MaximumPublishDate(today) \in Nat
        /\ MaximumPublishDate(today) =< MaximumPublishDate(today')
    <3>1. today =< today' /\ today' \in Nat
      BY <1>2, <1>3
    <3> QED BY <1>2, <3>1, PublishedUntil
  <2>2. MaximumPublishDate(today') \in Nat /\ agenda.date \in Nat
    <3>1. today' \in Nat \ {0} /\ today' =< today'
      BY <1>2, <1>3
    <3> QED BY <1>2, <3>1, PublishedUntil DEF AnyDraft
  <2>3. agenda' = agenda
    BY <1>1
  <2>4. MaximumPublishDate(today)' = MaximumPublishDate(today')
    BY DEF MaximumPublishDate
  <2> QED BY <1>2, <2>1, <2>2, <2>3, <2>4 DEF OneDay
<1>6. OneTask' /\ AskedOfThePage' /\ Lands(landing)'
  BY <1>1, <1>3 DEF AgendaInv, OneTask, AskedOfThePage, Lands
<1> QED BY <1>4, <1>5, <1>6 DEF AgendaInv

LEMMA AgendaStep == AgendaInv /\ [AgendaNext]_agendaVars => AgendaInv'
<1> SUFFICES ASSUME AgendaInv, [AgendaNext]_agendaVars PROVE AgendaInv'
  OBVIOUS
<1>1. CASE UNCHANGED agendaVars
  BY <1>1 DEF agendaVars, AgendaInv, AgendaTypes, OneDay, OneTask, AskedOfThePage, Lands
<1>2. CASE AgendaNext
  BY <1>2, DraftChanges, AgendaIsSubmitted, SheetAnswers, ChangesAreApplied, SavingEnds,
     AnotherIsAdded, SaveIsServed, ScheduleIsMoved DEF AgendaNext
<1> QED BY <1>1, <1>2

\* The sheet and the server count the same of the days that the page knew.
LEMMA CountedAlike ==
    ASSUME NEW draft \in AnyDraft, NEW scope \in {"day", "saved"}, NEW days, NEW d \in Nat,
           d \in days, d \in scheduled, d >= today, today \in Nat, NEW opened
    PROVE  d \in AffectedDays(draft, scope, days, opened) <=> d \in AffectedSchedules(draft, scope)
<1>1. ModeOf(draft) \in {"none", "single", "weekly", "range"}
      /\ draft.date \in Nat /\ draft.starts \in Nat /\ draft.ends \in Nat
  BY DEF ModeOf, AnyDraft
<1>2. /\ d >= Later(draft.date, today) <=> d >= draft.date
      /\ d >= Later(draft.starts, today) <=> d >= draft.starts
  BY <1>1 DEF Later
<1>3. CASE ModeOf(draft) = "single"
  BY <1>1, <1>2, <1>3 DEF AffectedDays, AffectedSchedules
<1>4. CASE ModeOf(draft) = "range"
  BY <1>1, <1>2, <1>4 DEF AffectedDays, AffectedSchedules
<1>5. CASE ModeOf(draft) = "weekly"
  BY <1>1, <1>2, <1>5 DEF AffectedDays, AffectedSchedules
<1>6. CASE ModeOf(draft) = "none"
  BY <1>6 DEF AffectedDays, AffectedSchedules
<1> QED BY <1>1, <1>3, <1>4, <1>5, <1>6

\* The form of an agenda, its sheet and the server agree: a dish that does not
\* repeat has one day, what the form lets through is valid, orders are rejected
\* only when the question was on show and exactly on the days it counted, and a
\* dish lands on the first day it is published on
\* (components/menus/menu-agenda-fields.tsx, components/menus/edit-menu-sheet.tsx,
\* app/services/menus/update.rb:61 and :87, app/services/menus/create.rb).
THEOREM AgendasStayInAgreement == AgendaSpec => AgendasAgree
<1> DEFINE Rejecting ==
             sent # NotSent /\ sent' # NotSent /\ sent.reject
               /\ sent.answer = "waiting" /\ sent'.answer = "done" =>
                 \A d \in daysShown.scheduled : d >= today /\ d \in accepted =>
                   (d \notin accepted' <=> d \in sent.seen)
           Holds == SingleIsOneDay /\ WhatTheFormTakesIsValid /\ RejectsOnlyIfAsked
                      /\ LandsWherePublished
<1>1. AgendaInv => Holds
  <2> SUFFICES ASSUME AgendaInv PROVE Holds
    OBVIOUS
  <2>1. SingleIsOneDay
    BY DEF AgendaInv, OneDay, SingleIsOneDay
  <2>2. WhatTheFormTakesIsValid
    <3>1. agenda \in AnyDraft /\ OneDay(agenda)
      BY DEF AgendaInv, AgendaTypes
    <3>2. CASE ModeOf(agenda) = "none"
      BY <3>2 DEF WhatTheFormTakesIsValid, ValidAgenda
    <3>3. CASE ModeOf(agenda) = "single"
      <4>1. agenda.mode = "single"
        BY <3>3 DEF ModeOf
      <4> QED BY <3>1, <3>3, <4>1 DEF WhatTheFormTakesIsValid, ValidAgenda, OneDay
    <3>4. CASE ModeOf(agenda) \notin {"none", "single"}
      <4>1. ModeOf(agenda) = agenda.mode /\ agenda.weekdays # {}
            /\ agenda.mode \in {"weekly", "range"}
        BY <3>1, <3>4 DEF ModeOf, AnyDraft
      <4> QED BY <3>4, <4>1 DEF WhatTheFormTakesIsValid, ValidAgenda, AgendaProblem
    <3> QED BY <3>2, <3>3, <3>4
  <2>3. RejectsOnlyIfAsked
    BY DEF AgendaInv, AskedOfThePage, RejectsOnlyIfAsked
  <2>4. LandsWherePublished
    BY DEF AgendaInv, Lands, LandsWherePublished
  <2> QED BY <2>1, <2>2, <2>3, <2>4
<1>2. AgendaInv /\ [AgendaNext]_agendaVars => [Rejecting]_agendaVars
  <2> SUFFICES ASSUME AgendaInv, AgendaNext, sent # NotSent, sent' # NotSent, sent.reject,
                      sent.answer = "waiting", sent'.answer = "done",
                      NEW d \in daysShown.scheduled, d >= today, d \in accepted
               PROVE  d \notin accepted' <=> d \in sent.seen
    OBVIOUS
  <2>1. ServeSave
    <3>1. UNCHANGED sent => FALSE
      OBVIOUS
    <3>2. ~ChangeAgenda
      BY <3>1, DraftIsKept DEF Edits
    <3> QED BY <3>1, <3>2 DEF AgendaNext, Submit, AnswerQuestions, CloseSheet, Apply, SaveDone,
               SaveLost, AddAnother, ScheduleMoves, AgendaInv, OneTask
  <2>2. /\ sent \in SaveRecords /\ editing
        /\ sent.seen = AffectedDays(sent.agenda, sent.scope, daysShown.scheduled, openedOn)
    BY DEF AgendaInv, AgendaTypes, AskedOfThePage
  <2>3. accepted' = accepted \ AffectedSchedules(sent.agenda, sent.scope)
    <3>1. CASE ValidAgenda(sent.agenda)
      BY <2>1, <3>1 DEF ServeSave
    <3>2. CASE ~ValidAgenda(sent.agenda)
      <4>1. sent' = [sent EXCEPT !.answer = "refused"]
        BY <2>1, <3>2 DEF ServeSave
      <4>2. sent'.answer = "refused"
        BY <2>2, <4>1 DEF SaveRecords
      <4> QED BY <4>2
    <3> QED BY <3>1, <3>2
  <2>4. d \in Nat /\ d \in scheduled /\ today \in Nat
    BY DEF AgendaInv, AgendaTypes
  <2>5. sent.agenda \in AnyDraft /\ sent.scope \in {"day", "saved"}
    BY <2>2 DEF SaveRecords
  <2>6. d \in sent.seen <=> d \in AffectedSchedules(sent.agenda, sent.scope)
    BY <2>2, <2>4, <2>5, CountedAlike
  <2> QED BY <2>3, <2>6
<1>3. AgendaSpec => []Holds /\ [][Rejecting]_agendaVars
  <2> HIDE DEF Holds, Rejecting
  <2> QED BY <1>1, <1>2, AgendaStarts, AgendaStep, PTL DEF AgendaSpec
<1> QED BY <1>3 DEF AgendasAgree, RejectsTheDaysCounted
=============================================================================
