------------------------------ MODULE MenuWeek ------------------------------
(***************************************************************************)
(* A provider's menu, week by week (pages/schedules/index.tsx with         *)
(* components/schedules/week-day-tabs.tsx and published-date-view.tsx, and *)
(* components/menus/saved-menus-list.tsx in its other tab).  The day that  *)
(* was picked is state of the page and changes at once; the week arrives   *)
(* with the answer of the server (SchedulesController#index), and so does  *)
(* what a switch asks for (#availability), which leads to the week of the  *)
(* dish.  A dish is edited on another page that leads back here.           *)
(*                                                                         *)
(* Days are numbered and every week has its working days only.  The page   *)
(* makes one visit at a time: one that starts interrupts the one in        *)
(* flight, which the server may serve all the same.                        *)
(***************************************************************************)
EXTENDS Integers

CONSTANTS
    WorkingDays,    \* working days a week has
    LastWeek,       \* the week of the maximum publish date; weeks start at 0
    ThisDay,        \* today
    Rows,           \* dishes published
    DayOfRow,       \* the day each one is published on
    NoMove,         \* null
    MaxMoves        \* bound: visits made

ASSUME WeekAssumption ==
    /\ WorkingDays \in Nat \ {0} /\ LastWeek \in Nat /\ MaxMoves \in Nat
    /\ ThisDay \in 0..(WorkingDays * (LastWeek + 1) - 1)
    /\ DayOfRow \in [Rows -> 0..(WorkingDays * (LastWeek + 1) - 1)]

VARIABLES
    weekTab,        \* tab: "week" or "saved"
    weekOn,         \* the week the page was given
    datePicked,     \* selectedDate
    rowsOn,         \* the availability of every dish, as the page was given it
    shutOn,         \* the days of closures, likewise
    rowsSaved,      \* the availability of every dish
    shutSaved,      \* the days the provider closed
    moving,         \* the visit in flight
    adriftMoves,    \* visits interrupted before the server served them
    strayed,        \* the week asked for did not come, or a day was picked before it did
    dishPage,       \* the page of a dish, with the address it returns to
    moves           \* visits made

weekVars == <<weekTab, weekOn, datePicked, rowsOn, shutOn, rowsSaved, shutSaved, moving,
              adriftMoves, strayed, dishPage, moves>>

WeekOf(date) == date \div WorkingDays
DatesOf(week) == (week * WorkingDays)..(week * WorkingDays + WorkingDays - 1)
MenuDates == 0..(WorkingDays * (LastWeek + 1) - 1)

\* A visit: the week or the switch it asks for, and the week it lands on, -1 while the
\* server has not served it.
MoveRecords ==
    [asks : [kind : {"week", "toggle"}, week : 0..LastWeek, row : Rows \cup {NoMove},
             on : BOOLEAN],
     lands : -1..LastWeek, refused : BOOLEAN]

\* The address the page of a dish returns to.
Addresses == [day : MenuDates, tab : {"week", "saved"}]

ASSUME NoMoveAssumption == NoMove \notin MoveRecords /\ NoMove \notin Addresses

WeekTypeOK ==
    /\ weekTab \in {"week", "saved"}
    /\ weekOn \in 0..LastWeek
    /\ datePicked \in MenuDates
    /\ rowsOn \in [Rows -> BOOLEAN] /\ rowsSaved \in [Rows -> BOOLEAN]
    /\ shutOn \subseteq MenuDates /\ shutSaved \subseteq MenuDates
    /\ moving \in MoveRecords \cup {NoMove}
    /\ strayed \in BOOLEAN
    /\ dishPage \in Addresses \cup {NoMove}
    /\ moves \in 0..MaxMoves

-----------------------------------------------------------------------------
(* What the page shows *)

\* defaultDayOfWeek: today in the current week, else its first day.
DefaultDay(week) == IF WeekOf(ThisDay) = week THEN ThisDay ELSE week * WorkingDays

\* selectedDay: the first day of the week when the one picked is not in it.
DayOn == IF datePicked \in DatesOf(weekOn) THEN datePicked ELSE weekOn * WorkingDays

\* publishable, of the days the page was given.
Publishable(date) == date >= ThisDay /\ date \notin shutOn

AtWeek == dishPage = NoMove /\ weekTab = "week"

\* A visit interrupts the one in flight.
Move(asks) ==
    /\ moves < MaxMoves
    /\ moves' = moves + 1
    /\ moving' = [asks |-> asks, lands |-> -1, refused |-> FALSE]
    /\ adriftMoves' = IF moving # NoMove /\ moving.lands = -1
                      THEN adriftMoves \cup {moving.asks} ELSE adriftMoves

-----------------------------------------------------------------------------
PickWeekTab ==
    /\ dishPage = NoMove
    /\ weekTab' = IF weekTab = "week" THEN "saved" ELSE "week"
    /\ UNCHANGED <<weekOn, datePicked, rowsOn, shutOn, rowsSaved, shutSaved, moving,
                   adriftMoves, strayed, dishPage, moves>>

\* handleSelectDate: a week that is on its way will arrive all the same.
PickDate ==
    /\ AtWeek
    /\ datePicked' \in DatesOf(weekOn) \ {datePicked}
    /\ strayed' = (moving # NoMove /\ moving.asks.kind = "week")
    /\ UNCHANGED <<weekTab, weekOn, rowsOn, shutOn, rowsSaved, shutSaved, moving,
                   adriftMoves, dishPage, moves>>

\* A mutant of GoToWeek: the day is left for the answer to change.
GoToWeekOnly ==
    /\ AtWeek
    /\ \E week \in {weekOn - 1, weekOn + 1} \cap 0..LastWeek :
         Move([kind |-> "week", week |-> week, row |-> NoMove, on |-> FALSE])
    /\ strayed' = FALSE
    /\ UNCHANGED <<weekTab, weekOn, datePicked, rowsOn, shutOn, rowsSaved, shutSaved,
                   dishPage>>

\* goToWeek: the arrows, with the weeks before and after the one shown.
GoToWeek ==
    /\ AtWeek
    /\ \E week \in {weekOn - 1, weekOn + 1} \cap 0..LastWeek :
         /\ Move([kind |-> "week", week |-> week, row |-> NoMove, on |-> FALSE])
         /\ datePicked' = DefaultDay(week)
    /\ strayed' = FALSE
    /\ UNCHANGED <<weekTab, weekOn, rowsOn, shutOn, rowsSaved, shutSaved, dishPage>>

\* handleAvailabilityChange: only its own switch waits.
ToggleRow ==
    /\ AtWeek
    /\ \E row \in Rows :
         /\ DayOfRow[row] = DayOn /\ Publishable(DayOn)
         /\ ~(moving # NoMove /\ moving.asks.row = row)
         /\ Move([kind |-> "toggle", week |-> WeekOf(DayOn), row |-> row,
                  on |-> ~rowsOn[row]])
    /\ strayed' = (strayed \/ datePicked # DayOn)
    /\ UNCHANGED <<weekTab, weekOn, datePicked, rowsOn, shutOn, rowsSaved, shutSaved,
                   dishPage>>

-----------------------------------------------------------------------------
\* availability: a dish of a day that was closed meanwhile is left as it is, and the
\* answer is the current week.
Refused(asks) == asks.kind = "toggle" /\ DayOfRow[asks.row] \in shutSaved

RowsAfter(asks) ==
    IF asks.kind = "toggle" /\ ~Refused(asks)
    THEN [rowsSaved EXCEPT ![asks.row] = asks.on] ELSE rowsSaved

ServeMove ==
    /\ moving # NoMove /\ moving.lands = -1
    /\ rowsSaved' = RowsAfter(moving.asks)
    /\ moving' = [moving EXCEPT
                    !.lands = IF Refused(moving.asks) THEN WeekOf(ThisDay)
                              ELSE moving.asks.week,
                    !.refused = Refused(moving.asks)]
    /\ UNCHANGED <<weekTab, weekOn, datePicked, rowsOn, shutOn, shutSaved, adriftMoves,
                   strayed, dishPage, moves>>

ServeMoveLate ==
    /\ \E asks \in adriftMoves :
         /\ adriftMoves' = adriftMoves \ {asks}
         /\ rowsSaved' = RowsAfter(asks)
    /\ UNCHANGED <<weekTab, weekOn, datePicked, rowsOn, shutOn, shutSaved, moving, strayed,
                   dishPage, moves>>

\* A mutant of MoveArrives: every answer leads to the current week.
MoveArrivesElsewhere ==
    /\ moving # NoMove /\ moving.lands # -1
    /\ weekOn' = WeekOf(ThisDay)
    /\ rowsOn' = rowsSaved /\ shutOn' = shutSaved
    /\ strayed' = (strayed \/ moving.refused)
    /\ moving' = NoMove
    /\ UNCHANGED <<weekTab, datePicked, rowsSaved, shutSaved, adriftMoves, dishPage, moves>>

\* The page comes with a week; its own state stays.
MoveArrives ==
    /\ moving # NoMove /\ moving.lands # -1
    /\ weekOn' = moving.lands
    /\ rowsOn' = rowsSaved /\ shutOn' = shutSaved
    /\ strayed' = (strayed \/ moving.refused)
    /\ moving' = NoMove
    /\ UNCHANGED <<weekTab, datePicked, rowsSaved, shutSaved, adriftMoves, dishPage, moves>>

\* A mutant of MoveLost: the switch waits for an answer that will not come.
MoveForgotten ==
    /\ moving # NoMove
    /\ strayed' = TRUE
    /\ moving' = [moving EXCEPT !.lands = -1]
    /\ UNCHANGED <<weekTab, weekOn, datePicked, rowsOn, shutOn, rowsSaved, shutSaved,
                   adriftMoves, dishPage, moves>>

MoveLost ==
    /\ moving # NoMove
    /\ strayed' = TRUE
    /\ adriftMoves' = IF moving.lands = -1 THEN adriftMoves \cup {moving.asks}
                      ELSE adriftMoves
    /\ moving' = NoMove
    /\ UNCHANGED <<weekTab, weekOn, datePicked, rowsOn, shutOn, rowsSaved, shutSaved,
                   dishPage, moves>>

\* The provider closes a day, on another page.
ShutDay ==
    /\ \E date \in {DayOfRow[row] : row \in Rows} \ shutSaved :
         shutSaved' = shutSaved \cup {date}
    /\ UNCHANGED <<weekTab, weekOn, datePicked, rowsOn, shutOn, rowsSaved, moving,
                   adriftMoves, strayed, dishPage, moves>>

-----------------------------------------------------------------------------
(* To a dish and back *)

\* The link of a dish, with the week and the day on show as the address to return to
\* (returnTo), or the tab of the saved dishes.
EditDish ==
    /\ dishPage = NoMove
    /\ weekTab = "week" => \E row \in Rows : DayOfRow[row] = DayOn /\ Publishable(DayOn)
    /\ dishPage' = [day |-> DayOn, tab |-> weekTab]
    /\ moving' = NoMove
    /\ adriftMoves' = IF moving # NoMove /\ moving.lands = -1
                      THEN adriftMoves \cup {moving.asks} ELSE adriftMoves
    /\ UNCHANGED <<weekTab, weekOn, datePicked, rowsOn, shutOn, rowsSaved, shutSaved,
                   strayed, moves>>

\* A mutant of DateAddressed: the address without its day.
DateAddressedNot(day, tab) == DefaultDay(IF tab = "saved" THEN WeekOf(ThisDay) ELSE WeekOf(day))

\* selected_date of the address, else the day of its week.
DateAddressed(day, tab) == IF tab = "saved" THEN DefaultDay(WeekOf(ThisDay)) ELSE day

\* The page opens anew.
ReturnToWeek ==
    /\ dishPage # NoMove
    /\ weekTab' = dishPage.tab
    /\ weekOn' = IF dishPage.tab = "saved" THEN WeekOf(ThisDay) ELSE WeekOf(dishPage.day)
    /\ datePicked' = DateAddressed(dishPage.day, dishPage.tab)
    /\ rowsOn' = rowsSaved /\ shutOn' = shutSaved
    /\ strayed' = FALSE
    /\ dishPage' = NoMove
    /\ UNCHANGED <<rowsSaved, shutSaved, moving, adriftMoves, moves>>

-----------------------------------------------------------------------------
WeekInit ==
    /\ weekTab = "week" /\ weekOn = WeekOf(ThisDay) /\ datePicked = ThisDay
    /\ rowsSaved = [row \in Rows |-> TRUE] /\ rowsOn = rowsSaved
    /\ shutSaved = {} /\ shutOn = {}
    /\ moving = NoMove /\ adriftMoves = {} /\ strayed = FALSE
    /\ dishPage = NoMove /\ moves = 0

WeekNext ==
    \/ PickWeekTab \/ PickDate \/ GoToWeek \/ ToggleRow
    \/ ServeMove \/ ServeMoveLate \/ MoveArrives \/ MoveLost
    \/ ShutDay \/ EditDish \/ ReturnToWeek

WeekSpec == WeekInit /\ [][WeekNext]_weekVars

\* Every visit is answered, or fails.
WeekFairness == WF_weekVars(MoveArrives \/ MoveLost)

-----------------------------------------------------------------------------
(* Properties *)

\* The day picked is one of the week on show, so that its dishes and no others are
\* under it, except on the way to its week, or once that way was lost or crossed: then the
\* page shows the first day of another week (goToWeek, selectedDay).
DayPickedIsOnShow ==
    dishPage = NoMove =>
      \/ datePicked \in DatesOf(weekOn)
      \/ moving # NoMove /\ moving.asks.kind = "week" /\ WeekOf(datePicked) = moving.asks.week
      \/ strayed

\* From the page of a dish one comes back to the day that was on show, or to the saved
\* dishes, whatever week was on its way ("se vuelve a esta misma semana y dia").
ReturnsWhereItWas ==
    [][ReturnToWeek =>
         /\ weekTab' = dishPage.tab
         /\ dishPage.tab = "week" => DayOn' = dishPage.day]_weekVars

\* The day on show is the one that was picked, on the way from and back to it too.
DayKept == []DayPickedIsOnShow /\ ReturnsWhereItWas
=============================================================================
