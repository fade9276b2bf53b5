------------------------------ MODULE MenuImport ------------------------------
(***************************************************************************)
(* Importing dishes from a spreadsheet: the page                           *)
(* (pages/provider/menu_imports/new.tsx), the file that is chosen and      *)
(* read, and the review of what it says, card by card                      *)
(* (components/menus/import/review.tsx, lib/menu-import.ts), where the     *)
(* provider edits, takes away, and decides what to do with the dishes they *)
(* have already; and Menus::Import::Save, which imports all of it or       *)
(* nothing.                                                                *)
(*                                                                         *)
(* A card is known in the page by its key, and matched with the dishes     *)
(* that are saved by its name, which the provider may change.  The page    *)
(* knows of those dishes, and of the orders accepted on them, what the last *)
(* answer said (saved_menus.rb); meanwhile other pages accept orders, make  *)
(* dishes and delete them.                                                 *)
(***************************************************************************)
EXTENDS Integers, FiniteSets

CONSTANTS
    Cards,          \* keys: one for each row of the file
    Names,          \* the names a dish may have
    NoName,         \* no name, no card, no request: null
    MaxImports,     \* bound: requests to import
    MaxMenuMoves    \* bound: changes of the dishes made elsewhere

ASSUME ImportAssumption ==
    NoName \notin Names \cup Cards /\ MaxImports \in Nat /\ MaxMenuMoves \in Nat

VARIABLES
    menus,          \* the dish with each name: none, saved, or saved with orders accepted
    menuMoves,      \* changes of those made elsewhere
    savedMenus,     \* saved_menus: the same, as the page was given it
    step,           \* what the page shows: the upload, the review, what came of it
    file,           \* "none", "chosen", "uploading" or "bad"
    cards,          \* the card of each key, or NoName once it is taken away
    editingCard,    \* editing
    updatingCard,   \* updating
    importing,      \* the request in flight, or NoName
    importRequests, \* requests to import sent
    imported,       \* dishes made and updated for each card
    unanswered,     \* the cards of the requests whose answer was lost
    failedCard      \* the card that a request last failed for, as the server sees it

importVars == <<menus, menuMoves, savedMenus, step, file, cards, editingCard, updatingCard,
                importing, importRequests, imported, unanswered, failedCard>>
sheetVars == <<step, file, failedCard>>
requestVars == <<menus, menuMoves, savedMenus, importing, importRequests, imported, unanswered>>

DishStates == [Names -> {"none", "saved", "ordered"}]

\* A card: its name; whether it says what is wrong; what was decided for it, and
\* about the orders of the dish it updates.  For the properties: the dish the
\* dialog asked about; whether the page knew that the dish had orders when it was
\* decided, and whether it was renamed after that.
CardRecords ==
    [name : Names, wrong : BOOLEAN, action : {"none", "create", "update"}, reject : BOOLEAN,
     askedAbout : Names \cup {NoName}, knew : BOOLEAN, renamed : BOOLEAN]

\* What is sent of each card, and a request with its answer.  No card and no request
\* are not one.
EntryRecords ==
    [name : Names, action : {"create", "update"}, reject : BOOLEAN,
     askedAbout : Names \cup {NoName}, knew : BOOLEAN, renamed : BOOLEAN]

ImportRequests ==
    [entries : UNION {[keys -> EntryRecords] : keys \in SUBSET Cards},
     answer : {"waiting", "done", "failed", "missing"}, failed : Cards \cup {NoName},
     saved : DishStates]

ASSUME NoNameAssumption == NoName \notin CardRecords /\ NoName \notin ImportRequests

Present == {key \in Cards : cards[key] # NoName}

ImportTypeOK ==
    /\ menus \in DishStates /\ savedMenus \in DishStates /\ menuMoves \in 0..MaxMenuMoves
    /\ step \in {"upload", "review", "imported"}
    /\ file \in {"none", "chosen", "uploading", "bad"}
    /\ \A key \in Present : cards[key] \in CardRecords
    /\ editingCard \in Present \cup {NoName} /\ updatingCard \in Cards \cup {NoName}
    /\ importing # NoName =>
         /\ importing.answer \in {"waiting", "done", "failed", "missing"} /\ importing.saved \in DishStates
         /\ DOMAIN importing.entries \subseteq Cards
         /\ \A key \in DOMAIN importing.entries : importing.entries[key] \in EntryRecords
    /\ importRequests \in 0..MaxImports
    /\ imported \in [Cards -> 0..MaxImports]
    /\ unanswered \subseteq Cards

-----------------------------------------------------------------------------
(* The file *)

\* Elsewhere, a dish is made or deleted, or an order is accepted on it, or delivered.
MenusMove ==
    /\ menuMoves < MaxMenuMoves /\ menuMoves' = menuMoves + 1
    /\ \E name \in Names, state \in {"none", "saved", "ordered"} :
         menus' = [menus EXCEPT ![name] = state]
    /\ UNCHANGED sheetVars
    /\ UNCHANGED <<savedMenus, cards, editingCard, updatingCard, importing, importRequests,
                   imported, unanswered>>

\* A file is chosen, or taken away.
ChooseFile ==
    /\ step = "upload" /\ file # "uploading"
    /\ file' = IF file = "chosen" THEN "none" ELSE "chosen"
    /\ UNCHANGED <<step, failedCard, cards, editingCard, updatingCard>> /\ UNCHANGED requestVars

Upload ==
    /\ step = "upload" /\ file = "chosen"
    /\ file' = "uploading"
    /\ UNCHANGED <<step, failedCard, cards, editingCard, updatingCard>> /\ UNCHANGED requestVars

FreshCard(name, wrong) ==
    [name |-> name, wrong |-> wrong, action |-> "none", reject |-> FALSE,
     askedAbout |-> NoName, knew |-> FALSE, renamed |-> FALSE]

\* It is read: one card for each row, undecided, with what is wrong in it, and the
\* dishes there are; or the file cannot be read, or no answer comes.
FileRead ==
    /\ step = "upload" /\ file = "uploading"
    /\ \/ /\ step' = "review" /\ file' = "none" /\ savedMenus' = menus
          /\ \E names \in [Cards -> Names], wrong \in SUBSET Cards :
               cards' = [key \in Cards |-> FreshCard(names[key], key \in wrong)]
       \/ file' = "bad" /\ savedMenus' = menus /\ UNCHANGED <<step, cards>>
       \/ file' = "chosen" /\ UNCHANGED <<step, cards, savedMenus>>
    /\ UNCHANGED <<menus, menuMoves, editingCard, updatingCard, importing, importRequests,
                   imported, unanswered, failedCard>>

-----------------------------------------------------------------------------
(* The review *)

\* matchSaved, in what the page was given.
MatchSaved(name) == savedMenus[name] # "none"

\* statusOf
Status(card) ==
    IF card.wrong THEN "error"
    ELSE IF card.action = "update" THEN "updated"
    ELSE IF card.action = "none" /\ MatchSaved(card.name) THEN "exists"
    ELSE "new"

Reviewing == step = "review" /\ editingCard = NoName /\ updatingCard = NoName

Decides(key, card) ==
    /\ cards' = [cards EXCEPT ![key] = card]
    /\ UNCHANGED sheetVars /\ UNCHANGED requestVars

\* action and confirmed_orders, and for the properties what the page knows by then.
Decided(card, action, reject) ==
    [card EXCEPT !.action = action, !.reject = reject, !.renamed = FALSE,
                 !.knew = savedMenus[card.name] = "ordered"]

RemoveCard(key) ==
    /\ Reviewing /\ key \in Present /\ Status(cards[key]) # "exists"
    /\ Decides(key, NoName) /\ UNCHANGED <<editingCard, updatingCard>>

Duplicate(key) ==
    /\ Reviewing /\ key \in Present /\ Status(cards[key]) = "exists"
    /\ Decides(key, Decided(cards[key], "create", FALSE))
    /\ UNCHANGED <<editingCard, updatingCard>>

\* A mutant of AskUpdate: it is never asked.
UpdateAtOnce(key) ==
    /\ Reviewing /\ key \in Present /\ Status(cards[key]) = "exists"
    /\ Decides(key, Decided(cards[key], "update", FALSE))
    /\ UNCHANGED <<editingCard, updatingCard>>

\* The dish there is will be written over: asked about, if the page was told of orders
\* accepted.
AskUpdate(key) ==
    /\ Reviewing /\ key \in Present /\ Status(cards[key]) = "exists"
    /\ IF savedMenus[cards[key].name] = "ordered"
       THEN /\ updatingCard' = key
            /\ UNCHANGED cards /\ UNCHANGED sheetVars /\ UNCHANGED requestVars
       ELSE /\ Decides(key, Decided(cards[key], "update", FALSE))
            /\ UNCHANGED updatingCard
    /\ UNCHANGED editingCard

\* The dialog: applied, with the orders kept or rejected, or closed.
AnswerUpdate ==
    /\ updatingCard # NoName
    /\ \/ \E reject \in BOOLEAN :
            Decides(updatingCard,
                    [Decided(cards[updatingCard], "update", reject) EXCEPT
                       !.askedAbout = cards[updatingCard].name])
       \/ UNCHANGED cards /\ UNCHANGED sheetVars /\ UNCHANGED requestVars
    /\ updatingCard' = NoName /\ UNCHANGED editingCard

Reset(key) ==
    /\ Reviewing /\ key \in Present /\ Status(cards[key]) = "updated"
    /\ Decides(key, [Decided(cards[key], "none", FALSE) EXCEPT !.askedAbout = NoName])
    /\ UNCHANGED <<editingCard, updatingCard>>

EditCard(key) ==
    /\ Reviewing /\ key \in Present
    /\ editingCard' = key
    /\ UNCHANGED <<cards, updatingCard>> /\ UNCHANGED sheetVars /\ UNCHANGED requestVars

\* The form gives back a dish that is whole, with the name it has now; what was
\* decided for it stays.
ApplyDraft ==
    /\ editingCard # NoName
    /\ \/ \E name \in Names :
            LET card == cards[editingCard]
            IN Decides(editingCard,
                       [card EXCEPT !.name = name, !.wrong = FALSE,
                          !.renamed = @ \/ (card.action # "none" /\ name # card.name)])
       \/ UNCHANGED cards /\ UNCHANGED sheetVars /\ UNCHANGED requestVars
    /\ editingCard' = NoName /\ UNCHANGED updatingCard

-----------------------------------------------------------------------------
(* Importing *)

CanImport ==
    /\ \A key \in Present : Status(cards[key]) # "error"
    /\ \E key \in Present : Status(cards[key]) \in {"new", "updated"}

\* entriesPayload: an update of the dish that has that name now, or else a new one.
Entry(card) ==
    [name |-> card.name,
     action |-> IF card.action = "update" /\ MatchSaved(card.name) THEN "update" ELSE "create",
     reject |-> card.reject, askedAbout |-> card.askedAbout, knew |-> card.knew,
     renamed |-> card.renamed]

Entries ==
    [key \in {k \in Present : Status(cards[k]) \in {"new", "updated"}} |-> Entry(cards[key])]

Request == [entries |-> Entries, answer |-> "waiting", failed |-> NoName, saved |-> savedMenus]

\* A mutant of Send: the button is not disabled.
SendAgain ==
    /\ Reviewing /\ CanImport /\ importRequests < MaxImports
    /\ importing' = Request /\ importRequests' = importRequests + 1
    /\ UNCHANGED <<menus, menuMoves, savedMenus, cards, editingCard, updatingCard, imported,
                   unanswered>>
    /\ UNCHANGED sheetVars

Send ==
    /\ Reviewing /\ CanImport /\ importing = NoName /\ importRequests < MaxImports
    /\ importing' = Request /\ importRequests' = importRequests + 1
    /\ UNCHANGED <<menus, menuMoves, savedMenus, cards, editingCard, updatingCard, imported,
                   unanswered>>
    /\ UNCHANGED sheetVars

\* The dishes that a request makes and updates.
Made(name) ==
    \E key \in DOMAIN importing.entries :
      importing.entries[key].action = "create" /\ importing.entries[key].name = name

Updated(name) ==
    \E key \in DOMAIN importing.entries :
      importing.entries[key].action = "update" /\ importing.entries[key].name = name

\* What is written over keeps its orders, or has some of them rejected, by the agenda.
Written(after) ==
    \A name \in Names :
      \/ after[name] = IF menus[name] = "none" /\ Made(name) THEN "saved" ELSE menus[name]
      \/ /\ menus[name] = "ordered" /\ after[name] = "saved"
         /\ \E key \in DOMAIN importing.entries :
              importing.entries[key].name = name /\ importing.entries[key].reject

\* A mutant of ServeImport: the rows before the one that fails are saved.
ServeUpToTheFailed ==
    /\ importing # NoName /\ importing.answer = "waiting"
    /\ imported' = [key \in Cards |-> imported[key]
                      + IF key \in DOMAIN importing.entries THEN 1 ELSE 0]
    /\ \/ importing' = [importing EXCEPT !.answer = "done", !.saved = menus]
       \/ \E key \in DOMAIN importing.entries :
            importing' = [importing EXCEPT !.answer = "failed", !.failed = key, !.saved = menus]
    /\ UNCHANGED <<menus, menuMoves, savedMenus, cards, editingCard, updatingCard,
                   importRequests, unanswered>>
    /\ UNCHANGED sheetVars

\* Menus::Import::Save: every entry; or none and the one that fails; or none, and not
\* found, for a dish that was deleted.  The answer has the dishes there were before.
ServeImport ==
    /\ importing # NoName /\ importing.answer = "waiting"
    /\ \/ /\ \A name \in Names : Updated(name) => menus[name] # "none"
          /\ importing' = [importing EXCEPT !.answer = "done", !.saved = menus]
          /\ imported' = [key \in Cards |-> imported[key]
                            + IF key \in DOMAIN importing.entries THEN 1 ELSE 0]
          /\ menus' \in {after \in DishStates : Written(after)}
       \/ /\ \E key \in DOMAIN importing.entries :
               importing' =
                 [importing EXCEPT !.answer = "failed", !.failed = key, !.saved = menus]
          /\ UNCHANGED <<menus, imported>>
       \/ /\ \E name \in Names : Updated(name) /\ menus[name] = "none"
          /\ importing' = [importing EXCEPT !.answer = "missing"]
          /\ UNCHANGED <<menus, imported>>
    /\ UNCHANGED <<menuMoves, savedMenus, cards, editingCard, updatingCard, importRequests,
                   unanswered>>
    /\ UNCHANGED sheetVars

\* The keys that the errors come with: entriesPayload sends none.
KeysOfErrors(failed) == {}

\* What came of it; an error goes to the card of its key, if it is still there.  The
\* page that is not found says nothing.
ImportArrives ==
    /\ importing # NoName /\ importing.answer # "waiting"
    /\ step' = IF importing.answer = "done" THEN "imported" ELSE step
    /\ IF importing.answer = "failed"
       THEN /\ failedCard' = importing.failed
            /\ cards' = [key \in Cards |->
                           IF cards[key] # NoName /\ key \in KeysOfErrors(importing.failed)
                           THEN [cards[key] EXCEPT !.wrong = TRUE] ELSE cards[key]]
       ELSE UNCHANGED <<cards, failedCard>>
    /\ savedMenus' = IF importing.answer = "missing" THEN savedMenus ELSE importing.saved
    /\ importing' = NoName
    /\ UNCHANGED <<menus, menuMoves, file, editingCard, updatingCard, importRequests, imported,
                   unanswered>>

\* A mutant of ImportLost: nothing is done when no answer comes.
ImportUnfinished ==
    /\ importing # NoName
    /\ unanswered' = unanswered \cup DOMAIN importing.entries
    /\ UNCHANGED <<menus, menuMoves, savedMenus, cards, editingCard, updatingCard, importing,
                   importRequests, imported>>
    /\ UNCHANGED sheetVars

\* No answer comes, whether the server imported them or not.
ImportLost ==
    /\ importing # NoName
    /\ importing' = NoName
    /\ unanswered' = unanswered \cup DOMAIN importing.entries
    /\ UNCHANGED <<menus, menuMoves, savedMenus, cards, editingCard, updatingCard, importRequests,
                   imported>>
    /\ UNCHANGED sheetVars

\* Another file: the page is loaded again.
Restart ==
    /\ step = "imported" \/ (Reviewing /\ importing = NoName)
    /\ step' = "upload" /\ file' = "none"
    /\ cards' = [key \in Cards |-> NoName]
    /\ editingCard' = NoName /\ updatingCard' = NoName
    /\ imported' = [key \in Cards |-> 0] /\ unanswered' = {} /\ failedCard' = NoName
    /\ savedMenus' = menus
    /\ UNCHANGED <<menus, menuMoves, importing, importRequests>>

-----------------------------------------------------------------------------
ImportInit ==
    /\ menus \in DishStates /\ menuMoves = 0 /\ savedMenus = menus
    /\ step = "upload" /\ file = "none" /\ cards = [key \in Cards |-> NoName]
    /\ editingCard = NoName /\ updatingCard = NoName /\ importing = NoName
    /\ importRequests = 0 /\ imported = [key \in Cards |-> 0] /\ unanswered = {}
    /\ failedCard = NoName

ImportNext ==
    \/ MenusMove \/ ChooseFile \/ Upload \/ FileRead
    \/ \E key \in Cards :
         RemoveCard(key) \/ Duplicate(key) \/ AskUpdate(key) \/ Reset(key) \/ EditCard(key)
    \/ AnswerUpdate \/ ApplyDraft
    \/ Send \/ ServeImport \/ ImportArrives \/ ImportLost \/ Restart

ImportSpec == ImportInit /\ [][ImportNext]_importVars

\* Every request is answered, or fails.
ImportFairness == WF_importVars(ImportArrives \/ ImportLost)

-----------------------------------------------------------------------------
(* Properties *)

\* "Actualizar un plato con pedidos confirmados pregunta antes" (docs/importar-menu.md): an
\* update on its way to a dish with orders accepted was asked about.
AlwaysAsks ==
    importing # NoName /\ importing.answer = "waiting" =>
      \A key \in DOMAIN importing.entries :
        LET entry == importing.entries[key]
        IN entry.action = "update" /\ menus[entry.name] = "ordered"
             => entry.askedAbout = entry.name

\* It was, unless the page did not know of those orders when the update was decided,
\* whatever it was told since, or the card was renamed after that and took the decision to
\* another dish.
AsksBeforeOverwriting ==
    importing # NoName =>
      \A key \in DOMAIN importing.entries :
        LET entry == importing.entries[key]
        IN entry.action = "update" /\ menus[entry.name] = "ordered" /\ entry.askedAbout # entry.name
             => entry.renamed \/ ~entry.knew

\* Orders are rejected only if that was answered for their very dish, accepted before or
\* after the page was loaded; a card renamed after that takes the answer with it too.
RejectsAsAnswered ==
    importing # NoName =>
      \A key \in DOMAIN importing.entries :
        LET entry == importing.entries[key]
        IN entry.action = "update" /\ entry.reject /\ ~entry.renamed
             => entry.askedAbout = entry.name

\* A row is imported once, unless an answer was lost: all of it or nothing, and
\* the button is disabled meanwhile (Menus::Import::Save, send).
ImportedOnce == \A key \in Cards : imported[key] > 1 => key \in unanswered

\* An error found on saving goes back to the card that made it ("Lo que recien se
\* ve al guardar vuelve a la tarjeta que lo produjo"): when the answer comes, the
\* card says so, unless it was taken away.
FailedCardSaysWhy ==
    [][failedCard' # failedCard /\ failedCard' # NoName =>
         cards[failedCard'] = NoName \/ cards'[failedCard'].wrong]_importVars

\* An import is made once and overwrites nothing that matters unasked.
ImportedWithCare == AsksBeforeOverwriting /\ RejectsAsAnswered /\ ImportedOnce
=============================================================================
