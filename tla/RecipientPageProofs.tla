-------------------------- MODULE RecipientPageProofs --------------------------
(* Proofs about the store-keys page.  Its cells keep their types, a save that   *)
(* waits is carried by a worker, and a page that loads has a loader, for every  *)
(* number of stores, scopes, save workers and page openings; for one store,     *)
(* what is written to a directory was chosen there; for one directory and one   *)
(* opening, a page at rest that is not dirty shows what the store says.         *)
EXTENDS RecipientPage, TLAPS

Saves == [Slots -> SaveType \cup {NoSave}]
Carried(p, s) == p.inFlight \/ p.queued => \E i \in Slots : s[i] # NoSave

\* What the nested handlers leave alone.
SameLoad(p, q) == /\ q.generation = p.generation
                  /\ q.request = p.request
                  /\ q.loading = p.loading

-----------------------------------------------------------------------------
(* The nested handlers: each starts from a page p and save workers s *)

\* A started save takes a free slot and is the carrier of the in-flight mark.
LEMMA StartSaveKeeps ==
    ASSUME NEW p \in PageType, NEW s \in Saves, p.request # NoRequest,
           StartSave(p, s)
    PROVE  page' \in PageType /\ saves' \in Saves /\ SameLoad(p, page')
           /\ Carried(page', saves')
<1> DEFINE i == CHOOSE j \in FreeSlots(s) : TRUE
           task == [request |-> p.request, scope |-> p.scope,
                    settings |-> p.shown, chosenFor |-> p.chosenFor,
                    phase |-> "running"]
<1>1. i \in Slots
  BY DEF StartSave, FreeSlots
<1>2. p.request \in Requests
  BY DEF PageType
<1>3. task \in SaveType
  BY <1>2 DEF SaveType, PageType
<1>4. task.phase # NoSave.phase
  BY DEF NoSave
<1>5. task # NoSave
  BY <1>4
<1>6. saves' = [s EXCEPT ![i] = task]
  BY DEF StartSave
<1>7. saves' \in Saves /\ saves'[i] = task
  BY <1>1, <1>3, <1>6 DEF Saves
<1>8. page' = [p EXCEPT !.inFlight = TRUE, !.queued = FALSE]
  BY DEF StartSave
<1>9. page' \in PageType /\ SameLoad(p, page')
  BY <1>8 DEF PageType, SameLoad
<1> QED BY <1>1, <1>5, <1>7, <1>9 DEF Carried

\* save_store_recipients_async changes no cell of the load and keeps the carrier.
LEMMA SaveNowKeeps ==
    ASSUME NEW p \in PageType, NEW s \in Saves, NEW mayPrompt \in BOOLEAN,
           Carried(p, s), SaveNow(p, s, mayPrompt)
    PROVE  page' \in PageType /\ saves' \in Saves /\ SameLoad(p, page')
           /\ Carried(page', saves')
<1>1. CASE page' = p /\ saves' = s
  BY <1>1 DEF SameLoad
<1>2. CASE page' = [p EXCEPT !.queued = FALSE] /\ saves' = s
  BY <1>2 DEF SameLoad, Carried, PageType
<1>3. CASE page' = [p EXCEPT !.prompts = @ \cup {"git"}] /\ saves' = s
  <2>1. page' \in PageType
    BY <1>3 DEF PageType
  <2> QED BY <1>3, <2>1 DEF SameLoad, Carried, PageType
<1>4. CASE p.inFlight /\ page' = [p EXCEPT !.queued = TRUE] /\ saves' = s
  BY <1>4 DEF SameLoad, Carried, PageType
<1>5. CASE p.request # NoRequest /\ StartSave(p, s)
  BY <1>5, StartSaveKeeps
<1> QED BY <1>1, <1>2, <1>3, <1>4, <1>5 DEF SaveNow

\* queue_store_recipients_autosave.
LEMMA AutosaveKeeps ==
    ASSUME NEW p \in PageType, NEW s \in Saves, Carried(p, s), Autosave(p, s)
    PROVE  page' \in PageType /\ saves' \in Saves /\ SameLoad(p, page')
           /\ Carried(page', saves')
<1>1. CASE page' = p /\ saves' = s
  BY <1>1 DEF SameLoad
<1>2. CASE p.inFlight /\ page' = [p EXCEPT !.queued = TRUE] /\ saves' = s
  BY <1>2 DEF SameLoad, Carried, PageType
<1>3. CASE SaveNow(p, s, TRUE)
  BY <1>3, SaveNowKeeps
<1> QED BY <1>1, <1>2, <1>3 DEF Autosave

\* finish_store_recipients_save needs no carrier: it takes both marks away, or
\* starts the save that waited.
LEMMA FinishSaveKeeps ==
    ASSUME NEW p \in PageType, NEW s \in Saves, NEW includeDirty \in BOOLEAN,
           FinishSave(p, s, includeDirty)
    PROVE  page' \in PageType /\ saves' \in Saves /\ SameLoad(p, page')
           /\ Carried(page', saves')
<1> DEFINE done == [p EXCEPT !.inFlight = FALSE]
           next == [done EXCEPT !.queued = FALSE]
<1>1. done \in PageType /\ SameLoad(p, done) /\ done.inFlight = FALSE
      /\ done.queued = p.queued
  BY DEF PageType, SameLoad
<1>2. next \in PageType /\ SameLoad(p, next) /\ next.inFlight = FALSE
      /\ next.queued = FALSE
  BY DEF PageType, SameLoad
<1>3. CASE Autosave(next, s)
  <2>1. Carried(next, s)
    BY <1>2 DEF Carried
  <2>2. /\ page' \in PageType /\ saves' \in Saves /\ SameLoad(next, page')
        /\ Carried(page', saves')
    BY <1>2, <1>3, <2>1, AutosaveKeeps
  <2> QED BY <1>2, <2>2 DEF SameLoad
<1>4. CASE ~p.queued /\ page' = done /\ saves' = s
  BY <1>1, <1>4 DEF Carried
<1> QED BY <1>3, <1>4 DEF FinishSave

-----------------------------------------------------------------------------
(* Opening, loading and answers: the values they hand to the nested handlers *)

LEMMA ShowType ==
    ASSUME NEW p \in PageType, NEW place \in Origins, NEW settings \in Settings
    PROVE  Show(p, place, settings) \in PageType
           /\ SameLoad(p, Show(p, place, settings))
           /\ \A s : Carried(p, s) => Carried(Show(p, place, settings), s)
BY DEF Show, PageType, SameLoad, Carried

LEMMA LoadingType ==
    ASSUME NEW p \in PageType
    PROVE  /\ Loading(p) \in PageType
           /\ Loading(p).generation = p.generation + 1
           /\ Loading(p).request = p.request
           /\ Loading(p).loading = TRUE
           /\ \A s : Carried(p, s) => Carried(Loading(p), s)
<1>1. p.generation + 1 \in Nat
  BY DEF PageType
<1>2. Loading(p) \in PageType
  BY <1>1 DEF Loading, PageType
<1> QED BY <1>2 DEF Loading, PageType, Carried

LEMMA OpenedType ==
    ASSUME TypeOK, NEW s \in Stores, NEW mode \in {"create", "edit"}
    PROVE  /\ Opened(s, mode) \in PageType
           /\ Opened(s, mode).generation = page.generation
           /\ Opened(s, mode).request \in Requests
           /\ \A sv : Carried(Opened(s, mode), sv)
<1> DEFINE p == [page EXCEPT !.request = [store |-> s, mode |-> mode],
                             !.scopes = {}, !.scope = Root,
                             !.inFlight = FALSE, !.queued = FALSE]
<1>1. p \in PageType /\ p.generation = page.generation
      /\ p.request \in Requests
      /\ p.inFlight = FALSE /\ p.queued = FALSE
  <2>1. [store |-> s, mode |-> mode] \in Requests
    BY DEF Requests
  <2> QED BY <2>1, PageAssumption DEF TypeOK, PageType
<1>2. \A sv : Carried(p, sv)
  BY <1>1 DEF Carried
<1>3. <<s, Root>> \in Origins /\ Blank \in Settings
  BY PageAssumption DEF Origins, Places
<1>4. Show(p, <<s, Root>>, Blank) \in PageType
      /\ SameLoad(p, Show(p, <<s, Root>>, Blank))
      /\ \A sv : Carried(Show(p, <<s, Root>>, Blank), sv)
  BY <1>1, <1>2, <1>3, ShowType
<1> QED BY <1>1, <1>2, <1>4 DEF Opened, SameLoad

LEMMA NewLoadType ==
    ASSUME NEW p \in PageType, p.request \in Requests,
           NEW values \in {"keep", "read", "provided"}
    PROVE  /\ NewLoad(p, values) \in LoadType
           /\ NewLoad(p, values).generation = p.generation + 1
           /\ NewLoad(p, values).request = p.request
<1>1. Fallback([values |-> values]) \in
          [scopes : SUBSET Scopes, scope : Scopes, replaces : BOOLEAN,
           settings : Settings]
  BY PageAssumption DEF Fallback
<1>2. p.generation + 1 \in Nat \ {0} /\ p.scope \in Scopes
  BY DEF PageType
<1> QED BY <1>1, <1>2 DEF NewLoad, LoadType

LEMMA ValueAtType ==
    ASSUME TypeOK, NEW s \in Stores, NEW d \in Scopes
    PROVE  ValueAt(s, d) \in Settings
BY PageAssumption DEF TypeOK, ValueAt

LEMMA LoadedFromType ==
    ASSUME TypeOK, NEW l \in loads
    PROVE  LoadedFrom(l) \in [scopes : SUBSET Scopes, scope : Scopes,
                              replaces : BOOLEAN, settings : Settings]
<1> DEFINE found == RelevantScopes(l.request.store)
           scopes == IF l.values = "provided" THEN found \cup {l.scope} ELSE found
           scope == IF l.scope \in scopes THEN l.scope ELSE FirstScope(scopes)
           replaces == l.values # "keep" \/ scope # l.scope
           settings == IF l.values = "provided" \/ ~replaces
                       THEN Blank ELSE ValueAt(l.request.store, scope)
<1>1. l \in LoadType
  BY DEF TypeOK
<1>2. l.scope \in Scopes /\ l.request.store \in Stores
  BY <1>1 DEF LoadType, Requests
<1>3. found \subseteq Scopes /\ found # {}
  BY PageAssumption DEF RelevantScopes
<1>4. scopes \subseteq Scopes /\ scopes # {}
  BY <1>2, <1>3
<1>5. scope \in Scopes
  BY <1>2, <1>4, PageAssumption DEF FirstScope
<1>6. settings \in Settings
  BY <1>2, <1>5, ValueAtType, PageAssumption
<1>7. replaces \in BOOLEAN
  OBVIOUS
<1>8. LoadedFrom(l) = [scopes |-> scopes, scope |-> scope,
                       replaces |-> replaces, settings |-> settings]
  BY DEF LoadedFrom
<1> HIDE DEF scopes, scope, replaces, settings
<1> QED BY <1>4, <1>5, <1>6, <1>7, <1>8

LEMMA AppliedType ==
    ASSUME TypeOK, NEW l \in loads
    PROVE  /\ Applied(l) \in PageType /\ SameLoad(page, Applied(l))
           /\ \A s : Carried(page, s) => Carried(Applied(l), s)
<1> DEFINE p == [page EXCEPT !.scopes = l.answer.scopes,
                             !.scope = l.answer.scope]
<1>1. l \in LoadType /\ page \in PageType
  BY DEF TypeOK
<1>2. l.answer.scopes \subseteq Scopes /\ l.answer.scope \in Scopes
      /\ l.answer.settings \in Settings /\ l.request.store \in Stores
  BY <1>1 DEF LoadType, Requests
<1>3. p \in PageType /\ SameLoad(page, p)
      /\ \A s : Carried(page, s) => Carried(p, s)
  BY <1>1, <1>2 DEF PageType, SameLoad, Carried
<1>4. <<l.request.store, l.answer.scope>> \in Origins
  BY <1>2 DEF Origins, Places
<1>5. CASE l.answer.replaces
  BY <1>2, <1>3, <1>4, <1>5, ShowType DEF Applied, SameLoad
<1>6. CASE ~l.answer.replaces
  BY <1>3, <1>6 DEF Applied
<1> QED BY <1>5, <1>6

LEMMA MarkedSavedType ==
    ASSUME TypeOK, NEW i \in Slots, saves[i] # NoSave
    PROVE  MarkedSaved(i) \in PageType /\ SameLoad(page, MarkedSaved(i))
<1>1. saves[i] \in SaveType /\ page \in PageType
  BY DEF TypeOK
<1> QED BY <1>1 DEF MarkedSaved, SaveType, PageType, SameLoad

LEMMA FreedType ==
    ASSUME TypeOK, NEW i \in Slots
    PROVE  Freed(i) \in Saves
BY DEF TypeOK, Freed, Saves

LEMMA PhaseOfSave ==
    ASSUME TypeOK, NEW i \in Slots, saves[i].phase # "free"
    PROVE  saves[i] # NoSave /\ saves[i] \in SaveType /\ saves[i].request \in Requests
<1>1. saves[i] # NoSave
  BY DEF NoSave
<1> QED BY <1>1 DEF TypeOK, SaveType

-----------------------------------------------------------------------------
(* The inductive invariant *)

\* Dialogs and save workers exist only for a page that was opened.
Begun == page.request = NoRequest =>
             page.prompts = {} /\ \A i \in Slots : saves[i] = NoSave

Of(l) == Current(page, l.generation, l.request)

\* Nothing pending is younger than the page; a listing that waits is for the page
\* as it is now whenever the one that runs is, so ending the one never ends both.
LoaderInv ==
    /\ \A l \in loads : l.generation <= page.generation
    /\ listing.running.generation <= page.generation
    /\ listing.waiting.generation <= page.generation
    /\ listing.running = NoListing => listing.waiting = NoListing
    /\ Of(listing.running) => listing.waiting = NoListing \/ Of(listing.waiting)
    /\ ALoadingPageHasALoader

Inv == TypeOK /\ Begun /\ Carried(page, saves) /\ LoaderInv

LEMMA RequestsAreReal == NoRequest \notin Requests
<1>1. \A r \in Requests : r.mode # NoRequest.mode
  BY DEF Requests, NoRequest
<1> QED BY <1>1

LEMMA InitInv == Init => Inv
<1> SUFFICES ASSUME Init PROVE Inv
  OBVIOUS
<1>1. /\ page.request = NoRequest /\ page.shown = Blank /\ page.saved = Blank
      /\ page.inFlight = FALSE /\ page.queued = FALSE /\ page.prompts = {}
      /\ page.generation = 0 /\ page.loading = FALSE
  BY DEF Init
<1>2. page \in PageType
  BY PageAssumption DEF Init, PageType, Origins
<1>3. NoListing \in Listings /\ NoListing.generation = 0
  BY DEF Listings, NoListing
<1>4. /\ listing.running = NoListing /\ listing.waiting = NoListing
      /\ listing \in [running : Listings, waiting : Listings]
  BY <1>3 DEF Init
<1>5. disk \in [Stores -> [Scopes -> Settings \cup {NoFile}]]
  BY DEF Init
<1>6. loads = {} /\ known \subseteq Stores /\ saves \in [Slots -> SaveType \cup {NoSave}]
  BY PageAssumption DEF Init
<1>7. TypeOK
  BY <1>2, <1>4, <1>5, <1>6 DEF TypeOK
<1>8. Begun
  BY <1>1 DEF Init, Begun
<1>9. LoaderInv
  BY <1>1, <1>3, <1>4, <1>6 DEF LoaderInv, ALoadingPageHasALoader
<1> QED BY <1>1, <1>7, <1>8, <1>9 DEF Inv, Carried

\* Nothing about the load changes: the loader stays.
LEMMA SameLoader ==
    ASSUME LoaderInv, SameLoad(page, page'), loads' = loads, listing' = listing
    PROVE  LoaderInv'
BY DEF LoaderInv, SameLoad, ALoadingPageHasALoader, Current, Of

\* A page with a new generation gets a load of it.
LEMMA LoadStarts ==
    ASSUME Inv, page' \in PageType, page'.generation > page.generation,
           listing' = listing, NEW more \in SUBSET LoadType,
           loads' = loads \cup more,
           \A l \in more : l.generation <= page'.generation,
           \E l \in more : l.generation = page'.generation
                           /\ l.request = page'.request
    PROVE  LoaderInv'
<1>1. page.generation \in Nat /\ page'.generation \in Nat
  BY DEF Inv, TypeOK, PageType
<1>2. listing.running.generation \in Nat /\ listing.waiting.generation \in Nat
  BY DEF Inv, TypeOK, Listings
<1>3. \A l \in loads : l.generation \in Nat
  BY DEF Inv, TypeOK, LoadType
<1>4. \A l \in loads : l.generation <= page'.generation
  BY <1>1, <1>3 DEF Inv, LoaderInv
<1>5. /\ listing.running.generation < page'.generation
      /\ listing.waiting.generation < page'.generation
  BY <1>1, <1>2 DEF Inv, LoaderInv
<1>6. ~(Of(listing.running))'
  BY <1>1, <1>2, <1>5 DEF Of, Current
<1>7. ALoadingPageHasALoader'
  BY DEF ALoadingPageHasALoader, Current
<1> QED BY <1>1, <1>2, <1>4, <1>5, <1>6, <1>7 DEF Inv, LoaderInv

\* A listing asked for the page as it is after the step.
LEMMA ListingStarts ==
    ASSUME Inv, page' \in PageType, page'.generation >= page.generation,
           page'.generation # 0, loads' \subseteq loads,
           StartListing(page'.generation, page'.request)
    PROVE  LoaderInv' /\ listing' \in [running : Listings, waiting : Listings]
<1> DEFINE next == [generation |-> page'.generation, request |-> page'.request]
<1>1. page.generation \in Nat /\ page'.generation \in Nat
  BY DEF Inv, TypeOK, PageType
<1>2. listing \in [running : Listings, waiting : Listings]
  BY DEF Inv, TypeOK
<1>3. next \in Listings
  BY DEF Listings, PageType
<1>4. next # NoListing
  BY DEF NoListing
<1>5. \A l \in loads' : l.generation <= page'.generation
  <2>1. \A l \in loads : l.generation \in Nat /\ l.generation <= page.generation
    BY DEF Inv, TypeOK, LoadType, LoaderInv
  <2> QED BY <1>1, <2>1
<1>6. /\ listing.running.generation <= page'.generation
      /\ listing.waiting.generation <= page'.generation
  BY <1>1, <1>2 DEF Inv, LoaderInv, Listings
<1>7. CASE listing.running = NoListing
  <2>1. listing' = [listing EXCEPT !.running = next]
    BY <1>7 DEF StartListing
  <2>2. listing'.running = next /\ listing'.waiting = NoListing
    BY <1>2, <1>7, <2>1 DEF Inv, LoaderInv
  <2>3. listing' \in [running : Listings, waiting : Listings]
    BY <1>2, <1>3, <2>1
  <2>4. ALoadingPageHasALoader'
    BY <1>4, <2>2 DEF ALoadingPageHasALoader, Current
  <2> QED BY <1>1, <1>4, <1>5, <1>6, <2>1, <2>2, <2>3, <2>4 DEF LoaderInv
<1>8. CASE listing.running # NoListing
  <2>1. listing' = [listing EXCEPT !.waiting = next]
    BY <1>8 DEF StartListing
  <2>2. listing'.running = listing.running /\ listing'.waiting = next
    BY <1>2, <2>1
  <2>3. listing' \in [running : Listings, waiting : Listings]
    BY <1>2, <1>3, <2>1
  <2>4. ALoadingPageHasALoader'
    BY <1>4, <2>2 DEF ALoadingPageHasALoader, Current
  <2>5. (Of(listing.waiting))'
    BY <2>2 DEF Of, Current
  <2> QED BY <1>1, <1>5, <1>6, <1>8, <2>2, <2>3, <2>4, <2>5 DEF LoaderInv
<1> QED BY <1>7, <1>8

-----------------------------------------------------------------------------
(* One lemma per group of actions *)

\* A page that was opened satisfies Begun whatever else it does.
LEMMA BegunOnceOpened == page'.request \in Requests => Begun'
BY RequestsAreReal DEF Begun

LEMMA OpenKeeps ==
    ASSUME Inv, NEW s \in Stores, NEW mode \in {"create", "edit"},
           NEW values \in {"read", "provided"},
           page' = Loading(Opened(s, mode)),
           loads' = loads \cup {NewLoad(Opened(s, mode), values)},
           UNCHANGED <<disk, known, listing, saves>>
    PROVE  Inv'
<1> DEFINE p == Opened(s, mode)
<1>1. TypeOK /\ page.generation \in Nat
  BY DEF Inv, TypeOK, PageType
<1>2. /\ p \in PageType /\ p.generation = page.generation
      /\ p.request \in Requests /\ Carried(p, saves)
  BY <1>1, OpenedType
<1>3. page' = Loading(p)
  OBVIOUS
<1> HIDE DEF p
<1>4. /\ page' \in PageType /\ page'.generation = page.generation + 1
      /\ page'.request = p.request /\ Carried(page', saves)
  BY <1>2, <1>3, LoadingType
<1>5. /\ NewLoad(p, values) \in LoadType
      /\ NewLoad(p, values).generation = page'.generation
      /\ NewLoad(p, values).request = page'.request
  BY <1>2, <1>4, NewLoadType
<1>6. loads' = loads \cup {NewLoad(p, values)}
  BY DEF p
<1>7. LoaderInv'
  <2> DEFINE more == {NewLoad(p, values)}
  <2>1. more \in SUBSET LoadType /\ loads' = loads \cup more
    BY <1>5, <1>6
  <2>2. \A l \in more : l.generation <= page'.generation
    BY <1>1, <1>4, <1>5
  <2>3. \E l \in more : l.generation = page'.generation
                        /\ l.request = page'.request
    BY <1>5
  <2>4. page'.generation > page.generation
    BY <1>1, <1>4
  <2> QED BY <1>4, <2>1, <2>2, <2>3, <2>4, LoadStarts
<1>8. TypeOK'
  BY <1>1, <1>4, <1>5, <1>6 DEF TypeOK
<1>9. Begun'
  BY <1>2, <1>4, BegunOnceOpened
<1> QED BY <1>4, <1>7, <1>8, <1>9 DEF Inv

LEMMA AddExistingKeeps ==
    ASSUME Inv, NEW s \in Stores, AddExisting(s)
    PROVE  Inv'
<1> DEFINE p == Opened(s, "edit")
           q == Loading(p)
           first == NewLoad(p, "read")
           second == NewLoad(q, "keep")
<1>1. TypeOK /\ page.generation \in Nat
  BY DEF Inv, TypeOK, PageType
<1>2. /\ p \in PageType /\ p.generation = page.generation
      /\ p.request \in Requests /\ Carried(p, saves)
  BY <1>1, OpenedType
<1>3. /\ q \in PageType /\ q.generation = page.generation + 1
      /\ q.request = p.request /\ Carried(q, saves)
  BY <1>2, LoadingType
<1>4. page' = Loading(q) /\ loads' = loads \cup {first, second}
  BY DEF AddExisting
<1>5. /\ page' \in PageType /\ page'.generation = q.generation + 1
      /\ page'.request = q.request /\ Carried(page', saves)
  BY <1>3, <1>4, LoadingType
<1>6. first \in LoadType /\ first.generation = p.generation + 1
  BY <1>2, NewLoadType
<1>7. /\ second \in LoadType /\ second.generation = q.generation + 1
      /\ second.request = q.request
  BY <1>2, <1>3, NewLoadType
<1> HIDE DEF p, q, first, second
<1>8. LoaderInv'
  <2> DEFINE more == {first, second}
  <2>1. more \in SUBSET LoadType /\ loads' = loads \cup more
    BY <1>4, <1>6, <1>7
  <2>2. \A l \in more : l.generation <= page'.generation
    BY <1>1, <1>2, <1>3, <1>5, <1>6, <1>7
  <2>3. \E l \in more : l.generation = page'.generation
                        /\ l.request = page'.request
    BY <1>5, <1>7
  <2>4. page'.generation > page.generation /\ listing' = listing
    BY <1>1, <1>3, <1>5 DEF AddExisting
  <2> QED BY <1>5, <2>1, <2>2, <2>3, <2>4, LoadStarts
<1>9. TypeOK'
  <2>1. known' \subseteq Stores /\ UNCHANGED <<disk, listing, saves>>
    BY <1>1 DEF AddExisting, TypeOK
  <2> QED BY <1>1, <1>4, <1>5, <1>6, <1>7, <2>1 DEF TypeOK
<1>10. Begun'
  BY <1>2, <1>3, <1>5, BegunOnceOpened
<1>11. saves' = saves
  BY DEF AddExisting
<1> QED BY <1>5, <1>8, <1>9, <1>10, <1>11 DEF Inv

\* A step of the page that starts a load of it (Reload, KeyPromptSucceeds,
\* StoreCreated): q is the page that the load is numbered from.
LEMMA NewLoadKeeps ==
    ASSUME Inv, NEW q \in PageType, q.generation = page.generation,
           q.request \in Requests,
           loads' = loads \cup {NewLoad(q, "keep")},
           page' \in PageType, SameLoad(Loading(q), page'),
           Carried(page', saves'), saves' \in Saves,
           known' \subseteq Stores, UNCHANGED <<disk, listing>>
    PROVE  Inv'
<1>1. TypeOK /\ page.generation \in Nat
  BY DEF Inv, TypeOK, PageType
<1>2. page'.generation = page.generation + 1 /\ page'.request = q.request
  BY LoadingType DEF SameLoad
<1>3. /\ NewLoad(q, "keep") \in LoadType
      /\ NewLoad(q, "keep").generation = page'.generation
      /\ NewLoad(q, "keep").request = page'.request
  BY <1>2, NewLoadType
<1>4. LoaderInv'
  <2> DEFINE more == {NewLoad(q, "keep")}
  <2>1. more \in SUBSET LoadType /\ loads' = loads \cup more
    BY <1>3
  <2>2. \A l \in more : l.generation <= page'.generation
    BY <1>1, <1>2, <1>3
  <2>3. \E l \in more : l.generation = page'.generation
                        /\ l.request = page'.request
    BY <1>3
  <2>4. page'.generation > page.generation
    BY <1>1, <1>2
  <2> QED BY <2>1, <2>2, <2>3, <2>4, LoadStarts
<1>5. TypeOK'
  BY <1>1, <1>3 DEF TypeOK, Saves
<1>6. Begun'
  BY <1>2, BegunOnceOpened
<1> QED BY <1>4, <1>5, <1>6 DEF Inv

\* A step that changes neither the load nor the listing (Edit, SelectScope, the
\* shortcut, the dialogs and the answers of saves).
LEMMA SameLoadKeeps ==
    ASSUME Inv, page' \in PageType, SameLoad(page, page'), page.request # NoRequest,
           Carried(page', saves'), saves' \in Saves,
           disk' = disk, known' = known, UNCHANGED <<loads, listing>>
    PROVE  Inv'
<1>1. LoaderInv'
  BY SameLoader DEF Inv
<1>2. TypeOK'
  BY DEF Inv, TypeOK, Saves
<1>3. Begun'
  BY DEF Begun, SameLoad
<1> QED BY <1>1, <1>2, <1>3 DEF Inv

LEMMA ReloadKeeps == ASSUME Inv, Reload PROVE Inv'
<1>1. page \in PageType /\ page.request \in Requests
  BY DEF Inv, TypeOK, PageType, Reload
<1>2. /\ page' = Loading(page) /\ loads' = loads \cup {NewLoad(page, "keep")}
      /\ UNCHANGED <<disk, known, listing, saves>>
  BY DEF Reload
<1>3. page' \in PageType /\ Carried(page', saves') /\ SameLoad(Loading(page), page')
  BY <1>1, <1>2, LoadingType DEF Inv, SameLoad
<1>4. saves' \in Saves /\ known' \subseteq Stores
  BY <1>2 DEF Inv, TypeOK, Saves
<1> QED BY <1>1, <1>2, <1>3, <1>4, NewLoadKeeps

LEMMA KeyInventoryChangedKeeps == ASSUME Inv, KeyInventoryChanged PROVE Inv'
<1>1. page \in PageType /\ page.request \in Requests /\ page.generation \in Nat
  BY DEF Inv, TypeOK, PageType, KeyInventoryChanged
<1>2. /\ page' = Loading(page) /\ UNCHANGED <<disk, known, loads, saves>>
      /\ StartListing(page.generation + 1, page.request)
  BY DEF KeyInventoryChanged
<1>3. /\ page' \in PageType /\ Carried(page', saves')
      /\ page'.generation = page.generation + 1 /\ page'.request = page.request
  BY <1>1, <1>2, LoadingType DEF Inv
<1>4. LoaderInv' /\ listing' \in [running : Listings, waiting : Listings]
  BY <1>1, <1>2, <1>3, ListingStarts
<1>5. TypeOK'
  BY <1>2, <1>3, <1>4 DEF Inv, TypeOK
<1> QED BY <1>1, <1>3, <1>4, <1>5, BegunOnceOpened DEF Inv

LEMMA LoadReadsKeeps == ASSUME Inv, NEW l \in loads, LoadReads(l) PROVE Inv'
<1> DEFINE m == [l EXCEPT !.read = TRUE, !.answer = LoadedFrom(l)]
<1>1. TypeOK /\ l \in LoadType
  BY DEF Inv, TypeOK
<1>2. /\ loads' = (loads \ {l}) \cup {m}
      /\ UNCHANGED <<disk, known, page, listing, saves>>
  BY DEF LoadReads
<1>3. m \in LoadType /\ m.generation = l.generation /\ m.request = l.request
  BY <1>1, LoadedFromType DEF LoadType
<1> HIDE DEF m
<1>4. TypeOK'
  BY <1>1, <1>2, <1>3 DEF TypeOK
<1>5. ALoadingPageHasALoader'
  BY <1>2, <1>3 DEF Inv, LoaderInv, ALoadingPageHasALoader, Current
<1>6. \A k \in loads' : k.generation <= page'.generation
  BY <1>2, <1>3 DEF Inv, LoaderInv
<1>7. LoaderInv'
  BY <1>2, <1>5, <1>6 DEF Inv, LoaderInv, Of, Current
<1> QED BY <1>2, <1>4, <1>7 DEF Inv, Begun

LEMMA CompleteLoadKeeps == ASSUME Inv, NEW l \in loads, CompleteLoad(l) PROVE Inv'
<1>1. TypeOK /\ l \in LoadType /\ page \in PageType /\ saves \in Saves
  BY DEF Inv, TypeOK, Saves
<1>2. loads' = loads \ {l} /\ UNCHANGED <<disk, known>>
  BY DEF CompleteLoad
<1>3. CASE Current(page, l.generation, l.request)
  <2>1. /\ l.generation = page.generation /\ page.generation # 0
        /\ page.generation \in Nat
        /\ l.request = page.request /\ page.request \in Requests
    BY <1>1, <1>3 DEF Current, LoadType
  <2>2. /\ Applied(l) \in PageType /\ SameLoad(page, Applied(l))
        /\ Carried(Applied(l), saves)
    BY <1>1, AppliedType DEF Inv
  <2>3. /\ page' \in PageType /\ saves' \in Saves /\ SameLoad(page, page')
        /\ Carried(page', saves')
    <3>1. CASE Autosave(Applied(l), saves)
      <4>1. /\ page' \in PageType /\ saves' \in Saves
            /\ SameLoad(Applied(l), page') /\ Carried(page', saves')
        BY <1>1, <2>2, <3>1, AutosaveKeeps
      <4> QED BY <2>2, <4>1 DEF SameLoad
    <3>2. CASE page' = Applied(l) /\ UNCHANGED saves
      BY <1>1, <2>2, <3>2
    <3> QED BY <1>3, <3>1, <3>2 DEF CompleteLoad
  <2>4. StartListing(page'.generation, page'.request)
    BY <1>3, <2>1, <2>3 DEF CompleteLoad, SameLoad
  <2>5. /\ page'.generation >= page.generation /\ page'.generation # 0
        /\ page'.request \in Requests
    BY <2>1, <2>3 DEF SameLoad
  <2>6. LoaderInv' /\ listing' \in [running : Listings, waiting : Listings]
    BY <1>2, <2>3, <2>4, <2>5, ListingStarts
  <2>7. TypeOK'
    BY <1>1, <1>2, <2>3, <2>6 DEF TypeOK, Saves
  <2> QED BY <2>3, <2>5, <2>6, <2>7, BegunOnceOpened DEF Inv
<1>4. CASE ~Current(page, l.generation, l.request)
  <2>1. UNCHANGED <<page, listing, saves>>
    BY <1>4 DEF CompleteLoad
  <2>2. TypeOK'
    BY <1>1, <1>2, <2>1 DEF TypeOK
  <2>3. ALoadingPageHasALoader'
    BY <1>2, <1>4, <2>1 DEF Inv, LoaderInv, ALoadingPageHasALoader, Current
  <2>4. LoaderInv'
    BY <1>2, <2>1, <2>3 DEF Inv, LoaderInv, Of, Current
  <2> QED BY <1>2, <2>1, <2>2, <2>4 DEF Inv, Begun
<1> QED BY <1>3, <1>4

\* A listing that waits is the page's whenever the one that ends is, so the page
\* stops loading only with its last listing.
LEMMA ListingEndsKeeps == ASSUME Inv, ListingEnds PROVE Inv'
<1> DEFINE l == listing.running
<1>1. TypeOK /\ page \in PageType /\ listing \in [running : Listings, waiting : Listings]
  BY DEF Inv, TypeOK
<1>2. /\ l # NoListing
      /\ listing' = [running |-> listing.waiting, waiting |-> NoListing]
      /\ UNCHANGED <<disk, known, loads, saves>>
  BY DEF ListingEnds
<1>3. listing'.running = listing.waiting /\ listing'.waiting = NoListing
  BY <1>2
<1>4. NoListing \in Listings /\ NoListing.generation = 0
  BY DEF NoListing, Listings
<1>5. listing' \in [running : Listings, waiting : Listings]
  BY <1>1, <1>2, <1>4
<1>6. CASE listing.waiting = NoListing /\ Current(page, l.generation, l.request)
  <2>1. page' = [page EXCEPT !.loading = FALSE]
    BY <1>6 DEF ListingEnds
  <2>2. /\ page' \in PageType /\ page'.loading = FALSE
        /\ page'.generation = page.generation /\ page'.request = page.request
        /\ page'.prompts = page.prompts
        /\ page'.inFlight = page.inFlight /\ page'.queued = page.queued
    BY <1>1, <2>1 DEF PageType
  <2>3. page.generation \in Nat
    BY <1>1 DEF PageType
  <2>4. LoaderInv'
    BY <1>2, <1>3, <1>4, <1>6, <2>2, <2>3
    DEF Inv, LoaderInv, ALoadingPageHasALoader, Of, Current
  <2>5. TypeOK'
    BY <1>1, <1>2, <1>5, <2>2 DEF TypeOK
  <2> QED BY <1>2, <2>2, <2>4, <2>5 DEF Inv, Begun, Carried
<1>7. CASE ~(listing.waiting = NoListing /\ Current(page, l.generation, l.request))
  <2>1. page' = page
    BY <1>7 DEF ListingEnds
  <2>2. page.generation \in Nat
    BY <1>1 DEF PageType
  <2>3. ALoadingPageHasALoader'
    BY <1>2, <1>3, <1>7, <2>1
    DEF Inv, LoaderInv, ALoadingPageHasALoader, Of, Current
  <2>4. LoaderInv'
    BY <1>2, <1>3, <1>4, <2>1, <2>2, <2>3 DEF Inv, LoaderInv, Of, Current
  <2>5. TypeOK'
    BY <1>1, <1>2, <1>5, <2>1 DEF TypeOK
  <2> QED BY <1>2, <2>1, <2>4, <2>5 DEF Inv, Begun
<1> QED BY <1>6, <1>7

LEMMA EditKeeps ==
    ASSUME Inv, NEW settings \in Settings, Edit(settings) PROVE Inv'
<1> DEFINE p == [page EXCEPT !.shown = settings]
<1>1. page \in PageType /\ saves \in Saves
  BY DEF Inv, TypeOK, Saves
<1>2. p \in PageType /\ SameLoad(page, p) /\ Carried(p, saves)
  BY <1>1 DEF PageType, SameLoad, Carried, Inv
<1>3. Autosave(p, saves) /\ page.request # NoRequest
      /\ UNCHANGED <<disk, known, loads, listing>>
  BY DEF Edit
<1> HIDE DEF p
<1>4. /\ page' \in PageType /\ saves' \in Saves /\ SameLoad(p, page')
      /\ Carried(page', saves')
  BY <1>1, <1>2, <1>3, AutosaveKeeps
<1>5. SameLoad(page, page')
  BY <1>2, <1>4 DEF SameLoad
<1> QED BY <1>3, <1>4, <1>5, SameLoadKeeps

LEMMA SelectScopeKeeps ==
    ASSUME Inv, NEW d \in Scopes, SelectScope(d) PROVE Inv'
<1> DEFINE p == [page EXCEPT !.scope = d]
           s == page.request.store
<1>1. TypeOK /\ page \in PageType /\ saves \in Saves /\ page.request # NoRequest
  BY DEF Inv, TypeOK, Saves, SelectScope
<1>2. s \in Stores
  BY <1>1 DEF PageType, Requests
<1>3. p \in PageType /\ SameLoad(page, p) /\ Carried(p, saves)
  BY <1>1 DEF PageType, SameLoad, Carried, Inv
<1>4. <<s, d>> \in Origins /\ ValueAt(s, d) \in Settings
  BY <1>1, <1>2, ValueAtType DEF Origins, Places
<1>5. page' = Show(p, <<s, d>>, ValueAt(s, d))
      /\ UNCHANGED <<disk, known, loads, listing, saves>>
  BY DEF SelectScope
<1> HIDE DEF p, s
<1>6. page' \in PageType /\ SameLoad(p, page') /\ Carried(page', saves)
  BY <1>3, <1>4, <1>5, ShowType
<1>7. SameLoad(page, page')
  BY <1>3, <1>6 DEF SameLoad
<1> QED BY <1>1, <1>5, <1>6, <1>7, SameLoadKeeps

LEMMA SaveShortcutKeeps == ASSUME Inv, SaveShortcut PROVE Inv'
<1>1. page \in PageType /\ saves \in Saves /\ Carried(page, saves)
  BY DEF Inv, TypeOK, Saves
<1>2. SaveNow(page, saves, TRUE) /\ page.request # NoRequest
      /\ UNCHANGED <<disk, known, loads, listing>>
  BY DEF SaveShortcut
<1> QED BY <1>1, <1>2, SaveNowKeeps, SameLoadKeeps

\* Answering a dialog: the page is one that was opened.
LEMMA AnswerType ==
    ASSUME Inv, NEW dialog \in page.prompts
    PROVE  LET p == [page EXCEPT !.prompts = @ \ {dialog}]
           IN /\ p \in PageType /\ SameLoad(page, p) /\ Carried(p, saves)
              /\ page.request # NoRequest
<1>1. page \in PageType
  BY DEF Inv, TypeOK
<1>2. [page EXCEPT !.prompts = @ \ {dialog}] \in PageType
  BY <1>1 DEF PageType
<1> QED BY <1>1, <1>2 DEF PageType, SameLoad, Carried, Inv, Begun

LEMMA GitPromptEndsKeeps == ASSUME Inv, GitPromptEnds PROVE Inv'
<1> DEFINE p == [page EXCEPT !.prompts = @ \ {"git"}]
<1>1. "git" \in page.prompts /\ SaveNow(p, saves, FALSE)
      /\ UNCHANGED <<disk, known, loads, listing>>
  BY DEF GitPromptEnds
<1>2. /\ p \in PageType /\ SameLoad(page, p) /\ Carried(p, saves)
      /\ page.request # NoRequest
  BY <1>1, AnswerType
<1>3. saves \in Saves
  BY DEF Inv, TypeOK, Saves
<1> HIDE DEF p
<1>4. /\ page' \in PageType /\ saves' \in Saves /\ SameLoad(p, page')
      /\ Carried(page', saves')
  BY <1>1, <1>2, <1>3, SaveNowKeeps
<1>5. SameLoad(page, page')
  BY <1>2, <1>4 DEF SameLoad
<1> QED BY <1>1, <1>2, <1>4, <1>5, SameLoadKeeps

LEMMA KeyPromptSucceedsKeeps == ASSUME Inv, KeyPromptSucceeds PROVE Inv'
<1> DEFINE p == [page EXCEPT !.prompts = @ \ {"key"}]
<1>1. /\ "key" \in page.prompts /\ SaveNow(Loading(p), saves, TRUE)
      /\ loads' = loads \cup {NewLoad(p, "keep")}
      /\ UNCHANGED <<disk, known, listing>>
  BY DEF KeyPromptSucceeds
<1>2. /\ p \in PageType /\ SameLoad(page, p) /\ Carried(p, saves)
      /\ page.request # NoRequest
  BY <1>1, AnswerType
<1>3. saves \in Saves /\ known \subseteq Stores /\ page \in PageType
  BY DEF Inv, TypeOK, Saves
<1>4. p.generation = page.generation /\ p.request \in Requests
  BY <1>2, <1>3 DEF SameLoad, PageType
<1> HIDE DEF p
<1>5. Loading(p) \in PageType /\ Carried(Loading(p), saves)
  BY <1>2, LoadingType
<1>6. /\ page' \in PageType /\ saves' \in Saves /\ SameLoad(Loading(p), page')
      /\ Carried(page', saves')
  BY <1>1, <1>3, <1>5, SaveNowKeeps
<1> QED BY <1>1, <1>2, <1>3, <1>4, <1>6, NewLoadKeeps

LEMMA KeyPromptDismissedKeeps == ASSUME Inv, KeyPromptDismissed PROVE Inv'
<1> DEFINE p == [page EXCEPT !.prompts = @ \ {"key"}]
<1>1. "key" \in page.prompts /\ page' = p
      /\ UNCHANGED <<disk, known, loads, listing, saves>>
  BY DEF KeyPromptDismissed
<1>2. /\ p \in PageType /\ SameLoad(page, p) /\ Carried(p, saves)
      /\ page.request # NoRequest
  BY <1>1, AnswerType
<1>3. saves \in Saves
  BY DEF Inv, TypeOK, Saves
<1> HIDE DEF p
<1> QED BY <1>1, <1>2, <1>3, SameLoadKeeps

\* The worker of a save moves on; the slot stays taken.
LEMMA WorkerKeeps ==
    ASSUME Inv, NEW i \in Slots, Running(i),
           NEW phase \in {"saved", "failed", "locked"},
           saves' = [saves EXCEPT ![i].phase = phase],
           disk' \in [Stores -> [Scopes -> Settings \cup {NoFile}]],
           UNCHANGED <<known, page, loads, listing>>
    PROVE  Inv'
<1>1. TypeOK /\ saves \in Saves
  BY DEF Inv, TypeOK, Saves
<1>2. saves[i] # NoSave /\ saves[i] \in SaveType
  BY <1>1, PhaseOfSave DEF Running
<1> DEFINE task == [saves[i] EXCEPT !.phase = phase]
<1>3. task \in SaveType /\ task.phase = phase
  BY <1>2 DEF SaveType
<1>4. task # NoSave
  BY <1>3 DEF NoSave
<1> HIDE DEF task
<1>5. saves' = [saves EXCEPT ![i] = task]
  BY DEF task
<1>6. saves' \in Saves
  BY <1>1, <1>3, <1>5 DEF Saves
<1>7. \E j \in Slots : saves'[j] # NoSave
  BY <1>1, <1>4, <1>5 DEF Saves
<1>8. LoaderInv'
  BY SameLoader DEF Inv, SameLoad
<1>9. TypeOK'
  BY <1>1, <1>6 DEF TypeOK, Saves
<1>10. page.request # NoRequest
  BY <1>2 DEF Inv, Begun
<1> QED BY <1>7, <1>8, <1>9, <1>10 DEF Inv, Begun, Carried

LEMMA SaveLandsKeeps ==
    ASSUME Inv, NEW i \in Slots, SaveLands(i) \/ SaveLandsThenFails(i) PROVE Inv'
<1>1. TypeOK /\ Running(i) /\ UNCHANGED <<known, page, loads, listing>>
  BY DEF Inv, SaveLands, SaveLandsThenFails
<1>2. saves[i] \in SaveType
  BY <1>1, PhaseOfSave DEF Running
<1>3. /\ saves[i].request.store \in Stores /\ saves[i].scope \in Scopes
      /\ saves[i].settings \in Settings
  BY <1>2 DEF SaveType, Requests
<1>4. disk' = [disk EXCEPT ![saves[i].request.store][saves[i].scope] =
                   saves[i].settings]
  BY DEF SaveLands, SaveLandsThenFails
<1>5. disk' \in [Stores -> [Scopes -> Settings \cup {NoFile}]]
  BY <1>1, <1>3, <1>4 DEF TypeOK
<1>6. \/ saves' = [saves EXCEPT ![i].phase = "saved"]
      \/ saves' = [saves EXCEPT ![i].phase = "failed"]
  BY DEF SaveLands, SaveLandsThenFails
<1> QED BY <1>1, <1>5, <1>6, WorkerKeeps

LEMMA SaveFailsKeeps ==
    ASSUME Inv, NEW i \in Slots, NEW how \in {"failed", "locked"}, SaveFails(i, how)
    PROVE  Inv'
<1>1. /\ Running(i) /\ saves' = [saves EXCEPT ![i].phase = how]
      /\ UNCHANGED <<disk, known, page, loads, listing>>
  BY DEF SaveFails
<1>2. disk' \in [Stores -> [Scopes -> Settings \cup {NoFile}]]
  BY <1>1 DEF Inv, TypeOK
<1> QED BY <1>1, <1>2, WorkerKeeps

\* The answer of a save ends on a page that was opened.
LEMMA FinishKeeps ==
    ASSUME Inv, NEW i \in Slots, saves[i].phase # "free",
           NEW p \in PageType, SameLoad(page, p), NEW includeDirty \in BOOLEAN,
           FinishSave(p, Freed(i), includeDirty),
           UNCHANGED <<disk, known, loads, listing>>
    PROVE  Inv'
<1>1. TypeOK /\ saves[i] # NoSave /\ Freed(i) \in Saves
  BY PhaseOfSave, FreedType DEF Inv
<1>2. page.request # NoRequest
  BY <1>1 DEF Inv, Begun
<1>3. /\ page' \in PageType /\ saves' \in Saves /\ SameLoad(p, page')
      /\ Carried(page', saves')
  BY <1>1, FinishSaveKeeps
<1>4. SameLoad(page, page')
  BY <1>3 DEF SameLoad
<1> QED BY <1>2, <1>3, <1>4, SameLoadKeeps

LEMMA AnswersKeep ==
    ASSUME Inv, NEW i \in Slots,
           EditSaved(i) \/ StoreCreatedNotListed(i) \/ SaveFailed(i) \/ SaveNeedsKey(i)
    PROVE  Inv'
<1>1. /\ TypeOK /\ page \in PageType /\ saves[i].phase # "free"
      /\ UNCHANGED <<disk, known, loads, listing>>
  BY DEF Inv, TypeOK, EditSaved, StoreCreatedNotListed, SaveFailed, SaveNeedsKey
<1>2. MarkedSaved(i) \in PageType /\ SameLoad(page, MarkedSaved(i))
  BY <1>1, PhaseOfSave, MarkedSavedType
<1>3. CASE EditSaved(i) \/ StoreCreatedNotListed(i)
  <2>1. FinishSave(MarkedSaved(i), Freed(i), TRUE)
    BY <1>3 DEF EditSaved, StoreCreatedNotListed
  <2> QED BY <1>1, <1>2, <2>1, FinishKeeps
<1>4. CASE SaveFailed(i)
  <2>1. FinishSave(page, Freed(i), FALSE) /\ SameLoad(page, page)
    BY <1>4 DEF SaveFailed, SameLoad
  <2> QED BY <1>1, <2>1, FinishKeeps
<1>5. CASE SaveNeedsKey(i)
  <2> DEFINE p == [page EXCEPT !.prompts = @ \cup {"key"}]
  <2>1. p \in PageType /\ SameLoad(page, p)
    BY <1>1 DEF PageType, SameLoad
  <2>2. FinishSave(p, Freed(i), FALSE)
    BY <1>5 DEF SaveNeedsKey
  <2> HIDE DEF p
  <2> QED BY <1>1, <2>1, <2>2, FinishKeeps
<1> QED BY <1>3, <1>4, <1>5

LEMMA StoreCreatedKeeps == ASSUME Inv, NEW i \in Slots, StoreCreated(i) PROVE Inv'
<1> DEFINE q == MarkedSaved(i)
           r == [store |-> saves[i].request.store, mode |-> "edit"]
           p == [q EXCEPT !.request = r]
<1>1. /\ TypeOK /\ saves[i].phase # "free"
      /\ known' = known \cup {saves[i].request.store}
      /\ loads' = loads \cup {NewLoad(p, "keep")}
      /\ FinishSave(Loading(p), Freed(i), TRUE)
      /\ UNCHANGED <<disk, listing>>
  BY DEF Inv, StoreCreated
<1>2. saves[i] # NoSave /\ saves[i].request \in Requests
  BY <1>1, PhaseOfSave
<1>3. saves[i].request.store \in Stores /\ r \in Requests
  BY <1>2 DEF Requests
<1>4. q \in PageType /\ SameLoad(page, q)
  BY <1>1, <1>2, MarkedSavedType
<1> HIDE DEF q, r
<1>5. p \in PageType /\ p.generation = page.generation /\ p.request \in Requests
  BY <1>3, <1>4 DEF PageType, SameLoad
<1> HIDE DEF p
<1>6. Loading(p) \in PageType /\ Freed(i) \in Saves
  BY <1>1, <1>5, LoadingType, FreedType
<1>7. /\ page' \in PageType /\ saves' \in Saves /\ SameLoad(Loading(p), page')
      /\ Carried(page', saves')
  BY <1>1, <1>6, FinishSaveKeeps
<1>8. known' \subseteq Stores
  BY <1>1, <1>3 DEF TypeOK
<1> QED BY <1>1, <1>5, <1>7, <1>8, NewLoadKeeps

-----------------------------------------------------------------------------
(* The theorems *)

\* One step of the page, for each action of Next.
LEMMA StepInv == Inv /\ [Next]_vars => Inv'
<1> SUFFICES ASSUME Inv, [Next]_vars PROVE Inv'
  OBVIOUS
<1>1. ASSUME NEW s \in Stores, OpenEdit(s) PROVE Inv'
  BY <1>1, OpenKeeps DEF OpenEdit
<1>2. ASSUME NEW s \in Stores, AddExisting(s) PROVE Inv'
  BY <1>2, AddExistingKeeps
<1>3. ASSUME NEW s \in Stores, OpenCreate(s) PROVE Inv'
  BY <1>3, OpenKeeps DEF OpenCreate
<1>4. CASE Reload
  BY <1>4, ReloadKeeps
<1>5. CASE KeyInventoryChanged
  BY <1>5, KeyInventoryChangedKeeps
<1>6. CASE LoadStep
  BY <1>6, LoadReadsKeeps, CompleteLoadKeeps DEF LoadStep, LoadEnds
<1>7. ASSUME NEW l \in loads, LoadDies(l) PROVE Inv'
  BY <1>7, CompleteLoadKeeps DEF LoadDies
<1>8. CASE ListingEnds
  BY <1>8, ListingEndsKeeps
<1>9. ASSUME NEW settings \in Settings, Edit(settings) PROVE Inv'
  BY <1>9, EditKeeps
<1>10. ASSUME NEW d \in Scopes, SelectScope(d) PROVE Inv'
  BY <1>10, SelectScopeKeeps
<1>11. CASE SaveShortcut
  BY <1>11, SaveShortcutKeeps
<1>12. CASE GitPromptEnds
  BY <1>12, GitPromptEndsKeeps
<1>13. CASE KeyPromptSucceeds
  BY <1>13, KeyPromptSucceedsKeeps
<1>14. CASE KeyPromptDismissed
  BY <1>14, KeyPromptDismissedKeeps
<1>15. ASSUME NEW i \in Slots,
              SaveLands(i) \/ SaveLandsThenFails(i) PROVE Inv'
  BY <1>15, SaveLandsKeeps
<1>16. ASSUME NEW i \in Slots,
              SaveFails(i, "failed") \/ SaveFails(i, "locked") PROVE Inv'
  BY <1>16, SaveFailsKeeps
<1>17. ASSUME NEW i \in Slots, DeliverStep(i) \/ StoreCreatedNotListed(i)
       PROVE  Inv'
  BY <1>17, AnswersKeep, StoreCreatedKeeps DEF DeliverStep
<1>18. CASE UNCHANGED vars
  BY <1>18 DEF vars, Inv, TypeOK, Begun, Carried, LoaderInv,
               ALoadingPageHasALoader, Of, Current
<1> QED BY <1>1, <1>2, <1>3, <1>4, <1>5, <1>6, <1>7, <1>8, <1>9, <1>10, <1>11,
           <1>12, <1>13, <1>14, <1>15, <1>16, <1>17, <1>18 DEF Next

\* The inductive invariant holds in every state of the page.
THEOREM InvHolds == Spec => []Inv
BY InitInv, StepInv, PTL DEF Spec

\* The cells of the page and what its workers carry keep their types, whatever is
\* opened, edited, saved and answered in whatever order.
THEOREM TypeCorrect == Spec => []TypeOK
<1>1. Inv => TypeOK
  BY DEF Inv
<1> QED BY <1>1, InvHolds, PTL

\* The in-flight and queued flags of the page never outlive the save worker whose
\* answer clears them (finish_store_recipients_save).
THEOREM SavesAreCarried == Spec => []AWaitingSaveHasACarrier
<1>1. Inv => AWaitingSaveHasACarrier
  BY DEF Inv, Carried, AWaitingSaveHasACarrier
<1> QED BY <1>1, InvHolds, PTL

\* A page on its spinner has a current load or key listing pending, however many
\* loads were superseded (store_recipients_load_is_current, refresh_recipient_key_list).
THEOREM LoadingPagesHaveLoaders == Spec => []ALoadingPageHasALoader
<1>1. Inv => ALoadingPageHasALoader
  BY DEF Inv, LoaderInv
<1> QED BY <1>1, InvHolds, PTL

\* The two together: the page never waits for an answer that will not come.
THEOREM WaitsAreCarried == Spec => []EveryWaitHasACarrier
<1>1. AWaitingSaveHasACarrier /\ ALoadingPageHasALoader => EveryWaitHasACarrier
  BY DEF EveryWaitHasACarrier
<1> QED BY <1>1, SavesAreCarried, LoadingPagesHaveLoaders, PTL

-----------------------------------------------------------------------------
(* What the nested handlers do to the cells they are not about *)

\* The page shows the same, for the same place, and is as far with its load.
SameCells(p, q) ==
    /\ SameLoad(p, q)
    /\ q.shown = p.shown /\ q.saved = p.saved /\ q.chosenFor = p.chosenFor
    /\ q.scope = p.scope /\ q.scopes = p.scopes

TaskOf(p) == [request |-> p.request, scope |-> p.scope, settings |-> p.shown,
              chosenFor |-> p.chosenFor, phase |-> "running"]

\* Either no save starts, or one does, of what the page shows, in a free slot and
\* only when none is marked as in flight.
Handled(p, s, q, r) ==
    /\ SameCells(p, q)
    /\ p.shown \in Keyless => q.prompts = p.prompts
    /\ \/ r = s /\ q.inFlight = p.inFlight
       \/ /\ ~p.inFlight /\ q.inFlight /\ p.shown \notin Keyless /\ p.request # NoRequest
          /\ \E i \in Slots : s[i] = NoSave /\ r = [s EXCEPT ![i] = TaskOf(p)]

LEMMA SaveNowHandles ==
    ASSUME NEW p \in PageType, NEW s \in Saves, NEW mayPrompt \in BOOLEAN,
           SaveNow(p, s, mayPrompt)
    PROVE  Handled(p, s, page', saves')
<1>1. CASE page' = p /\ saves' = s
  BY <1>1 DEF Handled, SameCells, SameLoad
<1>2. CASE page' = [p EXCEPT !.queued = FALSE] /\ saves' = s
  BY <1>2 DEF Handled, SameCells, SameLoad, PageType
<1>3. CASE p.shown \notin Keyless /\ page' = [p EXCEPT !.prompts = @ \cup {"git"}] /\ saves' = s
  BY <1>3 DEF Handled, SameCells, SameLoad, PageType
<1>4. CASE page' = [p EXCEPT !.queued = TRUE] /\ saves' = s
  BY <1>4 DEF Handled, SameCells, SameLoad, PageType
<1>5. CASE p.shown \notin Keyless /\ p.request # NoRequest /\ ~p.inFlight /\ StartSave(p, s)
  <2> DEFINE i == CHOOSE j \in FreeSlots(s) : TRUE
  <2>1. i \in Slots /\ s[i] = NoSave
    BY <1>5 DEF StartSave, FreeSlots
  <2>2. saves' = [s EXCEPT ![i] = TaskOf(p)]
    BY <1>5 DEF StartSave, TaskOf
  <2>3. page' = [p EXCEPT !.inFlight = TRUE, !.queued = FALSE]
    BY <1>5 DEF StartSave
  <2>4. SameCells(p, page') /\ page'.inFlight
    BY <2>3 DEF SameCells, SameLoad, PageType
  <2> HIDE DEF i
  <2> QED
    BY <1>5, <2>1, <2>2, <2>4 DEF Handled
<1> QED
  BY <1>1, <1>2, <1>3, <1>4, <1>5 DEF SaveNow

LEMMA AutosaveHandles ==
    ASSUME NEW p \in PageType, NEW s \in Saves, Autosave(p, s)
    PROVE  Handled(p, s, page', saves')
<1>1. CASE page' = p /\ saves' = s
  BY <1>1 DEF Handled, SameCells, SameLoad
<1>2. CASE page' = [p EXCEPT !.queued = TRUE] /\ saves' = s
  BY <1>2 DEF Handled, SameCells, SameLoad, PageType
<1>3. CASE SaveNow(p, s, TRUE)
  BY <1>3, SaveNowHandles
<1> QED
  BY <1>1, <1>2, <1>3 DEF Autosave

\* The end of a save takes the mark away and then does no more than the handlers.
LEMMA FinishSaveHandles ==
    ASSUME NEW p \in PageType, NEW s \in Saves, NEW includeDirty \in BOOLEAN,
           FinishSave(p, s, includeDirty)
    PROVE  /\ [p EXCEPT !.inFlight = FALSE] \in PageType
           /\ SameCells(p, [p EXCEPT !.inFlight = FALSE])
           /\ Handled([p EXCEPT !.inFlight = FALSE], s, page', saves')
<1> DEFINE done == [p EXCEPT !.inFlight = FALSE]
           next == [done EXCEPT !.queued = FALSE]
<1>1. done \in PageType /\ SameCells(p, done)
  BY DEF PageType, SameCells, SameLoad
<1>2. /\ next \in PageType /\ SameCells(done, next)
      /\ next.inFlight = done.inFlight /\ next.prompts = done.prompts
      /\ TaskOf(next) = TaskOf(done)
  BY DEF PageType, SameCells, SameLoad, TaskOf
<1>3. CASE Autosave(next, s)
  <2>1. Handled(next, s, page', saves')
    BY <1>2, <1>3, AutosaveHandles
  <2> HIDE DEF next, done
  <2>2. Handled(done, s, page', saves')
    BY <1>2, <2>1 DEF Handled, SameCells, SameLoad
  <2> QED
    BY <1>1, <2>2 DEF done
<1>4. CASE page' = done /\ saves' = s
  <2>1. Handled(done, s, page', saves')
    BY <1>4 DEF Handled, SameCells, SameLoad
  <2> QED
    BY <1>1, <2>1
<1> QED
  BY <1>3, <1>4 DEF FinishSave

-----------------------------------------------------------------------------
(* Every load has a number of its own, and the one that has the page's keeps *)
(* the spinner on: its key listing has not begun                              *)

LoadInv ==
    /\ \A l, m \in loads : l.generation = m.generation => l = m
    /\ \A l \in loads : l.generation = page.generation =>
          /\ page.loading
          /\ listing.running.generation # page.generation
          /\ listing.waiting.generation # page.generation

\* The step starts the load m and no other.
Starts(m) ==
    /\ loads' = loads \cup {m} /\ listing' = listing
    /\ m.generation = page.generation + 1
    /\ page'.generation = page.generation + 1 /\ page'.loading

\* The page, what it waits for and its loads are as they were, or a load starts.
LEMMA LoadsStartOrStay ==
    ASSUME Inv,
           \/ \E s \in Stores : OpenEdit(s) \/ OpenCreate(s)
           \/ Reload \/ SaveShortcut \/ GitPromptEnds \/ KeyPromptSucceeds
           \/ KeyPromptDismissed
           \/ \E settings \in Settings : Edit(settings)
           \/ \E d \in Scopes : SelectScope(d)
           \/ \E i \in Slots : \/ SaveLands(i) \/ SaveLandsThenFails(i)
                               \/ SaveFails(i, "failed") \/ SaveFails(i, "locked")
                               \/ DeliverStep(i) \/ StoreCreatedNotListed(i)
    PROVE  \/ SameLoad(page, page') /\ UNCHANGED <<loads, listing>>
           \/ \E m : Starts(m)
<1>1. TypeOK /\ page \in PageType /\ saves \in Saves
  BY DEF Inv, TypeOK, Saves
<1>a. ASSUME NEW s \in Stores, OpenEdit(s) \/ OpenCreate(s)
      PROVE  \E m : Starts(m)
  <2>1. PICK mode \in {"create", "edit"}, values \in {"read", "provided"} :
           /\ page' = Loading(Opened(s, mode)) /\ listing' = listing
           /\ loads' = loads \cup {NewLoad(Opened(s, mode), values)}
    BY <1>a DEF OpenEdit, OpenCreate
  <2>2. Opened(s, mode) \in PageType /\ Opened(s, mode).generation = page.generation
        /\ Opened(s, mode).request \in Requests
    BY <1>1, OpenedType
  <2>3. page'.generation = page.generation + 1 /\ page'.loading
    BY <2>1, <2>2, LoadingType
  <2> QED
    BY <2>1, <2>2, <2>3, NewLoadType DEF Starts
<1>b. ASSUME Reload
      PROVE  \E m : Starts(m)
  <2>1. /\ page' = Loading(page) /\ listing' = listing
        /\ loads' = loads \cup {NewLoad(page, "keep")} /\ page.request \in Requests
    BY <1>1, <1>b DEF Reload, PageType
  <2> QED
    BY <1>1, <2>1, LoadingType, NewLoadType DEF Starts
<1>c. ASSUME KeyPromptSucceeds
      PROVE  \E m : Starts(m)
  <2> DEFINE p == [page EXCEPT !.prompts = @ \ {"key"}]
  <2>1. /\ "key" \in page.prompts /\ SaveNow(Loading(p), saves, TRUE) /\ listing' = listing
        /\ loads' = loads \cup {NewLoad(p, "keep")}
    BY <1>c DEF KeyPromptSucceeds
  <2>2. p \in PageType /\ p.generation = page.generation /\ p.request \in Requests
    BY <1>1, <2>1, AnswerType DEF SameLoad, PageType
  <2> HIDE DEF p
  <2>3. Loading(p) \in PageType /\ Loading(p).generation = p.generation + 1 /\ Loading(p).loading
    BY <2>2, LoadingType
  <2>4. SameLoad(Loading(p), page')
    BY <1>1, <2>1, <2>3, SaveNowHandles DEF Handled, SameCells
  <2> QED
    BY <2>1, <2>2, <2>3, <2>4, NewLoadType DEF Starts, SameLoad
<1>d. ASSUME NEW i \in Slots, StoreCreated(i)
      PROVE  \E m : Starts(m)
  <2> DEFINE p == [MarkedSaved(i) EXCEPT !.request = [store |-> saves[i].request.store,
                                                       mode |-> "edit"]]
  <2>1. /\ saves[i].phase # "free" /\ FinishSave(Loading(p), Freed(i), TRUE)
        /\ listing' = listing /\ loads' = loads \cup {NewLoad(p, "keep")}
    BY <1>d DEF StoreCreated
  <2>2. p \in PageType /\ p.generation = page.generation /\ p.request \in Requests
    <3>1. saves[i] # NoSave /\ saves[i].request.store \in Stores
      BY <1>1, <2>1, PhaseOfSave DEF Requests
    <3>2. [store |-> saves[i].request.store, mode |-> "edit"] \in Requests
      BY <3>1 DEF Requests
    <3>3. MarkedSaved(i) \in PageType /\ MarkedSaved(i).generation = page.generation
      BY <1>1, <3>1, MarkedSavedType DEF SameLoad
    <3> QED
      BY <3>2, <3>3 DEF PageType
  <2> HIDE DEF p
  <2>3. Loading(p) \in PageType /\ Loading(p).generation = p.generation + 1 /\ Loading(p).loading
    BY <2>2, LoadingType
  <2>4. SameLoad(Loading(p), page')
    BY <1>1, <2>1, <2>3, FreedType, FinishSaveKeeps
  <2> QED
    BY <2>1, <2>2, <2>3, <2>4, NewLoadType DEF Starts, SameLoad
<1>e. ASSUME \/ SaveShortcut \/ GitPromptEnds \/ KeyPromptDismissed
             \/ \E settings \in Settings : Edit(settings)
             \/ \E d \in Scopes : SelectScope(d)
      PROVE  SameLoad(page, page') /\ UNCHANGED <<loads, listing>>
  <2>1. CASE SaveShortcut
    BY <1>1, <2>1, SaveNowHandles DEF SaveShortcut, Handled, SameCells
  <2>2. CASE GitPromptEnds
    <3> DEFINE p == [page EXCEPT !.prompts = @ \ {"git"}]
    <3>1. /\ p \in PageType /\ SameLoad(page, p) /\ SaveNow(p, saves, FALSE)
          /\ UNCHANGED <<loads, listing>>
      BY <2>2, AnswerType DEF GitPromptEnds
    <3> HIDE DEF p
    <3> QED
      BY <1>1, <3>1, SaveNowHandles DEF Handled, SameCells, SameLoad
  <2>3. CASE KeyPromptDismissed
    BY <1>1, <2>3 DEF KeyPromptDismissed, SameLoad, PageType
  <2>4. ASSUME NEW settings \in Settings, Edit(settings)
        PROVE  SameLoad(page, page') /\ UNCHANGED <<loads, listing>>
    <3> DEFINE p == [page EXCEPT !.shown = settings]
    <3>1. /\ p \in PageType /\ SameLoad(page, p) /\ Autosave(p, saves)
          /\ UNCHANGED <<loads, listing>>
      BY <1>1, <2>4 DEF Edit, PageType, SameLoad
    <3> HIDE DEF p
    <3> QED
      BY <1>1, <3>1, AutosaveHandles DEF Handled, SameCells, SameLoad
  <2>5. ASSUME NEW d \in Scopes, SelectScope(d)
        PROVE  SameLoad(page, page') /\ UNCHANGED <<loads, listing>>
    BY <1>1, <2>5 DEF SelectScope, Show, SameLoad, PageType
  <2> QED
    BY <1>e, <2>1, <2>2, <2>3, <2>4, <2>5
<1>f. ASSUME NEW i \in Slots,
             \/ SaveLands(i) \/ SaveLandsThenFails(i)
             \/ SaveFails(i, "failed") \/ SaveFails(i, "locked")
      PROVE  SameLoad(page, page') /\ UNCHANGED <<loads, listing>>
  BY <1>f DEF SaveLands, SaveLandsThenFails, SaveFails, SameLoad
<1>g. ASSUME NEW i \in Slots,
             EditSaved(i) \/ StoreCreatedNotListed(i) \/ SaveFailed(i) \/ SaveNeedsKey(i)
      PROVE  SameLoad(page, page') /\ UNCHANGED <<loads, listing>>
  <2>1. PICK p \in PageType, b \in BOOLEAN : SameLoad(page, p) /\ FinishSave(p, Freed(i), b)
    <3>1. saves[i].phase # "free"
      BY <1>g DEF EditSaved, StoreCreatedNotListed, SaveFailed, SaveNeedsKey
    <3>2. MarkedSaved(i) \in PageType /\ SameLoad(page, MarkedSaved(i))
      BY <1>1, <3>1, PhaseOfSave, MarkedSavedType
    <3>3. /\ [page EXCEPT !.prompts = @ \cup {"key"}] \in PageType
          /\ SameLoad(page, [page EXCEPT !.prompts = @ \cup {"key"}])
      BY <1>1 DEF PageType, SameLoad
    <3>4. SameLoad(page, page)
      BY DEF SameLoad
    <3> QED
      BY <1>1, <1>g, <3>2, <3>3, <3>4
         DEF EditSaved, StoreCreatedNotListed, SaveFailed, SaveNeedsKey
  <2>2. SameLoad(p, page')
    BY <1>1, <2>1, FreedType, FinishSaveKeeps
  <2>3. UNCHANGED <<loads, listing>>
    BY <1>g DEF EditSaved, StoreCreatedNotListed, SaveFailed, SaveNeedsKey
  <2> QED
    BY <2>1, <2>2, <2>3 DEF SameLoad
<1> QED
  BY <1>a, <1>b, <1>c, <1>d, <1>e, <1>f, <1>g DEF DeliverStep

LEMMA LoadInvStays ==
    ASSUME LoadInv, SameLoad(page, page'), UNCHANGED <<loads, listing>>
    PROVE  LoadInv'
BY DEF LoadInv, SameLoad

LEMMA LoadInvStarts ==
    ASSUME Inv, LoadInv, NEW m, Starts(m)
    PROVE  LoadInv'
<1>1. /\ page.generation \in Nat /\ \A l \in loads : l.generation \in Nat
      /\ listing.running.generation \in Nat /\ listing.waiting.generation \in Nat
  BY DEF Inv, TypeOK, PageType, LoadType, Listings
<1>2. /\ \A l \in loads : l.generation < m.generation
      /\ listing.running.generation < m.generation
      /\ listing.waiting.generation < m.generation
      /\ m.generation = page'.generation
  BY <1>1 DEF Inv, LoaderInv, Starts
<1>3. \A k, l \in loads' : k.generation = l.generation => k = l
  <2> SUFFICES ASSUME NEW k \in loads', NEW l \in loads', k.generation = l.generation
               PROVE  k = l
    OBVIOUS
  <2>1. (k \in loads \/ k = m) /\ (l \in loads \/ l = m)
    BY DEF Starts
  <2>2. m.generation \in Nat
    BY <1>1 DEF Starts
  <2>3. k \in loads => l # m
    BY <1>1, <1>2, <2>2
  <2>4. l \in loads => k # m
    BY <1>1, <1>2, <2>2
  <2> QED
    BY <2>1, <2>3, <2>4 DEF LoadInv
<1>4. ASSUME NEW l \in loads', l.generation = page'.generation
      PROVE  /\ page'.loading
             /\ listing'.running.generation # page'.generation
             /\ listing'.waiting.generation # page'.generation
  BY <1>1, <1>2 DEF Starts
<1> QED
  BY <1>3, <1>4 DEF LoadInv

LEMMA LoadInvKept == ASSUME Inv, LoadInv, [Next]_vars PROVE LoadInv'
<1>1. /\ TypeOK /\ page \in PageType /\ page.generation \in Nat
      /\ \A l \in loads : l.generation \in Nat \ {0} /\ l.generation <= page.generation
  BY DEF Inv, TypeOK, PageType, LoadType, LoaderInv
<1>a. ASSUME \/ SameLoad(page, page') /\ UNCHANGED <<loads, listing>>
             \/ \E m : Starts(m)
      PROVE  LoadInv'
  BY <1>a, LoadInvStays, LoadInvStarts
<1>b. ASSUME NEW s \in Stores, AddExisting(s)
      PROVE  LoadInv'
  <2> DEFINE p == Opened(s, "edit")
             first == NewLoad(p, "read")
             second == NewLoad(Loading(p), "keep")
  <2>1. p \in PageType /\ p.generation = page.generation /\ p.request \in Requests
    BY <1>1, OpenedType
  <2>2. /\ page' = Loading(Loading(p)) /\ loads' = loads \cup {first, second}
        /\ listing' = listing
    BY <1>b DEF AddExisting
  <2> HIDE DEF p
  <2>3. /\ Loading(p) \in PageType /\ Loading(p).generation = page.generation + 1
        /\ Loading(p).request \in Requests
    BY <2>1, LoadingType
  <2>4. page'.generation = page.generation + 2 /\ page'.loading
    <3>1. /\ Loading(Loading(p)).generation = Loading(p).generation + 1
          /\ Loading(Loading(p)).loading = TRUE
      BY <2>3, LoadingType
    <3>2. page'.generation = (page.generation + 1) + 1 /\ page'.loading = TRUE
      BY <2>2, <2>3, <3>1
    <3> QED
      BY <1>1, <3>2
  <2>5. first.generation = page.generation + 1 /\ second.generation = page.generation + 2
    BY <1>1, <2>1, <2>3, NewLoadType
  <2> HIDE DEF first, second
  <2>6. /\ listing.running.generation \in Nat /\ listing.running.generation <= page.generation
        /\ listing.waiting.generation \in Nat /\ listing.waiting.generation <= page.generation
    BY DEF Inv, TypeOK, Listings, LoaderInv
  <2>7. \A k, l \in loads' : k.generation = l.generation => k = l
    <3> SUFFICES ASSUME NEW k \in loads', NEW l \in loads', k.generation = l.generation
                 PROVE  k = l
      OBVIOUS
    <3>1. (k \in loads \/ k = first \/ k = second) /\ (l \in loads \/ l = first \/ l = second)
      BY <2>2
    <3>2. CASE k \in loads
      BY <1>1, <2>5, <3>1, <3>2 DEF LoadInv
    <3>3. CASE l \in loads
      BY <1>1, <2>5, <3>1, <3>3 DEF LoadInv
    <3>4. CASE k \notin loads /\ l \notin loads
      BY <1>1, <2>5, <3>1, <3>4
    <3> QED
      BY <3>2, <3>3, <3>4
  <2> QED
    BY <1>1, <2>2, <2>4, <2>6, <2>7 DEF LoadInv
<1>c. ASSUME KeyInventoryChanged
      PROVE  LoadInv'
  <2>1. page'.generation = page.generation + 1 /\ loads' = loads
    BY <1>1, <1>c, LoadingType DEF KeyInventoryChanged
  <2> QED
    BY <1>1, <2>1 DEF LoadInv
<1>d. ASSUME NEW l \in loads, LoadReads(l)
      PROVE  LoadInv'
  <2> DEFINE m == [l EXCEPT !.read = TRUE, !.answer = LoadedFrom(l)]
  <2>1. /\ loads' = (loads \ {l}) \cup {m} /\ page' = page /\ listing' = listing
    BY <1>d DEF LoadReads
  <2>2. m.generation = l.generation
    BY <1>1 DEF TypeOK, LoadType
  <2> HIDE DEF m
  <2> QED
    BY <2>1, <2>2 DEF LoadInv
<1>e. ASSUME NEW l \in loads, CompleteLoad(l)
      PROVE  LoadInv'
  <2>1. loads' = loads \ {l}
    BY <1>e DEF CompleteLoad
  <2>2. CASE Current(page, l.generation, l.request)
    <3>1. SameLoad(page, page')
      <4>1. Applied(l) \in PageType /\ SameLoad(page, Applied(l)) /\ saves \in Saves
        BY <1>1, AppliedType DEF TypeOK, Saves
      <4>2. Autosave(Applied(l), saves) => SameLoad(Applied(l), page')
        BY <4>1, AutosaveHandles DEF Handled, SameCells
      <4> QED
        BY <1>e, <2>2, <4>1, <4>2 DEF CompleteLoad, SameLoad
    <3>2. \A k \in loads' : k.generation # page'.generation
      BY <2>1, <2>2, <3>1 DEF LoadInv, SameLoad, Current
    <3> QED
      BY <2>1, <3>2 DEF LoadInv
  <2>3. CASE ~Current(page, l.generation, l.request)
    BY <1>e, <2>1, <2>3 DEF CompleteLoad, LoadInv
  <2> QED
    BY <2>2, <2>3
<1>f. ASSUME ListingEnds
      PROVE  LoadInv'
  <2>1. /\ listing'.running = listing.waiting /\ listing'.waiting = NoListing
        /\ loads' = loads
    BY <1>f DEF ListingEnds
  <2>2. page'.generation = page.generation /\ (page'.loading = page.loading \/
           listing.running.generation = page.generation)
    BY <1>1, <1>f DEF ListingEnds, PageType, Current
  <2>3. NoListing.generation = 0
    BY DEF NoListing
  <2> QED
    BY <1>1, <2>1, <2>2, <2>3 DEF LoadInv
<1>u. ASSUME UNCHANGED vars
      PROVE  LoadInv'
  BY <1>u DEF vars, LoadInv
<1> QED
  BY <1>a, <1>b, <1>c, <1>d, <1>e, <1>f, <1>u, LoadsStartOrStay
     DEF Next, LoadStep, LoadEnds, LoadDies

-----------------------------------------------------------------------------
(* One store: what is saved was chosen for the place it is saved in *)

UsedInv == used \in [{"opens", "edits", "reloads", "failures", "deaths"} -> Nat]

LEMMA UsedKept == UsedInv /\ [Next]_vars => UsedInv'
<1> SUFFICES ASSUME UsedInv, [Next]_vars PROVE UsedInv'
  OBVIOUS
<1>1. ASSUME NEW what \in {"opens", "edits", "reloads", "failures", "deaths"}, NEW bound,
             Spend(what, bound)
      PROVE  UsedInv'
  BY <1>1 DEF UsedInv, Spend
<1>2. used' = used => UsedInv'
  BY DEF UsedInv
<1>3. \/ used' = used
      \/ \E what \in {"opens", "edits", "reloads", "failures", "deaths"}, bound \in
             {MaxOpens, MaxEdits, MaxReloads, MaxFailures, MaxDeaths} : Spend(what, bound)
  BY DEF Next, vars, OpenEdit, AddExisting, OpenCreate, Reload, KeyInventoryChanged,
         LoadStep, LoadReads, LoadEnds, LoadDies, ListingEnds, Edit, SelectScope,
         SaveShortcut, GitPromptEnds, KeyPromptSucceeds, KeyPromptDismissed, SaveLands,
         SaveLandsThenFails, SaveFails, DeliverStep, EditSaved, StoreCreated, SaveFailed,
         SaveNeedsKey, StoreCreatedNotListed
<1> QED
  BY <1>1, <1>2, <1>3

\* The root, or a directory with a .gpg-id: files are never taken away.
Backed(home, d) == d = Root \/ disk[home][d] # NoFile

InPlace(home, l) ==
    /\ Backed(home, l.scope) /\ Backed(home, l.answer.scope)
    /\ \A d \in l.answer.scopes : Backed(home, d)
    /\ l.read /\ ~l.answer.replaces => l.answer.scope = l.scope

\* What the page p shows was chosen for its place, and so was what is being saved.
Chosen(home, p, s) ==
    /\ p.chosenFor \in {<<>>, <<home, p.scope>>}
    /\ \A i \in Slots : s[i] # NoSave =>
          s[i].chosenFor \in {<<>>, <<s[i].request.store, s[i].scope>>}

ScopesInv(home) ==
    /\ Backed(home, page.scope)
    /\ \A d \in page.scopes : Backed(home, d)

LoadsInv(home) ==
    \A l \in loads : /\ InPlace(home, l)
                     /\ l.generation = page.generation => l.scope = page.scope

PlaceInv(home) == ScopesInv(home) /\ LoadsInv(home) /\ Chosen(home, page, saves)

LEMMA HandledChosen ==
    ASSUME NEW home, Stores = {home}, NEW p \in PageType, NEW s \in Saves, NEW q, NEW r,
           Chosen(home, p, s), Handled(p, s, q, r)
    PROVE  Chosen(home, q, r)
<1>1. q.chosenFor = p.chosenFor /\ q.scope = p.scope
  BY DEF Handled, SameCells
<1>2. CASE r = s
  BY <1>1, <1>2 DEF Chosen
<1>3. CASE p.request # NoRequest /\ \E i \in Slots : r = [s EXCEPT ![i] = TaskOf(p)]
  <2>1. PICK i \in Slots : r = [s EXCEPT ![i] = TaskOf(p)]
    BY <1>3
  <2>2. p.request.store = home
    BY <1>3 DEF PageType, Requests
  <2>3. TaskOf(p).chosenFor \in {<<>>, <<TaskOf(p).request.store, TaskOf(p).scope>>}
    BY <2>2 DEF TaskOf, Chosen
  <2>4. \A j \in Slots : r[j] = IF j = i THEN TaskOf(p) ELSE s[j]
    BY <2>1 DEF Saves
  <2> QED
    BY <1>1, <2>3, <2>4 DEF Chosen
<1> QED
  BY <1>2, <1>3 DEF Handled

\* No step takes a .gpg-id away.
LEMMA FilesStay ==
    ASSUME Inv, [Next]_vars, NEW home, Stores = {home}, NEW d \in Scopes, Backed(home, d)
    PROVE  Backed(home, d)'
<1>1. CASE disk' = disk
  BY <1>1 DEF Backed
<1>2. ASSUME NEW i \in Slots, SaveLands(i) \/ SaveLandsThenFails(i)
      PROVE  Backed(home, d)'
  <2>1. /\ TypeOK /\ Running(i)
        /\ disk' = [disk EXCEPT ![saves[i].request.store][saves[i].scope] = saves[i].settings]
    BY <1>2 DEF Inv, SaveLands, SaveLandsThenFails
  <2>2. saves[i] \in SaveType
    BY <2>1, PhaseOfSave DEF Running
  <2>3. saves[i].settings # NoFile /\ saves[i].request.store = home /\ saves[i].scope \in Scopes
    BY <2>2, PageAssumption DEF SaveType, Requests
  <2> QED
    BY <2>1, <2>3 DEF Backed, TypeOK
<1>3. disk' = disk \/ \E i \in Slots : SaveLands(i) \/ SaveLandsThenFails(i)
  BY DEF Next, vars, OpenEdit, AddExisting, OpenCreate, Reload, KeyInventoryChanged,
         LoadStep, LoadReads, LoadEnds, LoadDies, CompleteLoad, ListingEnds, Edit,
         SelectScope, SaveShortcut, GitPromptEnds, KeyPromptSucceeds, KeyPromptDismissed,
         SaveFails, DeliverStep, EditSaved, StoreCreated, SaveFailed, SaveNeedsKey,
         StoreCreatedNotListed
<1> QED
  BY <1>1, <1>2, <1>3

\* A new load is for the place the page stands at.
LEMMA NewLoadInPlace ==
    ASSUME NEW home, NEW p, NEW values, Backed(home, p.scope)
    PROVE  /\ InPlace(home, NewLoad(p, values))
           /\ NewLoad(p, values).scope = p.scope
<1> DEFINE m == NewLoad(p, values)
<1>1. /\ m.scope = p.scope /\ m.answer.scope = Root /\ m.answer.scopes = {Root}
      /\ m.read = FALSE
  BY DEF NewLoad, Fallback
<1> HIDE DEF m
<1>2. InPlace(home, m)
  BY <1>1 DEF InPlace, Backed
<1> QED
  BY <1>1, <1>2 DEF m

\* What a load reads is a directory with a .gpg-id, or the root.
LEMMA ReadInPlace ==
    ASSUME NEW home, Stores = {home}, TypeOK, NEW l \in loads, InPlace(home, l)
    PROVE  InPlace(home, [l EXCEPT !.read = TRUE, !.answer = LoadedFrom(l)])
<1> DEFINE found == RelevantScopes(l.request.store)
           scopes == IF l.values = "provided" THEN found \cup {l.scope} ELSE found
           scope == IF l.scope \in scopes THEN l.scope ELSE FirstScope(scopes)
           replaces == l.values # "keep" \/ scope # l.scope
           settings == IF l.values = "provided" \/ ~replaces
                       THEN Blank ELSE ValueAt(l.request.store, scope)
           m == [l EXCEPT !.read = TRUE, !.answer = LoadedFrom(l)]
<1>1. l \in LoadType /\ l.request.store = home /\ Backed(home, l.scope)
  BY DEF TypeOK, LoadType, Requests, InPlace
<1>2. found # {} /\ \A d \in found : Backed(home, d)
  BY <1>1 DEF RelevantScopes, Backed
<1>3. scopes # {} /\ \A d \in scopes : Backed(home, d)
  BY <1>1, <1>2
<1>4. Backed(home, scope)
  BY <1>3 DEF FirstScope
<1>5. LoadedFrom(l) = [scopes |-> scopes, scope |-> scope,
                       replaces |-> replaces, settings |-> settings]
  BY DEF LoadedFrom
<1>6. ~replaces => scope = l.scope
  OBVIOUS
<1>7. m.scope = l.scope /\ m.answer = LoadedFrom(l)
  BY <1>1 DEF LoadType
<1> HIDE DEF scopes, scope, replaces, settings, m
<1>8. m.answer.scopes = scopes /\ m.answer.scope = scope /\ m.answer.replaces = replaces
  BY <1>5, <1>7
<1>9. InPlace(home, m)
  BY <1>1, <1>3, <1>4, <1>6, <1>7, <1>8 DEF InPlace
<1> QED
  BY <1>9 DEF m

LEMMA StaysInPlace ==
    ASSUME Inv, [Next]_vars, NEW home, Stores = {home}, NEW l \in LoadType, InPlace(home, l)
    PROVE  InPlace(home, l)'
<1>1. l.scope \in Scopes /\ l.answer.scope \in Scopes /\ l.answer.scopes \subseteq Scopes
  BY DEF LoadType
<1>2. \A d \in Scopes : Backed(home, d) => Backed(home, d)'
  BY FilesStay
<1> QED
  BY <1>1, <1>2 DEF InPlace

LEMMA LoadsInvStays ==
    ASSUME Inv, LoadInv, [Next]_vars, NEW home, Stores = {home}, LoadsInv(home),
           loads' = loads, page'.generation = page.generation,
           page'.scope = page.scope \/ ~page.loading
    PROVE  LoadsInv(home)'
<1>1. \A l \in loads : InPlace(home, l)'
  BY StaysInPlace DEF LoadsInv, Inv, TypeOK
<1> QED
  BY <1>1 DEF LoadsInv, LoadInv

LEMMA LoadsInvStarts ==
    ASSUME Inv, [Next]_vars, NEW home, Stores = {home}, LoadsInv(home),
           NEW m \in LoadType, Starts(m), InPlace(home, m), m.scope = page'.scope
    PROVE  LoadsInv(home)'
<1>1. \A l \in loads' : InPlace(home, l)'
  BY StaysInPlace DEF LoadsInv, Inv, TypeOK, Starts
<1>2. \A l \in loads : l.generation # page'.generation
  BY DEF Inv, TypeOK, PageType, LoadType, LoaderInv, Starts
<1> QED
  BY <1>1, <1>2 DEF LoadsInv, Starts

\* A step that leaves the page where it is.
LEMMA ScopesInvStays ==
    ASSUME Inv, [Next]_vars, NEW home, Stores = {home}, ScopesInv(home),
           page'.scope = page.scope, page'.scopes = page.scopes
    PROVE  ScopesInv(home)'
<1>1. page.scope \in Scopes /\ page.scopes \subseteq Scopes
  BY DEF Inv, TypeOK, PageType
<1> QED
  BY <1>1, FilesStay DEF ScopesInv

LEMMA PlaceInit == ASSUME NEW home, Stores = {home}, Init PROVE PlaceInv(home)
BY DEF Init, PlaceInv, ScopesInv, LoadsInv, Chosen, Backed

\* The page that opening makes stands at the root of the store.
LEMMA OpenedInPlace ==
    ASSUME NEW home, Stores = {home}, TypeOK, PlaceInv(home), NEW mode \in {"create", "edit"},
           mode = "create" => \A d \in Scopes : disk[home][d] = NoFile
    PROVE  /\ Opened(home, mode) \in PageType
           /\ Opened(home, mode).scope = Root /\ Opened(home, mode).scopes = {}
           /\ Opened(home, mode).chosenFor \in {<<>>, <<home, Root>>}
<1>1. page \in PageType /\ Opened(home, mode) \in PageType
  BY OpenedType DEF TypeOK
<1> DEFINE p == [page EXCEPT !.request = [store |-> home, mode |-> mode],
                             !.scopes = {}, !.scope = Root,
                             !.inFlight = FALSE, !.queued = FALSE]
<1>2. p.scope = Root /\ p.scopes = {} /\ p.chosenFor = page.chosenFor
  BY <1>1 DEF PageType
<1>3. CASE mode = "edit"
  <2>1. Opened(home, mode) = Show(p, <<home, Root>>, Blank)
    BY <1>3 DEF Opened
  <2>2. DOMAIN p = DOMAIN page /\ "chosenFor" \in DOMAIN page
    BY <1>1 DEF PageType
  <2> QED
    BY <1>1, <1>2, <2>1 DEF Show, PageType
<1>4. CASE mode = "create"
  <2>1. Opened(home, mode) = p
    BY <1>4 DEF Opened
  <2>2. page.scope \in Scopes
    BY <1>1 DEF PageType
  <2>3. page.scope = Root
    BY <1>4, <2>2 DEF PlaceInv, ScopesInv, Backed
  <2> QED
    BY <1>1, <1>2, <2>1, <2>3 DEF PlaceInv, Chosen
<1> QED
  BY <1>3, <1>4

LEMMA PlaceKeptByOpening ==
    ASSUME Inv, NEW home, Stores = {home}, PlaceInv(home), [Next]_vars,
           OpenEdit(home) \/ OpenCreate(home)
    PROVE  PlaceInv(home)'
<1>1. TypeOK /\ saves \in Saves
  BY DEF Inv, TypeOK, Saves
<1>2. PICK mode \in {"create", "edit"}, values \in {"read", "provided"} :
         /\ page' = Loading(Opened(home, mode)) /\ UNCHANGED <<disk, listing, saves>>
         /\ loads' = loads \cup {NewLoad(Opened(home, mode), values)}
         /\ mode = "create" => \A d \in Scopes : disk[home][d] = NoFile
  BY DEF OpenEdit, OpenCreate
<1> DEFINE p == Opened(home, mode)
           m == NewLoad(p, values)
<1>3. /\ p \in PageType /\ p.scope = Root /\ p.scopes = {}
      /\ p.chosenFor \in {<<>>, <<home, Root>>}
  BY <1>1, <1>2, OpenedInPlace
<1>4. p.generation = page.generation /\ p.request \in Requests
  BY <1>1, OpenedType
<1>5. page' = Loading(p) /\ loads' = loads \cup {m}
  BY <1>2
<1> HIDE DEF p
<1>6. /\ page'.scope = Root /\ page'.scopes = {} /\ page'.chosenFor = p.chosenFor
      /\ page'.generation = page.generation + 1 /\ page'.loading = TRUE
  BY <1>3, <1>4, <1>5 DEF Loading, PageType
<1>7. m \in LoadType /\ m.generation = page.generation + 1 /\ m.scope = Root /\ InPlace(home, m)
  BY <1>3, <1>4, NewLoadType, NewLoadInPlace DEF Backed
<1> HIDE DEF m
<1>8. Starts(m) /\ m.scope = page'.scope
  BY <1>2, <1>5, <1>6, <1>7 DEF Starts
<1>9. LoadsInv(home)'
  BY <1>7, <1>8, LoadsInvStarts DEF PlaceInv
<1>10. Chosen(home, page', saves')
  BY <1>2, <1>3, <1>6 DEF PlaceInv, Chosen
<1>11. ScopesInv(home)'
  BY <1>6 DEF ScopesInv, Backed
<1> QED
  BY <1>9, <1>10, <1>11 DEF PlaceInv

LEMMA PlaceKeptByAdding ==
    ASSUME Inv, NEW home, Stores = {home}, PlaceInv(home), [Next]_vars, AddExisting(home)
    PROVE  PlaceInv(home)'
<1> DEFINE p == Opened(home, "edit")
           first == NewLoad(p, "read")
           second == NewLoad(Loading(p), "keep")
<1>1. TypeOK /\ saves \in Saves /\ page.generation \in Nat
  BY DEF Inv, TypeOK, Saves, PageType
<1>2. /\ page' = Loading(Loading(p)) /\ loads' = loads \cup {first, second}
      /\ UNCHANGED <<disk, saves>>
  BY DEF AddExisting
<1>3. /\ p \in PageType /\ p.scope = Root /\ p.scopes = {}
      /\ p.chosenFor \in {<<>>, <<home, Root>>}
  BY <1>1, OpenedInPlace
<1>4. p.generation = page.generation /\ p.request \in Requests
  BY <1>1, OpenedType
<1> HIDE DEF p
<1>5. /\ Loading(p) \in PageType /\ Loading(p).request \in Requests /\ Loading(p).scope = Root
      /\ Loading(p).scopes = {} /\ Loading(p).chosenFor = p.chosenFor
      /\ Loading(p).generation = page.generation + 1
  <2>1. Loading(p) \in PageType /\ Loading(p).request \in Requests
    BY <1>3, <1>4, LoadingType
  <2> QED
    BY <1>3, <1>4, <2>1 DEF Loading, PageType
<1>6. /\ page'.scope = Root /\ page'.scopes = {} /\ page'.chosenFor = p.chosenFor
      /\ page'.generation = (page.generation + 1) + 1
  <2> DEFINE q == Loading(p)
  <2>1. page' = Loading(q) /\ q \in PageType
    BY <1>2, <1>5
  <2>2. /\ q.scope = Root /\ q.scopes = {} /\ q.chosenFor = p.chosenFor
        /\ q.generation = page.generation + 1
    BY <1>5
  <2> HIDE DEF q
  <2> QED
    BY <2>1, <2>2 DEF Loading, PageType
<1>7. /\ first.scope = Root /\ InPlace(home, first) /\ first \in LoadType
      /\ second.scope = Root /\ InPlace(home, second) /\ second \in LoadType
  BY <1>3, <1>4, <1>5, NewLoadType, NewLoadInPlace DEF Backed
<1> HIDE DEF first, second
<1>8. LoadsInv(home)'
  <2>1. \A l \in loads' : InPlace(home, l)'
    BY <1>2, <1>7, StaysInPlace DEF PlaceInv, LoadsInv, Inv, TypeOK
  <2>2. \A l \in loads : l.generation # page'.generation
    BY <1>1, <1>6 DEF Inv, TypeOK, LoadType, LoaderInv
  <2> QED
    BY <1>2, <1>6, <1>7, <2>1, <2>2 DEF LoadsInv
<1>9. Chosen(home, page', saves')
  BY <1>2, <1>3, <1>6 DEF PlaceInv, Chosen
<1>10. ScopesInv(home)'
  BY <1>6 DEF ScopesInv, Backed
<1> QED
  BY <1>8, <1>9, <1>10 DEF PlaceInv

\* A step that starts a load of the page q, which then may start a save.
LEMMA PlaceKeptByLoading ==
    ASSUME Inv, NEW home, Stores = {home}, PlaceInv(home), [Next]_vars,
           NEW q \in PageType, q.generation = page.generation, q.request \in Requests,
           q.scope = page.scope, q.scopes = page.scopes, q.chosenFor = page.chosenFor,
           loads' = loads \cup {NewLoad(q, "keep")}, listing' = listing,
           NEW s \in Saves, NEW p \in PageType, SameCells(Loading(q), p),
           \A i \in Slots : s[i] = saves[i] \/ s[i] = NoSave,
           Handled(p, s, page', saves')
    PROVE  PlaceInv(home)'
<1> DEFINE m == NewLoad(q, "keep")
<1>1. /\ Loading(q).scope = page.scope /\ Loading(q).scopes = page.scopes
      /\ Loading(q).chosenFor = page.chosenFor
      /\ Loading(q).generation = page.generation + 1 /\ Loading(q).loading = TRUE
  BY DEF Loading, PageType
<1>2. /\ p.scope = page.scope /\ p.scopes = page.scopes /\ p.chosenFor = page.chosenFor
      /\ p.generation = page.generation + 1 /\ p.loading = TRUE
  BY <1>1 DEF SameCells, SameLoad
<1>3. /\ page'.scope = page.scope /\ page'.scopes = page.scopes
      /\ page'.generation = page.generation + 1 /\ page'.loading = TRUE
  BY <1>2 DEF Handled, SameCells, SameLoad
<1>4. /\ m \in LoadType /\ m.generation = page.generation + 1 /\ m.scope = page.scope
      /\ InPlace(home, m)
  BY NewLoadType, NewLoadInPlace DEF PlaceInv, ScopesInv
<1> HIDE DEF m
<1>5. Starts(m)
  BY <1>3, <1>4 DEF Starts, m
<1>6. LoadsInv(home)'
  BY <1>3, <1>4, <1>5, LoadsInvStarts DEF PlaceInv
<1>7. ScopesInv(home)'
  BY <1>3, ScopesInvStays DEF PlaceInv
<1>8. Chosen(home, p, s)
  BY <1>2 DEF PlaceInv, Chosen
<1>9. Chosen(home, page', saves')
  BY <1>8, HandledChosen
<1> QED
  BY <1>6, <1>7, <1>9 DEF PlaceInv

\* A step that leaves loads and place alone, and then may start a save.
LEMMA PlaceKeptByHandling ==
    ASSUME Inv, LoadInv, NEW home, Stores = {home}, PlaceInv(home), [Next]_vars,
           UNCHANGED <<loads, listing>>,
           NEW s \in Saves, NEW p \in PageType, SameLoad(page, p),
           p.scope = page.scope, p.scopes = page.scopes, p.chosenFor = page.chosenFor,
           \A i \in Slots : s[i] = saves[i] \/ s[i] = NoSave,
           Handled(p, s, page', saves')
    PROVE  PlaceInv(home)'
<1>1. /\ page'.scope = page.scope /\ page'.scopes = page.scopes
      /\ page'.generation = page.generation
  BY DEF Handled, SameCells, SameLoad
<1>2. LoadsInv(home)'
  BY <1>1, LoadsInvStays DEF PlaceInv
<1>3. ScopesInv(home)'
  BY <1>1, ScopesInvStays DEF PlaceInv
<1>4. Chosen(home, p, s)
  BY DEF PlaceInv, Chosen
<1>5. Chosen(home, page', saves')
  BY <1>4, HandledChosen
<1> QED
  BY <1>2, <1>3, <1>5 DEF PlaceInv

\* The worker of a save moves on: what it writes was chosen before.
LEMMA PlaceKeptByWorkers ==
    ASSUME Inv, LoadInv, NEW home, Stores = {home}, PlaceInv(home), [Next]_vars,
           NEW i \in Slots, NEW how \in {"failed", "locked"},
           SaveLands(i) \/ SaveLandsThenFails(i) \/ SaveFails(i, how)
    PROVE  PlaceInv(home)'
<1>1. /\ saves \in Saves /\ saves[i] # NoSave /\ saves[i] \in SaveType
  BY PhaseOfSave DEF Inv, TypeOK, Saves, SaveLands, SaveLandsThenFails, SaveFails, Running
<1>2. PICK phase \in {"saved", "failed", "locked"} :
         saves' = [saves EXCEPT ![i].phase = phase]
  BY DEF SaveLands, SaveLandsThenFails, SaveFails
<1>3. UNCHANGED <<page, loads, listing>>
  BY DEF SaveLands, SaveLandsThenFails, SaveFails
<1>4. \A j \in Slots : /\ saves'[j] # NoSave => saves[j] # NoSave
                       /\ saves[j] # NoSave => saves[j] \in SaveType
  BY <1>1, <1>2 DEF Saves
<1>5. \A j \in Slots : saves[j] # NoSave =>
         /\ saves'[j].chosenFor = saves[j].chosenFor
         /\ saves'[j].request = saves[j].request /\ saves'[j].scope = saves[j].scope
  BY <1>1, <1>2 DEF Saves, SaveType
<1>6. Chosen(home, page', saves')
  BY <1>3, <1>4, <1>5 DEF PlaceInv, Chosen
<1>7. LoadsInv(home)' /\ ScopesInv(home)'
  BY <1>3, LoadsInvStays, ScopesInvStays DEF PlaceInv
<1> QED
  BY <1>6, <1>7 DEF PlaceInv

LEMMA PlaceKept ==
    ASSUME Inv, LoadInv, UsedInv, NEW home, Stores = {home}, MaxDeaths = 0,
           PlaceInv(home), [Next]_vars
    PROVE  PlaceInv(home)'
<1>1. /\ TypeOK /\ page \in PageType /\ saves \in Saves
      /\ \A i \in Slots : Freed(i) \in Saves /\
            \A j \in Slots : Freed(i)[j] = saves[j] \/ Freed(i)[j] = NoSave
  BY FreedType DEF Inv, TypeOK, Saves, Freed
<1>2. /\ SameLoad(page, page) /\ SameCells(page, page)
      /\ \A i \in Slots : saves[i] = saves[i] \/ saves[i] = NoSave
  BY DEF SameLoad, SameCells
<1>a. ASSUME NEW s \in Stores, OpenEdit(s) \/ AddExisting(s) \/ OpenCreate(s)
      PROVE  PlaceInv(home)'
  BY <1>a, PlaceKeptByOpening, PlaceKeptByAdding
<1>b. ASSUME Reload
      PROVE  PlaceInv(home)'
  <2>1. /\ page' = Loading(page) /\ saves' = saves /\ listing' = listing
        /\ loads' = loads \cup {NewLoad(page, "keep")} /\ page.request \in Requests
    BY <1>1, <1>b DEF Reload, PageType
  <2>2. Loading(page) \in PageType /\ SameCells(Loading(page), Loading(page))
    BY <1>1, LoadingType DEF SameCells, SameLoad
  <2>3. Handled(Loading(page), saves, page', saves')
    BY <2>1, <2>2 DEF Handled
  <2> QED
    BY <1>1, <1>2, <2>1, <2>2, <2>3, PlaceKeptByLoading
<1>c. ASSUME KeyInventoryChanged
      PROVE  PlaceInv(home)'
  <2>1. page' = Loading(page) /\ UNCHANGED <<disk, loads, saves>>
    BY <1>c DEF KeyInventoryChanged
  <2>2. /\ page'.scope = page.scope /\ page'.scopes = page.scopes
        /\ page'.chosenFor = page.chosenFor /\ page'.generation = page.generation + 1
    BY <1>1, <2>1 DEF Loading, PageType
  <2>3. \A l \in loads : l.generation # page'.generation
    BY <2>2 DEF Inv, TypeOK, PageType, LoadType, LoaderInv
  <2>4. LoadsInv(home)'
    BY <2>1, <2>3, StaysInPlace DEF PlaceInv, LoadsInv, Inv, TypeOK
  <2>5. ScopesInv(home)'
    BY <2>2, ScopesInvStays DEF PlaceInv
  <2>6. Chosen(home, page', saves')
    BY <2>1, <2>2 DEF PlaceInv, Chosen
  <2> QED
    BY <2>4, <2>5, <2>6 DEF PlaceInv
<1>d. ASSUME NEW l \in loads, LoadReads(l)
      PROVE  PlaceInv(home)'
  <2> DEFINE m == [l EXCEPT !.read = TRUE, !.answer = LoadedFrom(l)]
  <2>1. loads' = (loads \ {l}) \cup {m} /\ UNCHANGED <<disk, page, listing, saves>>
    BY <1>d DEF LoadReads
  <2>2. m.generation = l.generation /\ m.scope = l.scope
    BY <1>1 DEF TypeOK, LoadType
  <2>3. InPlace(home, m)
    BY <1>1, ReadInPlace DEF PlaceInv, LoadsInv
  <2> HIDE DEF m
  <2>4. \A k : InPlace(home, k)' <=> InPlace(home, k)
    BY <2>1 DEF InPlace, Backed
  <2>5. LoadsInv(home)'
    BY <2>1, <2>2, <2>3, <2>4 DEF PlaceInv, LoadsInv
  <2> QED
    BY <2>1, <2>5 DEF PlaceInv, ScopesInv, Backed, Chosen
<1>e. ASSUME NEW l \in loads, LoadEnds(l)
      PROVE  PlaceInv(home)'
  <2>1. loads' = loads \ {l} /\ disk' = disk /\ l.read
    BY <1>e DEF LoadEnds, CompleteLoad
  <2>2. \A k : InPlace(home, k)' <=> InPlace(home, k)
    BY <2>1 DEF InPlace, Backed
  <2>3. CASE ~Current(page, l.generation, l.request)
    <3>1. UNCHANGED <<page, saves>>
      BY <1>e, <2>3 DEF LoadEnds, CompleteLoad
    <3>2. LoadsInv(home)'
      BY <2>1, <2>2, <3>1 DEF PlaceInv, LoadsInv
    <3> QED
      BY <2>1, <3>1, <3>2 DEF PlaceInv, ScopesInv, Backed, Chosen
  <2>4. CASE Current(page, l.generation, l.request)
    <3> DEFINE p == Applied(l)
    <3>1. p \in PageType /\ SameLoad(page, p) /\ l \in LoadType /\ l.request.store = home
      BY <1>1, AppliedType DEF TypeOK, LoadType, Requests
    <3>2. l.scope = page.scope /\ InPlace(home, l)
      BY <2>4 DEF PlaceInv, LoadsInv, Current
    <3>3. /\ p.scope = l.answer.scope /\ p.scopes = l.answer.scopes
          /\ p.chosenFor = IF l.answer.replaces THEN <<home, l.answer.scope>> ELSE page.chosenFor
      BY <1>1, <3>1 DEF Applied, Show, PageType
    <3>4. Chosen(home, p, saves)
      BY <2>1, <3>2, <3>3 DEF PlaceInv, Chosen, InPlace
    <3> HIDE DEF p
    <3>5. /\ Chosen(home, page', saves')
          /\ page'.scope = p.scope /\ page'.scopes = p.scopes
          /\ page'.generation = page.generation
      <4>1. CASE Autosave(p, saves)
        <5>1. Handled(p, saves, page', saves')
          BY <1>1, <3>1, <4>1, AutosaveHandles
        <5> QED
          BY <1>1, <3>1, <3>4, <5>1, HandledChosen DEF Handled, SameCells, SameLoad
      <4>2. CASE page' = p /\ saves' = saves
        BY <3>1, <3>4, <4>2 DEF SameLoad
      <4> QED
        BY <1>e, <2>4, <4>1, <4>2 DEF LoadEnds, CompleteLoad, p
    <3>6. \A k \in loads' : k.generation # page'.generation
      BY <2>1, <2>4, <3>5 DEF LoadInv, Current
    <3>7. LoadsInv(home)'
      BY <2>1, <2>2, <3>6 DEF PlaceInv, LoadsInv
    <3>8. ScopesInv(home)'
      BY <2>1, <3>2, <3>3, <3>5 DEF ScopesInv, InPlace, Backed
    <3> QED
      BY <3>5, <3>7, <3>8 DEF PlaceInv
  <2> QED
    BY <2>3, <2>4
<1>f. ASSUME ListingEnds
      PROVE  PlaceInv(home)'
  <2>1. /\ UNCHANGED <<disk, loads, saves>>
        /\ page'.scope = page.scope /\ page'.scopes = page.scopes
        /\ page'.chosenFor = page.chosenFor /\ page'.generation = page.generation
    BY <1>1, <1>f DEF ListingEnds, PageType
  <2>2. LoadsInv(home)' /\ ScopesInv(home)'
    BY <2>1, LoadsInvStays, ScopesInvStays DEF PlaceInv
  <2> QED
    BY <2>1, <2>2 DEF PlaceInv, Chosen
<1>g. ASSUME NEW settings \in Settings, Edit(settings)
      PROVE  PlaceInv(home)'
  <2> DEFINE p == [page EXCEPT !.shown = settings]
  <2>1. /\ p \in PageType /\ SameLoad(page, p) /\ Autosave(p, saves)
        /\ p.scope = page.scope /\ p.scopes = page.scopes /\ p.chosenFor = page.chosenFor
        /\ UNCHANGED <<loads, listing>>
    BY <1>1, <1>g DEF Edit, PageType, SameLoad
  <2> HIDE DEF p
  <2>2. Handled(p, saves, page', saves')
    BY <1>1, <2>1, AutosaveHandles
  <2> QED
    BY <1>1, <1>2, <2>1, <2>2, PlaceKeptByHandling
<1>h. ASSUME NEW d \in Scopes, SelectScope(d)
      PROVE  PlaceInv(home)'
  <2>1. /\ ~page.loading /\ d \in page.scopes /\ page.request.store = home
        /\ UNCHANGED <<disk, loads, listing, saves>>
    BY <1>1, <1>h DEF SelectScope, PageType, Requests
  <2>2. /\ page'.scope = d /\ page'.scopes = page.scopes
        /\ page'.chosenFor = <<home, d>> /\ page'.generation = page.generation
    BY <1>1, <1>h, <2>1 DEF SelectScope, Show, PageType
  <2>3. LoadsInv(home)'
    BY <2>1, <2>2, LoadsInvStays DEF PlaceInv
  <2> QED
    BY <2>1, <2>2, <2>3 DEF PlaceInv, ScopesInv, Backed, Chosen
<1>i. ASSUME SaveShortcut
      PROVE  PlaceInv(home)'
  <2>1. Handled(page, saves, page', saves') /\ UNCHANGED <<loads, listing>>
    BY <1>1, <1>i, SaveNowHandles DEF SaveShortcut
  <2> QED
    BY <1>1, <1>2, <2>1, PlaceKeptByHandling
<1>j. ASSUME GitPromptEnds \/ KeyPromptDismissed
      PROVE  PlaceInv(home)'
  <2>1. PICK key \in page.prompts :
           LET p == [page EXCEPT !.prompts = @ \ {key}]
           IN  SaveNow(p, saves, FALSE) \/ (page' = p /\ saves' = saves)
    BY <1>j DEF GitPromptEnds, KeyPromptDismissed
  <2> DEFINE p == [page EXCEPT !.prompts = @ \ {key}]
  <2>2. /\ p \in PageType /\ SameLoad(page, p)
        /\ p.scope = page.scope /\ p.scopes = page.scopes /\ p.chosenFor = page.chosenFor
    BY <1>1, AnswerType DEF PageType
  <2>3. SaveNow(p, saves, FALSE) \/ (page' = p /\ saves' = saves)
    BY <2>1
  <2>4. UNCHANGED <<loads, listing>>
    BY <1>j DEF GitPromptEnds, KeyPromptDismissed
  <2> HIDE DEF p
  <2>5. Handled(p, saves, page', saves')
    BY <1>1, <2>2, <2>3, SaveNowHandles DEF Handled, SameCells, SameLoad
  <2> QED
    BY <1>1, <1>2, <2>2, <2>4, <2>5, PlaceKeptByHandling
<1>k. ASSUME KeyPromptSucceeds
      PROVE  PlaceInv(home)'
  <2> DEFINE p == [page EXCEPT !.prompts = @ \ {"key"}]
  <2>1. /\ "key" \in page.prompts /\ SaveNow(Loading(p), saves, TRUE) /\ listing' = listing
        /\ loads' = loads \cup {NewLoad(p, "keep")}
    BY <1>k DEF KeyPromptSucceeds
  <2>2. /\ p \in PageType /\ p.generation = page.generation /\ p.request \in Requests
        /\ p.scope = page.scope /\ p.scopes = page.scopes /\ p.chosenFor = page.chosenFor
    BY <1>1, <2>1, AnswerType DEF SameLoad, PageType
  <2> HIDE DEF p
  <2>3. /\ Loading(p) \in PageType /\ SameCells(Loading(p), Loading(p))
        /\ Handled(Loading(p), saves, page', saves')
    BY <1>1, <2>1, <2>2, LoadingType, SaveNowHandles DEF SameCells, SameLoad
  <2> QED
    BY <1>1, <1>2, <2>1, <2>2, <2>3, PlaceKeptByLoading
<1>l. ASSUME NEW i \in Slots,
             \/ SaveLands(i) \/ SaveLandsThenFails(i)
             \/ SaveFails(i, "failed") \/ SaveFails(i, "locked")
      PROVE  PlaceInv(home)'
  BY <1>l, PlaceKeptByWorkers
<1>m. ASSUME NEW i \in Slots,
             EditSaved(i) \/ StoreCreatedNotListed(i) \/ SaveFailed(i) \/ SaveNeedsKey(i)
      PROVE  PlaceInv(home)'
  <2>1. PICK p \in PageType, b \in BOOLEAN :
           /\ SameLoad(page, p) /\ FinishSave(p, Freed(i), b)
           /\ p.scope = page.scope /\ p.scopes = page.scopes /\ p.chosenFor = page.chosenFor
    <3>1. saves[i].phase # "free"
      BY <1>m DEF EditSaved, StoreCreatedNotListed, SaveFailed, SaveNeedsKey
    <3> DEFINE q == MarkedSaved(i)
               r == [page EXCEPT !.prompts = @ \cup {"key"}]
    <3>2. /\ q \in PageType /\ SameLoad(page, q)
          /\ q.scope = page.scope /\ q.scopes = page.scopes /\ q.chosenFor = page.chosenFor
      <4>1. q \in PageType /\ SameLoad(page, q)
        BY <1>1, <3>1, PhaseOfSave, MarkedSavedType
      <4> QED
        BY <1>1, <4>1 DEF MarkedSaved, PageType
    <3>3. /\ r \in PageType /\ SameLoad(page, r)
          /\ r.scope = page.scope /\ r.scopes = page.scopes /\ r.chosenFor = page.chosenFor
      BY <1>1 DEF PageType, SameLoad
    <3>4. \/ FinishSave(q, Freed(i), TRUE) \/ FinishSave(page, Freed(i), FALSE)
          \/ FinishSave(r, Freed(i), FALSE)
      BY <1>m DEF EditSaved, StoreCreatedNotListed, SaveFailed, SaveNeedsKey
    <3> HIDE DEF q, r
    <3> QED
      BY <1>1, <1>2, <3>2, <3>3, <3>4
  <2> DEFINE done == [p EXCEPT !.inFlight = FALSE]
  <2>2. done \in PageType /\ SameCells(p, done) /\ Handled(done, Freed(i), page', saves')
    BY <1>1, <2>1, FinishSaveHandles
  <2>3. UNCHANGED <<loads, listing>>
    BY <1>m DEF EditSaved, StoreCreatedNotListed, SaveFailed, SaveNeedsKey
  <2> HIDE DEF done
  <2>4. /\ SameLoad(page, done)
        /\ done.scope = page.scope /\ done.scopes = page.scopes
        /\ done.chosenFor = page.chosenFor
    BY <2>1, <2>2 DEF SameCells, SameLoad
  <2> QED
    BY <1>1, <2>2, <2>3, <2>4, PlaceKeptByHandling
<1>n. ASSUME NEW i \in Slots, StoreCreated(i)
      PROVE  PlaceInv(home)'
  <2> DEFINE q == MarkedSaved(i)
             r == [store |-> saves[i].request.store, mode |-> "edit"]
             p == [q EXCEPT !.request = r]
             done == [Loading(p) EXCEPT !.inFlight = FALSE]
  <2>1. /\ saves[i].phase # "free" /\ FinishSave(Loading(p), Freed(i), TRUE)
        /\ listing' = listing /\ loads' = loads \cup {NewLoad(p, "keep")}
    BY <1>n DEF StoreCreated
  <2>2. /\ q \in PageType /\ SameLoad(page, q)
        /\ q.scope = page.scope /\ q.scopes = page.scopes /\ q.chosenFor = page.chosenFor
    <3>1. q \in PageType /\ SameLoad(page, q)
      BY <1>1, <2>1, PhaseOfSave, MarkedSavedType
    <3> QED
      BY <1>1, <3>1 DEF MarkedSaved, PageType
  <2>3. r \in Requests
    <3>1. saves[i].request.store \in Stores
      BY <1>1, <2>1, PhaseOfSave DEF Requests
    <3> QED
      BY <3>1 DEF Requests
  <2> HIDE DEF q, r
  <2>4. /\ p \in PageType /\ p.generation = page.generation /\ p.request \in Requests
        /\ p.scope = page.scope /\ p.scopes = page.scopes /\ p.chosenFor = page.chosenFor
    BY <2>2, <2>3 DEF PageType, SameLoad
  <2> HIDE DEF p
  <2>5. Loading(p) \in PageType
    BY <2>4, LoadingType
  <2>6. /\ done \in PageType /\ SameCells(Loading(p), done)
        /\ Handled(done, Freed(i), page', saves')
    BY <1>1, <2>1, <2>5, FinishSaveHandles
  <2> HIDE DEF done
  <2> QED
    BY <1>1, <2>1, <2>4, <2>6, PlaceKeptByLoading
<1>o. ASSUME UNCHANGED vars
      PROVE  PlaceInv(home)'
  BY <1>o DEF vars, PlaceInv, ScopesInv, LoadsInv, InPlace, Backed, Chosen
<1>p. \A l \in loads : ~ LoadDies(l)
  BY DEF LoadDies, Spend, UsedInv
<1> QED
  BY <1>a, <1>b, <1>c, <1>d, <1>e, <1>f, <1>g, <1>h, <1>i, <1>j, <1>k, <1>l, <1>m, <1>n,
     <1>o, <1>p DEF Next, LoadStep, DeliverStep

\* The page of one store, opened as often as one likes while no load's worker dies:
\* what is written to a directory was chosen for that directory, although a load, a
\* change of the scope and a save that was queued may overtake each other
\* (store_recipients_load_is_current, connect_recipient_scope_control).
THEOREM SavesWereChosenThere ==
    ASSUME NEW home, Stores = {home}, MaxDeaths = 0
    PROVE  Spec => []SavesStayInTheirPlace
<1>1. Init => LoadInv /\ UsedInv /\ PlaceInv(home)
  BY PlaceInit DEF Init, LoadInv, UsedInv
<1>2. Inv /\ LoadInv /\ UsedInv /\ PlaceInv(home) /\ [Next]_vars
         => (LoadInv /\ UsedInv /\ PlaceInv(home))'
  BY LoadInvKept, UsedKept, PlaceKept
<1>3. PlaceInv(home) => SavesStayInTheirPlace
  BY DEF PlaceInv, Chosen, SavesStayInTheirPlace
<1> QED
  BY <1>1, <1>2, <1>3, InvHolds, PTL DEF Spec

-----------------------------------------------------------------------------
(* One directory, one opening: a clean page shows what the store says *)

OneOpening == Scopes = {Root} /\ MaxOpens = 1

\* Before the page is opened there is nothing.
OpensInv ==
    /\ used.opens <= 1
    /\ used.opens = 0 => /\ page.request = NoRequest /\ loads = {}
                         /\ page.shown = Blank /\ page.saved = Blank

\* What the store of the page says.
Value(p) == ValueAt(p.request.store, Root)

\* At most one save is busy, for the page as it is; when it has been written its
\* settings are on disk.
BusyInv(p, s) ==
    /\ \A i \in Slots : s[i] # NoSave =>
          /\ p.inFlight /\ p.request \in Requests /\ s[i].request = p.request
          /\ s[i].settings \notin Keyless
          /\ s[i].phase = "saved" => disk[p.request.store][Root] = s[i].settings
    /\ \A i, j \in Slots : s[i] # NoSave /\ s[j] # NoSave => i = j

\* But for a save that is written and not answered yet, what counts as saved is what
\* the store says.
SavedInv(p, s) ==
    p.saved \notin Keyless /\ (\A i \in Slots : s[i].phase # "saved") =>
        p.request \in Requests /\ p.saved = Value(p)

\* Only a page to which nothing has happened takes over settings that were read.
ReadInv(p, s, ls) ==
    \A l \in ls :
       /\ l.values = "keep" => ~l.answer.replaces
       /\ l.values = "provided" => l.answer.settings = Blank
       /\ Current(p, l.generation, l.request) /\ l.values = "read" =>
             /\ p.shown = Blank /\ p.prompts = {} /\ \A i \in Slots : s[i] = NoSave
             /\ l.answer.replaces => l.answer.settings = ValueAt(l.request.store, Root)

PageInv(p, s, ls) == BusyInv(p, s) /\ SavedInv(p, s) /\ ReadInv(p, s, ls)

CleanInv == OpensInv /\ PageInv(page, saves, loads)

LEMMA HandledClean ==
    ASSUME NEW p \in PageType, NEW s \in Saves, NEW ls, NEW q, NEW r,
           PageInv(p, s, ls), Handled(p, s, q, r)
    PROVE  PageInv(q, r, ls)
<1>1. /\ q.request = p.request /\ q.generation = p.generation
      /\ q.shown = p.shown /\ q.saved = p.saved
  BY DEF Handled, SameCells, SameLoad
<1>2. \A l : Current(q, l.generation, l.request) <=> Current(p, l.generation, l.request)
  BY <1>1 DEF Current
<1>3. Blank \in Keyless /\ NoSave.phase = "free"
  BY PageAssumption DEF NoSave
<1>4. CASE r = s /\ q.inFlight = p.inFlight
  <2>1. BusyInv(q, r) /\ SavedInv(q, r)
    BY <1>1, <1>4 DEF PageInv, BusyInv, SavedInv, Value
  <2>2. ReadInv(q, r, ls)
    BY <1>1, <1>2, <1>3, <1>4 DEF PageInv, ReadInv, Handled
  <2> QED
    BY <2>1, <2>2 DEF PageInv
<1>5. CASE /\ ~p.inFlight /\ q.inFlight /\ p.shown \notin Keyless /\ p.request # NoRequest
           /\ \E i \in Slots : s[i] = NoSave /\ r = [s EXCEPT ![i] = TaskOf(p)]
  <2>1. \A i \in Slots : s[i] = NoSave
    BY <1>5 DEF PageInv, BusyInv
  <2>2. PICK i \in Slots : r = [s EXCEPT ![i] = TaskOf(p)]
    BY <1>5
  <2>3. /\ TaskOf(p).request = p.request /\ TaskOf(p).settings = p.shown
        /\ TaskOf(p).phase = "running" /\ p.request \in Requests
    BY <1>5 DEF TaskOf, PageType
  <2>4. \A j \in Slots : r[j] = IF j = i THEN TaskOf(p) ELSE NoSave
    BY <2>1, <2>2 DEF Saves
  <2>5. BusyInv(q, r)
    BY <1>1, <1>5, <2>3, <2>4 DEF BusyInv
  <2>6. SavedInv(q, r)
    BY <1>1, <1>3, <2>1, <2>3, <2>4 DEF PageInv, SavedInv, Value
  <2>7. ReadInv(q, r, ls)
    BY <1>2, <1>3, <1>5 DEF PageInv, ReadInv
  <2> QED
    BY <2>5, <2>6, <2>7 DEF PageInv
<1> QED
  BY <1>4, <1>5 DEF Handled

\* While no file is written, what is known of the page is known of it afterwards.
LEMMA SameDisk ==
    ASSUME disk' = disk, PageInv(page', saves', loads')
    PROVE  PageInv(page, saves, loads)'
<1>1. \A s, d : ValueAt(s, d)' = ValueAt(s, d)
  BY DEF ValueAt
<1> QED
  BY <1>1 DEF PageInv, BusyInv, SavedInv, ReadInv, Value, Current

\* Nothing but opening it happens to a page that was not opened.
LEMMA OpeningIsFirst ==
    ASSUME Inv, OpensInv, used.opens = 0, [Next]_vars,
           ~ \E s \in Stores : OpenEdit(s) \/ AddExisting(s) \/ OpenCreate(s)
    PROVE  UNCHANGED vars \/ ListingEnds
<1>1. /\ page.request = NoRequest /\ loads = {} /\ page.prompts = {}
      /\ \A i \in Slots : saves[i].phase = "free"
  BY DEF OpensInv, Inv, Begun, NoSave
<1> QED
  BY <1>1 DEF Next, Reload, KeyInventoryChanged, LoadStep, Edit, SelectScope, SaveShortcut,
     GitPromptEnds, KeyPromptSucceeds, KeyPromptDismissed, SaveLands, SaveLandsThenFails,
     SaveFails, Running, DeliverStep, EditSaved, StoreCreated, SaveFailed, SaveNeedsKey,
     StoreCreatedNotListed

LEMMA OpensKept ==
    ASSUME OneOpening, Inv, UsedInv, OpensInv, [Next]_vars
    PROVE  OpensInv'
<1>0. used.opens \in Nat
  BY DEF UsedInv
<1>1. ASSUME NEW s \in Stores, OpenEdit(s) \/ AddExisting(s) \/ OpenCreate(s)
      PROVE  OpensInv'
  <2>1. used.opens < 1 /\ used' = [used EXCEPT !["opens"] = @ + 1]
    BY <1>1 DEF OpenEdit, AddExisting, OpenCreate, Spend, OneOpening
  <2>2. used'.opens = used.opens + 1
    BY <2>1 DEF UsedInv
  <2> QED
    BY <1>0, <2>1, <2>2 DEF OpensInv
<1>2. ASSUME ~ \E s \in Stores : OpenEdit(s) \/ AddExisting(s) \/ OpenCreate(s)
      PROVE  OpensInv'
  <2>1. used'.opens = used.opens
    <3>1. ASSUME NEW what \in {"edits", "reloads", "failures", "deaths"}, NEW bound,
                 Spend(what, bound)
          PROVE  used'.opens = used.opens
      BY <3>1 DEF UsedInv, Spend
    <3>2. \/ used' = used
          \/ \E what \in {"edits", "reloads", "failures", "deaths"}, bound \in
                 {MaxEdits, MaxReloads, MaxFailures, MaxDeaths} : Spend(what, bound)
      BY <1>2 DEF Next, vars, Reload, KeyInventoryChanged, LoadStep, LoadReads, LoadEnds,
         LoadDies, ListingEnds, Edit, SelectScope, SaveShortcut, GitPromptEnds,
         KeyPromptSucceeds, KeyPromptDismissed, SaveLands, SaveLandsThenFails, SaveFails,
         DeliverStep, EditSaved, StoreCreated, SaveFailed, SaveNeedsKey,
         StoreCreatedNotListed
    <3> QED
      BY <3>1, <3>2
  <2>2. CASE used.opens = 0
    <3>1. UNCHANGED vars \/ ListingEnds
      BY <1>2, <2>2, OpeningIsFirst
    <3>2. page \in PageType
      BY DEF Inv, TypeOK
    <3>3. page'.request = page.request /\ page'.shown = page.shown /\ page'.saved = page.saved
          /\ loads' = loads
      BY <3>1, <3>2 DEF vars, ListingEnds, PageType
    <3> QED
      BY <2>1, <3>3 DEF OpensInv
  <2>3. CASE used.opens # 0
    BY <2>1, <2>3 DEF OpensInv
  <2> QED
    BY <2>2, <2>3
<1> QED
  BY <1>1, <1>2

\* What a new load answers until it has read: a load that keeps replaces nothing.
LEMMA NewLoadValues ==
    ASSUME NEW p, NEW values \in {"keep", "read", "provided"}
    PROVE  LET m == NewLoad(p, values)
           IN  /\ m.values = values /\ m.answer.settings = Blank
               /\ m.answer.replaces = (values = "provided")
<1>1. Fallback([values |-> values]) = [scopes |-> {Root}, scope |-> Root,
         replaces |-> values = "provided", settings |-> Blank]
  BY DEF Fallback
<1> QED
  BY <1>1 DEF NewLoad

\* A page just opened: it shows nothing, and nothing is under way.
LEMMA CleanWhenOpened ==
    ASSUME Inv, OpensInv, NEW s \in Stores,
           OpenEdit(s) \/ OpenCreate(s) \/ AddExisting(s), used.opens = 0
    PROVE  PageInv(page, saves, loads)'
<1>1. /\ TypeOK /\ page \in PageType /\ loads = {} /\ page.shown = Blank /\ page.saved = Blank
      /\ page.prompts = {} /\ \A i \in Slots : saves[i] = NoSave
  BY DEF Inv, TypeOK, OpensInv, Begun
<1>2. /\ \A mode \in {"create", "edit"} :
            /\ Opened(s, mode) \in PageType
            /\ Opened(s, mode).shown = Blank /\ Opened(s, mode).saved = Blank
            /\ Opened(s, mode).prompts = {}
  <2> SUFFICES ASSUME NEW mode \in {"create", "edit"}
               PROVE  /\ Opened(s, mode) \in PageType
                      /\ Opened(s, mode).shown = Blank /\ Opened(s, mode).saved = Blank
                      /\ Opened(s, mode).prompts = {}
    OBVIOUS
  <2>1. Opened(s, mode) \in PageType
    BY <1>1, OpenedType
  <2> QED
    BY <1>1, <2>1 DEF Opened, Show, PageType
<1>3. \A p \in PageType : /\ Loading(p) \in PageType /\ Loading(p).shown = p.shown
                          /\ Loading(p).saved = p.saved /\ Loading(p).prompts = p.prompts
  <2> SUFFICES ASSUME NEW p \in PageType
               PROVE  /\ Loading(p) \in PageType /\ Loading(p).shown = p.shown
                      /\ Loading(p).saved = p.saved /\ Loading(p).prompts = p.prompts
    OBVIOUS
  <2>1. Loading(p) \in PageType
    BY LoadingType
  <2> QED
    BY <2>1 DEF Loading, PageType
<1>4. PICK mode \in {"create", "edit"} :
         page' \in {Loading(Opened(s, mode)), Loading(Loading(Opened(s, mode)))}
  BY DEF OpenEdit, OpenCreate, AddExisting
<1>5. /\ page'.shown = Blank /\ page'.saved = Blank /\ page'.prompts = {}
      /\ saves' = saves /\ disk' = disk
  BY <1>2, <1>3, <1>4 DEF OpenEdit, OpenCreate, AddExisting
<1>6. \A l \in loads' : /\ l.answer.settings = Blank
                        /\ l.answer.replaces => l.values = "provided"
  <2>1. \A p : \A values \in {"keep", "read", "provided"} :
           /\ NewLoad(p, values).values = values
           /\ NewLoad(p, values).answer.settings = Blank
           /\ NewLoad(p, values).answer.replaces => values = "provided"
    BY NewLoadValues
  <2> DEFINE Fits(l) == /\ l.answer.settings = Blank
                        /\ l.answer.replaces => l.values = "provided"
  <2>3. \A p : /\ Fits(NewLoad(p, "read")) /\ Fits(NewLoad(p, "keep"))
               /\ Fits(NewLoad(p, "provided"))
    BY <2>1
  <2>2. \A l \in loads' : \E p : l \in {NewLoad(p, "read"), NewLoad(p, "keep"), NewLoad(p, "provided")}
    BY <1>1 DEF OpenEdit, OpenCreate, AddExisting
  <2> HIDE DEF Fits
  <2>4. \A l \in loads' : Fits(l)
    BY <2>2, <2>3
  <2> QED
    BY <2>4 DEF Fits
<1>7. BusyInv(page', saves')
  BY <1>1, <1>5 DEF BusyInv
<1>8. SavedInv(page', saves')
  BY <1>5, PageAssumption DEF SavedInv
<1>9. ReadInv(page', saves', loads')
  BY <1>1, <1>5, <1>6 DEF ReadInv
<1> QED
  BY <1>5, <1>7, <1>8, <1>9, SameDisk DEF PageInv

\* A step that numbers the page anew: whatever was being read for it is dropped.
LEMMA ReadDropped ==
    ASSUME Inv, NEW p, NEW s, ReadInv(page, saves, loads), p.generation = page.generation + 1
    PROVE  ReadInv(p, s, loads)
<1>1. page.generation \in Nat
      /\ \A l \in loads : l.generation \in Nat /\ l.generation <= page.generation
  BY DEF Inv, TypeOK, PageType, LoadType, LoaderInv
<1>2. \A l \in loads : p.generation # l.generation
  BY <1>1
<1> QED
  BY <1>2 DEF ReadInv, Current

\* A step on which nothing can be read: the rows are there, or a save or a dialog is.
LEMMA NothingRead ==
    ASSUME Inv, LoadInv, ReadInv(page, saves, loads), NEW p, NEW s,
           p.generation = page.generation, p.request = page.request,
           \/ ~page.loading
           \/ page.prompts # {}
           \/ \E i \in Slots : saves[i] # NoSave
    PROVE  ReadInv(p, s, loads)
BY DEF LoadInv, ReadInv, Current

\* A load is started on the page p, on which a save may start then.
LEMMA CleanKeptByLoading ==
    ASSUME Inv, NEW q, NEW s \in Saves, NEW p \in PageType,
           ReadInv(page, saves, loads), p.generation = page.generation + 1,
           loads' = loads \cup {NewLoad(q, "keep")}, disk' = disk,
           BusyInv(p, s), SavedInv(p, s), Handled(p, s, page', saves')
    PROVE  PageInv(page, saves, loads)'
<1>1. ReadInv(p, s, loads)
  BY ReadDropped
<1> DEFINE m == NewLoad(q, "keep")
<1>2. m.values = "keep" /\ ~m.answer.replaces
  BY NewLoadValues
<1> HIDE DEF m
<1>3. ReadInv(p, s, loads \cup {m})
  BY <1>1, <1>2 DEF ReadInv
<1>4. PageInv(page', saves', loads')
  BY <1>3, HandledClean DEF PageInv, m
<1> QED
  BY <1>4, SameDisk

\* What a load reads of a store with one directory.
LEMMA ReadValues ==
    ASSUME Inv, OneOpening, NEW l \in loads
    PROVE  LET a == LoadedFrom(l)
           IN  /\ l.values = "keep" => ~a.replaces
               /\ l.values = "provided" => a.settings = Blank
               /\ l.values = "read" => a.settings = ValueAt(l.request.store, Root)
<1> DEFINE found == RelevantScopes(l.request.store)
           scopes == IF l.values = "provided" THEN found \cup {l.scope} ELSE found
           scope == IF l.scope \in scopes THEN l.scope ELSE FirstScope(scopes)
           replaces == l.values # "keep" \/ scope # l.scope
           settings == IF l.values = "provided" \/ ~replaces
                       THEN Blank ELSE ValueAt(l.request.store, scope)
<1>1. l \in LoadType /\ l.scope = Root
  BY DEF Inv, TypeOK, LoadType, OneOpening
<1>2. found = {Root}
  BY DEF RelevantScopes, OneOpening
<1>3. scopes = {Root} /\ scope = Root
  BY <1>1, <1>2
<1>4. LoadedFrom(l) = [scopes |-> scopes, scope |-> scope,
                       replaces |-> replaces, settings |-> settings]
  BY DEF LoadedFrom
<1>5. /\ replaces = (l.values # "keep")
      /\ l.values = "provided" => settings = Blank
      /\ l.values = "read" => settings = ValueAt(l.request.store, Root)
  BY <1>1, <1>3
<1> HIDE DEF found, scopes, scope, replaces, settings
<1>6. LoadedFrom(l).replaces = replaces /\ LoadedFrom(l).settings = settings
  BY <1>4
<1> QED
  BY <1>5, <1>6

\* What is known of the saves depends on three cells only.
LEMMA BusyAlike ==
    ASSUME NEW p, NEW q, NEW s, BusyInv(p, s), SavedInv(p, s),
           q.inFlight = p.inFlight, q.request = p.request, q.saved = p.saved
    PROVE  BusyInv(q, s) /\ SavedInv(q, s)
BY DEF BusyInv, SavedInv, Value

\* A handler runs on the page p and no load starts or ends.
LEMMA CleanKeptByHandling ==
    ASSUME NEW p \in PageType, NEW s \in Saves, PageInv(p, s, loads),
           Handled(p, s, page', saves'), loads' = loads, disk' = disk
    PROVE  PageInv(page, saves, loads)'
BY HandledClean, SameDisk

\* Nothing else is being saved; once the worker is done nothing is.
LEMMA FreedAll ==
    ASSUME Inv, BusyInv(page, saves), NEW i \in Slots, saves[i] # NoSave
    PROVE  /\ Freed(i) \in Saves
           /\ \A j \in Slots : Freed(i)[j] = NoSave
<1>1. saves \in Saves /\ TypeOK
  BY DEF Inv, TypeOK, Saves
<1> QED
  BY <1>1, FreedType DEF Freed, BusyInv, Saves

\* The answer of a worker: the page p is the page but for what counts as saved.
LEMMA CleanKeptByFinishing ==
    ASSUME Inv, LoadInv, CleanInv, NEW i \in Slots, saves[i] # NoSave,
           NEW p \in PageType, SameLoad(page, p), NEW b \in BOOLEAN,
           p.saved \notin Keyless => p.request \in Requests /\ p.saved = Value(p),
           FinishSave(p, Freed(i), b), loads' = loads, disk' = disk
    PROVE  PageInv(page, saves, loads)'
<1> DEFINE done == [p EXCEPT !.inFlight = FALSE]
<1>1. /\ Freed(i) \in Saves /\ \A j \in Slots : Freed(i)[j] = NoSave
  BY FreedAll DEF CleanInv, PageInv
<1>2. done \in PageType /\ SameCells(p, done) /\ Handled(done, Freed(i), page', saves')
  BY <1>1, FinishSaveHandles
<1> HIDE DEF done
<1>3. BusyInv(done, Freed(i))
  BY <1>1 DEF BusyInv
<1>4. SavedInv(done, Freed(i))
  BY <1>2 DEF SavedInv, SameCells, SameLoad, Value
<1>5. ReadInv(done, Freed(i), loads)
  <2>1. done.generation = page.generation /\ done.request = page.request
    BY <1>2 DEF SameCells, SameLoad
  <2> QED
    BY <2>1, NothingRead DEF CleanInv, PageInv
<1> QED
  BY <1>1, <1>2, <1>3, <1>4, <1>5, CleanKeptByHandling DEF PageInv

\* What a worker wrote counts as saved, and it is what the store says.
LEMMA MarkedSavedHere ==
    ASSUME Inv, OneOpening, BusyInv(page, saves), NEW i \in Slots, saves[i].phase = "saved"
    PROVE  /\ saves[i] # NoSave /\ saves[i].request = page.request
           /\ page.request \in Requests
           /\ MarkedSaved(i) \in PageType /\ SameLoad(page, MarkedSaved(i))
           /\ MarkedSaved(i).saved = Value(page)
           /\ MarkedSaved(i).inFlight = page.inFlight
<1>1. TypeOK /\ page \in PageType
  BY DEF Inv, TypeOK
<1>2. saves[i] # NoSave /\ saves[i] \in SaveType
  BY <1>1, PhaseOfSave
<1>3. /\ saves[i].request = page.request /\ page.request \in Requests
      /\ disk[page.request.store][Root] = saves[i].settings
  BY <1>2 DEF BusyInv
<1>4. saves[i].scope = Root /\ page.scope = Root /\ saves[i].settings \in Settings
  BY <1>1, <1>2 DEF SaveType, PageType, OneOpening
<1>5. MarkedSaved(i) = [page EXCEPT !.saved = saves[i].settings]
  BY <1>3, <1>4 DEF MarkedSaved
<1>6. Value(page) = saves[i].settings
  BY <1>3, <1>4, PageAssumption DEF Value, ValueAt
<1>7. MarkedSaved(i) \in PageType /\ SameLoad(page, MarkedSaved(i))
  BY <1>1, <1>2, MarkedSavedType
<1> QED
  BY <1>1, <1>2, <1>3, <1>5, <1>6, <1>7 DEF PageType

\* A load reads: what it will show is what the store says now.
LEMMA CleanWhenRead ==
    ASSUME Inv, OneOpening, CleanInv, NEW l \in loads, LoadReads(l)
    PROVE  PageInv(page, saves, loads)'
<1> DEFINE a == LoadedFrom(l)
           m == [l EXCEPT !.read = TRUE, !.answer = a]
<1>1. l \in LoadType /\ page' = page /\ saves' = saves /\ disk' = disk
      /\ loads' = (loads \ {l}) \cup {m}
  BY DEF Inv, TypeOK, LoadReads
<1>2. /\ m.values = l.values /\ m.generation = l.generation /\ m.request = l.request
      /\ m.answer = a
  BY <1>1 DEF LoadType
<1>3. /\ l.values = "keep" => ~a.replaces
      /\ l.values = "provided" => a.settings = Blank
      /\ l.values = "read" => a.settings = ValueAt(l.request.store, Root)
  BY ReadValues
<1>4. PageInv(page, saves, loads)
  BY DEF CleanInv
<1> HIDE DEF a, m
<1>5. /\ m.values = "keep" => ~m.answer.replaces
      /\ m.values = "provided" => m.answer.settings = Blank
      /\ Current(page, m.generation, m.request) /\ m.values = "read" =>
            /\ page.shown = Blank /\ page.prompts = {} /\ \A i \in Slots : saves[i] = NoSave
            /\ m.answer.replaces => m.answer.settings = ValueAt(m.request.store, Root)
  BY <1>2, <1>3, <1>4 DEF PageInv, ReadInv
<1>6. ReadInv(page, saves, loads')
  BY <1>1, <1>4, <1>5 DEF PageInv, ReadInv
<1>7. PageInv(page', saves', loads')
  BY <1>1, <1>4, <1>6 DEF PageInv
<1> QED
  BY <1>1, <1>7, SameDisk

\* What the answer of a load makes of the page.
LEMMA AppliedCells ==
    ASSUME Inv, NEW l \in loads
    PROVE  /\ Applied(l) \in PageType /\ SameLoad(page, Applied(l))
           /\ Applied(l).inFlight = page.inFlight
           /\ ~l.answer.replaces => Applied(l).saved = page.saved
           /\ l.answer.replaces => Applied(l).saved = l.answer.settings
<1> DEFINE p == [page EXCEPT !.scopes = l.answer.scopes, !.scope = l.answer.scope]
<1>1. Applied(l) \in PageType /\ SameLoad(page, Applied(l))
  BY AppliedType DEF Inv
<1>2. page \in PageType
  BY DEF Inv, TypeOK
<1>3. \A c \in {"saved", "inFlight", "shown", "chosenFor"} : c \in DOMAIN p /\ p[c] = page[c]
  BY <1>2 DEF PageType
<1>4. CASE ~l.answer.replaces
  <2>1. Applied(l) = p
    BY <1>4 DEF Applied
  <2> QED
    BY <1>1, <1>3, <1>4, <2>1
<1>5. CASE l.answer.replaces
  <2>1. Applied(l) = [p EXCEPT !.shown = l.answer.settings, !.saved = l.answer.settings,
                               !.chosenFor = <<l.request.store, l.answer.scope>>]
    BY <1>5 DEF Applied, Show
  <2> HIDE DEF p
  <2>2. Applied(l).saved = l.answer.settings /\ Applied(l).inFlight = p.inFlight
    BY <1>3, <2>1
  <2> QED
    BY <1>1, <1>3, <1>5, <2>2
<1> QED
  BY <1>4, <1>5

\* A load ends; the one that is for the page as it is now is the only one.
LEMMA CleanWhenLoaded ==
    ASSUME Inv, LoadInv, CleanInv, NEW l \in loads, CompleteLoad(l)
    PROVE  PageInv(page, saves, loads)'
<1>1. /\ page \in PageType /\ saves \in Saves /\ l \in LoadType
      /\ loads' = loads \ {l} /\ disk' = disk
  BY DEF Inv, TypeOK, Saves, CompleteLoad
<1>2. PageInv(page, saves, loads)
  BY DEF CleanInv
<1>3. CASE ~Current(page, l.generation, l.request)
  <2>1. page' = page /\ saves' = saves
    BY <1>3 DEF CompleteLoad
  <2>2. PageInv(page', saves', loads')
    BY <1>1, <1>2, <2>1 DEF PageInv, ReadInv
  <2> QED
    BY <1>1, <2>2, SameDisk
<1>4. CASE Current(page, l.generation, l.request)
  <2> DEFINE p == Applied(l)
  <2>1. /\ p \in PageType /\ SameLoad(page, p) /\ p.inFlight = page.inFlight
        /\ ~l.answer.replaces => p.saved = page.saved
        /\ l.answer.replaces => p.saved = l.answer.settings
    BY AppliedCells
  <2>2. \/ page' = p /\ saves' = saves
        \/ l.values = "provided" /\ Autosave(p, saves)
    BY <1>4 DEF CompleteLoad
  <2> HIDE DEF p
  <2>3. p.request = page.request /\ p.generation = page.generation
    BY <2>1 DEF SameLoad
  <2>4. BusyInv(p, saves)
    BY <1>2, <2>1, <2>3 DEF PageInv, BusyInv
  <2>5. SavedInv(p, saves)
    <3>1. CASE ~l.answer.replaces
      BY <1>2, <2>1, <2>3, <3>1 DEF PageInv, SavedInv, Value
    <3>2. CASE l.answer.replaces /\ l.values = "provided"
      BY <1>2, <2>1, <3>2, PageAssumption DEF PageInv, ReadInv, SavedInv
    <3>3. CASE l.answer.replaces /\ l.values = "read"
      <4>1. p.saved = ValueAt(l.request.store, Root)
        BY <1>2, <1>4, <2>1, <3>3 DEF PageInv, ReadInv
      <4>2. l.request \in Requests /\ page.request = l.request
        BY <1>1, <1>4 DEF LoadType, Current
      <4> QED
        BY <2>3, <4>1, <4>2 DEF SavedInv, Value
    <3>4. CASE l.answer.replaces /\ l.values = "keep"
      BY <1>2, <3>4 DEF PageInv, ReadInv
    <3> QED
      BY <1>1, <3>1, <3>2, <3>3, <3>4 DEF LoadType
  <2>6. ReadInv(p, saves, loads')
    <3>1. \A m \in loads' : ~Current(p, m.generation, m.request)
      BY <1>1, <1>4, <2>3 DEF LoadInv, Current
    <3> QED
      BY <1>1, <1>2, <3>1 DEF PageInv, ReadInv
  <2>7. Handled(p, saves, page', saves')
    BY <1>1, <2>1, <2>2, AutosaveHandles DEF Handled, SameCells, SameLoad
  <2>8. PageInv(page', saves', loads')
    BY <1>1, <2>1, <2>4, <2>5, <2>6, <2>7, HandledClean DEF PageInv
  <2> QED
    BY <1>1, <2>8, SameDisk
<1> QED
  BY <1>3, <1>4

\* A worker writes the file, alone as it is; then its answer is awaited, or the error
\* that the file of a new store was followed by.
LEMMA CleanWhenWritten ==
    ASSUME Inv, LoadInv, CleanInv, OneOpening, NEW i \in Slots,
           \/ SaveLands(i) \/ SaveLandsThenFails(i)
           \/ SaveFails(i, "failed") \/ SaveFails(i, "locked")
    PROVE  PageInv(page, saves, loads)'
<1>1. /\ TypeOK /\ saves \in Saves /\ page' = page /\ loads' = loads
      /\ PageInv(page, saves, loads)
  BY DEF Inv, TypeOK, Saves, SaveLands, SaveLandsThenFails, SaveFails, CleanInv
<1>2. saves[i] # NoSave /\ saves[i] \in SaveType /\ saves[i].phase = "running"
  BY <1>1, PhaseOfSave DEF SaveLands, SaveLandsThenFails, SaveFails, Running
<1>3. /\ page.inFlight /\ page.request \in Requests /\ saves[i].request = page.request
      /\ saves[i].settings \notin Keyless /\ saves[i].scope = Root
      /\ \A j \in Slots : saves[j] # NoSave => j = i
  BY <1>1, <1>2 DEF PageInv, BusyInv, SaveType, OneOpening
<1>4. PICK phase \in {"saved", "failed", "locked"} :
         /\ saves' = [saves EXCEPT ![i].phase = phase]
         /\ phase = "saved" => disk' = [disk EXCEPT ![page.request.store][Root] =
                                           saves[i].settings]
         /\ disk' # disk /\ phase # "saved" => disk[page.request.store][Root] = NoFile
         /\ phase = "locked" => disk' = disk
  BY <1>3 DEF SaveLands, SaveLandsThenFails, SaveFails
<1> DEFINE t == [saves[i] EXCEPT !.phase = phase]
<1>5. /\ t.phase = phase /\ t.request = page.request /\ t.settings = saves[i].settings
      /\ t # NoSave
  <2>1. /\ t.phase = phase /\ t.request = page.request /\ t.settings = saves[i].settings
    BY <1>2, <1>3 DEF SaveType
  <2> QED
    BY <2>1 DEF NoSave
<1>6. saves' = [saves EXCEPT ![i] = t]
  BY <1>4
<1> HIDE DEF t
<1>7. \A j \in Slots : saves'[j] = IF j = i THEN t ELSE NoSave
  BY <1>1, <1>3, <1>6 DEF Saves
<1>8. phase = "saved" => disk'[page.request.store][Root] = saves[i].settings
  BY <1>1, <1>3, <1>4, PageAssumption DEF TypeOK, Requests
<1>9. BusyInv(page, saves)'
  BY <1>1, <1>3, <1>5, <1>7, <1>8 DEF BusyInv
<1>10. SavedInv(page, saves)'
  <2> SUFFICES ASSUME page.saved \notin Keyless, phase # "saved"
               PROVE  page.saved = Value(page)'
    BY <1>1, <1>3, <1>5, <1>7 DEF SavedInv
  <2>1. \A j \in Slots : saves[j].phase # "saved"
    BY <1>2, <1>3 DEF NoSave
  <2>2. page.saved = Value(page)
    BY <1>1, <2>1 DEF PageInv, SavedInv
  <2>3. disk' = disk
    BY <1>4, <2>2, PageAssumption DEF Value, ValueAt
  <2> QED
    BY <1>1, <2>2, <2>3 DEF Value, ValueAt
<1>11. ReadInv(page, saves, loads)'
  <2>1. \A l \in loads : ~(Current(page, l.generation, l.request) /\ l.values = "read")
    BY <1>1, <1>2 DEF PageInv, ReadInv
  <2> QED
    BY <1>1, <2>1 DEF PageInv, ReadInv, Current
<1> QED
  BY <1>9, <1>10, <1>11 DEF PageInv

\* The user or a dialog: what the page shows may change, what counts as saved does not.
LEMMA CleanWhenUsed ==
    ASSUME Inv, LoadInv, CleanInv, loads' = loads, disk' = disk,
           NEW p \in PageType, SameLoad(page, p), p.inFlight = page.inFlight,
           p.saved = page.saved, Handled(p, saves, page', saves'),
           \/ ~page.loading
           \/ page.prompts # {}
           \/ p.shown = page.shown /\ p.prompts = page.prompts
    PROVE  PageInv(page, saves, loads)'
<1>1. saves \in Saves /\ PageInv(page, saves, loads)
  BY DEF Inv, TypeOK, Saves, CleanInv
<1>2. BusyInv(p, saves) /\ SavedInv(p, saves)
  BY <1>1, BusyAlike DEF PageInv, SameLoad
<1>3. ReadInv(p, saves, loads)
  <2>1. p.generation = page.generation /\ p.request = page.request
    BY DEF SameLoad
  <2>2. CASE ~page.loading \/ page.prompts # {}
    BY <1>1, <2>1, <2>2, NothingRead DEF PageInv
  <2>3. CASE p.shown = page.shown /\ p.prompts = page.prompts
    BY <1>1, <2>1, <2>3 DEF PageInv, ReadInv, Current
  <2> QED
    BY <2>2, <2>3
<1> QED
  BY <1>1, <1>2, <1>3, CleanKeptByHandling DEF PageInv

\* The page is reloaded, with or without a load of its own.
LEMMA CleanWhenReloaded ==
    ASSUME Inv, CleanInv, Reload \/ KeyInventoryChanged
    PROVE  PageInv(page, saves, loads)'
<1>1. /\ page \in PageType /\ saves \in Saves /\ PageInv(page, saves, loads)
      /\ page' = Loading(page) /\ saves' = saves /\ disk' = disk
  BY DEF Inv, TypeOK, Saves, CleanInv, Reload, KeyInventoryChanged
<1>2. /\ Loading(page) \in PageType /\ Loading(page).generation = page.generation + 1
      /\ Loading(page).request = page.request
  BY <1>1, LoadingType
<1>3. Loading(page).inFlight = page.inFlight /\ Loading(page).saved = page.saved
  BY <1>1 DEF Loading, PageType
<1> DEFINE p == Loading(page)
<1> HIDE DEF p
<1>4. BusyInv(p, saves) /\ SavedInv(p, saves)
  BY <1>1, <1>2, <1>3, BusyAlike DEF PageInv, p
<1>5. Handled(p, saves, p, saves)
  BY DEF Handled, SameCells, SameLoad
<1>6. p \in PageType /\ p.generation = page.generation + 1 /\ page' = p
  BY <1>1, <1>2 DEF p
<1>7. CASE Reload
  <2>1. loads' = loads \cup {NewLoad(page, "keep")}
    BY <1>7 DEF Reload
  <2>2. ReadInv(page, saves, loads) /\ Handled(p, saves, page', saves')
    BY <1>1, <1>5, <1>6 DEF PageInv
  <2> QED
    BY <1>1, <1>4, <1>6, <2>1, <2>2, CleanKeptByLoading
<1>8. CASE KeyInventoryChanged
  <2>1. loads' = loads
    BY <1>8 DEF KeyInventoryChanged
  <2>2. ReadInv(p, saves, loads)
    BY <1>1, <1>6, ReadDropped DEF PageInv
  <2> QED
    BY <1>1, <1>4, <1>5, <1>6, <2>1, <2>2, CleanKeptByHandling DEF PageInv
<1> QED
  BY <1>7, <1>8

\* The new store is made: the page becomes its edit page and is reloaded.
LEMMA CleanWhenCreated ==
    ASSUME Inv, LoadInv, CleanInv, OneOpening, NEW i \in Slots, StoreCreated(i)
    PROVE  PageInv(page, saves, loads)'
<1> DEFINE q == MarkedSaved(i)
           r == [store |-> saves[i].request.store, mode |-> "edit"]
           p == [q EXCEPT !.request = r]
           done == [Loading(p) EXCEPT !.inFlight = FALSE]
<1>1. /\ saves[i].phase = "saved" /\ FinishSave(Loading(p), Freed(i), TRUE)
      /\ disk' = disk /\ loads' = loads \cup {NewLoad(p, "keep")}
      /\ PageInv(page, saves, loads)
  BY DEF StoreCreated, CleanInv
<1>2. /\ saves[i] # NoSave /\ saves[i].request = page.request /\ page.request \in Requests
      /\ q \in PageType /\ SameLoad(page, q) /\ q.saved = Value(page)
  BY <1>1, MarkedSavedHere DEF PageInv
<1>3. r \in Requests /\ r.store = page.request.store
  BY <1>2 DEF Requests
<1>4. Freed(i) \in Saves /\ \A j \in Slots : Freed(i)[j] = NoSave
  BY <1>1, <1>2, FreedAll DEF PageInv
<1> HIDE DEF q, r
<1>5. /\ p \in PageType /\ p.generation = page.generation /\ p.request = r
      /\ p.saved = Value(page)
  BY <1>2, <1>3 DEF PageType, SameLoad
<1> HIDE DEF p
<1>6. /\ Loading(p) \in PageType /\ Loading(p).generation = page.generation + 1
      /\ Loading(p).request = r
  BY <1>5, LoadingType
<1>7. Loading(p).saved = Value(page)
  BY <1>5 DEF Loading, PageType
<1>8. /\ done \in PageType /\ SameCells(Loading(p), done)
      /\ Handled(done, Freed(i), page', saves')
  BY <1>1, <1>4, <1>6, FinishSaveHandles
<1> HIDE DEF done
<1>9. /\ done.generation = page.generation + 1 /\ done.request = r
      /\ done.saved = Value(page)
  BY <1>6, <1>7, <1>8 DEF SameCells, SameLoad
<1>10. BusyInv(done, Freed(i))
  BY <1>4 DEF BusyInv
<1>11. SavedInv(done, Freed(i))
  BY <1>3, <1>9 DEF SavedInv, Value
<1>12. ReadInv(page, saves, loads)
  BY <1>1 DEF PageInv
<1> QED
  BY <1>1, <1>4, <1>8, <1>9, <1>10, <1>11, <1>12, CleanKeptByLoading

LEMMA CleanKept ==
    ASSUME Inv, LoadInv, UsedInv, CleanInv, OneOpening, [Next]_vars
    PROVE  PageInv(page, saves, loads)'
<1>1. /\ TypeOK /\ page \in PageType /\ saves \in Saves /\ PageInv(page, saves, loads)
  BY DEF Inv, TypeOK, Saves, CleanInv
<1>2. SameLoad(page, page)
  BY DEF SameLoad
<1>a. ASSUME NEW s \in Stores, OpenEdit(s) \/ AddExisting(s) \/ OpenCreate(s)
      PROVE  PageInv(page, saves, loads)'
  <2>1. used.opens < 1
    BY <1>a DEF OpenEdit, AddExisting, OpenCreate, Spend, OneOpening
  <2>2. used.opens = 0
    BY <2>1 DEF UsedInv
  <2> QED
    BY <1>a, <2>2, CleanWhenOpened DEF CleanInv
<1>b. ASSUME Reload \/ KeyInventoryChanged
      PROVE  PageInv(page, saves, loads)'
  BY <1>b, CleanWhenReloaded
<1>c. ASSUME NEW l \in loads, LoadReads(l) \/ LoadEnds(l) \/ LoadDies(l)
      PROVE  PageInv(page, saves, loads)'
  BY <1>c, CleanWhenRead, CleanWhenLoaded DEF LoadEnds, LoadDies
<1>d. ASSUME ListingEnds
      PROVE  PageInv(page, saves, loads)'
  <2>1. /\ page' = page \/ page' = [page EXCEPT !.loading = FALSE]
        /\ saves' = saves /\ loads' = loads /\ disk' = disk
    BY <1>d DEF ListingEnds
  <2>2. /\ page'.inFlight = page.inFlight /\ page'.saved = page.saved
        /\ page'.request = page.request /\ page'.generation = page.generation
        /\ page'.shown = page.shown /\ page'.prompts = page.prompts
    BY <1>1, <2>1 DEF PageType
  <2>3. BusyInv(page', saves) /\ SavedInv(page', saves)
    BY <1>1, <2>2, BusyAlike DEF PageInv
  <2>4. ReadInv(page', saves, loads)
    BY <1>1, <2>2 DEF PageInv, ReadInv, Current
  <2>5. PageInv(page', saves', loads')
    BY <2>1, <2>3, <2>4 DEF PageInv
  <2> QED
    BY <2>1, <2>5, SameDisk
<1>e. ASSUME NEW settings \in Settings, Edit(settings)
      PROVE  PageInv(page, saves, loads)'
  <2> DEFINE p == [page EXCEPT !.shown = settings]
  <2>1. /\ p \in PageType /\ SameLoad(page, p)
        /\ p.inFlight = page.inFlight /\ p.saved = page.saved
    BY <1>1 DEF PageType, SameLoad
  <2>2. Autosave(p, saves) /\ ~page.loading /\ loads' = loads /\ disk' = disk
    BY <1>e DEF Edit
  <2> HIDE DEF p
  <2>3. Handled(p, saves, page', saves')
    BY <1>1, <2>1, <2>2, AutosaveHandles
  <2> QED
    BY <2>1, <2>2, <2>3, CleanWhenUsed
<1>f. \A d \in Scopes : ~ SelectScope(d)
  BY <1>1 DEF SelectScope, PageType, OneOpening
<1>g. ASSUME SaveShortcut
      PROVE  PageInv(page, saves, loads)'
  <2>1. SaveNow(page, saves, TRUE) /\ loads' = loads /\ disk' = disk
    BY <1>g DEF SaveShortcut
  <2>2. Handled(page, saves, page', saves')
    BY <1>1, <2>1, SaveNowHandles
  <2> QED
    BY <1>1, <1>2, <2>1, <2>2, CleanWhenUsed
<1>h. ASSUME GitPromptEnds
      PROVE  PageInv(page, saves, loads)'
  <2> DEFINE p == [page EXCEPT !.prompts = @ \ {"git"}]
  <2>1. /\ p \in PageType /\ SameLoad(page, p)
        /\ p.inFlight = page.inFlight /\ p.saved = page.saved
    BY <1>1 DEF PageType, SameLoad
  <2>2. SaveNow(p, saves, FALSE) /\ page.prompts # {} /\ loads' = loads /\ disk' = disk
    BY <1>h DEF GitPromptEnds
  <2> HIDE DEF p
  <2>3. Handled(p, saves, page', saves')
    BY <1>1, <2>1, <2>2, SaveNowHandles
  <2> QED
    BY <2>1, <2>2, <2>3, CleanWhenUsed
<1>i. ASSUME KeyPromptSucceeds
      PROVE  PageInv(page, saves, loads)'
  <2> DEFINE q == [page EXCEPT !.prompts = @ \ {"key"}]
  <2>1. /\ q \in PageType /\ q.generation = page.generation /\ q.request = page.request
        /\ q.inFlight = page.inFlight /\ q.saved = page.saved
    BY <1>1 DEF PageType
  <2>2. /\ SaveNow(Loading(q), saves, TRUE) /\ disk' = disk
        /\ loads' = loads \cup {NewLoad(q, "keep")}
    BY <1>i DEF KeyPromptSucceeds
  <2> HIDE DEF q
  <2>3. /\ Loading(q) \in PageType /\ Loading(q).generation = page.generation + 1
        /\ Loading(q).request = page.request
    BY <2>1, LoadingType
  <2>4. Loading(q).inFlight = page.inFlight /\ Loading(q).saved = page.saved
    BY <2>1 DEF Loading, PageType
  <2>5. Handled(Loading(q), saves, page', saves')
    BY <1>1, <2>2, <2>3, SaveNowHandles
  <2> DEFINE p == Loading(q)
  <2> HIDE DEF p
  <2>6. BusyInv(p, saves) /\ SavedInv(p, saves)
    BY <1>1, <2>3, <2>4, BusyAlike DEF PageInv, p
  <2>7. p \in PageType /\ p.generation = page.generation + 1
        /\ Handled(p, saves, page', saves') /\ ReadInv(page, saves, loads)
    BY <1>1, <2>3, <2>5 DEF p, PageInv
  <2> QED
    BY <1>1, <2>2, <2>6, <2>7, CleanKeptByLoading
<1>j. ASSUME KeyPromptDismissed
      PROVE  PageInv(page, saves, loads)'
  <2>1. /\ page' = [page EXCEPT !.prompts = @ \ {"key"}] /\ page.prompts # {}
        /\ saves' = saves /\ loads' = loads /\ disk' = disk
    BY <1>j DEF KeyPromptDismissed
  <2>2. /\ page' \in PageType /\ SameLoad(page, page')
        /\ page'.inFlight = page.inFlight /\ page'.saved = page.saved
    BY <1>1, <2>1 DEF PageType, SameLoad
  <2>3. Handled(page', saves, page', saves')
    BY <2>1 DEF Handled, SameCells, SameLoad
  <2> QED
    BY <2>1, <2>2, <2>3, CleanWhenUsed
<1>k. ASSUME NEW i \in Slots,
             \/ SaveLands(i) \/ SaveLandsThenFails(i)
             \/ SaveFails(i, "failed") \/ SaveFails(i, "locked")
      PROVE  PageInv(page, saves, loads)'
  BY <1>k, CleanWhenWritten
<1>l. ASSUME NEW i \in Slots, EditSaved(i) \/ StoreCreatedNotListed(i)
      PROVE  PageInv(page, saves, loads)'
  <2>1. /\ saves[i].phase = "saved" /\ FinishSave(MarkedSaved(i), Freed(i), TRUE)
        /\ loads' = loads /\ disk' = disk
    BY <1>l DEF EditSaved, StoreCreatedNotListed
  <2> DEFINE p == MarkedSaved(i)
  <2>2. /\ saves[i] # NoSave /\ page.request \in Requests
        /\ p \in PageType /\ SameLoad(page, p) /\ p.saved = Value(page)
    BY <1>1, <2>1, MarkedSavedHere DEF PageInv
  <2>3. FinishSave(p, Freed(i), TRUE)
    BY <2>1
  <2> HIDE DEF p
  <2>4. p.saved \notin Keyless => p.request \in Requests /\ p.saved = Value(p)
    BY <2>2 DEF SameLoad, Value
  <2> QED
    BY <2>1, <2>2, <2>3, <2>4, CleanKeptByFinishing
<1>m. ASSUME NEW i \in Slots, SaveFailed(i) \/ SaveNeedsKey(i)
      PROVE  PageInv(page, saves, loads)'
  <2>1. /\ saves[i].phase \in {"failed", "locked"} /\ loads' = loads /\ disk' = disk
        /\ \/ FinishSave(page, Freed(i), FALSE)
           \/ FinishSave([page EXCEPT !.prompts = @ \cup {"key"}], Freed(i), FALSE)
    BY <1>m DEF SaveFailed, SaveNeedsKey
  <2>2. saves[i] # NoSave
    BY <1>1, <2>1, PhaseOfSave
  <2>3. \A j \in Slots : saves[j].phase # "saved"
    BY <1>1, <2>1, <2>2 DEF PageInv, BusyInv, NoSave
  <2>4. page.saved \notin Keyless => page.request \in Requests /\ page.saved = Value(page)
    BY <1>1, <2>3 DEF PageInv, SavedInv
  <2> DEFINE q == [page EXCEPT !.prompts = @ \cup {"key"}]
  <2>5. q \in PageType /\ SameLoad(page, q) /\ q.saved = page.saved
    BY <1>1 DEF PageType, SameLoad
  <2>6. PICK p \in {page, q} : FinishSave(p, Freed(i), FALSE)
    BY <2>1
  <2> HIDE DEF q
  <2>7. /\ p \in PageType /\ SameLoad(page, p)
        /\ p.saved \notin Keyless => p.request \in Requests /\ p.saved = Value(p)
    BY <1>1, <1>2, <2>4, <2>5, <2>6 DEF SameLoad, Value
  <2> QED
    BY <2>1, <2>2, <2>6, <2>7, CleanKeptByFinishing
<1>n. ASSUME NEW i \in Slots, StoreCreated(i)
      PROVE  PageInv(page, saves, loads)'
  BY <1>n, CleanWhenCreated
<1>o. ASSUME UNCHANGED vars
      PROVE  PageInv(page, saves, loads)'
  <2>1. PageInv(page', saves', loads') /\ disk' = disk
    BY <1>1, <1>o DEF vars
  <2> QED
    BY <2>1, SameDisk
<1> QED
  BY <1>a, <1>b, <1>c, <1>d, <1>e, <1>f, <1>g, <1>h, <1>i, <1>j, <1>k, <1>l, <1>m, <1>n,
     <1>o DEF Next, LoadStep, DeliverStep

\* The page of a store with one directory, opened once: at rest and not dirty it shows
\* what the .gpg-id says, whatever was edited, queued, reloaded, refused, retried or
\* left half made while a save ran (finish_store_recipients_save,
\* store_recipients_are_dirty).  With a second directory, or a second opening, the answer
\* of a save may come after the page has read other settings, and marks those as saved.
THEOREM CleanPagesShowTheStore ==
    ASSUME OneOpening
    PROVE  Spec => []CleanPageShowsTheStore
<1>1. Init => LoadInv /\ UsedInv
  BY DEF Init, LoadInv, UsedInv
<1>2. Init => CleanInv
  <2> SUFFICES ASSUME Init PROVE CleanInv
    OBVIOUS
  <2>1. /\ page.request = NoRequest /\ page.shown = Blank /\ page.saved = Blank
        /\ loads = {} /\ used.opens = 0 /\ \A i \in Slots : saves[i] = NoSave
    BY DEF Init
  <2> QED
    BY <2>1, PageAssumption DEF CleanInv, OpensInv, PageInv, BusyInv, SavedInv, ReadInv
<1>3. Inv /\ LoadInv /\ UsedInv /\ CleanInv /\ [Next]_vars
         => (LoadInv /\ UsedInv /\ CleanInv)'
  BY LoadInvKept, UsedKept, OpensKept, CleanKept DEF CleanInv
<1>4. Inv /\ CleanInv => CleanPageShowsTheStore
  <2> SUFFICES ASSUME Inv, CleanInv, Settled, ~Dirty(page), page.shown \notin Keyless
               PROVE  page.shown = ValueAt(page.request.store, page.scope)
    BY DEF CleanPageShowsTheStore
  <2>1. page.saved \notin Keyless /\ page.shown = page.saved
    BY DEF Dirty
  <2>2. \A i \in Slots : saves[i].phase # "saved"
    BY DEF Settled, NoSave
  <2>3. page.saved = Value(page)
    BY <2>1, <2>2 DEF CleanInv, PageInv, SavedInv
  <2>4. page.scope = Root
    BY DEF Inv, TypeOK, PageType, OneOpening
  <2> QED
    BY <2>1, <2>3, <2>4 DEF Value
<1> QED
  BY <1>1, <1>2, <1>3, <1>4, InvHolds, PTL DEF Spec
=============================================================================
