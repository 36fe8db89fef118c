------------------------- MODULE ClientCache_proofs -------------------------
(***************************************************************************)
(* What one browser tab keeps, for every set of sessions, sign-ins and     *)
(* number of requests.                                                     *)
(*                                                                         *)
(* The argument.  A step of the user, of time or of a fetch makes the      *)
(* entry no worse (NoWorse): what was explained stays so, and the request  *)
(* goes on, seen or not (Onward); Kept and KeptOnward draw the conclusion  *)
(* once for all of them.  The steps of a request are proved one by one:    *)
(* what the server changes is unheard until an answer or an error comes,   *)
(* and these refresh or excuse the entry (AnswerRefreshes, ExcusedIs).     *)
(* Which hooks refresh what enters in HooksConnect and MoneySettles only.  *)
(***************************************************************************)
EXTENDS ClientCache, TLAPS

-----------------------------------------------------------------------------
(* The tables *)

LEMMA NoneIsNoComponent == None \notin DOMAIN Component /\ "AppSidebar" \in DOMAIN Component
  BY DEF None, Component

-----------------------------------------------------------------------------
(* Sessions *)

Users == {session.roles} \cup Identities

\* A session is what Following makes of it, and stays so.
Sound == session \in Session /\ IInv

LEMMA SessionFacts ==
  ASSUME session \in Session
  PROVE  /\ session.pages \subseteq PageName /\ session.dialogs \subseteq DOMAIN Component
         /\ q \in {None} \cup DOMAIN QueryOf
         /\ \A r \in Users :
              /\ session.shows[r] \subseteq DOMAIN Component \ {None}
              /\ session.offers[r] \subseteq DOMAIN Component
              /\ session.offers[r] # {} => session.mutation \in DOMAIN MutationOf
<1> DEFINE s == session
           Roots(r) == {root \in DOMAIN Component : MayMount(r, root)}
<1>1. /\ s = Following(s.roles, s.query, s.mutation, s.pages, s.dialogs)
      /\ s.roles \subseteq Role /\ s.query \in {None} \cup DOMAIN QueryOf
      /\ s.pages \subseteq PageName /\ s.dialogs \subseteq DOMAIN Component
  BY SessionAssumption
<1>2. Users \subseteq SUBSET Role
  BY <1>1, IdentitiesAssumption DEF Users
<1>3. /\ s.shows = [r \in Users |-> {c \in Roots(r) : s.query \in Inside[r][c].reads}]
      /\ s.offers = [r \in Users |-> {c \in Roots(r) : s.mutation \in Inside[r][c].acts}]
  BY <1>1 DEF Following, Users
<1>4. ASSUME NEW r \in Users
      PROVE  /\ session.shows[r] \subseteq DOMAIN Component \ {None}
             /\ session.offers[r] \subseteq DOMAIN Component
             /\ session.offers[r] # {} => session.mutation \in DOMAIN MutationOf
  <2>1. \A c \in DOMAIN Component : Inside[r][c].acts \subseteq DOMAIN MutationOf
    BY <1>2, TablesAreWhole
  <2> QED
    BY <1>3, <2>1, NoneIsNoComponent
<1> QED
  BY <1>1, <1>4 DEF q

\* A session is followed to its end.
LEMMA SameSession ==
  ASSUME session' = session
  PROVE  /\ q' = q /\ m' = m /\ (Cached' <=> Cached) /\ (Rereads' <=> Rereads)
         /\ (AlwaysRead' <=> AlwaysRead) /\ Users' = Users
         /\ \A k : Affects(k)' <=> Affects(k)
  BY DEF q, m, Cached, Affects, Rereads, AlwaysRead, Users

-----------------------------------------------------------------------------
(* What a step does to the entry *)

Entry == [mark : Mark, behind : BOOLEAN, fetch : Fetch, overtaken : BOOLEAN,
          failed : BOOLEAN, excuse : {None, "late", "lost"}]
Request ==
  [phase : {"idle", "sent", "done", "refused", "refreshing", "failing"}, part : 1..2,
   from : {None} \cup DOMAIN Component, left : {"no", "dismissed", "page"}]

\* What holds of an entry whatever the request is doing.
Whole(e) ==
  /\ e \in Entry
  /\ AlwaysRead => e.mark # "fresh"
  /\ e.behind => e.mark # "none"
\* Entry d, on screen if now, is no worse than e was, on screen if before.
NoWorse(e, before, d, now) ==
  /\ Whole(d)
  /\ Explained(e) => Explained(d)
  /\ Rereads /\ Awaited(e, before) => Awaited(d, now)
  /\ Untouched(e) => Untouched(d)

LEMMA NoEntryIs ==
  ASSUME NEW e, NEW before, NEW now, NEW d \in {NoEntry, [NoEntry EXCEPT !.fetch = "sent"]}
  PROVE  NoWorse(e, before, d, now)
<1>1. /\ d \in Entry /\ ~d.behind /\ d.mark = "none" /\ d.fetch \in {"idle", "sent"}
  <2>1. NoEntry \in Entry /\ [NoEntry EXCEPT !.fetch = "sent"] \in Entry
    BY DEF Entry, Mark, Fetch, NoEntry, None
  <2>2. CASE d = NoEntry
    BY <2>1, <2>2 DEF NoEntry, None
  <2>3. CASE d = [NoEntry EXCEPT !.fetch = "sent"]
    BY <2>1, <2>3 DEF NoEntry, None
  <2> QED
    BY <2>2, <2>3
<1> QED
  BY <1>1 DEF NoWorse, Whole, Explained, Awaited, Untouched

LEMMA SameIsNoWorse ==
  ASSUME NEW e, Whole(e), NEW before, NEW now, now => before
  PROVE  NoWorse(e, before, e, now)
  BY DEF NoWorse, Explained, Awaited, Untouched

LEMMA AskIsNoWorse ==
  ASSUME NEW e, Whole(e), NEW c, NEW shows, NEW before, NEW now, now => before \/ c \in shows
  PROVE  NoWorse(e, before, Ask(e, c \in shows), now)
  BY DEF NoWorse, Whole, Entry, Mark, Fetch, None, Ask, Explained, Awaited, Untouched, Rereads

LEMMA AskAgainIsNoWorse ==
  ASSUME NEW e, Whole(e), NEW shown
  PROVE  NoWorse(e, shown, Ask(e, TRUE), shown)
  BY DEF NoWorse, Whole, Entry, Mark, Fetch, None, Ask, Explained, Awaited, Untouched, Rereads

LEMMA FetchIsNoWorse ==
  ASSUME NEW e, Whole(e), NEW shown
  PROVE  /\ e.fetch = "sent" => NoWorse(e, shown, [e EXCEPT !.fetch = "current"], shown)
         /\ e.fetch = "idle" => NoWorse(e, shown, [e EXCEPT !.fetch = "sent"], shown)
         /\ NoWorse(e, shown, [e EXCEPT !.fetch = "idle", !.failed = TRUE, !.overtaken = FALSE], shown)
         /\ e.mark = "fresh" => NoWorse(e, shown, [e EXCEPT !.mark = "aged"], shown)
  BY DEF NoWorse, Whole, Entry, Mark, Fetch, None, Explained, Awaited, Untouched

LEMMA LandedIsNoWorse ==
  ASSUME NEW e, Whole(e), e.fetch \in {"current", "old"}, NEW shown
  PROVE  NoWorse(e, shown, Landed(e), shown)
  BY DEF NoWorse, Whole, Entry, Mark, Fetch, NoEntry, None, Landed, Explained, Awaited,
         Untouched, AlwaysRead, Rereads

\* What the refreshing of an answer does.
LEMMA RefreshIs ==
  ASSUME NEW e, Whole(e)
  PROVE  /\ Whole(Refresh(e))
         /\ Explained(e) => Explained(Refresh(e))
         /\ Untouched(e) => Untouched(Refresh(e))
         /\ Rereads => Awaited(Refresh(e), OnScreen)
         /\ Cached /\ (q \in m.patches \/ QueryOf[q].family \in m.refreshes)
              => Explained(Refresh(e))
<1>1. CASE q \in m.patches
  <2>1. Refresh(e) = Patched(e)
    BY <1>1 DEF Refresh
  <2> QED
    BY <1>1, <2>1 DEF Whole, Entry, Mark, Fetch, None, Patched, Explained, Untouched,
                      AlwaysRead, Rereads
<1>2. CASE q \notin m.patches /\ Cached /\ QueryOf[q].family \in m.refreshes
  <2>1. Refresh(e) = Invalidated(e)
    BY <1>2 DEF Refresh
  <2>2. Whole(Invalidated(e)) /\ Explained(Invalidated(e))
    BY DEF Whole, Entry, Mark, Fetch, None, Invalidated, Explained
  <2>3. Untouched(e) => Untouched(Invalidated(e))
    BY DEF Whole, Entry, Mark, Fetch, Invalidated, Untouched
  <2>4. Awaited(Invalidated(e), OnScreen)
    BY DEF Whole, Entry, Mark, Fetch, Invalidated, Awaited
  <2> QED
    BY <2>1, <2>2, <2>3, <2>4
<1>3. CASE q \notin m.patches /\ ~(Cached /\ QueryOf[q].family \in m.refreshes)
  BY <1>3 DEF Refresh, Rereads
<1> QED
  BY <1>1, <1>2, <1>3

LEMMA ExcusedIs ==
  ASSUME NEW e, Whole(e)
  PROVE  Whole(Excused(e)) /\ Explained(Excused(e)) /\ (Untouched(e) => Untouched(Excused(e)))
  BY DEF Whole, Entry, Mark, Fetch, None, Excused, Explained, Untouched

LEMMA OvertakenIs ==
  ASSUME NEW e, Whole(e)
  PROVE  Whole(Overtaken(e))
  BY DEF Whole, Entry, Mark, Fetch, None, Overtaken

-----------------------------------------------------------------------------
(* The user *)

\* What a step of anyone but the request leaves true: the request goes on as
\* it was, or is left behind, and the entry is no worse than it was.
LEMMA Kept ==
  ASSUME Sound, session' = session, TypeOK', RequestIsReal',
         Unheard => Unheard',
         request'.phase \in {"refreshing", "failing"} => request.phase \in {"refreshing", "failing"},
         NoWorse(entry, OnScreen, entry', OnScreen')
  PROVE  Sound'
<1>1. session' \in Session
  BY DEF Sound, IInv
<1>2. StaleIsExplained'
  BY SameSession DEF Sound, IInv, StaleIsExplained, NoWorse, Whole, Explained
<1>3. RereadIsUnderWay'
  BY SameSession DEF Sound, IInv, RereadIsUnderWay, NoWorse, Awaited
<1>4. UnrelatedIsCurrent'
  BY SameSession DEF Sound, IInv, UnrelatedIsCurrent, NoWorse, Untouched
<1> QED
  BY <1>1, <1>2, <1>3, <1>4 DEF Sound, IInv

LEMMA Typed ==
  ASSUME Sound
  PROVE  /\ entry \in Entry /\ Whole(entry) /\ request \in Request
         /\ form \in {None, "old", "new"} /\ identity \in Users
         /\ place \in [page : PageName, dialog : {None} \cup DOMAIN Component]
         /\ place.page \in PageName /\ place.dialog \in {None} \cup DOMAIN Component
         /\ PageName \subseteq DOMAIN Component /\ session \in Session
         /\ OnScreen \in BOOLEAN
<1>1. /\ entry \in Entry /\ request \in Request /\ form \in {None, "old", "new"}
      /\ identity \in Users /\ session \in Session
      /\ place \in [page : PageName, dialog : {None} \cup DOMAIN Component]
  BY DEF Sound, IInv, TypeOK, Entry, Request, Users
<1>2. Whole(entry)
  BY <1>1 DEF Sound, IInv, StaleIsExplained, Whole
<1> QED
  BY <1>1, <1>2 DEF PageName, OnScreen, Mounted

\* The request goes on, seen or not.
Onward ==
  /\ request' \in Request /\ request'.phase = request.phase /\ request'.part = request.part
  /\ request'.from = request.from
  /\ request'.left = "dismissed" => request.left = "dismissed" \/ ~Component[request.from].guarded

LEMMA OnwardIsReal ==
  ASSUME Sound, session' = session, Onward
  PROVE  RequestIsReal' /\ (Unheard => Unheard')
<1>1. RequestIsReal'
  BY SameSession DEF Sound, IInv, RequestIsReal, Onward
<1>2. Unheard => Unheard'
  BY SameSession DEF Unheard, Onward
<1> QED
  BY <1>1, <1>2

\* The rest of the types, which a step of the user or the cache has to keep.
LEMMA KeptOnward ==
  ASSUME Sound, session' = session, Onward, requests' = requests,
         identity' \in Users,
         place' \in [page : PageName, dialog : {None} \cup DOMAIN Component],
         form' \in {None, "old", "new"}, form' # None => HasForm(place.page)' ,
         NoWorse(entry, OnScreen, entry', OnScreen')
  PROVE  Sound'
<1>1. RequestIsReal' /\ (Unheard => Unheard')
  BY OnwardIsReal
<1>2. entry' \in Entry /\ request' \in Request
  BY DEF NoWorse, Whole, Onward
<1>3. TypeOK'
  BY <1>2 DEF Sound, IInv, TypeOK, Entry, Request, Users
<1> QED
  BY <1>1, <1>3, Kept DEF Onward

\* Whatever comes on screen by going to a page was mounted there.
LEMMA ShownAfterGoing ==
  ASSUME Sound, NEW page \in PageName, session' = session, identity' = identity,
         place' = [page |-> page, dialog |-> None], OnScreen'
  PROVE  OnScreen \/ page \in session.shows[identity]
<1>1. None \notin session.shows[identity]
  BY Typed, SessionFacts
<1>2. session.shows[identity] \cap {"AppSidebar", page, None} # {}
  BY DEF OnScreen, Mounted
<1> QED
  BY <1>1, <1>2 DEF OnScreen, Mounted

LEMMA NavigateKeeps ==
  ASSUME Sound, NEW page \in session.pages, Navigate(page)
  PROVE  Sound'
<1>1. page \in PageName /\ session' = session /\ identity' = identity
  BY Typed, SessionFacts DEF Navigate
<1>2. /\ place' = [page |-> page, dialog |-> None]
      /\ entry' = Ask(entry, page \in session.shows[identity])
      /\ form' = Fill(page, TRUE, entry') /\ request' = Leave(request) /\ requests' = requests
  BY DEF Navigate, GoTo
<1>3. Onward
  BY Typed, <1>2 DEF Onward, Leave, Request
<1>4. NoWorse(entry, OnScreen, entry', OnScreen')
  <2>1. OnScreen' => OnScreen \/ page \in session.shows[identity]
    BY <1>1, <1>2, ShownAfterGoing
  <2>2. OnScreen' \in BOOLEAN
    BY DEF OnScreen, Mounted
  <2> QED
    BY <1>2, <2>1, <2>2, Typed, AskIsNoWorse
<1>5. form' \in {None, "old", "new"} /\ (form' # None => HasForm(place.page)')
  <2>1. form' \in {None, "old", "new"} /\ (form' # None => HasForm(page))
    BY <1>2, Typed DEF Fill
  <2> QED
    BY <1>1, <1>2, <2>1, SameSession DEF HasForm
<1>6. identity' \in Users /\ place' \in [page : PageName, dialog : {None} \cup DOMAIN Component]
  BY <1>1, <1>2, Typed
<1> QED
  BY <1>1, <1>2, <1>3, <1>4, <1>5, <1>6, KeptOnward

\* An edit form holds something only where there is one.
FormGoesOn == form' \in {None, "old", "new"} /\ (form' # None => HasForm(place.page))

LEMMA FormGoes ==
  ASSUME Sound
  PROVE  /\ form' = form => FormGoesOn
         /\ \A e : form' = Fill(place.page, FALSE, e) => FormGoesOn
<1>1. form \in {None, "old", "new"} /\ (form # None => HasForm(place.page))
  BY DEF Sound, IInv, TypeOK
<1> QED
  BY <1>1 DEF FormGoesOn, Fill

\* A step that leaves the user where he was, or takes him on or off a dialog.
LEMMA KeptOnPage ==
  ASSUME Sound, session' = session, identity' = identity, Onward, requests' = requests,
         place'.page = place.page, place'.dialog \in {None} \cup DOMAIN Component,
         place' = [place EXCEPT !.dialog = place'.dialog],
         FormGoesOn,
         NoWorse(entry, OnScreen, entry', OnScreen')
  PROVE  Sound'
<1>1. form' \in {None, "old", "new"} /\ (form' # None => HasForm(place.page)')
  BY SameSession DEF FormGoesOn, HasForm
<1>2. identity' \in Users /\ place' \in [page : PageName, dialog : {None} \cup DOMAIN Component]
  BY Typed
<1> QED
  BY <1>1, <1>2, KeptOnward

LEMMA OpenDialogKeeps ==
  ASSUME Sound, NEW dialog \in session.dialogs, OpenDialog(dialog)
  PROVE  Sound'
<1>1. /\ dialog \in DOMAIN Component /\ session' = session /\ identity' = identity
      /\ request' = request /\ requests' = requests
      /\ place.dialog = None /\ place' = [place EXCEPT !.dialog = dialog]
      /\ entry' = Ask(entry, dialog \in session.shows[identity])
      /\ form' = Fill(place.page, FALSE, entry')
  BY Typed, SessionFacts DEF OpenDialog, SetEntry
<1>2. place'.page = place.page /\ place'.dialog = dialog
      /\ place' = [place EXCEPT !.dialog = place'.dialog]
  BY <1>1, Typed
<1>3. Onward
  BY <1>1, Typed DEF Onward
<1>4. NoWorse(entry, OnScreen, entry', OnScreen')
  <2>1. OnScreen' => OnScreen \/ dialog \in session.shows[identity]
    BY <1>1, <1>2 DEF OnScreen, Mounted
  <2>2. OnScreen' \in BOOLEAN
    BY DEF OnScreen, Mounted
  <2> QED
    BY <1>1, <2>1, <2>2, Typed, AskIsNoWorse
<1>5. FormGoesOn
  BY <1>1, FormGoes
<1> QED
  BY <1>1, <1>2, <1>3, <1>4, <1>5, KeptOnPage

LEMMA DismissDialogKeeps ==
  ASSUME Sound, DismissDialog
  PROVE  Sound'
<1>1. /\ session' = session /\ identity' = identity /\ requests' = requests
      /\ entry' = entry /\ form' = form /\ place.dialog # None
      /\ place' = [place EXCEPT !.dialog = None]
  BY DEF DismissDialog
<1>2. place'.page = place.page /\ place'.dialog = None
      /\ place' = [place EXCEPT !.dialog = place'.dialog]
  BY <1>1, Typed
<1>3. Onward
  <2>1. \/ request' = request
        \/ /\ request' = [request EXCEPT !.left = "dismissed"]
           /\ ~Component[request.from].guarded
    BY DEF DismissDialog
  <2> QED
    BY <2>1, Typed DEF Onward, Request
<1>4. NoWorse(entry, OnScreen, entry', OnScreen')
  <2>1. None \notin session.shows[identity]
    BY Typed, SessionFacts
  <2>2. OnScreen' => OnScreen
    BY <1>1, <1>2, <2>1 DEF OnScreen, Mounted
  <2> QED
    BY <1>1, <2>2, Typed, SameIsNoWorse
<1>5. FormGoesOn
  BY <1>1, FormGoes
<1> QED
  BY <1>1, <1>2, <1>3, <1>4, <1>5, KeptOnPage

LEMMA PressKeeps ==
  ASSUME Sound, Press
  PROVE  Sound'
<1>1. PICK from \in session.offers[identity] :
        request' = [NoRequest EXCEPT !.phase = "sent", !.from = from]
  BY DEF Press
<1>2. /\ UNCHANGED <<session, identity, place, entry, form>> /\ requests' = requests + 1
      /\ request.phase = "idle" /\ requests < MaxRequests
  BY DEF Press
<1>3. from \in DOMAIN Component /\ from # None /\ session.mutation \in DOMAIN MutationOf
  BY <1>1, Typed, SessionFacts, NoneIsNoComponent
<1>4. /\ request' \in Request /\ request'.phase = "sent" /\ request'.part = 1
      /\ request'.from = from /\ request'.left = "no"
  <2>1. NoRequest \in Request /\ NoRequest.part = 1 /\ NoRequest.left = "no"
    BY DEF NoRequest, Request, None
  <2> QED
    BY <1>1, <1>3, <2>1 DEF Request
<1>5. RequestIsReal'
  <2>1. 1 \in DOMAIN MutationOf[session.mutation].sends
    BY <1>3, TablesAreWhole
  <2> QED
    BY <1>2, <1>3, <1>4, <2>1 DEF RequestIsReal, m
<1>6. TypeOK'
  <2>1. requests' \in 0..MaxRequests
    BY <1>2, RequestsAssumption DEF Sound, IInv, TypeOK
  <2>2. form' # None => HasForm(place.page)'
    BY <1>2, SameSession DEF Sound, IInv, TypeOK, HasForm
  <2> QED
    BY <1>2, <1>4, <2>1, <2>2 DEF Sound, IInv, TypeOK, Request
<1>7. Unheard => Unheard'
  BY <1>2 DEF Unheard
<1>8. NoWorse(entry, OnScreen, entry', OnScreen')
  <2>1. OnScreen' <=> OnScreen
    BY <1>2 DEF OnScreen, Mounted
  <2> QED
    BY <1>2, <2>1, Typed, SameIsNoWorse
<1> QED
  BY <1>2, <1>4, <1>5, <1>6, <1>7, <1>8, Kept

LEMMA ChangeIdentityKeeps ==
  ASSUME Sound, NEW newcomer \in Identities, ChangeIdentity(newcomer)
  PROVE  Sound'
<1>1. /\ session' = session /\ identity' = newcomer /\ requests' = requests
      /\ place' = [place EXCEPT !.dialog = None] /\ form' = None
      /\ entry' \in {NoEntry, [NoEntry EXCEPT !.fetch = "sent"]} /\ request' = Leave(request)
  BY DEF ChangeIdentity
<1>2. Onward
  BY Typed, <1>1 DEF Onward, Leave, Request
<1>3. NoWorse(entry, OnScreen, entry', OnScreen')
  BY <1>1, NoEntryIs
<1>4. /\ identity' \in Users /\ form' \in {None, "old", "new"}
      /\ place' \in [page : PageName, dialog : {None} \cup DOMAIN Component]
  BY <1>1, Typed DEF Users
<1> QED
  BY <1>1, <1>2, <1>3, <1>4, KeptOnward

-----------------------------------------------------------------------------
(* The cache, by itself *)

LEMMA CacheKeeps ==
  ASSUME Sound, UNCHANGED <<session, identity, place, request, requests>>, FormGoesOn,
         NoWorse(entry, OnScreen, entry', OnScreen)
  PROVE  Sound'
<1>1. OnScreen' <=> OnScreen
  BY DEF OnScreen, Mounted
<1>2. NoWorse(entry, OnScreen, entry', OnScreen')
  BY <1>1 DEF NoWorse, Awaited
<1>3. /\ place' = [place EXCEPT !.dialog = place'.dialog] /\ place'.page = place.page
      /\ place'.dialog \in {None} \cup DOMAIN Component
  BY Typed
<1>4. Onward
  BY Typed DEF Onward
<1> QED
  BY <1>2, <1>3, <1>4, KeptOnPage

LEMMA CacheStepKeeps ==
  ASSUME Sound, FocusWindow \/ ServerReads \/ FetchLands \/ FetchFails \/ Age \/ Poll \/ Evict
  PROVE  Sound'
<1>1. UNCHANGED <<session, identity, place, request, requests>>
  BY DEF FocusWindow, ServerReads, FetchLands, FetchFails, Age, Poll, Evict
<1>2. FormGoesOn
  BY FormGoes DEF FocusWindow, ServerReads, FetchLands, FetchFails, Age, Poll, Evict, SetEntry
<1>3. NoWorse(entry, OnScreen, entry', OnScreen)
  <2>1. CASE FocusWindow
    BY <2>1, Typed, AskAgainIsNoWorse DEF FocusWindow, SetEntry
  <2>2. CASE FetchLands
    BY <2>2, Typed, LandedIsNoWorse DEF FetchLands, SetEntry
  <2>3. CASE Evict
    BY <2>3, NoEntryIs DEF Evict
  <2>4. CASE ServerReads
    BY <2>4, Typed, FetchIsNoWorse DEF ServerReads, SetEntry
  <2>5. CASE FetchFails
    BY <2>5, Typed, FetchIsNoWorse DEF FetchFails, SetEntry
  <2>6. CASE Age
    BY <2>6, Typed, FetchIsNoWorse DEF Age, SetEntry
  <2>7. CASE Poll
    BY <2>7, Typed, FetchIsNoWorse DEF Poll, SetEntry
  <2> QED
    BY <2>1, <2>2, <2>3, <2>4, <2>5, <2>6, <2>7
<1> QED
  BY <1>1, <1>2, <1>3, CacheKeeps

-----------------------------------------------------------------------------
(* The request *)

Unrelated == session.mutation \in DOMAIN MutationOf /\ \A k \in DOMAIN m.writes : ~Affects(k)
Excepted == AlwaysRead \/ <<session.mutation, q>> \in KnownGaps

\* What the invariant asks of a step of the request.
LEMMA RequestStepKeeps ==
  ASSUME Sound, session' = session, TypeOK', RequestIsReal', Whole(entry'),
         Unheard' \/ Excepted \/ Explained(entry'),
         request'.phase \in {"refreshing", "failing"} /\ Rereads => Awaited(entry', OnScreen'),
         Unrelated => Untouched(entry')
  PROVE  Sound'
<1>1. StaleIsExplained'
  BY SameSession DEF StaleIsExplained, Excepted, Whole, Explained
<1>2. RereadIsUnderWay'
  BY SameSession DEF RereadIsUnderWay, Awaited
<1>3. UnrelatedIsCurrent'
  BY SameSession DEF UnrelatedIsCurrent, Unrelated, Untouched
<1> QED
  BY <1>1, <1>2, <1>3 DEF Sound, IInv

LEMMA ServerChangesKeeps ==
  ASSUME Sound, ServerChanges
  PROVE  Sound'
<1>1. /\ UNCHANGED <<session, identity, place, requests>> /\ request.phase = "sent"
      /\ request' = [request EXCEPT !.phase = "done"]
      /\ entry' = IF Affects(request.part) THEN Overtaken(entry) ELSE entry
      /\ FormGoesOn
  BY FormGoes DEF ServerChanges, SetEntry
<1>2. /\ request' \in Request /\ request'.phase = "done" /\ request'.part = request.part
      /\ request'.from = request.from /\ request'.left = request.left
  BY <1>1, Typed DEF Request
<1>3. Whole(entry') /\ (~Affects(request.part) => entry' = entry)
  BY <1>1, Typed, OvertakenIs
<1>4. RequestIsReal'
  BY <1>1, <1>2, SameSession DEF Sound, IInv, RequestIsReal
<1>5. TypeOK'
  <2>1. entry' \in Entry
    BY <1>3 DEF Whole
  <2>2. form' \in {None, "old", "new"} /\ (form' # None => HasForm(place.page)')
    BY <1>1, SameSession DEF FormGoesOn, HasForm
  <2> QED
    BY <1>1, <1>2, <2>1, <2>2 DEF Sound, IInv, TypeOK, Entry, Request
<1>6. Unheard' \/ Excepted \/ Explained(entry')
  <2>1. CASE Affects(request.part)
    BY <1>1, <1>2, <2>1, SameSession DEF Unheard
  <2>2. CASE ~Affects(request.part)
    <3>1. Unheard => Unheard'
      BY <1>1, <1>2, SameSession DEF Unheard
    <3> QED
      BY <1>3, <2>2, <3>1 DEF Sound, IInv, StaleIsExplained, Excepted
  <2> QED
    BY <2>1, <2>2
<1>7. Unrelated => Untouched(entry')
  <2>1. request.part \in DOMAIN m.writes
    BY <1>1, TablesAreWhole DEF Sound, IInv, RequestIsReal, m
  <2> QED
    BY <1>3, <2>1 DEF Sound, IInv, UnrelatedIsCurrent, Unrelated
<1> QED
  BY <1>1, <1>2, <1>3, <1>4, <1>5, <1>6, <1>7, RequestStepKeeps

LEMMA ServerRefusesKeeps ==
  ASSUME Sound, ServerRefuses
  PROVE  Sound'
<1>1. /\ UNCHANGED <<session, identity, place, entry, form, requests>>
      /\ request.phase = "sent" /\ request' = [request EXCEPT !.phase = "refused"]
  BY DEF ServerRefuses
<1>2. /\ request' \in Request /\ request'.phase = "refused" /\ request'.part = request.part
      /\ request'.from = request.from /\ request'.left = request.left
  BY <1>1, Typed DEF Request
<1>3. RequestIsReal' /\ (Unheard => Unheard')
  <2>1. RequestIsReal'
    BY <1>1, <1>2, SameSession DEF Sound, IInv, RequestIsReal
  <2>2. Unheard => Unheard'
    BY <1>1, <1>2, SameSession DEF Unheard
  <2> QED
    BY <2>1, <2>2
<1>4. TypeOK'
  <2>1. HasForm(place.page)' <=> HasForm(place.page)
    BY <1>1, SameSession DEF HasForm
  <2> QED
    BY <1>1, <1>2, <2>1 DEF Sound, IInv, TypeOK, Request
<1>5. NoWorse(entry, OnScreen, entry', OnScreen')
  <2>1. OnScreen' <=> OnScreen
    BY <1>1 DEF OnScreen, Mounted
  <2> QED
    BY <1>1, <2>1, Typed, SameIsNoWorse
<1> QED
  BY <1>1, <1>2, <1>3, <1>4, <1>5, Kept

\* The answer refreshes whatever the request has changed.
LEMMA AnswerRefreshes ==
  ASSUME Sound, request.phase = "done"
  PROVE  Excepted \/ Explained(Refresh(entry))
<1>1. CASE Explained(entry)
  BY <1>1, Typed, RefreshIs
<1>2. CASE Unheard /\ ~Excepted
  <2>1. session.mutation \in DOMAIN MutationOf /\ request.part \in 1..2
        /\ request.part \in DOMAIN m.writes /\ 1 \in DOMAIN m.writes
    BY Typed, TablesAreWhole DEF Sound, IInv, RequestIsReal, Request, m
  <2>2. PICK k \in DOMAIN m.writes : Affects(k)
    BY <1>2, <2>1 DEF Unheard
  <2>3. Cached /\ q \in DOMAIN QueryOf /\ Writes(m) \cap QueryOf[q].reads # {}
    BY <2>2, Typed, SessionFacts DEF Affects, Cached, Writes
  <2>4. q \in m.patches \/ QueryOf[q].family \in m.refreshes
    BY <1>2, <2>1, <2>3, HooksConnect DEF Excepted, AlwaysRead, m
  <2> QED
    BY <2>3, <2>4, Typed, RefreshIs
<1> QED
  BY <1>1, <1>2 DEF Sound, IInv, StaleIsExplained, Excepted

\* Where the user is, and what a form holds, are of their types again.
PlacesKept ==
  /\ place' \in [page : PageName, dialog : {None} \cup DOMAIN Component]
  /\ form' \in {None, "old", "new"} /\ (form' # None => HasForm(place.page)')

LEMMA ThenIs ==
  ASSUME Sound, NEW e, Whole(e), Then(e), session' = session, identity' = identity
  PROVE  /\ PlacesKept
         /\ Whole(entry') /\ (Explained(e) => Explained(entry'))
         /\ Untouched(e) => Untouched(entry')
         /\ ~e.behind \/ e.failed \/ e.excuse = "late"
              => ~entry'.behind \/ entry'.failed \/ entry'.excuse = "late"
<1> DEFINE then == Component[request.from].then
<1>1. CASE place'.page = place.page /\ place'.dialog \in {None, place.dialog}
           /\ place' = [place EXCEPT !.dialog = place'.dialog]
           /\ entry' = e /\ form' = Fill(place.page, FALSE, e)
  <2>1. FormGoesOn
    BY <1>1, FormGoes
  <2> QED
    BY <1>1, <2>1, Typed, SameSession DEF FormGoesOn, HasForm, PlacesKept
<1>2. CASE \E page \in PageName :
             /\ place' = [page |-> page, dialog |-> None] /\ form' = None
             /\ entry' = Ask(e, page \in session.shows[identity])
  <2>1. PlacesKept
    BY <1>2 DEF PlacesKept
  <2>2. NoWorse(e, TRUE, entry', TRUE)
    BY <1>2, AskIsNoWorse
  <2>3. ~e.behind \/ e.failed \/ e.excuse = "late"
              => ~entry'.behind \/ entry'.failed \/ entry'.excuse = "late"
    BY <1>2 DEF Ask, Whole, Entry
  <2> QED
    BY <2>1, <2>2, <2>3 DEF NoWorse
<1>3. CASE then = "closes" /\ request.left # "page"
  <2>1. /\ place' = IF place.dialog = request.from THEN [place EXCEPT !.dialog = None] ELSE place
        /\ entry' = e /\ form' = Fill(place.page, FALSE, e)
    BY <1>3 DEF Then
  <2> QED
    BY <1>1, <2>1, Typed
<1>4. CASE ~(then = "closes" /\ request.left # "page")
           /\ then \in DOMAIN ListPage /\ ListPage[then] # place.page
  <2>1. /\ place' = [page |-> ListPage[then], dialog |-> None] /\ form' = None
        /\ entry' = Ask(e, ListPage[then] \in session.shows[identity])
    BY <1>4 DEF Then
  <2>2. ListPage[then] \in PageName
    BY <1>4, TablesAreWhole
  <2> QED
    BY <1>2, <2>1, <2>2
<1>5. CASE ~(then = "closes" /\ request.left # "page")
           /\ ~(then \in DOMAIN ListPage /\ ListPage[then] # place.page)
  <2>1. place' = place /\ entry' = e /\ form' = Fill(place.page, FALSE, e)
    BY <1>5 DEF Then
  <2> QED
    BY <1>1, <2>1, Typed
<1> QED
  BY <1>3, <1>4, <1>5

\* The mutation is over.
LEMMA Finished ==
  ASSUME Sound, session' = session, identity' = identity, requests' = requests,
         request' = NoRequest, PlacesKept, Whole(entry'),
         Excepted \/ Explained(entry'), Unrelated => Untouched(entry')
  PROVE  Sound'
<1>1. request' \in Request /\ request'.phase = "idle"
  BY DEF NoRequest, Request, None
<1>2. TypeOK'
  <2>1. entry' \in Entry
    BY DEF Whole
  <2> QED
    BY <1>1, <2>1 DEF Sound, IInv, TypeOK, Entry, Request, PlacesKept
<1>3. RequestIsReal'
  BY <1>1 DEF RequestIsReal
<1> QED
  BY <1>1, <1>2, <1>3, RequestStepKeeps

\* Nothing but the request has moved on, and with it the entry.
LEMMA Moved ==
  ASSUME Sound, UNCHANGED <<session, identity, place, requests>>, FormGoesOn,
         request' \in Request, RequestIsReal', Whole(entry'),
         Unheard' \/ Excepted \/ Explained(entry'),
         request'.phase \in {"refreshing", "failing"} /\ Rereads => Awaited(entry', OnScreen),
         Unrelated => Untouched(entry')
  PROVE  Sound'
<1>1. TypeOK'
  <2>1. entry' \in Entry
    BY DEF Whole
  <2>2. form' \in {None, "old", "new"} /\ (form' # None => HasForm(place.page)')
    BY SameSession DEF FormGoesOn, HasForm
  <2> QED
    BY <2>1, <2>2 DEF Sound, IInv, TypeOK, Entry, Request
<1>2. OnScreen' <=> OnScreen
  BY DEF OnScreen, Mounted
<1> QED
  BY <1>1, <1>2, RequestStepKeeps DEF Awaited

LEMMA SentAgain ==
  ASSUME NEW r \in Request, NEW again, again = [r EXCEPT !.phase = "sent", !.part = 2]
  PROVE  /\ again \in Request /\ again.phase = "sent" /\ again.part = 2
         /\ again.from = r.from /\ again.left = r.left
<1> DEFINE sent == [r EXCEPT !.phase = "sent"]
<1>1. sent \in Request /\ sent.phase = "sent" /\ sent.from = r.from /\ sent.left = r.left
  BY DEF Request
<1>2. again = [sent EXCEPT !.part = 2] /\ 2 \in 1..2
  BY DEF Request
<1> HIDE DEF sent
<1> QED
  BY <1>1, <1>2 DEF Request

LEMMA AnswerArrivesKeeps ==
  ASSUME Sound, AnswerArrives
  PROVE  Sound'
<1>1. /\ UNCHANGED <<session, identity, requests>> /\ request.phase = "done"
      /\ session.mutation \in DOMAIN MutationOf /\ request.part \in DOMAIN m.sends
      /\ request.part \in 1..2 /\ request.from \in {None} \cup DOMAIN Component
  BY Typed DEF AnswerArrives, Sound, IInv, RequestIsReal, Request
<1>2. /\ Whole(Refresh(entry)) /\ (Rereads => Awaited(Refresh(entry), OnScreen))
      /\ Excepted \/ Explained(Refresh(entry))
      /\ Unrelated => Untouched(Refresh(entry))
  BY <1>1, Typed, RefreshIs, AnswerRefreshes DEF Sound, IInv, UnrelatedIsCurrent, Unrelated
<1>3. CASE request.part < Len(m.sends)
  <2>1. /\ request' = [request EXCEPT !.phase = "sent", !.part = @ + 1]
        /\ UNCHANGED <<place, entry, form>>
    BY <1>3 DEF AnswerArrives
  <2>2. /\ Len(m.sends) \in 1..2 /\ DOMAIN m.sends = 1..Len(m.sends)
    BY <1>1, TablesAreWhole DEF m
  <2>3. request.part = 1 /\ 2 \in DOMAIN m.sends
    <3>1. \A part \in 1..2, length \in 1..2 : part < length => part = 1 /\ length = 2
      OBVIOUS
    <3>2. 2 \in 1..2
      OBVIOUS
    <3>3. request.part = 1 /\ Len(m.sends) = 2
      BY <1>1, <1>3, <2>2, <3>1
    <3> QED
      BY <2>2, <3>2, <3>3
  <2>4. /\ request' \in Request /\ request'.phase = "sent" /\ request'.part = 2
        /\ request'.from = request.from /\ request'.left = request.left
    <3>1. request' = [request EXCEPT !.phase = "sent", !.part = 2]
      BY <2>1, <2>3
    <3> QED
      BY <3>1, Typed, SentAgain
  <2>5. RequestIsReal'
    BY <1>1, <2>3, <2>4, SameSession DEF Sound, IInv, RequestIsReal
  <2>6. Unheard => Unheard'
    BY <1>1, <2>3, <2>4, SameSession DEF Unheard
  <2>7. Unheard' \/ Excepted \/ Explained(entry')
    BY <2>1, <2>6 DEF Sound, IInv, StaleIsExplained, Excepted
  <2>8. FormGoesOn
    BY <2>1, FormGoes
  <2>9. Unrelated => Untouched(entry')
    BY <2>1 DEF Sound, IInv, UnrelatedIsCurrent, Unrelated
  <2>10. Whole(entry')
    BY <2>1, Typed
  <2> QED
    BY <1>1, <2>1, <2>4, <2>5, <2>7, <2>8, <2>9, <2>10, Moved
<1>4. CASE ~(request.part < Len(m.sends)) /\ m.settles
  <2>1. /\ request' = [request EXCEPT !.phase = "refreshing"] /\ place' = place
        /\ entry' = Refresh(entry) /\ form' = Fill(place.page, FALSE, Refresh(entry))
    BY <1>4 DEF AnswerArrives, SetEntry
  <2>2. /\ request' \in Request /\ request'.phase = "refreshing" /\ request'.part = request.part
        /\ request'.from = request.from /\ request'.left = request.left
    BY <2>1, Typed DEF Request
  <2>3. RequestIsReal'
    BY <1>1, <2>2, SameSession DEF Sound, IInv, RequestIsReal
  <2>4. FormGoesOn
    BY <2>1, FormGoes
  <2> QED
    BY <1>1, <1>2, <2>1, <2>2, <2>3, <2>4, Moved
<1>5. CASE ~(request.part < Len(m.sends)) /\ ~m.settles
  <2>1. request' = NoRequest /\ Then(Refresh(entry))
    BY <1>5 DEF AnswerArrives
  <2>2. /\ PlacesKept /\ Whole(entry') /\ (Explained(Refresh(entry)) => Explained(entry'))
        /\ Untouched(Refresh(entry)) => Untouched(entry')
    BY <1>1, <1>2, <2>1, ThenIs
  <2> QED
    BY <1>1, <1>2, <2>1, <2>2, Finished
<1> QED
  BY <1>3, <1>4, <1>5

LEMMA ErrorArrivesKeeps ==
  ASSUME Sound, ErrorArrives
  PROVE  Sound'
<1> DEFINE e == IF Unheard THEN Excused(entry) ELSE entry
<1>1. /\ UNCHANGED <<session, identity, place, requests>> /\ request.phase \in {"done", "refused"}
      /\ IF m.settles THEN /\ request' = [request EXCEPT !.phase = "failing"]
                           /\ entry' = Refresh(e) /\ form' = Fill(place.page, FALSE, Refresh(e))
                      ELSE /\ request' = NoRequest
                           /\ entry' = e /\ form' = Fill(place.page, FALSE, e)
  BY DEF ErrorArrives, SetEntry, Unheard
<1>2. /\ Whole(e) /\ (Excepted \/ Explained(e)) /\ (Unrelated => Untouched(e))
  BY Typed, ExcusedIs DEF Sound, IInv, StaleIsExplained, Excepted, UnrelatedIsCurrent, Unrelated
<1> HIDE DEF e
<1>3. FormGoesOn
  BY <1>1, FormGoes
<1>4. CASE m.settles
  <2>1. request' = [request EXCEPT !.phase = "failing"] /\ entry' = Refresh(e)
    BY <1>1, <1>4
  <2>2. /\ request' \in Request /\ request'.phase = "failing" /\ request'.part = request.part
        /\ request'.from = request.from /\ request'.left = request.left
    BY <2>1, Typed DEF Request
  <2>3. RequestIsReal'
    BY <1>1, <2>2, SameSession DEF Sound, IInv, RequestIsReal
  <2>4. /\ Whole(Refresh(e)) /\ (Rereads => Awaited(Refresh(e), OnScreen))
        /\ (Excepted \/ Explained(Refresh(e))) /\ (Unrelated => Untouched(Refresh(e)))
    BY <1>2, RefreshIs
  <2> QED
    BY <1>1, <1>3, <2>1, <2>2, <2>3, <2>4, Moved
<1>5. CASE ~m.settles
  <2>1. request' = NoRequest /\ entry' = e
    BY <1>1, <1>5
  <2>2. PlacesKept
    BY <1>1, <1>3, Typed, SameSession DEF PlacesKept, FormGoesOn, HasForm
  <2> QED
    BY <1>1, <1>2, <2>1, <2>2, Finished
<1> QED
  BY <1>4, <1>5

LEMMA ReportKeeps ==
  ASSUME Sound, Report
  PROVE  Sound'
<1>1. /\ UNCHANGED <<session, identity, requests>> /\ request' = NoRequest
      /\ request.phase \in {"refreshing", "failing"}
      /\ Then(entry) \/ UNCHANGED <<place, entry, form>>
  BY DEF Report
<1>2. /\ Whole(entry) /\ (Excepted \/ Explained(entry)) /\ (Unrelated => Untouched(entry))
  BY <1>1, Typed DEF Sound, IInv, StaleIsExplained, Unheard, Excepted, UnrelatedIsCurrent, Unrelated
<1>3. CASE Then(entry)
  <2>1. /\ PlacesKept /\ Whole(entry') /\ (Explained(entry) => Explained(entry'))
        /\ Untouched(entry) => Untouched(entry')
    BY <1>1, <1>2, <1>3, ThenIs
  <2> QED
    BY <1>1, <1>2, <2>1, Finished
<1>4. CASE UNCHANGED <<place, entry, form>>
  <2>1. PlacesKept
    BY <1>1, <1>4, Typed, SameSession DEF Sound, IInv, TypeOK, PlacesKept, HasForm
  <2> QED
    BY <1>1, <1>2, <1>4, <2>1, Finished
<1> QED
  BY <1>1, <1>3, <1>4

-----------------------------------------------------------------------------
(* Every step *)

LEMMA InitSound == Init => Sound
<1> SUFFICES ASSUME Init PROVE Sound
  OBVIOUS
<1>1. /\ session \in Session /\ identity = session.roles /\ identity \in Users
      /\ form = None /\ request = NoRequest /\ requests = 0
      /\ entry \in {NoEntry, [NoEntry EXCEPT !.fetch = "sent"]}
  BY DEF Init, Users
<1>2. PICK page \in session.pages : place = [page |-> page, dialog |-> None]
  BY DEF Init
<1>3. page \in PageName
  BY <1>1, SessionFacts
<1>4. /\ Whole(entry) /\ Explained(entry) /\ Untouched(entry)
  <2>1. NoEntry \in Entry /\ Explained(NoEntry) /\ Untouched(NoEntry) /\ Whole(NoEntry)
    BY DEF Entry, Mark, Fetch, NoEntry, None, Explained, Untouched, Whole
  <2> QED
    BY <1>1, <2>1, NoEntryIs DEF NoWorse
<1>5. request \in Request /\ request.phase = "idle"
  BY <1>1 DEF NoRequest, Request, None
<1>6. TypeOK
  <2>1. requests \in 0..MaxRequests
    BY <1>1, RequestsAssumption
  <2>2. entry \in Entry
    BY <1>4 DEF Whole
  <2>3. place \in [page : PageName, dialog : {None} \cup DOMAIN Component]
    BY <1>2, <1>3
  <2> QED
    BY <1>1, <1>5, <2>1, <2>2, <2>3 DEF TypeOK, Entry, Request
<1> QED
  BY <1>1, <1>4, <1>5, <1>6 DEF Sound, IInv, RequestIsReal, StaleIsExplained, Whole, RereadIsUnderWay,
                                UnrelatedIsCurrent

LEMMA NextKeepsSound == Sound /\ [Next]_vars => Sound'
<1> SUFFICES ASSUME Sound, [Next]_vars PROVE Sound'
  OBVIOUS
<1>1. CASE UNCHANGED vars
  BY <1>1 DEF vars, Sound, IInv, TypeOK, HasForm, q, m, Cached, Affects, RequestIsReal, Unheard, AlwaysRead,
              StaleIsExplained, Rereads, OnScreen, Mounted, RereadIsUnderWay, UnrelatedIsCurrent
<1>2. CASE \/ \E page \in session.pages : Navigate(page)
           \/ \E dialog \in session.dialogs : OpenDialog(dialog)
           \/ DismissDialog \/ Press
           \/ \E newcomer \in Identities : ChangeIdentity(newcomer)
  BY <1>2, NavigateKeeps, OpenDialogKeeps, DismissDialogKeeps, PressKeeps, ChangeIdentityKeeps
<1>3. CASE ServerChanges \/ ServerRefuses \/ AnswerArrives \/ ErrorArrives \/ Report
  BY <1>3, ServerChangesKeeps, ServerRefusesKeeps, AnswerArrivesKeeps, ErrorArrivesKeeps, ReportKeeps
<1>4. CASE FocusWindow \/ ServerReads \/ FetchLands \/ FetchFails \/ Age \/ Poll \/ Evict
  BY <1>4, CacheStepKeeps
<1> QED
  BY <1>1, <1>2, <1>3, <1>4 DEF Next

-----------------------------------------------------------------------------
(* What the end of a request leaves behind *)

LEMMA SentOnward ==
  ASSUME NEW r \in Request
  PROVE  [r EXCEPT !.phase = "sent", !.part = @ + 1].phase = "sent"
<1> DEFINE sent == [r EXCEPT !.phase = "sent"]
<1>1. sent \in Request /\ sent.phase = "sent"
  BY DEF Request
<1>2. [r EXCEPT !.phase = "sent", !.part = @ + 1] = [sent EXCEPT !.part = r.part + 1]
  BY DEF Request
<1> HIDE DEF sent
<1> QED
  BY <1>1, <1>2 DEF Request

LEMMA EndsByAnAnswer ==
  ASSUME Sound, Next, request.phase # "idle", request'.phase = "idle"
  PROVE  AnswerArrives \/ ErrorArrives \/ Report
<1>1. ASSUME \/ \E page \in session.pages : Navigate(page)
             \/ \E newcomer \in Identities : ChangeIdentity(newcomer)
      PROVE  FALSE
  <2>1. request' = Leave(request)
    BY <1>1 DEF Navigate, ChangeIdentity
  <2> QED
    BY <2>1 DEF Leave
<1>2. ASSUME (\E dialog \in session.dialogs : OpenDialog(dialog)) \/ Press
             \/ FocusWindow \/ ServerReads \/ FetchLands \/ FetchFails \/ Age \/ Poll \/ Evict
      PROVE  FALSE
  BY <1>2 DEF OpenDialog, Press, FocusWindow, ServerReads, FetchLands, FetchFails, Age, Poll, Evict
<1>3. ASSUME DismissDialog \/ ServerChanges \/ ServerRefuses PROVE FALSE
  <2>1. \/ request' = request
        \/ request' = [request EXCEPT !.left = "dismissed"]
        \/ request' = [request EXCEPT !.phase = "done"]
        \/ request' = [request EXCEPT !.phase = "refused"]
    BY <1>3 DEF DismissDialog, ServerChanges, ServerRefuses
  <2>2. request'.phase \in {request.phase, "done", "refused"}
    BY <2>1, Typed DEF Request
  <2> QED
    BY <2>2
<1> QED
  BY <1>1, <1>2, <1>3 DEF Next

\* The dialogs about money wait for the re-reading, whatever the answer was.
LEMMA MoneySettles ==
  \A mutation \in Money :
    /\ mutation \in DOMAIN MutationOf
    /\ MutationOf[mutation].settles /\ MutationOf[mutation].patches = {}
<1> DEFINE Settles(mutation) == mutation.settles /\ mutation.patches = {}
<1>1. ASSUME NEW sends, NEW writes, NEW refreshes
      PROVE  Settles(OnSettled(Mutation(sends, writes, refreshes)))
  BY DEF OnSettled, Mutation
<1>2. Settles(useRecordPayment)
  BY <1>1 DEF useRecordPayment
<1>3. Settles(useCreateReturn) /\ Settles(useCreateRefund) /\ Settles(useCancelOrder)
  BY <1>1 DEF useCreateReturn, useCreateRefund, useCancelOrder, useAdjustment
<1> HIDE DEF Settles
<1>4. Money \subseteq DOMAIN MutationOf
  BY DEF Money, MutationOf
<1>5. MutationOf["useRecordPayment"] = useRecordPayment
  BY DEF MutationOf
<1>6. MutationOf["useCreateReturn"] = useCreateReturn
  BY DEF MutationOf
<1>7. MutationOf["useCreateRefund"] = useCreateRefund
  BY DEF MutationOf
<1>8. MutationOf["useCancelOrder"] = useCancelOrder
  BY DEF MutationOf
<1>9. \A mutation \in Money : Settles(MutationOf[mutation])
  BY <1>2, <1>3, <1>5, <1>6, <1>7, <1>8 DEF Money
<1> QED
  BY <1>4, <1>9 DEF Settles

LEMMA MoneyIsAwaited ==
  ASSUME Sound, Next, request.phase # "idle", request'.phase = "idle", OnScreen,
         session.mutation \in Money, <<session.mutation, q>> \notin KnownGaps, QueryOf[q].keeps
  PROVE  ~entry'.behind \/ entry'.failed \/ entry'.excuse = "late"
<1>1. m.settles /\ m.patches = {} /\ session.mutation \in DOMAIN MutationOf
  BY MoneySettles DEF m
<1>2. Report
  <2>1. ASSUME AnswerArrives PROVE FALSE
    <3>1. \/ request' = [request EXCEPT !.phase = "sent", !.part = @ + 1]
          \/ request' = [request EXCEPT !.phase = "refreshing"]
      BY <1>1, <2>1 DEF AnswerArrives
    <3>2. request'.phase \in {"sent", "refreshing"}
      BY <3>1, Typed, SentOnward DEF Request
    <3> QED
      BY <3>2
  <2>2. ASSUME ErrorArrives PROVE FALSE
    <3>1. request' = [request EXCEPT !.phase = "failing"]
      BY <1>1, <2>2 DEF ErrorArrives
    <3> QED
      BY <3>1, Typed DEF Request
  <2> QED
    BY <2>1, <2>2, EndsByAnAnswer
<1>3. ~entry.behind \/ entry.failed \/ entry.excuse = "late"
  <2>1. CASE Rereads
    BY <1>2, <2>1 DEF Report, Sound, IInv, RereadIsUnderWay, Awaited
  <2>2. CASE ~Rereads
    <3>1. ASSUME NEW k \in DOMAIN m.writes, Affects(k) PROVE FALSE
      <4>1. Cached /\ q \in DOMAIN QueryOf /\ Writes(m) \cap QueryOf[q].reads # {}
        BY <3>1, Typed, SessionFacts DEF Affects, Cached, Writes
      <4>2. q \in m.patches \/ QueryOf[q].family \in m.refreshes
        BY <1>1, <4>1, HooksConnect DEF m
      <4> QED
        BY <1>1, <2>2, <4>1, <4>2 DEF Rereads
    <3> QED
      BY <1>1, <3>1 DEF Sound, IInv, UnrelatedIsCurrent, Untouched
  <2> QED
    BY <2>1, <2>2
<1>4. Then(entry) \/ entry' = entry
  BY <1>2 DEF Report
<1>5. session' = session /\ identity' = identity
  BY <1>2 DEF Report
<1> QED
  BY <1>3, <1>4, <1>5, Typed, ThenIs

LEMMA ItsOwnAnswer ==
  ASSUME Sound, Next, place.dialog # None, Component[place.dialog].guarded,
         place'.dialog = None, place'.page = place.page,
         request.phase # "idle", request'.phase = "idle"
  PROVE  request.from = place.dialog /\ request.left = "no"
<1> DEFINE then == Component[request.from].then
<1>1. PICK e : Then(e)
  <2>1. CASE AnswerArrives
    <3>1. ASSUME request.part < Len(m.sends) \/ m.settles PROVE FALSE
      <4>1. \/ request' = [request EXCEPT !.phase = "sent", !.part = @ + 1]
            \/ request' = [request EXCEPT !.phase = "refreshing"]
        BY <2>1, <3>1 DEF AnswerArrives
      <4> QED
        BY <4>1, Typed DEF Request
    <3> QED
      BY <2>1, <3>1 DEF AnswerArrives
  <2>2. CASE ErrorArrives
    BY <2>2 DEF ErrorArrives
  <2>3. CASE Report
    BY <2>3 DEF Report
  <2> QED
    BY <2>1, <2>2, <2>3, EndsByAnAnswer
<1>2. then = "closes" /\ request.left # "page"
      /\ place' = IF place.dialog = request.from THEN [place EXCEPT !.dialog = None] ELSE place
  <2>1. CASE then = "closes" /\ request.left # "page"
    BY <1>1, <2>1 DEF Then
  <2>2. CASE ~(then = "closes" /\ request.left # "page")
             /\ then \in DOMAIN ListPage /\ ListPage[then] # place.page
    <3>1. place' = [page |-> ListPage[then], dialog |-> None]
      BY <1>1, <2>2 DEF Then
    <3> QED
      BY <2>2, <3>1
  <2>3. CASE ~(then = "closes" /\ request.left # "page")
             /\ ~(then \in DOMAIN ListPage /\ ListPage[then] # place.page)
    <3>1. place' = place
      BY <1>1, <2>3 DEF Then
    <3> QED
      BY <3>1
  <2> QED
    BY <2>1, <2>2, <2>3
<1>3. request.from = place.dialog
  BY <1>2
<1>4. request.left \in {"no", "dismissed", "page"}
  BY Typed DEF Request
<1> QED
  BY <1>2, <1>3, <1>4 DEF Sound, IInv, RequestIsReal

LEMMA AlwaysSound == Spec => []Sound
  BY InitSound, NextKeepsSound, PTL DEF Spec

-----------------------------------------------------------------------------
(* What holds for every set of sessions and sign-ins, however many requests. *)

\* Whatever the user and the network do, the cache and the request under way
\* agree about what has been read since (frontend/src, the hooks' onSuccess and
\* onSettled).
THEOREM Invariant == Spec => []IInv
<1>1. Sound => IInv
  BY DEF Sound
<1> QED
  BY <1>1, AlwaysSound, PTL

\* Entries, requests, places and forms keep their types, and an edit form does
\* not outlive its page (the form is unmounted with its route).
THEOREM TypeCorrect == Spec => []TypeOK
<1>1. Sound => TypeOK
  BY DEF Sound, IInv
<1> QED
  BY <1>1, AlwaysSound, PTL

\* Nothing is silently out of date after any number of saves, answered, lost or
\* refused, but for the pairs that the hooks leave out (use-*.ts, queryClient
\* invalidateQueries), the saves never heard of, and the first loads that
\* overtook the invalidation.
THEOREM OnlyGapsAreStale == Spec => []OnlyKnownGapsAreStale
<1>1. Sound => OnlyKnownGapsAreStale
  BY DEF Sound, IInv, StaleIsExplained, Unheard, Explained, OnlyKnownGapsAreStale
<1> QED
  BY <1>1, AlwaysSound, PTL

\* When a payment, return, refund or cancellation stops spinning, what is on
\* screen about it was read after it, or says that it could not be read
\* (use-record-payment.ts, use-returns.ts, use-cancel-order.ts: onSettled).
THEOREM MoneyReread == Spec => MoneyIsReread
<1> DEFINE Reread ==
      request.phase # "idle" /\ request'.phase = "idle" /\ OnScreen
       /\ session.mutation \in Money /\ <<session.mutation, q>> \notin KnownGaps
       /\ QueryOf[q].keeps
      => \/ ~entry'.behind \/ entry'.failed \/ entry'.excuse = "late"
<1>1. Sound /\ [Next]_vars => [Reread]_vars
  BY MoneyIsAwaited
<1> HIDE DEF Reread
<1>2. Spec => [][Reread]_vars
  BY <1>1, AlwaysSound, PTL DEF Spec
<1> QED
  BY <1>2 DEF MoneyIsReread, Reread

\* A dialog that may not be dismissed while it saves is closed by the answer to
\* its own request only, however many were sent before.
THEOREM OwnAnswerCloses == Spec => AnswersCloseTheirDialog
<1> DEFINE Closes ==
      place.dialog # None /\ Component[place.dialog].guarded
       /\ place'.dialog = None /\ place'.page = place.page
       /\ request.phase # "idle" /\ request'.phase = "idle"
      => request.from = place.dialog /\ request.left = "no"
<1>1. Sound /\ [Next]_vars => [Closes]_vars
  BY ItsOwnAnswer
<1> HIDE DEF Closes
<1>2. Spec => [][Closes]_vars
  BY <1>1, AlwaysSound, PTL DEF Spec
<1> QED
  BY <1>2 DEF AnswersCloseTheirDialog, Closes

=============================================================================
