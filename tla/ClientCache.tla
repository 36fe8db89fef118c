---------------------------- MODULE ClientCache -----------------------------
(***************************************************************************)
(* One browser tab: where its user is, one cached query and one request    *)
(* under way.  A session chooses the query and the request, so that every  *)
(* pair of them that touches the same subject is followed through the      *)
(* races of a save with the re-reading it asks for: a first load that is   *)
(* still running, a page left or a dialog dismissed before the answer, an  *)
(* answer that is lost, a second request that fails when the first is done.*)
(*                                                                         *)
(* The caching itself is a library's (TanStack Query), modelled from how   *)
(* the hooks use it:                                                       *)
(*   - invalidating marks an entry; what is on screen is fetched again,    *)
(*     what is not keeps the mark until it is mounted;                     *)
(*   - a fetch under way is cancelled for a new one only when the entry    *)
(*     has data: a first load goes on, and its answer clears the mark;     *)
(*   - a failed fetch keeps the data and the mark, and shows an error;     *)
(*   - a mutation's own callbacks run whether or not its component is      *)
(*     still there, and so do the lines after an awaited mutateAsync.      *)
(* "Behind" is measured against what this tab has saved: what other people *)
(* change reaches it by age, by polling, and by focusing the window.       *)
(***************************************************************************)
EXTENDS Screens

CONSTANTS
  Session,      \* the sessions, each made by Following (below)
  Identities,   \* the sets of roles a renewed sign-in may bring
  MaxRequests   \* how many requests a session sends

ASSUME RequestsAssumption == MaxRequests \in Nat

None == "none"

VARIABLES
  session,   \* the session this behaviour follows
  identity,     \* the roles of the user who is signed in
  place,     \* [page, dialog]: where the user is
  entry,     \* the cached query
  form,      \* what an edit form was filled with when it was mounted
  request,   \* the mutation
  requests   \* how many were sent
vars == <<session, identity, place, entry, form, request, requests>>

Mark == {"none", "fresh", "aged", "invalid"}
Fetch == {"idle", "sent", "current", "old"}
\* mark: "none" means no data.  behind: the data is older than what this tab
\* saved.  fetch: the answer the server gave to the fetch under way, "sent"
\* when it has not read yet.  overtaken: invalidated, but not started again.
\* excuse: why data that is neither marked nor aged may be behind.
NoEntry == [mark |-> "none", behind |-> FALSE, fetch |-> "idle", overtaken |-> FALSE,
            failed |-> FALSE, excuse |-> None]
NoRequest == [phase |-> "idle", part |-> 1, from |-> None, left |-> "no"]

-----------------------------------------------------------------------------
(* What is on screen *)
\* Three things may be mounted at once: the frame, the content of the page,
\* for those who may visit it, and one dialog on top.
MayMount(roles, root) == root \in PageName => Visitable(roles, root)

\* The session that follows a query and a mutation: in which roots the one is
\* shown and the other offered, and what a page opens, to every user there is.
Following(roles, query, mutation, pages, dialogs) ==
  LET users == {roles} \cup Identities
      Roots(r) == {root \in DOMAIN Component : MayMount(r, root)}
  IN  [roles |-> roles, query |-> query, mutation |-> mutation,
       pages |-> pages, dialogs |-> dialogs,
       shows |-> [r \in users |-> {c \in Roots(r) : query \in Inside[r][c].reads}],
       offers |-> [r \in users |-> {c \in Roots(r) : mutation \in Inside[r][c].acts}],
       opens |-> [r \in users |-> [page \in pages |->
         IF MayMount(r, page) THEN dialogs \cap Inside[r][page].opens ELSE {}]]]

ASSUME SessionAssumption ==
  \A s \in Session :
    /\ s = Following(s.roles, s.query, s.mutation, s.pages, s.dialogs)
    /\ s.roles \subseteq Role
    /\ s.query \in {None} \cup DOMAIN QueryOf
    /\ s.mutation \in {None} \cup DOMAIN MutationOf
    /\ s.pages \subseteq PageName /\ s.dialogs \subseteq DOMAIN Component

ASSUME IdentitiesAssumption == Identities \subseteq SUBSET Role

q == session.query
m == MutationOf[session.mutation]
Cached == q # None
\* The k-th request changes something the query shows.
Affects(k) == Cached /\ m.writes[k] \cap QueryOf[q].reads # {}
Mounted(r, p) == session.shows[r] \cap {"AppSidebar", p.page, p.dialog} # {}
OnScreen == Mounted(identity, place)
-----------------------------------------------------------------------------
(* The cache *)
\* A component that mounts the query asks again unless its data is fresh.
Ask(e, mounting) ==
  IF mounting /\ e.fetch = "idle" /\ (e.mark # "fresh" \/ ~QueryOf[q].keeps)
    THEN [e EXCEPT !.fetch = "sent", !.failed = @ /\ e.mark # "none"]
    ELSE e

\* Mutant: what is on screen is not fetched again.
MarkedOnly(e) == [e EXCEPT !.mark = IF @ = "none" THEN "none" ELSE "invalid"]
Invalidated(e) ==
  LET restarts == OnScreen /\ (e.fetch = "idle" \/ e.mark # "none")
  IN  [e EXCEPT !.mark = IF @ = "none" THEN "none" ELSE "invalid",
                !.fetch = IF restarts THEN "sent" ELSE @,
                !.overtaken = ~restarts /\ e.fetch # "idle"]

\* The answer is put in the place of the data; a fetch under way goes on.
Patched(e) ==
  [e EXCEPT !.mark = "fresh", !.behind = FALSE, !.failed = FALSE, !.excuse = None,
            !.overtaken = e.fetch # "idle"]

Overtaken(e) == \* the server has changed what the query shows
  [e EXCEPT !.behind = e.mark # "none",
            !.fetch = IF @ = "current" THEN "old" ELSE @]

\* Mutant: what is on screen is fetched again instead of being invalidated.
RefetchActive(e) ==
  IF q \in m.patches THEN Patched(e)
  ELSE IF Cached /\ OnScreen /\ QueryOf[q].family \in m.refreshes THEN Invalidated(e)
  ELSE e
\* onSuccess, or with onSettled any answer.
Refresh(e) ==
  IF q \in m.patches THEN Patched(e)
  ELSE IF Cached /\ QueryOf[q].family \in m.refreshes THEN Invalidated(e)
  ELSE e

Landed(e) ==
  [NoEntry EXCEPT !.mark = IF QueryOf[q].keeps THEN "fresh" ELSE "aged",
     !.behind = e.fetch = "old",
     !.excuse = IF e.fetch # "old" THEN None ELSE IF e.overtaken THEN "late" ELSE e.excuse]

\* An edit form reads its values once, when it is mounted: keyed by the id of
\* what it edits, it is not filled again when they are read again.
EditForms ==
  {<<"InvoiceEditPage", "useInvoiceEdit">>, <<"CustomerEditPage", "useCustomer">>,
   <<"ProductEditPage", "useProduct">>, <<"LocationEditPage", "useLocation">>}
HasForm(page) == <<page, q>> \in EditForms /\ page \in session.shows[identity]
Fill(page, anew, e) ==
  IF ~HasForm(page) \/ e.mark = "none" \/ e.failed
    THEN None
  ELSE IF form # None /\ ~anew THEN form
  ELSE IF e.behind THEN "old" ELSE "new"
SetEntry(e) == entry' = e /\ form' = Fill(place.page, FALSE, e)
-----------------------------------------------------------------------------
(* The user *)
Leave(req) == [req EXCEPT !.left = IF req.phase = "idle" THEN "no" ELSE "page"]

\* Mutant: the form of one page is still there on the next.
FormOutlivesPage(page) ==
  /\ place' = [page |-> page, dialog |-> None]
  /\ entry' = Ask(entry, page \in session.shows[identity])
  /\ form' = form
\* Any page, by a link or by its address.  The page mounts anew.
GoTo(page) ==
  /\ place' = [page |-> page, dialog |-> None]
  /\ entry' = Ask(entry, page \in session.shows[identity])
  /\ form' = Fill(page, TRUE, entry')
Navigate(page) ==
  /\ page \in session.pages \ {place.page}
  /\ GoTo(page)
  /\ request' = Leave(request)
  /\ UNCHANGED <<session, identity, requests>>

OpenDialog(dialog) ==
  /\ place.dialog = None
  /\ dialog \in session.opens[identity][place.page]
  /\ place' = [place EXCEPT !.dialog = dialog]
  /\ SetEntry(Ask(entry, dialog \in session.shows[identity]))
  /\ UNCHANGED <<session, identity, request, requests>>

\* Mutant: the dialog closes on Escape whatever it is waiting for.
DismissWhilePending ==
  /\ place.dialog # None
  /\ place' = [place EXCEPT !.dialog = None]
  /\ request' = IF request.phase # "idle" /\ request.from = place.dialog /\ request.left # "page"
                  THEN [request EXCEPT !.left = "dismissed"] ELSE request
  /\ UNCHANGED <<session, identity, entry, form, requests>>
\* A guarded dialog is not dismissed while its request is pending.
DismissDialog ==
  /\ place.dialog # None
  /\ LET pending == request.phase # "idle" /\ request.from = place.dialog
                      /\ request.left # "page"
     IN  /\ ~(pending /\ Component[place.dialog].guarded)
         /\ request' = IF pending THEN [request EXCEPT !.left = "dismissed"] ELSE request
  /\ place' = [place EXCEPT !.dialog = None]
  /\ UNCHANGED <<session, identity, entry, form, requests>>

Press ==
  /\ request.phase = "idle" /\ requests < MaxRequests
  /\ \E from \in IF place.dialog # None THEN {place.dialog} ELSE {place.page, "AppSidebar"} :
       /\ from \in session.offers[identity]
       /\ HasForm(from) => form # None
       /\ request' = [NoRequest EXCEPT !.phase = "sent", !.from = from]
  /\ requests' = requests + 1
  /\ UNCHANGED <<session, identity, place, entry, form>>

\* A renewed sign-in brings other roles: everything is taken off the screen,
\* the cache is emptied, and the same address is shown to the newcomer.
ChangeIdentity(newcomer) ==
  /\ newcomer # identity
  /\ identity' = newcomer
  /\ place' = [place EXCEPT !.dialog = None]
  /\ entry' = IF Mounted(newcomer, place') THEN [NoEntry EXCEPT !.fetch = "sent"] ELSE NoEntry
  /\ form' = None
  /\ request' = Leave(request)
  /\ UNCHANGED <<session, requests>>

FocusWindow ==
  /\ OnScreen
  /\ Ask(entry, TRUE) # entry
  /\ SetEntry(Ask(entry, TRUE))
  /\ UNCHANGED <<session, identity, place, request, requests>>
-----------------------------------------------------------------------------
(* The server, and its answers *)
ServerChanges ==
  /\ request.phase = "sent"
  /\ request' = [request EXCEPT !.phase = "done"]
  /\ SetEntry(IF Affects(request.part) THEN Overtaken(entry) ELSE entry)
  /\ UNCHANGED <<session, identity, place, requests>>

ServerRefuses ==
  /\ request.phase = "sent"
  /\ request' = [request EXCEPT !.phase = "refused"]
  /\ UNCHANGED <<session, identity, place, entry, form, requests>>

\* What the component does once its mutateAsync has returned: it closes the
\* dialog of its kind, or goes to the list its form came from.  Going where
\* one already is mounts nothing.
Then(e) ==
  LET then == Component[request.from].then
  IN  IF then = "closes" /\ request.left # "page"
        THEN /\ place' = IF place.dialog = request.from
                           THEN [place EXCEPT !.dialog = None] ELSE place
             /\ entry' = e /\ form' = Fill(place.page, FALSE, e)
      ELSE IF then \in DOMAIN ListPage /\ ListPage[then] # place.page
        THEN /\ place' = [page |-> ListPage[then], dialog |-> None]
             /\ entry' = Ask(e, ListPage[then] \in session.shows[identity])
             /\ form' = None
      ELSE place' = place /\ entry' = e /\ form' = Fill(place.page, FALSE, e)

AnswerArrives ==
  /\ request.phase = "done"
  /\ IF request.part < Len(m.sends)
       THEN /\ request' = [request EXCEPT !.phase = "sent", !.part = @ + 1]
            /\ UNCHANGED <<place, entry, form>>
     ELSE IF m.settles
       THEN /\ request' = [request EXCEPT !.phase = "refreshing"]
            /\ SetEntry(Refresh(entry))
            /\ UNCHANGED place
       ELSE request' = NoRequest /\ Then(Refresh(entry))
  /\ UNCHANGED <<session, identity, requests>>

\* The request was refused, or what it did was never heard of: an error is
\* shown and the dialog or the form stays.
Excused(e) ==
  IF e.behind \/ e.fetch = "old" THEN [e EXCEPT !.excuse = "lost"] ELSE e
ErrorArrives ==
  /\ request.phase \in {"done", "refused"}
  /\ LET unheard == (request.phase = "done" /\ Affects(request.part))
                      \/ (request.part = 2 /\ Affects(1))
         e == IF unheard THEN Excused(entry) ELSE entry
     IN  IF m.settles
           THEN /\ request' = [request EXCEPT !.phase = "failing"]
                /\ SetEntry(Refresh(e))
           ELSE request' = NoRequest /\ SetEntry(e)
  /\ UNCHANGED <<session, identity, place, requests>>

\* onSettled awaits the re-reading it asked for before the mutation is over.
Report ==
  /\ request.phase \in {"refreshing", "failing"}
  /\ entry.fetch = "idle"
  /\ request' = NoRequest
  /\ IF request.phase = "refreshing" THEN Then(entry)
     ELSE UNCHANGED <<place, entry, form>>
  /\ UNCHANGED <<session, identity, requests>>

ServerReads ==
  /\ entry.fetch = "sent"
  /\ SetEntry([entry EXCEPT !.fetch = "current"])
  /\ UNCHANGED <<session, identity, place, request, requests>>

FetchLands ==
  /\ entry.fetch \in {"current", "old"}
  /\ SetEntry(Landed(entry))
  /\ UNCHANGED <<session, identity, place, request, requests>>

FetchFails ==
  /\ entry.fetch # "idle"
  /\ SetEntry([entry EXCEPT !.fetch = "idle", !.failed = TRUE, !.overtaken = FALSE])
  /\ UNCHANGED <<session, identity, place, request, requests>>

(* Time *)
Age ==
  /\ entry.mark = "fresh"
  /\ SetEntry([entry EXCEPT !.mark = "aged"])
  /\ UNCHANGED <<session, identity, place, request, requests>>

Poll ==
  /\ OnScreen /\ QueryOf[q].polled /\ entry.fetch = "idle"
  /\ SetEntry([entry EXCEPT !.fetch = "sent"])
  /\ UNCHANGED <<session, identity, place, request, requests>>

Evict ==
  /\ ~OnScreen /\ entry.fetch = "idle" /\ entry # NoEntry
  /\ entry' = NoEntry
  /\ UNCHANGED <<session, identity, place, form, request, requests>>
-----------------------------------------------------------------------------
Init ==
  /\ session \in Session
  /\ identity = session.roles
  /\ \E page \in session.pages : place = [page |-> page, dialog |-> None]
  /\ entry = IF OnScreen THEN [NoEntry EXCEPT !.fetch = "sent"] ELSE NoEntry
  /\ form = None /\ request = NoRequest /\ requests = 0

Next ==
  \/ \E page \in session.pages : Navigate(page)
  \/ \E dialog \in session.dialogs : OpenDialog(dialog)
  \/ DismissDialog \/ Press \/ FocusWindow
  \/ \E newcomer \in Identities : ChangeIdentity(newcomer)
  \/ ServerChanges \/ ServerRefuses \/ AnswerArrives \/ ErrorArrives \/ Report
  \/ ServerReads \/ FetchLands \/ FetchFails \/ Age \/ Poll \/ Evict

\* The server answers, one way or the other; nobody has to do anything.
Spec == Init /\ [][Next]_vars
FairSpec == Spec /\ WF_vars(ServerReads \/ FetchLands \/ FetchFails)
                 /\ WF_vars(ServerChanges \/ ServerRefuses \/ AnswerArrives \/ ErrorArrives \/ Report)
-----------------------------------------------------------------------------
(* What must hold *)
\* Everything has its type, and what an edit form holds goes with its page
\* (the form is unmounted with the route).
TypeOK ==
  /\ identity \in Identities \cup {session.roles}
  /\ place \in [page : PageName, dialog : {None} \cup DOMAIN Component]
  /\ entry \in [mark : Mark, behind : BOOLEAN, fetch : Fetch, overtaken : BOOLEAN,
                failed : BOOLEAN, excuse : {None, "late", "lost"}]
  /\ form \in {None, "old", "new"}
  /\ form # None => HasForm(place.page)
  /\ request \in [phase : {"idle", "sent", "done", "refused", "refreshing", "failing"}, part : 1..2,
                  from : {None} \cup DOMAIN Component, left : {"no", "dismissed", "page"}]
  /\ requests \in 0..MaxRequests

\* What a signed-in user is shown, the server lets them have: every query
\* that is mounted and every control that is offered is within the policy,
\* and no link leads to a page that would be denied.  The one exception is the
\* customer's sheet, which links to the invoices of a customer for workshop
\* staff as well, who may not read invoices.
DeadLinks == {<<"CustomerDetailsSheet", "InvoiceDetailPage">>}
Permitted ==
  [roles \in SUBSET Role |-> [root \in DOMAIN Component |->
     LET inside == Subtree[roles][root]
     IN  /\ \A name \in Inside[roles][root].reads : CanAccess(roles, QueryOf[name].get)
         /\ \A name \in Inside[roles][root].acts : \A k \in DOMAIN MutationOf[name].sends :
              \E endpoint \in MutationOf[name].sends[k] : CanAccess(roles, endpoint)
         /\ \A c \in inside : \A link \in Component[c].links :
              /\ link[2] # "canVisit" /\ Allows(roles, link[2])
              /\ <<c, link[1]>> \notin DeadLinks
              => IF link[1] \in PageName THEN Visitable(roles, link[1])
                 ELSE CanVisit(roles, link[1], FALSE)] @@ <<>>] @@ <<>>
NothingForbiddenIsShown ==
  \A root \in {"AppSidebar", place.page, place.dialog} \ {None} :
    MayMount(identity, root) => Permitted[identity][root]

\* The pairs of a save and a query the hooks do not connect: what the query
\* shows stays older than the save until it ages or is polled.
CustomerPickers == {"invoiceCustomer", "invoiceSummaryCustomer", "giftCardCustomers"}
MaterialPickers == {"invoiceMaterial", "invoiceOrderMaterial", "inventoryMaterialPicker"}
InvoiceViews == {"useInvoices", "useInvoice", "useInvoiceEdit"}
OrderViews == {"useOrders", "useOrder"}
CustomerViews == {"useCustomers", "useCustomer"}
KnownGaps ==
  \* The forms' own pickers are refreshed by some of the saves they need.
     {"useCreateInvoice", "useUpdateInvoice"} \X
       (CustomerPickers \cup {"inventoryMaterialPicker", "invoiceProduct"})
  \cup {"useCreateReturn"} \X {"inventoryMaterialPicker", "invoiceProduct"}
  \cup {<<"useCancelOrder", "inventoryMaterialPicker">>,
        <<"useUpdateMaterial", "inventoryMaterialPicker">>,
        <<"useUpdateMaterial", "invoiceMaterial">>}
  \cup {"useCreateCustomer", "useUpdateCustomer"} \X CustomerPickers
  \cup {"useAddStock", "useRemoveStock"} \X MaterialPickers
  \cup {"useTransferStock"} \X (MaterialPickers \ {"invoiceOrderMaterial"})
  \cup {"useCreateProduct", "useUpdateProduct"} \X {"invoiceProduct"}
  \* A spent card's balance, looked up by its code.
  \cup {"useCreateInvoice", "useUpdateInvoice", "useCreateGiftCard", "useSendGiftCard"}
       \X {"useGiftCardByCode"}
  \* A customer's balance, after money was taken.
  \cup {"useCollectInvoice", "useRecordPayment", "useCollectOrder"} \X CustomerViews
  \* What the workshop does, on the invoices: a garment reopened, or made
  \* somewhere else.
  \cup {"useCreateRepair", "useUpdateRepair", "useSetOrderStage", "useUpdateOrder"} \X
       {"useInvoices", "useInvoice"}
  \cup {<<"useUpdateOrder", "useInvoiceEdit">>}
  \* What the edit form shows beside the lines: what is in stock, and who the
  \* cards are for.
  \cup {"useAddStock", "useRemoveStock", "useTransferStock", "useUpdateProduct",
        "useUpdateGiftCard"} \X {"useInvoiceEdit"}
  \* A stock change that moves the place a garment can be made at.
  \cup {"useAddStock", "useRemoveStock"} \X OrderViews
  \* Names that other views repeat.
  \cup {"useUpdateCustomer"} \X
       (InvoiceViews \cup OrderViews \cup {"useRepairs", "useGiftCards", "useGiftCardByCode"})
  \cup {<<"useUpdateMaterial", "useRepairs">>}
  \cup {"useUpdateLocation"} \X
       (MaterialPickers \cup InvoiceViews \cup OrderViews \cup
        {"useMaterials", "useReturns", "useCancellation",
         "useInventory", "useProducts", "useProduct", "invoiceProduct"})
  \* Written under a key that no query reads.
  \cup {"useCreateOrderStage", "useUpdateOrderStage"} \X {"useOrderStages"}
  \cup {<<"useSendNotification", "useNotificationDelivery">>}

\* Every other save that changes what a query shows has it read again, or
\* replaced by its answer, unless every mount reads it anyway: this compares
\* the tables, pair by pair.
ASSUME HooksConnect ==
  \A mutation \in DOMAIN MutationOf, query \in DOMAIN QueryOf :
    Writes(MutationOf[mutation]) \cap QueryOf[query].reads # {} =>
      \/ <<mutation, query>> \in KnownGaps
      \/ ~QueryOf[query].keeps
      \/ query \in MutationOf[mutation].patches
      \/ QueryOf[query].family \in MutationOf[mutation].refreshes

\* Nothing is silently out of date: once a save is over, what the cache holds
\* as fresh was read after it, unless the hooks leave the pair out, the save
\* was never heard of, or a first load overtook the invalidation.
OnlyKnownGapsAreStale ==
  entry.mark = "fresh" /\ entry.behind /\ request.phase = "idle" =>
    entry.excuse # None \/ <<session.mutation, q>> \in KnownGaps

\* "Refresh the history and stock even when the outcome was uncertain": when
\* a payment, a return, a refund or a cancellation stops spinning, whatever
\* the answer was, what is on screen about it was read after it or shows that
\* it could not be read.
Money == {"useRecordPayment", "useCreateReturn", "useCreateRefund", "useCancelOrder"}
MoneyIsReread ==
  [][request.phase # "idle" /\ request'.phase = "idle" /\ OnScreen
       /\ session.mutation \in Money /\ <<session.mutation, q>> \notin KnownGaps
       /\ QueryOf[q].keeps
     => \/ ~entry'.behind \/ entry'.failed \/ entry'.excuse = "late"]_vars

\* A dialog that cannot be dismissed while it saves is never closed by a save
\* of an earlier opening of it: the answer closes the dialog that asked.
AnswersCloseTheirDialog ==
  [][place.dialog # None /\ Component[place.dialog].guarded
       /\ place'.dialog = None /\ place'.page = place.page
       /\ request.phase # "idle" /\ request'.phase = "idle"
     => request.from = place.dialog /\ request.left = "no"]_vars

(* The inductive invariant of the properties above. *)
\* The request under way, while it is under way.
RequestIsReal ==
  request.phase # "idle" =>
    /\ session.mutation \in DOMAIN MutationOf /\ request.part \in DOMAIN m.sends
    /\ request.from # None
    /\ request.left = "dismissed" => ~Component[request.from].guarded

\* The server has changed what the query shows, and no answer has said so yet.
Unheard ==
  \/ request.phase = "done" /\ Affects(request.part)
  \/ request.phase \in {"sent", "done", "refused"} /\ request.part = 2 /\ Affects(1)

\* What is or will be taken for fresh although it is not has an excuse.
Explained(e) ==
  /\ e.mark = "fresh" /\ e.behind => e.excuse # None
  /\ e.fetch = "old" => e.overtaken \/ e.excuse # None
AlwaysRead == Cached /\ ~QueryOf[q].keeps /\ q \notin m.patches
StaleIsExplained ==
  /\ AlwaysRead => entry.mark # "fresh"
  /\ Unheard \/ AlwaysRead \/ <<session.mutation, q>> \in KnownGaps \/ Explained(entry)
  /\ entry.behind => entry.mark # "none"

\* While a mutation waits for the re-reading it asked for, what is on screen
\* is being read, or was read after it.
Rereads ==
  Cached /\ QueryOf[q].keeps /\ q \notin m.patches /\ QueryOf[q].family \in m.refreshes
Awaited(e, shown) ==
  /\ e.fetch = "old" => e.overtaken
  /\ e.behind /\ e.mark = "fresh" => e.excuse = "late"
  /\ e.behind /\ e.fetch = "idle" /\ shown => e.failed \/ e.excuse = "late"
RereadIsUnderWay ==
  request.phase \in {"refreshing", "failing"} /\ Rereads => Awaited(entry, OnScreen)

\* What the mutation does not touch is never behind.
Untouched(e) == ~e.behind /\ e.fetch # "old"
UnrelatedIsCurrent ==
  (session.mutation \in DOMAIN MutationOf /\ \A k \in DOMAIN m.writes : ~Affects(k)) =>
    Untouched(entry)

IInv ==
  /\ TypeOK /\ RequestIsReal
  /\ StaleIsExplained /\ RereadIsUnderWay /\ UnrelatedIsCurrent

\* What is on screen and marked as out of date is read again, or says that it
\* could not be.
RefreshedOrTold ==
  (OnScreen /\ entry.mark = "invalid") ~>
    (~OnScreen \/ entry.mark # "invalid" \/ entry.failed)

\* "A fresh mount per invoice (and per refetch shape) keeps stale values out":
\* an edit form does not hold values older than those the cache now has.
StaleValuesAreKeptOut == form = "old" => entry.behind
=============================================================================
