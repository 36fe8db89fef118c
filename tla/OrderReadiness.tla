--------------------------- MODULE OrderReadiness ---------------------------
(***************************************************************************)
(* The workshop's side of one invoice: checklists, repairs, the            *)
(* confirmation that garments are ready, and what undoes it.               *)
(*                                                                         *)
(* A writer locks the invoice before it looks at progress, repairs and     *)
(* locations, so it is one step; but set_stage reads the stage catalogue   *)
(* and guesses the production location before it takes the lock.  The      *)
(* triggers of migration 0003 run inside the step that fires them.         *)
(*                                                                         *)
(* Left out: notes, assignees, measurements, money (InvoiceLedger), and    *)
(* changes to the order of stages.                                         *)
(***************************************************************************)
EXTENDS Integers, FiniteSets, Sequences

CONSTANTS
    Order,          \* the garments of the invoice
    Branch,         \* shops and workshops
    Repair,         \* bound: repairs that can be opened
    Staff,          \* people working on checklists
    Situations,     \* bound: what the behaviours start from (the variable below)
    Unchosen,       \* a pickup for which no branch was chosen yet
    None

Catalog == Seq([active: BOOLEAN, transfer: BOOLEAN])

\* The catalogues of a situation have the same stages.
ASSUME ReadinessAssumption ==
    /\ \A s \in Situations :
         /\ s.branches \subseteq Branch
         /\ s.targets \subseteq s.branches \cup {None, Unchosen}
         /\ s.open \in Nat /\ s.generations \in Nat
         /\ s.catalogs \subseteq Catalog /\ IsFiniteSet(s.catalogs)
         /\ \A c1, c2 \in s.catalogs : Len(c1) = Len(c2)
    /\ None \notin Branch \cup Order
    /\ Unchosen \notin Branch \cup {None}

VARIABLES
    situation,  \* bound: the catalogues managers switch between, the branches in
                \* use and where the invoice may go, how many garments are not
                \* closed when the behaviour starts, and how often the invoice
                \* becomes ready
    catalog,    \* order_stages in checklist order: is_active and requires_delivery
    branch,     \* invoices.branch_id for a pickup, Unchosen if it is null; None
                \* for a delivery
    production, \* orders.production_branch_id
    progress,   \* order_stage_progress
    repair,     \* order_repairs
    status,     \* orders.status
    readyAt,    \* orders.ready_location_id
    closed,     \* orders in invoice_return_lines
    generation, \* invoices.readiness_generation
    staff       \* what someone in set_stage read before the lock

orders == <<production, progress, status, readyAt, closed>>
vars == <<situation, catalog, branch, repair, orders, generation, staff>>

Stage == DOMAIN catalog
Place == situation.branches \cup {None}
Entry == [status: {"done", "skipped"}, at: Place]
Pending == [status |-> "pending", at |-> None]

Reading == [order: Order, catalog: situation.catalogs, production: Place]
\* A repair in progress is as outstanding as an open one, and counted as open.
RepairRow == [order: Order, status: {"open", "completed", "cancelled", "received"}]
Outstanding == {"open"}

TypeOK ==
    /\ situation \in Situations /\ catalog \in situation.catalogs
    /\ branch \in situation.targets
    /\ production \in [Order -> Place]
    /\ progress \in [Order -> [Stage -> Entry \cup {Pending}]]
    /\ repair \in [Repair -> RepairRow \cup {None}]
    /\ status \in [Order -> {"pending", "ready", "collected"}]
    /\ readyAt \in [Order -> Place]
    /\ \A o \in Order : status[o] = "ready" => readyAt[o] # None
    /\ closed \subseteq Order
    /\ generation \in 0..situation.generations
    /\ staff \in [Staff -> Reading \cup {None}]

Init ==
    /\ situation \in Situations
    /\ catalog \in situation.catalogs /\ branch \in situation.targets
    /\ closed \in {C \in SUBSET Order : Cardinality(Order \ C) = situation.open}
    /\ production \in {p \in [Order -> Place] : \A o \in closed : p[o] = None}
    /\ progress = [o \in Order |-> [s \in Stage |-> Pending]]
    /\ repair = [r \in Repair |-> None]
    /\ status = [o \in Order |-> "pending"]
    /\ readyAt = [o \in Order |-> None]
    /\ generation = 0
    /\ staff = [u \in Staff |-> None]

-----------------------------------------------------------------------------
(* Readiness of the invoice (view invoice_readiness) and of an order. *)

Active == Order \ closed

With(value, stat) == {o \in Active : stat[o] = value}

Readiness ==
    IF Active = {} THEN "not_applicable"
    ELSE IF With("collected", status) = Active THEN "collected"
    ELSE IF With("pending", status) = {} THEN "ready"
    ELSE IF With("ready", status) # {} THEN "partially_ready"
    ELSE "in_progress"

Recorded(o, s) == progress[o][s] # Pending
HasRepair(o) == \E r \in Repair : repair[r] # None /\ repair[r].order = o
                                    /\ repair[r].status \in Outstanding

\* The garment was delivered to the branch where it will be picked up.
Arrived(o, s) == progress[o][s] = [status |-> "done", at |-> branch]

\* Nothing keeps a pending order from being confirmed.
Unblocked(o) ==
    LET moves == branch \in Branch /\ production[o] # branch
        listed == {s \in Stage : catalog[s].active \/ Recorded(o, s)}
        deliveries == {s \in listed : catalog[s].transfer}
    IN /\ production[o] # None /\ branch # Unchosen
       /\ ~HasRepair(o)
       /\ listed # deliveries
       /\ \A s \in listed \ deliveries : Recorded(o, s)
       /\ moves => deliveries # {} /\ \A s \in deliveries : Arrived(o, s)

\* Mutant: only the place of the confirmation is cleared.
PlaceCleared(o) ==
    /\ UNCHANGED status
    /\ readyAt' = [readyAt EXCEPT ![o] = IF status[o] = "ready" THEN None ELSE @]

\* An order that was ready is pending again (the triggers, and reopen).
Reopened(o) ==
    /\ status' = [status EXCEPT ![o] = IF @ = "ready" THEN "pending" ELSE @]
    /\ readyAt' = [readyAt EXCEPT ![o] = IF status[o] = "ready" THEN None ELSE @]

\* Mutant: it is not asked whether the invoice was ready before.
IsReady == IF Readiness' = "ready" THEN 1 ELSE 0

\* The generation advances when the step makes the invoice ready.
BecomesReady == IF Readiness # "ready" /\ Readiness' = "ready" THEN 1 ELSE 0

NextGeneration ==
    /\ generation + BecomesReady <= situation.generations
    /\ generation' = generation + BecomesReady

-----------------------------------------------------------------------------
(* The checklist. *)

\* A stock location stands in for a missing production location, if there is
\* exactly one that has the material.
Guess(o) == IF production[o] = None THEN Place ELSE {production[o]}

\* Reading a garment that is closed is left out: the lock would refuse it.
ReadCatalog(u, o, guess) ==
    /\ staff[u] = None /\ o \in Active /\ guess \in Guess(o)
    /\ staff' = [staff EXCEPT ![u] = [order |-> o, catalog |-> catalog, production |-> guess]]
    /\ UNCHANGED <<situation, catalog, branch, repair, orders, generation>>

Effective(reading) ==
    IF production[reading.order] = None THEN reading.production ELSE production[reading.order]

\* Deliveries do not concern garments made where they are picked up.
Applies(reading, s) ==
    reading.catalog[s].transfer => /\ Effective(reading) # None /\ branch \in Branch
                                   /\ Effective(reading) # branch

\* Mutant: only recording is checked, undoing is not.
InOrderForward(reading, s, entry) ==
    entry # Pending => \A e \in 1..s - 1 :
        reading.catalog[e].active /\ Applies(reading, e) => Recorded(reading.order, e)

\* A stage is recorded after every earlier one and undone before every later one.
InOrder(reading, s, entry) ==
    IF entry = Pending
    THEN \A l \in s + 1..Len(catalog) : Applies(reading, l) => ~Recorded(reading.order, l)
    ELSE \A e \in 1..s - 1 :
           reading.catalog[e].active /\ Applies(reading, e) => Recorded(reading.order, e)

\* Mutant: undoing a stage does not reopen the order.
ReopensIfRecorded(o, s, entry) ==
    IF entry = Pending THEN UNCHANGED <<status, readyAt>> ELSE Reopened(o)

\* Writing or deleting a row reopens the order; deleting none does nothing.
ProgressTrigger(o, s, entry) ==
    IF entry = Pending /\ ~Recorded(o, s) THEN UNCHANGED <<status, readyAt>> ELSE Reopened(o)

SetStage(u, s, entry) ==
    LET reading == staff[u] IN
    /\ reading # None /\ reading.order \in Active
    /\ reading.catalog[s].transfer /\ Applies(reading, s) /\ entry.status = "done"
         => entry.at # None
    /\ InOrder(reading, s, entry)
    /\ progress' = [progress EXCEPT ![reading.order][s] = entry]
    /\ ProgressTrigger(reading.order, s, entry)
    /\ staff' = [staff EXCEPT ![u] = None]
    /\ UNCHANGED <<situation, catalog, branch, production, repair, closed, generation>>

SetStageFails(u) ==
    /\ staff[u] # None
    /\ staff' = [staff EXCEPT ![u] = None]
    /\ UNCHANGED <<situation, catalog, branch, repair, orders, generation>>

\* A production location is given or changed, never taken away.
UpdateOrder(o, place) ==
    /\ o \in Active
    /\ production' = [production EXCEPT ![o] = place]
    /\ IF place = production[o] THEN UNCHANGED <<status, readyAt>> ELSE Reopened(o)
    /\ UNCHANGED <<situation, catalog, branch, progress, repair, closed, generation, staff>>

\* Managers edit the catalogue; orders do not notice.
UpdateStages(new) ==
    /\ catalog' = new
    /\ UNCHANGED <<situation, branch, repair, orders, generation, staff>>

-----------------------------------------------------------------------------
(* Repairs. *)

\* Mutant: only new repairs reopen an order.
NewRepairReopens(r, stat) == repair[r] = None /\ stat \in Outstanding

RepairReopens(r, stat) == stat \in Outstanding

WriteRepair(r, o, stat) ==
    /\ o \in Active
    /\ repair' = [repair EXCEPT ![r] = [order |-> o, status |-> stat]]
    /\ IF RepairReopens(r, stat) THEN Reopened(o) ELSE UNCHANGED <<status, readyAt>>
    /\ UNCHANGED <<situation, catalog, branch, production, progress, closed, generation, staff>>

CreateRepair(r, o) == repair[r] = None /\ WriteRepair(r, o, "open")

\* A completed or cancelled repair may be taken up again.
UpdateRepair(r, stat) ==
    /\ repair[r] # None /\ repair[r].status # "received"
    /\ stat # "received"
    /\ WriteRepair(r, repair[r].order, stat)

ReceiveRepair(r) ==
    /\ repair[r] # None /\ repair[r].status = "completed"
    /\ WriteRepair(r, repair[r].order, "received")

-----------------------------------------------------------------------------
(* Confirmation, collection, closing. *)

\* Confirms the orders in chosen: all of them or none.
MarkReady(chosen) ==
    LET pending == chosen \cap With("pending", status) IN
    /\ \A o \in pending : Unblocked(o)
    /\ status' = [o \in Order |-> IF o \in pending THEN "ready" ELSE status[o]]
    /\ readyAt' = [o \in Order |-> IF o \notin pending THEN readyAt[o]
                                   ELSE IF branch # None THEN branch ELSE production[o]]
    /\ UNCHANGED <<production, progress, closed>>
    /\ NextGeneration
    /\ UNCHANGED <<situation, catalog, branch, repair, staff>>

Confirm(o) == o \in Active /\ status[o] # "collected" /\ MarkReady({o})

ConfirmAll == Active \ With("collected", status) # {} /\ MarkReady(Active \ With("collected", status))

Reopen(o) ==
    /\ o \in Active /\ status[o] = "ready"
    /\ Reopened(o)
    /\ UNCHANGED <<situation, catalog, branch, production, progress, repair, closed, generation, staff>>

Collect(chosen) ==
    /\ status' = [o \in Order |-> IF o \in chosen THEN "collected" ELSE status[o]]
    /\ UNCHANGED <<situation, catalog, branch, production, progress, readyAt, repair, closed, generation, staff>>

\* The counter hands out garments whether or not they were confirmed.
CollectOrder(o) == o \in Active /\ status[o] # "collected" /\ Collect({o})
CollectInvoice == Collect(Active)

Close(o) ==
    /\ o \in Active
    /\ closed' = closed \cup {o}
    /\ UNCHANGED <<situation, catalog, branch, production, progress, status, readyAt, repair, staff>>

\* Without its last pending order an invoice may be ready.
CancelOrder(o) ==
    /\ status[o] # "collected"
    /\ Close(o)
    /\ NextGeneration

CreateReturn(o) ==
    /\ status[o] = "collected"
    /\ Close(o)
    /\ UNCHANGED generation

-----------------------------------------------------------------------------
ChecklistStep(u) ==
    \/ \E o \in Order, guess \in Place : ReadCatalog(u, o, guess)
    \/ \E s \in Stage, entry \in Entry \cup {Pending} : SetStage(u, s, entry)
    \/ SetStageFails(u)

RepairStep(r) ==
    \/ \E o \in Order : CreateRepair(r, o)
    \/ \E stat \in {"open", "completed", "cancelled"} : UpdateRepair(r, stat)
    \/ ReceiveRepair(r)

OrderStep(o) ==
    \/ \E place \in situation.branches : UpdateOrder(o, place)
    \/ Confirm(o) \/ Reopen(o) \/ CollectOrder(o) \/ CancelOrder(o) \/ CreateReturn(o)

Next ==
    \/ \E u \in Staff : ChecklistStep(u)
    \/ \E r \in Repair : RepairStep(r)
    \/ \E o \in Order : OrderStep(o)
    \/ ConfirmAll \/ CollectInvoice
    \/ \E new \in situation.catalogs : UpdateStages(new)

Spec == Init /\ [][Next]_vars

-----------------------------------------------------------------------------
(* Properties. *)

\* As long as the catalogue stays as it is, a ready order would be confirmed again:
\* nothing that could block it has come up since, and it waits where the customer
\* will ask for it (readiness.rs blockers, confirm).
Unedited == Cardinality(situation.catalogs) = 1
WouldBeConfirmedAgain(o) ==
    /\ Unblocked(o)
    /\ readyAt[o] = IF branch # None THEN branch ELSE production[o]
ReadyIsConfirmed == Unedited => \A o \in With("ready", status) : WouldBeConfirmedAgain(o)

\* Whatever managers do to the catalogue, no ready order has an outstanding repair.
ReadyHasNoRepair == \A o \in With("ready", status) : ~HasRepair(o)

\* A ready order, and every repair, stage and location of it, is as it was when
\* somebody confirmed it: whoever changes one of them, on whatever path, reopens
\* the order (the triggers of migrations/0003; the catalogue is exempt,
\* docs/plans/invoice-whatsapp-notifications.md, "Stage catalog changes").
ReadyRestsOnWhatWasConfirmed ==
    /\ []ReadyIsConfirmed
    /\ [][\A o \in Active : status[o] = "ready" /\ status'[o] = "ready" =>
            /\ progress'[o] = progress[o] /\ production'[o] = production[o]
            /\ readyAt'[o] = readyAt[o]
            /\ ~HasRepair(o)']_vars

\* A generation names one period of readiness that began with a confirmation or a
\* cancellation: it advances by one when such a period begins and never
\* otherwise.  Collecting the last unfinished order also leaves an invoice ready,
\* without a new generation and so without a new pickup notice
\* (docs/plans/invoice-whatsapp-notifications.md, "Invoice aggregation").
GenerationNamesReadiness ==
    [][LET begins == Readiness # "ready" /\ Readiness' = "ready"
           collects == \E o \in Order : status[o] # "collected" /\ status'[o] = "collected"
       IN generation' = generation + (IF begins /\ ~collects THEN 1 ELSE 0)]_vars

\* As long as the catalogue stays as it is, no stage of work is recorded behind
\* one that is not, whoever records and undoes at the same time
\* (validate_stage_sequence; deliveries come and go with the locations).
ChecklistHasNoGap ==
    Unedited => \A o \in Order, e, l \in Stage :
        e < l /\ ~catalog[e].transfer /\ catalog[e].active /\ ~catalog[l].transfer
          => (Recorded(o, l) => Recorded(o, e))

\* The conjunction that every step keeps.
IInv == TypeOK /\ ReadyHasNoRepair /\ ReadyIsConfirmed /\ ChecklistHasNoGap

=============================================================================
