----------------------- MODULE OrderReadiness_proofs ------------------------
(***************************************************************************)
(* Proofs about readiness: what a ready garment rests on, checklists       *)
(* without gaps and the readiness generation, for every invoice, catalogue *)
(* and number of people.                                                   *)
(*                                                                         *)
(* The argument.  Every step leaves a garment that stays ready alone, and  *)
(* a garment becomes ready only by mark_ready, which has just looked at    *)
(* all that could block it (StepShape).                                    *)
(***************************************************************************)
EXTENDS OrderReadiness, FiniteSetTheorems, SequenceTheorems, TLAPS

-----------------------------------------------------------------------------
(* Catalogues and types. *)

\* The catalogues of one situation have the same stages.
LEMMA Catalogs ==
  ASSUME TypeOK
  PROVE  /\ Stage = 1..Len(catalog) /\ Len(catalog) \in Nat
         /\ catalog \in situation.catalogs
         /\ \A c \in situation.catalogs :
              /\ DOMAIN c = Stage
              /\ \A s \in Stage : c[s].active \in BOOLEAN /\ c[s].transfer \in BOOLEAN
<1>1. /\ situation.catalogs \subseteq Catalog /\ catalog \in situation.catalogs
      /\ \A c1, c2 \in situation.catalogs : Len(c1) = Len(c2)
  BY ReadinessAssumption DEF TypeOK
<1>2. \A c \in Catalog : /\ DOMAIN c = 1..Len(c) /\ Len(c) \in Nat
                        /\ c \in [1..Len(c) -> [active: BOOLEAN, transfer: BOOLEAN]]
  BY LenProperties DEF Catalog
<1>3. \A c \in Catalog : \A s \in 1..Len(c) : c[s].active \in BOOLEAN /\ c[s].transfer \in BOOLEAN
  BY <1>2
<1> QED
  BY <1>1, <1>2, <1>3 DEF Stage

\* A catalogue that nobody edits is the only one.
LEMMA UneditedCatalog ==
  ASSUME TypeOK, Unedited, NEW c \in situation.catalogs
  PROVE  c = catalog
<1>1. IsFiniteSet(situation.catalogs) /\ catalog \in situation.catalogs
  BY ReadinessAssumption DEF TypeOK
<1>2. \E x : situation.catalogs = {x}
  BY <1>1, FS_Singleton DEF Unedited
<1> QED
  BY <1>1, <1>2

\* The rows after one order was reopened.
LEMMA ReopenedRows ==
  ASSUME TypeOK, NEW o \in Order, Reopened(o)
  PROVE  /\ status' \in [Order -> {"pending", "ready", "collected"}]
         /\ readyAt' \in [Order -> Place]
         /\ \A x \in Order : status'[x] = "ready" => readyAt'[x] # None
         /\ status'[o] # "ready"
         /\ \A x \in Order : x # o => status'[x] = status[x] /\ readyAt'[x] = readyAt[x]
         /\ status'[o] = status[o] \/ (status[o] = "ready" /\ status'[o] = "pending")
  BY DEF TypeOK, Reopened, Place

-----------------------------------------------------------------------------
(* The steps. *)

\* The order stays ready and nothing that it rests on changes.
StaysReady(o) ==
    /\ progress'[o] = progress[o] /\ production'[o] = production[o]
    /\ HasRepair(o)' => HasRepair(o)
    /\ status[o] = "ready" /\ readyAt'[o] = readyAt[o]

\* The order was just found to be unblocked.
BecomesConfirmed(o) ==
    /\ progress' = progress /\ production' = production /\ UNCHANGED <<repair, catalog>>
    /\ status[o] = "pending" /\ Unblocked(o)
    /\ readyAt'[o] = IF branch # None THEN branch ELSE production[o]

\* What every step leaves of the orders that are ready after it.
StepShape ==
    /\ UNCHANGED <<situation, branch>> /\ catalog' \in situation.catalogs
    /\ closed \subseteq closed'
    /\ \A o \in Active : status'[o] = "ready" => StaysReady(o) \/ BecomesConfirmed(o)

\* A step that leaves the repairs and confirmations of all orders alone.
LEMMA QuietShape ==
  ASSUME TypeOK, UNCHANGED <<situation, branch, repair, status, readyAt, progress, production>>,
         catalog' \in situation.catalogs, closed \subseteq closed'
  PROVE  StepShape
  BY DEF StepShape, StaysReady, HasRepair, Active

\* A step that reopens the order it is about.
LEMMA ReopenShape ==
  ASSUME TypeOK, NEW o \in Order, Reopened(o), UNCHANGED <<situation, branch, catalog, closed>>,
         \A x \in Order : x # o => /\ progress'[x] = progress[x] /\ production'[x] = production[x]
                                   /\ HasRepair(x)' => HasRepair(x)
  PROVE  StepShape
<1>1. /\ status'[o] # "ready"
      /\ \A x \in Order : x # o => status'[x] = status[x] /\ readyAt'[x] = readyAt[x]
  BY ReopenedRows
<1>2. catalog \in situation.catalogs
  BY Catalogs
<1> QED
  BY <1>1, <1>2 DEF StepShape, StaysReady, Active

\* Writing one entry of a checklist changes one order.
LEMMA WrittenEntry ==
  ASSUME TypeOK, NEW o \in Order, NEW s \in Stage, NEW entry \in Entry \cup {Pending},
         progress' = [progress EXCEPT ![o][s] = entry], catalog' = catalog
  PROVE  /\ progress' \in [Order -> [Stage -> Entry \cup {Pending}]]
         /\ \A x \in Order : x # o => progress'[x] = progress[x]
         /\ \A e \in Stage : Recorded(o, e)' <=> IF e = s THEN entry # Pending ELSE Recorded(o, e)
         /\ entry = Pending /\ ~Recorded(o, s) => progress' = progress
<1>1. progress \in [Order -> [Stage -> Entry \cup {Pending}]]
  BY DEF TypeOK
<1>2. progress' = [progress EXCEPT ![o] = [progress[o] EXCEPT ![s] = entry]]
  OBVIOUS
<1>3. progress[o] \in [Stage -> Entry \cup {Pending}]
  BY <1>1
<1>4. /\ progress'[o] = [progress[o] EXCEPT ![s] = entry]
      /\ \A x \in Order : x # o => progress'[x] = progress[x]
  BY <1>1, <1>2
<1>5. \A e \in Stage : progress'[o][e] = IF e = s THEN entry ELSE progress[o][e]
  BY <1>3, <1>4
<1>6. Pending' = Pending
  BY DEF Pending
<1>7. entry = Pending /\ ~Recorded(o, s) => progress' = progress
  <2> SUFFICES ASSUME entry = Pending, ~Recorded(o, s) PROVE progress' = progress
    OBVIOUS
  <2>1. progress[o][s] = entry
    BY DEF Recorded
  <2>2. [progress[o] EXCEPT ![s] = entry] = progress[o]
    BY <1>3, <2>1
  <2> QED
    BY <1>1, <1>2, <2>2
<1> QED
  BY <1>1, <1>2, <1>3, <1>4, <1>5, <1>6, <1>7 DEF Recorded

LEMMA SetStageShape ==
  ASSUME TypeOK, NEW u \in Staff, NEW s \in Stage, NEW entry \in Entry \cup {Pending},
         SetStage(u, s, entry)
  PROVE  StepShape
<1> DEFINE o == staff[u].order
<1>1. /\ o \in Order /\ progress' = [progress EXCEPT ![o][s] = entry]
      /\ ProgressTrigger(o, s, entry)
      /\ UNCHANGED <<situation, catalog, branch, production, repair, closed>>
  BY DEF SetStage, Active
<1> HIDE DEF o
<1>2. /\ \A x \in Order : x # o => progress'[x] = progress[x]
      /\ entry = Pending /\ ~Recorded(o, s) => progress' = progress
  BY <1>1, WrittenEntry
<1>3. CASE entry = Pending /\ ~Recorded(o, s)
  BY <1>1, <1>2, <1>3, QuietShape, Catalogs DEF ProgressTrigger
<1>4. CASE ~(entry = Pending /\ ~Recorded(o, s))
  <2>1. Reopened(o)
    BY <1>1, <1>4 DEF ProgressTrigger
  <2>2. \A x \in Order : HasRepair(x)' => HasRepair(x)
    BY <1>1 DEF HasRepair, Outstanding
  <2> QED
    BY <1>1, <1>2, <2>1, <2>2, ReopenShape
<1> QED
  BY <1>3, <1>4

LEMMA UpdateOrderShape ==
  ASSUME TypeOK, NEW o \in Order, NEW place \in situation.branches, UpdateOrder(o, place)
  PROVE  StepShape
<1>1. /\ production' = [production EXCEPT ![o] = place]
      /\ UNCHANGED <<situation, catalog, branch, progress, repair, closed>>
  BY DEF UpdateOrder
<1>2. production \in [Order -> Place]
  BY DEF TypeOK
<1>3. CASE place = production[o]
  BY <1>1, <1>2, <1>3, QuietShape, Catalogs DEF UpdateOrder
<1>4. CASE place # production[o]
  <2>1. Reopened(o)
    BY <1>4 DEF UpdateOrder
  <2>2. \A x \in Order : HasRepair(x)' => HasRepair(x)
    BY <1>1 DEF HasRepair, Outstanding
  <2> QED
    BY <1>1, <1>2, <2>1, <2>2, ReopenShape
<1> QED
  BY <1>3, <1>4

\* A repair that is written concerns one order, and an outstanding one reopens it.
LEMMA WriteRepairShape ==
  ASSUME TypeOK, NEW r \in Repair, NEW o \in Order,
         NEW stat \in {"open", "completed", "cancelled", "received"}, WriteRepair(r, o, stat),
         repair[r] # None => repair[r].order = o
  PROVE  StepShape
<1>1. /\ repair' = [repair EXCEPT ![r] = [order |-> o, status |-> stat]]
      /\ UNCHANGED <<situation, catalog, branch, production, progress, closed>>
  BY DEF WriteRepair
<1>2. \A q \in Repair : repair'[q] = IF q = r THEN [order |-> o, status |-> stat] ELSE repair[q]
  BY <1>1 DEF TypeOK
<1>3. \A x \in Order : x # o => (HasRepair(x)' => HasRepair(x))
  BY <1>2 DEF HasRepair, Outstanding
<1>4. CASE stat = "open"
  <2>1. Reopened(o)
    BY <1>4 DEF WriteRepair, RepairReopens, Outstanding
  <2> QED
    BY <1>1, <1>3, <2>1, ReopenShape
<1>5. CASE stat # "open"
  <2>1. UNCHANGED <<status, readyAt>>
    BY <1>5 DEF WriteRepair, RepairReopens, Outstanding
  <2>2. HasRepair(o)' => HasRepair(o)
    BY <1>2, <1>5 DEF HasRepair, Outstanding
  <2> QED
    BY <1>1, <1>3, <2>1, <2>2, Catalogs DEF StepShape, StaysReady, Active
<1> QED
  BY <1>4, <1>5

LEMMA RepairShape ==
  ASSUME TypeOK, NEW r \in Repair, RepairStep(r)
  PROVE  StepShape
<1>1. repair[r] # None => repair[r].order \in Order
  BY DEF TypeOK, RepairRow
<1>2. ASSUME NEW o \in Order, CreateRepair(r, o) PROVE StepShape
  BY <1>2, WriteRepairShape DEF CreateRepair
<1>3. ASSUME NEW stat \in {"open", "completed", "cancelled"}, UpdateRepair(r, stat)
      PROVE  StepShape
  BY <1>1, <1>3, WriteRepairShape DEF UpdateRepair
<1>4. CASE ReceiveRepair(r)
  BY <1>1, <1>4, WriteRepairShape DEF ReceiveRepair
<1> QED
  BY <1>2, <1>3, <1>4 DEF RepairStep

\* mark_ready has looked at every order that it confirms.
LEMMA MarkReadyShape ==
  ASSUME TypeOK, NEW chosen \in SUBSET Active, MarkReady(chosen)
  PROVE  StepShape
<1> DEFINE pending == chosen \cap With("pending", status)
<1>1. /\ UNCHANGED <<situation, catalog, branch, repair, production, progress, closed>>
      /\ \A o \in pending : Unblocked(o)
      /\ \A o \in Order : status'[o] = IF o \in pending THEN "ready" ELSE status[o]
      /\ \A o \in Order : readyAt'[o] = IF o \notin pending THEN readyAt[o]
                                        ELSE IF branch # None THEN branch ELSE production[o]
  BY DEF MarkReady
<1> HIDE DEF pending
<1>2. ASSUME NEW o \in Active, status'[o] = "ready" PROVE StaysReady(o) \/ BecomesConfirmed(o)
  <2>1. CASE o \in pending
    BY <1>1, <2>1 DEF BecomesConfirmed, Active, pending, With
  <2>2. CASE o \notin pending
    <3>1. HasRepair(o)' => HasRepair(o)
      BY <1>1 DEF HasRepair, Outstanding
    <3> QED
      BY <1>1, <1>2, <2>2, <3>1 DEF StaysReady, Active
  <2> QED
    BY <2>1, <2>2
<1> QED
  BY <1>1, <1>2, Catalogs DEF StepShape

LEMMA CollectShape ==
  ASSUME TypeOK, NEW chosen, Collect(chosen)
  PROVE  StepShape
  BY Catalogs DEF Collect, StepShape, StaysReady, HasRepair, Outstanding, Active

LEMMA OrderShape ==
  ASSUME TypeOK, NEW o \in Order, OrderStep(o)
  PROVE  StepShape
<1>1. CASE \E place \in situation.branches : UpdateOrder(o, place)
  BY <1>1, UpdateOrderShape
<1>2. CASE Confirm(o)
  BY <1>2, MarkReadyShape DEF Confirm
<1>3. CASE Reopen(o)
  <2>1. \A x \in Order : HasRepair(x)' => HasRepair(x)
    BY <1>3 DEF Reopen, HasRepair, Outstanding
  <2> QED
    BY <1>3, <2>1, ReopenShape DEF Reopen
<1>4. CASE CollectOrder(o)
  BY <1>4, CollectShape DEF CollectOrder
<1>5. CASE CancelOrder(o) \/ CreateReturn(o)
  BY <1>5, QuietShape, Catalogs DEF CancelOrder, CreateReturn, Close
<1> QED
  BY <1>1, <1>2, <1>3, <1>4, <1>5 DEF OrderStep

LEMMA Shape == TypeOK /\ [Next]_vars => StepShape
<1> SUFFICES ASSUME TypeOK, [Next]_vars PROVE StepShape
  OBVIOUS
<1>1. ASSUME NEW u \in Staff, ChecklistStep(u) PROVE StepShape
  BY <1>1, SetStageShape, QuietShape, Catalogs
  DEF ChecklistStep, ReadCatalog, SetStageFails, orders
<1>2. CASE ConfirmAll
  BY <1>2, MarkReadyShape DEF ConfirmAll
<1>3. CASE CollectInvoice
  BY <1>3, CollectShape DEF CollectInvoice
<1>4. CASE \E new \in situation.catalogs : UpdateStages(new)
  BY <1>4, QuietShape DEF UpdateStages, orders
<1>5. CASE UNCHANGED vars
  BY <1>5, QuietShape, Catalogs DEF vars, orders
<1> QED
  BY <1>1, <1>2, <1>3, <1>4, <1>5, RepairShape, OrderShape DEF Next

-----------------------------------------------------------------------------
(* What a ready order rests on. *)

\* A ready order without an outstanding repair stays so.
LEMMA NoRepairKept == TypeOK /\ ReadyHasNoRepair /\ StepShape => ReadyHasNoRepair'
<1> SUFFICES ASSUME TypeOK, ReadyHasNoRepair, StepShape, NEW o \in Active', status'[o] = "ready"
             PROVE  ~HasRepair(o)'
  BY DEF ReadyHasNoRepair, With
<1>1. o \in Active
  BY DEF StepShape, Active
<1>2. CASE StaysReady(o)
  BY <1>1, <1>2 DEF StaysReady, ReadyHasNoRepair, With
<1>3. CASE BecomesConfirmed(o)
  BY <1>3 DEF BecomesConfirmed, Unblocked, HasRepair, Outstanding
<1> QED
  BY <1>1, <1>2, <1>3 DEF StepShape

\* The blockers of an order depend on nothing else.
LEMMA SameBlockers ==
  ASSUME NEW o \in Order, UNCHANGED <<catalog, branch>>, progress'[o] = progress[o],
         production'[o] = production[o], HasRepair(o)' => HasRepair(o), Unblocked(o)
  PROVE  Unblocked(o)'
<1>1. \A s : /\ Recorded(o, s)' <=> Recorded(o, s)
             /\ Arrived(o, s)' <=> Arrived(o, s)
  BY DEF Recorded, Arrived, Pending
<1> DEFINE listed == {s \in Stage : catalog[s].active \/ Recorded(o, s)}
           deliveries == {s \in listed : catalog[s].transfer}
<1>2. listed' = listed /\ deliveries' = deliveries
  BY <1>1 DEF Stage
<1>3. /\ production[o] # None /\ branch # Unchosen /\ ~HasRepair(o) /\ listed # deliveries
      /\ \A s \in listed \ deliveries : Recorded(o, s)
      /\ branch \in Branch /\ production[o] # branch
           => deliveries # {} /\ \A s \in deliveries : Arrived(o, s)
  BY DEF Unblocked
<1> HIDE DEF listed, deliveries
<1>4. /\ production'[o] # None /\ branch' # Unchosen /\ ~HasRepair(o)' /\ listed' # deliveries'
      /\ \A s \in listed' \ deliveries' : Recorded(o, s)'
      /\ branch' \in Branch /\ production'[o] # branch'
           => deliveries' # {} /\ \A s \in deliveries' : Arrived(o, s)'
  BY <1>1, <1>2, <1>3
<1> QED
  BY <1>4 DEF Unblocked, listed, deliveries

LEMMA ConfirmedKept == TypeOK /\ ReadyIsConfirmed /\ StepShape => ReadyIsConfirmed'
<1> SUFFICES ASSUME TypeOK, ReadyIsConfirmed, StepShape, Unedited',
                    NEW o \in Active', status'[o] = "ready"
             PROVE  WouldBeConfirmedAgain(o)'
  BY DEF ReadyIsConfirmed, With
<1>1. o \in Active /\ o \in Order /\ branch' = branch
  BY DEF StepShape, Active
<1>2. Unedited /\ catalog' = catalog
  BY UneditedCatalog DEF StepShape, Unedited
<1>3. CASE StaysReady(o)
  <2>1. WouldBeConfirmedAgain(o)
    BY <1>1, <1>2, <1>3 DEF ReadyIsConfirmed, With, StaysReady
  <2> QED
    BY <1>1, <1>2, <1>3, <2>1, SameBlockers DEF WouldBeConfirmedAgain, StaysReady
<1>4. CASE BecomesConfirmed(o)
  <2>1. HasRepair(o)' => HasRepair(o)
    BY <1>4 DEF BecomesConfirmed, HasRepair, Outstanding
  <2> QED
    BY <1>1, <1>2, <1>4, <2>1, SameBlockers DEF WouldBeConfirmedAgain, BecomesConfirmed
<1> QED
  BY <1>1, <1>3, <1>4 DEF StepShape

-----------------------------------------------------------------------------
(* Types. *)

\* The initial rows have their types.
LEMMA InitTypes == Init => TypeOK
<1> SUFFICES ASSUME Init PROVE TypeOK
  OBVIOUS
<1>1. situation.generations \in Nat
  BY ReadinessAssumption DEF Init
<1> QED
  BY <1>1 DEF Init, TypeOK, Place

\* What is left to show of a step for the types.
LEMMA TypeFinish ==
  ASSUME TypeOK, UNCHANGED <<situation, branch>>, catalog' \in situation.catalogs,
         production' \in [Order -> Place],
         progress' \in [Order -> [Stage -> Entry \cup {Pending}]],
         repair' \in [Repair -> RepairRow \cup {None}],
         status' \in [Order -> {"pending", "ready", "collected"}],
         readyAt' \in [Order -> Place],
         \A o \in Order : status'[o] = "ready" => readyAt'[o] # None,
         closed' \subseteq Order,
         generation' \in 0..situation.generations,
         staff' \in [Staff -> Reading \cup {None}]
  PROVE  TypeOK'
<1>1. Stage' = Stage
  BY Catalogs DEF Stage
<1>2. Place' = Place /\ Entry' = Entry /\ Reading' = Reading /\ RepairRow' = RepairRow
  BY DEF Place, Entry, Reading, RepairRow
<1> QED
  BY <1>1, <1>2 DEF TypeOK, Pending

\* A step that changes only what people hold.
LEMMA StaffTypes ==
  ASSUME TypeOK, NEW u \in Staff, NEW reading \in Reading \cup {None},
         staff' = [staff EXCEPT ![u] = reading],
         UNCHANGED <<situation, catalog, branch, repair, orders, generation>>
  PROVE  TypeOK'
<1>1. staff' \in [Staff -> Reading \cup {None}]
  BY DEF TypeOK
<1> QED
  BY <1>1, TypeFinish DEF TypeOK, orders

LEMMA ChecklistTypes ==
  ASSUME TypeOK, NEW u \in Staff, ChecklistStep(u)
  PROVE  TypeOK'
<1>1. ASSUME NEW o \in Order, NEW guess \in Place, ReadCatalog(u, o, guess) PROVE TypeOK'
  <2>1. [order |-> o, catalog |-> catalog, production |-> guess] \in Reading
    BY Catalogs DEF Reading
  <2> QED
    BY <1>1, <2>1, StaffTypes DEF ReadCatalog
<1>2. ASSUME NEW s \in Stage, NEW entry \in Entry \cup {Pending}, SetStage(u, s, entry)
      PROVE  TypeOK'
  <2> DEFINE o == staff[u].order
  <2>1. /\ o \in Order /\ progress' = [progress EXCEPT ![o][s] = entry]
        /\ ProgressTrigger(o, s, entry) /\ staff' = [staff EXCEPT ![u] = None]
        /\ UNCHANGED <<situation, catalog, branch, production, repair, closed, generation>>
    BY <1>2 DEF SetStage, Active
  <2> HIDE DEF o
  <2>2. progress' \in [Order -> [Stage -> Entry \cup {Pending}]]
    BY <2>1, WrittenEntry
  <2>3. /\ status' \in [Order -> {"pending", "ready", "collected"}]
        /\ readyAt' \in [Order -> Place]
        /\ \A x \in Order : status'[x] = "ready" => readyAt'[x] # None
    BY <2>1, ReopenedRows DEF ProgressTrigger, TypeOK
  <2>4. staff' \in [Staff -> Reading \cup {None}]
    BY <2>1 DEF TypeOK
  <2> QED
    BY <2>1, <2>2, <2>3, <2>4, TypeFinish DEF TypeOK
<1>3. CASE SetStageFails(u)
  BY <1>3, StaffTypes DEF SetStageFails
<1> QED
  BY <1>1, <1>2, <1>3 DEF ChecklistStep

LEMMA WriteRepairTypes ==
  ASSUME TypeOK, NEW r \in Repair, NEW o \in Order,
         NEW stat \in {"open", "completed", "cancelled", "received"}, WriteRepair(r, o, stat)
  PROVE  TypeOK'
<1>1. [order |-> o, status |-> stat] \in RepairRow
  BY DEF RepairRow
<1>2. repair' \in [Repair -> RepairRow \cup {None}]
  BY <1>1 DEF TypeOK, WriteRepair
<1>3. /\ status' \in [Order -> {"pending", "ready", "collected"}]
      /\ readyAt' \in [Order -> Place]
      /\ \A x \in Order : status'[x] = "ready" => readyAt'[x] # None
  BY ReopenedRows DEF WriteRepair, TypeOK
<1>4. /\ UNCHANGED <<situation, branch, catalog, production, progress, closed, generation, staff>>
  BY DEF WriteRepair
<1> QED
  BY <1>2, <1>3, <1>4, TypeFinish DEF TypeOK

LEMMA RepairTypes ==
  ASSUME TypeOK, NEW r \in Repair, RepairStep(r)
  PROVE  TypeOK'
<1>1. repair[r] # None => repair[r].order \in Order
  BY DEF TypeOK, RepairRow
<1>2. \/ \E o \in Order : WriteRepair(r, o, "open")
      \/ \E stat \in {"open", "completed", "cancelled", "received"} :
           repair[r] # None /\ WriteRepair(r, repair[r].order, stat)
  BY DEF RepairStep, CreateRepair, UpdateRepair, ReceiveRepair
<1> QED
  BY <1>1, <1>2, WriteRepairTypes

\* A generation stays within its bound.
LEMMA GenerationTypes ==
  ASSUME TypeOK, NextGeneration
  PROVE  generation' \in 0..situation.generations
<1>1. situation.generations \in Nat /\ BecomesReady \in {0, 1}
  BY ReadinessAssumption DEF TypeOK, BecomesReady
<1> QED
  BY <1>1 DEF TypeOK, NextGeneration

LEMMA MarkReadyTypes ==
  ASSUME TypeOK, NEW chosen, MarkReady(chosen)
  PROVE  TypeOK'
<1> DEFINE pending == chosen \cap With("pending", status)
<1>1. /\ \A o \in pending : production[o] # None /\ branch # Unchosen
      /\ status' = [o \in Order |-> IF o \in pending THEN "ready" ELSE status[o]]
      /\ readyAt' = [o \in Order |-> IF o \notin pending THEN readyAt[o]
                                     ELSE IF branch # None THEN branch ELSE production[o]]
      /\ UNCHANGED <<situation, catalog, branch, repair, production, progress, closed, staff>>
  BY DEF MarkReady, Unblocked
<1> HIDE DEF pending
<1>2. branch \in Place \cup {Unchosen}
  BY ReadinessAssumption DEF TypeOK, Place
<1>3. /\ status' \in [Order -> {"pending", "ready", "collected"}]
      /\ readyAt' \in [Order -> Place]
      /\ \A x \in Order : status'[x] = "ready" => readyAt'[x] # None
  BY <1>1, <1>2 DEF TypeOK
<1>4. generation' \in 0..situation.generations
  BY GenerationTypes DEF MarkReady
<1> QED
  BY <1>1, <1>3, <1>4, TypeFinish DEF TypeOK

LEMMA OrderTypes ==
  ASSUME TypeOK, NEW o \in Order, OrderStep(o)
  PROVE  TypeOK'
<1>1. ASSUME NEW place \in situation.branches, UpdateOrder(o, place) PROVE TypeOK'
  <2>1. production' \in [Order -> Place]
    BY <1>1 DEF UpdateOrder, TypeOK, Place
  <2>2. /\ status' \in [Order -> {"pending", "ready", "collected"}]
        /\ readyAt' \in [Order -> Place]
        /\ \A x \in Order : status'[x] = "ready" => readyAt'[x] # None
    BY <1>1, ReopenedRows DEF UpdateOrder, TypeOK
  <2>3. UNCHANGED <<situation, catalog, branch, progress, repair, closed, generation, staff>>
    BY <1>1 DEF UpdateOrder
  <2> QED
    BY <2>1, <2>2, <2>3, TypeFinish DEF TypeOK
<1>2. CASE Confirm(o)
  BY <1>2, MarkReadyTypes DEF Confirm
<1>3. CASE Reopen(o)
  BY <1>3, ReopenedRows, TypeFinish DEF Reopen, TypeOK
<1>4. CASE CollectOrder(o)
  BY <1>4, TypeFinish DEF CollectOrder, Collect, TypeOK
<1>5. CASE CancelOrder(o) \/ CreateReturn(o)
  <2>1. /\ closed' = closed \cup {o}
        /\ UNCHANGED <<situation, catalog, branch, production, progress, status, readyAt, repair,
                       staff>>
    BY <1>5 DEF CancelOrder, CreateReturn, Close
  <2>2. generation' \in 0..situation.generations
    BY <1>5, GenerationTypes DEF CancelOrder, CreateReturn, TypeOK
  <2> QED
    BY <2>1, <2>2, TypeFinish DEF TypeOK
<1> QED
  BY <1>1, <1>2, <1>3, <1>4, <1>5 DEF OrderStep

LEMMA TypesKept == TypeOK /\ [Next]_vars => TypeOK'
<1> SUFFICES ASSUME TypeOK, [Next]_vars PROVE TypeOK'
  OBVIOUS
<1>1. CASE ConfirmAll
  BY <1>1, MarkReadyTypes DEF ConfirmAll
<1>2. CASE CollectInvoice
  BY <1>2, TypeFinish DEF CollectInvoice, Collect, TypeOK
<1>3. CASE (\E new \in situation.catalogs : UpdateStages(new)) \/ UNCHANGED vars
  BY <1>3, TypeFinish, Catalogs DEF UpdateStages, TypeOK, orders, vars
<1> QED
  BY <1>1, <1>2, <1>3, ChecklistTypes, RepairTypes, OrderTypes DEF Next

-----------------------------------------------------------------------------
(* Checklists. *)

\* Steps other than set_stage leave the checklists alone.
LEMMA ChecklistSteps ==
  ASSUME [Next]_vars
  PROVE  \/ UNCHANGED progress
         \/ \E u \in Staff : \E s \in Stage, entry \in Entry \cup {Pending} : SetStage(u, s, entry)
  BY DEF Next, vars, orders, ChecklistStep, ReadCatalog, SetStageFails, RepairStep, CreateRepair,
     UpdateRepair, ReceiveRepair, WriteRepair, OrderStep, UpdateOrder, Confirm, Reopen, CollectOrder,
     CancelOrder, CreateReturn, Close, Collect, MarkReady, ConfirmAll, CollectInvoice, UpdateStages

\* validate_stage_sequence: nothing is recorded before, or undone behind, other work.
LEMMA NoGapKept == TypeOK /\ ChecklistHasNoGap /\ [Next]_vars => ChecklistHasNoGap'
<1> SUFFICES ASSUME TypeOK, ChecklistHasNoGap, [Next]_vars, Unedited',
                    NEW x \in Order, NEW e \in Stage', NEW l \in Stage',
                    e < l, ~catalog'[e].transfer, catalog'[e].active, ~catalog'[l].transfer,
                    Recorded(x, l)'
             PROVE  Recorded(x, e)'
  BY DEF ChecklistHasNoGap
<1>1. StepShape
  BY Shape
<1>2. Unedited /\ catalog' = catalog /\ e \in Stage /\ l \in Stage
  BY <1>1, UneditedCatalog DEF StepShape, Unedited, Stage
<1>3. Recorded(x, l) => Recorded(x, e)
  BY <1>2 DEF ChecklistHasNoGap
<1>4. CASE UNCHANGED progress
  BY <1>3, <1>4 DEF Recorded, Pending
<1>5. ASSUME NEW u \in Staff, NEW s \in Stage, NEW entry \in Entry \cup {Pending},
             SetStage(u, s, entry)
      PROVE  Recorded(x, e)'
  <2> DEFINE o == staff[u].order
  <2>1. /\ o \in Order /\ progress' = [progress EXCEPT ![o][s] = entry]
        /\ InOrder(staff[u], s, entry) /\ staff[u] # None
    BY <1>5 DEF SetStage, Active
  <2>2. staff[u].catalog = catalog
    <3>1. staff[u] \in Reading
      BY <2>1 DEF TypeOK
    <3> QED
      BY <1>2, <3>1, UneditedCatalog DEF Reading
  <2>3. CASE x # o
    <3>1. progress'[x] = progress[x]
      BY <1>2, <2>1, <2>3, WrittenEntry
    <3> QED
      BY <1>3, <3>1 DEF Recorded, Pending
  <2>4. CASE x = o
    <3>1. \A y \in Stage : Recorded(x, y)' <=> IF y = s THEN entry # Pending ELSE Recorded(x, y)
      BY <1>2, <2>1, <2>4, WrittenEntry
    <3>2. Stage = 1..Len(catalog) /\ Len(catalog) \in Nat /\ s \in Stage
      BY Catalogs
    <3>3. Applies(staff[u], e) /\ Applies(staff[u], l)
      BY <1>2, <2>2 DEF Applies
    <3>4. CASE entry = Pending
      <4>1. l \in s + 1..Len(catalog) => ~Recorded(o, l)
        BY <2>1, <3>3, <3>4 DEF InOrder
      <4>2. l # s /\ Recorded(x, l)
        BY <1>2, <3>1, <3>4
      <4> QED
        BY <1>2, <1>3, <2>4, <3>1, <3>2, <4>1, <4>2
    <3>5. CASE entry # Pending
      <4>1. e \in 1..s - 1 => Recorded(o, e)
        BY <1>2, <2>1, <2>2, <3>3, <3>5 DEF InOrder
      <4>2. CASE e = s
        BY <1>2, <3>1, <3>5, <4>2
      <4>3. CASE e # s /\ l = s
        BY <1>2, <2>4, <3>1, <3>2, <4>1, <4>3
      <4>4. CASE e # s /\ l # s
        BY <1>2, <1>3, <3>1, <4>4
      <4> QED
        BY <4>2, <4>3, <4>4
    <3> QED
      BY <3>4, <3>5
  <2> QED
    BY <2>3, <2>4
<1> QED
  BY <1>4, <1>5, ChecklistSteps

-----------------------------------------------------------------------------
(* The readiness generation. *)

\* When an invoice is ready (view invoice_readiness).
LEMMA ReadinessMeans ==
  /\ Readiness = "ready" <=>
       /\ \E o \in Active : status[o] # "collected"
       /\ \A o \in Active : status[o] # "pending"
  /\ Readiness' = "ready" <=>
       /\ \E o \in Active' : status'[o] # "collected"
       /\ \A o \in Active' : status'[o] # "pending"
<1>1. Readiness = "ready" <=>
        /\ \E o \in Active : status[o] # "collected"
        /\ \A o \in Active : status[o] # "pending"
  BY DEF Readiness, With
<1>2. Readiness' = "ready" <=>
        /\ \E o \in Active' : status'[o] # "collected"
        /\ \A o \in Active' : status'[o] # "pending"
  BY DEF Readiness, With
<1> QED
  BY <1>1, <1>2

Begins == Readiness # "ready" /\ Readiness' = "ready"
Collects == \E o \in Order : status[o] # "collected" /\ status'[o] = "collected"
Named == generation' = generation + (IF Begins /\ ~Collects THEN 1 ELSE 0)

\* Nothing begins when orders are only reopened, or handed over, or closed after that.
LEMMA NothingBegins ==
  ASSUME TypeOK, generation' = generation,
         \/ closed' = closed /\ \A o \in Order : \/ status'[o] = status[o]
                                                 \/ status[o] = "ready" /\ status'[o] = "pending"
                                                 \/ status'[o] = "collected"
         \/ /\ status' = status
            /\ \E o \in Order : status[o] = "collected" /\ closed' = closed \cup {o}
  PROVE  Named
<1>1. Begins => Collects
  <2> SUFFICES ASSUME Begins, ~Collects PROVE FALSE
    OBVIOUS
  <2>1. /\ \E o \in Active' : status'[o] # "collected"
        /\ \A o \in Active' : status'[o] # "pending"
    BY ReadinessMeans DEF Begins
  <2>2. Active' \subseteq Order /\ Active \subseteq Order
    BY DEF Active
  <2>3. \A o \in Active' : o \in Active /\ status'[o] = status[o]
    BY <2>1, <2>2 DEF Collects, Active
  <2>4. \A o \in Active : o \in Active' \/ status[o] = "collected"
    BY DEF Active
  <2>5. Readiness = "ready"
    BY <2>1, <2>3, <2>4, ReadinessMeans
  <2> QED
    BY <2>5 DEF Begins
<1>2. generation \in Int
  BY ReadinessAssumption DEF TypeOK
<1> QED
  BY <1>1, <1>2 DEF Named

\* A confirmation, or the cancellation of an order, counts itself.
LEMMA NextNames ==
  ASSUME NextGeneration, ~Collects
  PROVE  Named
  BY DEF NextGeneration, BecomesReady, Begins, Named

LEMMA MarkReadyNames ==
  ASSUME TypeOK, NEW chosen, MarkReady(chosen)
  PROVE  Named
<1>1. \A o \in Order : status'[o] = status[o] \/ status'[o] = "ready"
  BY DEF MarkReady
<1> QED
  BY <1>1, NextNames DEF MarkReady, Collects

LEMMA GenerationKept == TypeOK /\ [Next]_vars => Named
<1> SUFFICES ASSUME TypeOK, [Next]_vars PROVE Named
  OBVIOUS
<1>1. ASSUME UNCHANGED <<generation, closed, status>> PROVE Named
  BY <1>1, NothingBegins
<1>2. ASSUME NEW o \in Order, Reopened(o), UNCHANGED <<generation, closed>> PROVE Named
  BY <1>2, ReopenedRows, NothingBegins
<1>3. ASSUME NEW chosen, Collect(chosen) PROVE Named
  BY <1>3, NothingBegins DEF Collect
<1>4. ASSUME NEW u \in Staff, ChecklistStep(u) PROVE Named
  <2>1. CASE UNCHANGED <<generation, closed, status>>
    BY <1>1, <2>1
  <2>2. CASE \E s \in Stage, entry \in Entry \cup {Pending} : SetStage(u, s, entry)
    BY <1>1, <1>2, <2>2 DEF SetStage, ProgressTrigger, Active
  <2> QED
    BY <1>4, <2>1, <2>2 DEF ChecklistStep, ReadCatalog, SetStageFails, orders
<1>5. ASSUME NEW r \in Repair, RepairStep(r) PROVE Named
  <2>1. PICK o, stat : WriteRepair(r, o, stat)
    BY <1>5 DEF RepairStep, CreateRepair, UpdateRepair, ReceiveRepair
  <2> QED
    BY <1>1, <1>2, <2>1 DEF WriteRepair, Active
<1>6. ASSUME NEW o \in Order, OrderStep(o) PROVE Named
  <2>1. CASE (\E place \in situation.branches : UpdateOrder(o, place)) \/ Reopen(o)
    BY <1>1, <1>2, <2>1 DEF UpdateOrder, Reopen
  <2>2. CASE Confirm(o)
    BY <2>2, MarkReadyNames DEF Confirm
  <2>3. CASE CollectOrder(o)
    BY <1>3, <2>3 DEF CollectOrder
  <2>4. CASE CancelOrder(o)
    BY <2>4, NextNames DEF CancelOrder, Close, Collects
  <2>5. CASE CreateReturn(o)
    BY <2>5, NothingBegins DEF CreateReturn, Close
  <2> QED
    BY <1>6, <2>1, <2>2, <2>3, <2>4, <2>5 DEF OrderStep
<1>7. CASE ConfirmAll
  BY <1>7, MarkReadyNames DEF ConfirmAll
<1>8. CASE CollectInvoice
  BY <1>3, <1>8 DEF CollectInvoice
<1>9. CASE (\E new \in situation.catalogs : UpdateStages(new)) \/ UNCHANGED vars
  BY <1>1, <1>9 DEF UpdateStages, orders, vars
<1> QED
  BY <1>4, <1>5, <1>6, <1>7, <1>8, <1>9 DEF Next

-----------------------------------------------------------------------------
(* The theorems. *)

\* Types, and what ready orders and checklists say, hold in every reachable state.
THEOREM Invariant == Spec => []IInv
<1>1. Init => IInv
  <2> SUFFICES ASSUME Init PROVE IInv
    OBVIOUS
  <2>1. ReadyHasNoRepair /\ ReadyIsConfirmed
    BY DEF Init, ReadyHasNoRepair, ReadyIsConfirmed, With, Active
  <2>2. ChecklistHasNoGap
    BY DEF Init, ChecklistHasNoGap, Recorded
  <2> QED
    BY <2>1, <2>2, InitTypes DEF IInv
<1>2. IInv /\ [Next]_vars => IInv'
  BY TypesKept, Shape, NoRepairKept, ConfirmedKept, NoGapKept DEF IInv
<1> QED
  BY <1>1, <1>2, PTL DEF Spec

\* No stage of work is recorded behind one that is not, whoever records and undoes at
\* the same time (orders/service.rs validate_stage_sequence).
THEOREM NoGap == Spec => []ChecklistHasNoGap
<1>1. IInv => ChecklistHasNoGap
  BY DEF IInv
<1> QED
  BY <1>1, Invariant, PTL

\* A ready order is as it was when somebody confirmed it (the triggers of migration
\* 0003, readiness.rs blockers, confirm).
THEOREM ReadyRests == Spec => ReadyRestsOnWhatWasConfirmed
<1>1. IInv => ReadyIsConfirmed
  BY DEF IInv
<1>2. IInv /\ IInv' /\ [Next]_vars =>
        [\A o \in Active : status[o] = "ready" /\ status'[o] = "ready" =>
            /\ progress'[o] = progress[o] /\ production'[o] = production[o]
            /\ readyAt'[o] = readyAt[o]
            /\ ~HasRepair(o)']_vars
  <2> SUFFICES ASSUME IInv, StepShape, NEW o \in Active, status[o] = "ready", status'[o] = "ready"
               PROVE  /\ progress'[o] = progress[o] /\ production'[o] = production[o]
                      /\ readyAt'[o] = readyAt[o] /\ ~HasRepair(o)'
    BY Shape DEF IInv
  <2>1. ~HasRepair(o)
    BY DEF IInv, ReadyHasNoRepair, With
  <2>2. CASE StaysReady(o)
    BY <2>1, <2>2 DEF StaysReady
  <2>3. ~BecomesConfirmed(o)
    BY DEF BecomesConfirmed
  <2> QED
    BY <2>2, <2>3 DEF StepShape
<1> QED
  BY <1>1, <1>2, Invariant, PTL DEF Spec, ReadyRestsOnWhatWasConfirmed

\* A readiness generation names one period of readiness that began with a confirmation
\* or a cancellation (readiness.rs confirm, returns/service.rs cancel_order).
THEOREM GenerationsName == Spec => GenerationNamesReadiness
<1>1. IInv /\ [Next]_vars =>
        [LET begins == Readiness # "ready" /\ Readiness' = "ready"
             collects == \E o \in Order : status[o] # "collected" /\ status'[o] = "collected"
         IN generation' = generation + (IF begins /\ ~collects THEN 1 ELSE 0)]_vars
  BY GenerationKept DEF IInv, Named, Begins, Collects
<1> QED
  BY <1>1, Invariant, PTL DEF Spec, GenerationNamesReadiness

=============================================================================
