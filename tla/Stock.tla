-------------------------------- MODULE Stock --------------------------------
(***************************************************************************)
(* Shop fabric: how much of each material every location holds, and the    *)
(* requests that move it.  A request is a database transaction of several  *)
(* statements; a statement that changes a stock row locks it until the     *)
(* transaction ends, statements of other requests run in between, and a    *)
(* transaction may be rolled back at any point (a refusal, a crash, a lost *)
(* connection, the database breaking a deadlock).                          *)
(*                                                                         *)
(* Amounts are hundredths: sales, returns, cancellations and transfers are *)
(* held to that, what a receipt or removal has beyond is rounded when it   *)
(* is stored.  They are positive, as the form requires of a receipt too.   *)
(* Products have rows of the same kind but no removals, transfers or       *)
(* location checks, and are left out, and so is the customer's own fabric. *)
(***************************************************************************)
EXTENDS Integers, Sequences, FiniteSets, FiniteSetsExt

CONSTANTS
    Material, Location,
    Invoice,        \* invoices that can be made
    Desk,           \* where requests come from, one at a time each
    MaxAmount,      \* bound: amount of one entry or line
    MaxEntries,     \* bound: entries of a receipt or removal
    Contents,       \* bound: what is put on an invoice, first or by an edit
    MaxReceived,    \* bound: what is ever received of a material
    Idle, None

ASSUME StockAssumption ==
    /\ MaxAmount \in Nat \ {0} /\ {MaxEntries, MaxReceived} \subseteq Nat
    /\ IsFiniteSet(Location) /\ IsFiniteSet(Invoice)
    /\ None \notin Invoice

VARIABLES
    usable,     \* locations that are active and hold stock
    stock,      \* committed quantities of material_stock; 0 where there is no row
    received,   \* history: of each material, receipts less removals
    lines,      \* the fabric lines of each invoice, None before it is made
    work        \* the open transaction of each desk

vars == <<usable, stock, received, lines, work>>

Row == Material \X Location
Amount == 1..MaxAmount
Upto(n, S) == UNION {[1..k -> S] : k \in 0..n}

Step == [kind : {"share", "check", "take", "put"}, row : Row, amount : Nat]

Line == [row : Row, quantity : Nat, garment : BOOLEAN,
         returned : Nat, restocked : Nat, collected : BOOLEAN]

Op == {"transfer", "receive", "remove", "create", "edit", "return", "cancel"}

Transaction ==
    [op : Op,
     material : Material \cup {None},    \* the material row it has locked
     invoice : Invoice \cup {None},      \* the invoice row it has locked
     after : Seq(Line),                  \* that invoice once it commits
     todo : Seq(Step),
     shared : SUBSET Location,           \* branch rows locked FOR SHARE
     locked : SUBSET Row,                \* stock rows it has changed
     delta : [Row -> Int],
     refused : BOOLEAN]                  \* remove_stock: some entry was refused

Opened(op, m, i, after, todo) ==
    [op |-> op, material |-> m, invoice |-> i, after |-> after, todo |-> todo,
     shared |-> {}, locked |-> {}, delta |-> [r \in Row |-> 0], refused |-> FALSE]

Open == {d \in Desk : work[d] # Idle}

\* What a statement of d sees: committed rows and its own changes.
OnHand(d, r) == stock[r] + work[d].delta[r]

\* received is a history: StockIsAccounted says what it is.
TypeOK ==
    /\ usable \subseteq Location
    /\ stock \in [Row -> Nat]
    /\ lines \in [Invoice -> Seq(Line) \cup {None}]
    /\ work \in [Desk -> Transaction \cup {Idle}]
    /\ \A d \in Open : \A r \in work[d].locked : OnHand(d, r) >= 0

Init ==
    /\ usable = Location
    /\ stock = [r \in Row |-> 0]
    /\ received = [m \in Material |-> 0]
    /\ lines = [i \in Invoice |-> None]
    /\ work = [d \in Desk |-> Idle]

Starts(d, txn) ==
    /\ work[d] = Idle
    /\ work' = [work EXCEPT ![d] = txn]
    /\ UNCHANGED <<usable, stock, received, lines>>

End(d) ==
    /\ work' = [work EXCEPT ![d] = Idle]
    /\ UNCHANGED <<usable, stock, received, lines>>

Do(kind, r, n) == [kind |-> kind, row |-> r, amount |-> n]

-----------------------------------------------------------------------------
(* The stock form. *)

Entry == [place : Location, amount : Amount]
SumOver(f) == MapThenSumSet(LAMBDA x : f[x], DOMAIN f)
Total(entries) == SumOver([k \in DOMAIN entries |-> entries[k].amount])
Entries == {e \in Upto(MaxEntries, Entry) : e # <<>> /\ Total(e) <= MaxReceived}
ForEach(kind, m, entries) ==
    [k \in 1..Len(entries) |-> Do(kind, <<m, entries[k].place>>, entries[k].amount)]

TotalOf(f, m) == SumOver([l \in Location |-> f[<<m, l>>]])

\* What the statements of todo will still do to the stock of a material.
Effect(step, m) ==
    IF step.row[1] # m THEN 0
    ELSE CASE step.kind = "put" -> step.amount
           [] step.kind = "take" -> -step.amount
           [] OTHER -> 0
Pending(todo, m) == SumOver([k \in DOMAIN todo |-> Effect(todo[k], m)])

OnOrder(m) ==
    SumOver([d \in {e \in Open : work[e].op = "receive"} |->
               TotalOf(work[d].delta, m) + Pending(work[d].todo, m)])

\* Creating a material with opening stock is a receipt too.
ReceiveStock(d, m, entries) ==
    /\ received[m] + OnOrder(m) + Total(entries) <= MaxReceived
    /\ Starts(d, Opened("receive", None, None, <<>>, ForEach("put", m, entries)))

RemoveStock(d, m, entries) ==
    Starts(d, Opened("remove", None, None, <<>>, ForEach("take", m, entries)))

Move(m, from, to, n) ==
    <<Do("share", <<m, to>>, 0), Do("take", <<m, from>>, n), Do("put", <<m, to>>, n)>>

\* Mutant: transfers do not lock their material.
TransferUnserialized(d, m, from, to, n) ==
    /\ from # to
    /\ Starts(d, Opened("transfer", m, None, <<>>, Move(m, from, to, n)))

\* The material row is locked first, so that one transfer of a material at a time
\* gets any further.
TransferStock(d, m, from, to, n) ==
    /\ from # to
    /\ \A e \in Open : work[e].material # m
    /\ Starts(d, Opened("transfer", m, None, <<>>, Move(m, from, to, n)))

-----------------------------------------------------------------------------
(* Invoices.  A request that finds its invoice locked waits before it starts. *)

\* Mutant: the request does not lock its invoice.
UnlockedOrNot(i) == TRUE

Unlocked(i) == \A d \in Open : work[d].invoice # i

NewLine == [row : Row, quantity : Amount, garment : BOOLEAN]

ASSUME ContentsAssumption == Contents \subseteq Seq(NewLine) /\ None \notin Seq(Line)

Sold(new) ==
    [k \in 1..Len(new) |->
       [row |-> new[k].row, quantity |-> new[k].quantity, garment |-> new[k].garment,
        returned |-> 0, restocked |-> 0, collected |-> ~new[k].garment]]

\* Every line checks its location, then takes its fabric.
Sell(new) ==
    [k \in 1..(2 * Len(new)) |->
       IF k % 2 = 1 THEN Do("check", new[(k + 1) \div 2].row, 0)
                    ELSE Do("take", new[k \div 2].row, new[k \div 2].quantity)]

CreateInvoice(d, i, new) ==
    /\ lines[i] = None /\ Unlocked(i)
    /\ Starts(d, Opened("create", None, i, Sold(new), Sell(new)))

\* Mutant: an invoice with returns can be edited.
EditableUnlessCollected(i) ==
    \A k \in DOMAIN lines[i] : lines[i][k].garment => ~lines[i][k].collected

Editable(i) ==
    \A k \in DOMAIN lines[i] :
        /\ lines[i][k].returned = 0
        /\ lines[i][k].garment => ~lines[i][k].collected

\* What the old lines took goes back where it came from, whatever has become of
\* that location since.
Restore(old) == [k \in 1..Len(old) |-> Do("put", old[k].row, old[k].quantity)]

UpdateInvoice(d, i, new) ==
    /\ lines[i] # None /\ Unlocked(i) /\ Editable(i)
    /\ Starts(d, Opened("edit", None, i, Sold(new), Restore(lines[i]) \o Sell(new)))

HandOut(i, k) ==
    /\ Unlocked(i)
    /\ lines[i][k].garment /\ ~lines[i][k].collected /\ lines[i][k].returned = 0
    /\ lines' = [lines EXCEPT ![i][k].collected = TRUE]
    /\ UNCHANGED <<usable, stock, received, work>>

\* Mutant: what was returned before is not counted.
ReturnableAgain(line) ==
    IF line.garment
    THEN IF line.collected /\ line.returned = 0 THEN {0, line.quantity} ELSE {0}
    ELSE 0..line.quantity

\* Of each line, how much can come back: garments whole, and only after pickup.
Returnable(line) ==
    IF line.garment
    THEN IF line.collected /\ line.returned = 0 THEN {0, line.quantity} ELSE {0}
    ELSE 0..(line.quantity - line.returned)

MoreReturned(line, n, restocked) ==
    [line EXCEPT !.returned = line.returned + n, !.restocked = line.restocked + restocked]
Returned(old, back, picks) ==
    [k \in DOMAIN old |->
       MoreReturned(old[k], back[k],
                    IF k \in {picks[j] : j \in DOMAIN picks} THEN back[k] ELSE 0)]

\* The receiving locations are locked against retirement before anything is
\* written.  back is what is returned of each line, picks the retail lines that
\* are put back on a shelf, place where.
CreateReturn(d, i, back, picks, place) ==
    /\ Unlocked(i)
    /\ \A k \in DOMAIN lines[i] : back[k] \in Returnable(lines[i][k])
    /\ \E k \in DOMAIN lines[i] : back[k] > 0
    /\ \A j \in DOMAIN picks : back[picks[j]] > 0 /\ ~lines[i][picks[j]].garment
    /\ LET At(j) == <<lines[i][picks[j]].row[1], place[j]>>
       IN Starts(d, Opened("return", None, i, Returned(lines[i], back, picks),
              [j \in 1..Len(picks) |-> Do("share", At(j), 0)]
                \o [j \in 1..Len(picks) |-> Do("put", At(j), back[picks[j]])]))

\* Unused fabric of a cancelled garment goes back to the shelf it was cut from,
\* if that was usable when the request looked; nothing holds the location.
CancelOrder(d, i, k, n) ==
    /\ Unlocked(i)
    /\ LET line == lines[i][k]
       IN /\ line.garment /\ ~line.collected /\ line.returned = 0
          /\ n \in 0..line.quantity
          /\ n > 0 => line.row[2] \in usable
          /\ Starts(d, Opened("cancel", None, i,
                 [lines[i] EXCEPT ![k] = [line EXCEPT !.returned = line.quantity,
                                                      !.restocked = n]],
                 IF n = 0 THEN <<>> ELSE <<Do("put", line.row, n)>>))

-----------------------------------------------------------------------------
(* The statements of an open transaction. *)

Upcoming(d) == Head(work[d].todo)
Ready(d, kind) == d \in Open /\ work[d].todo # <<>> /\ Upcoming(d).kind = kind

Advance(d, txn) ==
    /\ work' = [work EXCEPT ![d] = [txn EXCEPT !.todo = Tail(txn.todo)]]
    /\ UNCHANGED <<usable, stock, received, lines>>

\* Mutant: the location is looked at, not locked.
ShareNothing(d) ==
    /\ Ready(d, "share")
    /\ IF Upcoming(d).row[2] \in usable THEN Advance(d, work[d]) ELSE End(d)

\* transfer_stock and lock_restock_location: the location is usable and stays so.
ShareLocation(d) ==
    /\ Ready(d, "share")
    /\ LET l == Upcoming(d).row[2]
       IN IF l \in usable THEN Advance(d, [work[d] EXCEPT !.shared = work[d].shared \cup {l}])
                          ELSE End(d)

CheckLocation(d) ==
    /\ Ready(d, "check")
    /\ IF Upcoming(d).row[2] \in usable THEN Advance(d, work[d]) ELSE End(d)

RowFree(d, r) == \A e \in Open \ {d} : r \notin work[e].locked

Change(d, r, n) ==
    [work[d] EXCEPT !.locked = work[d].locked \cup {r},
                    !.delta = [work[d].delta EXCEPT ![r] = work[d].delta[r] + n]]

\* Mutant: the quantity is read first and written later, without the guard.
DecrementUnguarded(d) ==
    /\ Ready(d, "take")
    /\ LET r == Upcoming(d).row  n == Upcoming(d).amount
       IN \/ /\ stock[r] >= n /\ RowFree(d, r)
             /\ Advance(d, Change(d, r, -n))
          \/ stock[r] < n /\ End(d)

\* The guard is part of the UPDATE.  A row that does not hold enough is refused
\* without waiting; a row that does is waited for and looked at again.
DecrementStock(d) ==
    /\ Ready(d, "take")
    /\ LET r == Upcoming(d).row  n == Upcoming(d).amount
       IN \/ /\ OnHand(d, r) >= n /\ RowFree(d, r)
             /\ Advance(d, Change(d, r, -n))
          \/ /\ OnHand(d, r) < n
             /\ IF work[d].op = "remove"
                THEN Advance(d, [work[d] EXCEPT !.refused = TRUE])
                ELSE End(d)

UpsertStock(d) ==
    /\ Ready(d, "put")
    /\ LET r == Upcoming(d).row  n == Upcoming(d).amount
       IN RowFree(d, r) /\ Advance(d, Change(d, r, n))

Commit(d) ==
    /\ d \in Open /\ work[d].todo = <<>> /\ ~work[d].refused
    /\ stock' = [r \in Row |-> stock[r] + work[d].delta[r]]
    /\ received' = [m \in Material |->
                      IF work[d].op \in {"receive", "remove"}
                      THEN received[m] + TotalOf(work[d].delta, m) ELSE received[m]]
    /\ lines' = [i \in Invoice |-> IF work[d].invoice = i THEN work[d].after ELSE lines[i]]
    /\ work' = [work EXCEPT ![d] = Idle]
    /\ UNCHANGED usable

Rollback(d) == d \in Open /\ End(d)

\* Retiring a location, or taking its capability, waits for those who share it.
UpdateLocation(l) ==
    /\ \A d \in Open : l \notin work[d].shared
    /\ usable' \in {usable \cup {l}, usable \ {l}}
    /\ UNCHANGED <<stock, received, lines, work>>

Request(d) ==
    \/ \E m \in Material, entries \in Entries :
         ReceiveStock(d, m, entries) \/ RemoveStock(d, m, entries)
    \/ \E m \in Material, from, to \in Location, n \in Amount : TransferStock(d, m, from, to, n)
    \/ \E i \in Invoice, new \in Contents :
         CreateInvoice(d, i, new) \/ UpdateInvoice(d, i, new)
    \/ \E i \in Invoice :
         /\ lines[i] # None
         /\ \E back \in [DOMAIN lines[i] -> 0..MaxAmount],
               picks \in {p \in Upto(Len(lines[i]), DOMAIN lines[i]) : IsInjective(p)} :
              \E place \in [DOMAIN picks -> Location] : CreateReturn(d, i, back, picks, place)
    \/ \E i \in Invoice, n \in 0..MaxAmount :
         lines[i] # None /\ \E k \in DOMAIN lines[i] : CancelOrder(d, i, k, n)

Statement(d) ==
    \/ ShareLocation(d) \/ CheckLocation(d) \/ DecrementStock(d) \/ UpsertStock(d)
    \/ Commit(d) \/ Rollback(d)

Next ==
    \/ \E d \in Desk : Request(d) \/ Statement(d)
    \/ \E i \in Invoice : lines[i] # None /\ \E k \in DOMAIN lines[i] : HandOut(i, k)
    \/ \E l \in Location : UpdateLocation(l)

Spec == Init /\ [][Next]_vars

-----------------------------------------------------------------------------
(* Properties. *)

\* Fabric is neither made nor lost: what was received is on a shelf or on the
\* line of an invoice that took it and has not given it back, and no line gives
\* back more than it took, however sales, edits, returns, cancellations and
\* transfers interleave (decrement_stock, restore_material_stock, upsert_stock).
Taken(m, these) ==
    IF these = None THEN 0
    ELSE SumOver([k \in DOMAIN these |-> IF these[k].row[1] = m
                                          THEN these[k].quantity - these[k].restocked ELSE 0])
Sound(these) ==
    these # None => \A k \in DOMAIN these :
        these[k].restocked <= these[k].returned /\ these[k].returned <= these[k].quantity
StockIsAccounted ==
    /\ \A m \in Material :
         received[m] = TotalOf(stock, m) + SumOver([i \in Invoice |-> Taken(m, lines[i])])
    /\ \A i \in Invoice : Sound(lines[i])

\* Two transfers never hold what the other needs: "Serialize transfers of this
\* material to avoid opposite-direction moves locking stock rows in reverse
\* order" (transfer_stock).
WaitsFor(d, e) ==
    /\ {d, e} \subseteq Open /\ d # e
    /\ work[d].todo # <<>> /\ Upcoming(d).kind \in {"take", "put"}
    /\ Upcoming(d).row \in work[e].locked
TransfersDoNotWait ==
    \A d, e \in Open :
        work[d].op = "transfer" /\ work[e].op = "transfer" => ~WaitsFor(d, e)

\* What a transfer or a return puts on a shelf is still going to a usable
\* location when it gets there: "Keep location retirement/capability changes
\* serialized with the stock write" (transfer_stock, lock_restock_location).
GoodsArriveWhereStockIsHeld ==
    \A d \in Open : work[d].op \in {"transfer", "return"} =>
        \A r \in Row : work[d].delta[r] > 0 => r[2] \in usable

-----------------------------------------------------------------------------
(* The inductive invariant: what an open transaction owns and owes.         *)

\* It has changed the rows it locked and no other.
Clean(t) == \A r \in Row \ t.locked : t.delta[r] = 0

\* A transfer moves the material it locked.
OwnRows(t) ==
    t.op = "transfer" =>
        /\ t.material \in Material
        /\ \A r \in t.locked : r[1] = t.material
        /\ \A k \in DOMAIN t.todo : t.todo[k].row[1] = t.material

\* A transfer or a return shares every shelf it has filled, or will by then.
Held(t, U) ==
    t.op \in {"transfer", "return"} =>
        /\ t.shared \subseteq U
        /\ \A r \in Row : t.delta[r] > 0 => r[2] \in t.shared
        /\ \A k \in DOMAIN t.todo : t.todo[k].kind = "put" =>
              \/ t.todo[k].row[2] \in t.shared
              \/ \E j \in 1..(k - 1) : t.todo[j].kind = "share"
                                         /\ t.todo[j].row[2] = t.todo[k].row[2]

\* What it did and will do to the stock is what its invoice gives back or takes.
OnForm(t) == t.op \in {"receive", "remove"}
Due(t, m) == IF t.invoice = None THEN 0 ELSE Taken(m, lines[t.invoice]) - Taken(m, t.after)
Balanced(t) ==
    /\ OnForm(t) => t.invoice = None
    /\ ~OnForm(t) => \A m \in Material : TotalOf(t.delta, m) + Pending(t.todo, m) = Due(t, m)
    /\ Sound(t.after)

Apart(t, u) ==
    /\ t.locked \cap u.locked = {}
    /\ t.op = "transfer" /\ u.op = "transfer" => t.material # u.material
    /\ t.invoice = u.invoice => t.invoice = None

IInv ==
    /\ TypeOK /\ StockIsAccounted
    /\ \A d \in Open : /\ Clean(work[d]) /\ OwnRows(work[d]) /\ Held(work[d], usable)
                       /\ Balanced(work[d])
    /\ \A d, e \in Open : d # e => Apart(work[d], work[e])

=============================================================================
