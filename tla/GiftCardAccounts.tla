-------------------------- MODULE GiftCardAccounts --------------------------
(***************************************************************************)
(* What gift cards promise as money: an account is opened with a face      *)
(* value, every invoice may pay with part of it, and value and payments    *)
(* always add up to the face.  An invoice changes what it takes from all   *)
(* accounts in one step; codes, replacements and locks are not visible.    *)
(***************************************************************************)
EXTENDS Integers

CONSTANTS Account, Invoice, MaxFace

VARIABLES
    open,   \* accounts in use
    value,  \* what is left on each account
    spent   \* what each invoice has taken from each account

vars == <<open, value, spent>>

Init ==
    /\ open = {}
    /\ value = [a \in Account |-> 0]
    /\ spent = [a \in Account |-> [i \in Invoice |-> 0]]

\* Accounts are opened and, while no invoice uses them, closed or reopened with
\* another face; invoice i changes what it takes from the accounts.  On an
\* account that stays, value and payments add up to the same.
Settle(i) ==
    /\ \A a \in Account, j \in Invoice \ {i} : spent'[a][j] = spent[a][j]
    /\ \A a \in Account \ open' : value'[a] = 0 /\ spent'[a][i] = 0
    /\ \E closed \in SUBSET open :
         /\ open \ closed \subseteq open'
         /\ \A a \in closed, j \in Invoice : spent[a][j] = 0
         /\ \A a \in open \ closed : value'[a] + spent'[a][i] = value[a] + spent[a][i]
         /\ \A a \in open' \ (open \ closed) : value'[a] + spent'[a][i] \in 1..MaxFace
    /\ open' \subseteq Account
    /\ value' \in [Account -> Nat]
    /\ spent' \in [Account -> [Invoice -> Nat]]

\* Credit is issued without an invoice.
Open(a) ==
    /\ a \notin open
    /\ open' = open \cup {a}
    /\ value' \in [Account -> Nat] /\ value'[a] \in 1..MaxFace
    /\ \A b \in Account \ {a} : value'[b] = value[b]
    /\ UNCHANGED spent

Next == (\E a \in Account : Open(a)) \/ \E i \in Invoice : Settle(i)

Spec == Init /\ [][Next]_vars

=============================================================================
