-------------------------- MODULE CreditAllocation --------------------------
(***************************************************************************)
(* How the discounted value of a sale is split over its lines, and the     *)
(* credit of a line over the parts in which it is returned.  Amounts are   *)
(* integer cents; every split rounds a running total, so that the last     *)
(* part gets what is left (returns/service.rs).                            *)
(***************************************************************************)
EXTENDS Integers, Sequences

\* What the first n entries add up to.
UpTo(amounts) ==
    LET sum[n \in 0..Len(amounts)] == IF n = 0 THEN 0 ELSE sum[n - 1] + amounts[n]
    IN sum
Sum(amounts) == UpTo(amounts)[Len(amounts)]

\* part/whole of amount, rounded to the nearest cent.
Share(part, whole, amount) == (part * amount + whole \div 2) \div whole

\* Mutant: the share of each line is rounded on its own.
LimitsAlone(price, urgent, gross) ==
    [n \in 1..Len(price) |->
        (IF Sum(price) = 0 THEN 0 ELSE Share(price[n], Sum(price), gross)) + urgent[n]]

\* The most that can be credited for each line.  gross is what the lines
\* together cost after the discount; urgency fees are never discounted.
CreditLimits(price, urgent, gross) ==
    LET target(n) == IF Sum(price) = 0 THEN 0
                     ELSE Share(UpTo(price)[n], Sum(price), gross)
    IN [n \in 1..Len(price) |-> target(n) - target(n - 1) + urgent[n]]

\* Mutant: the credit of each part is rounded on its own.
PartAlone(limit, sold, credited, before, quantity) == Share(quantity, sold, limit)

\* The credit for returning quantity more of a line of which before is back and
\* credited was given for it.
PartCredit(limit, sold, credited, before, quantity) ==
    Share(before + quantity, sold, limit) - credited

=============================================================================
