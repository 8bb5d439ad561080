------------------------------ MODULE ChairSale ------------------------------
(***************************************************************************)
(* What POST /api/chair/buy/:id promises, whichever way it is implemented. *)
(* A buyer's purchase is decided once: a unit is sold to it, or it is      *)
(* refused because the chair is out of stock at that moment, or it fails.  *)
(* Only after that is the buyer told anything, and "bought" and "not       *)
(* found" are never told against the decision.  A failure may be told      *)
(* whatever was decided: the answer can be lost after the unit is gone.    *)
(***************************************************************************)
EXTENDS Integers

CONSTANTS Chairs,  \* chair ids
          Buyers,  \* buy requests
          Want     \* the chair each buy request names

VARIABLES stock,    \* units on sale of each chair; not positive when none
          outcome,  \* what was decided for each buyer
          told      \* what each buyer was told

saleVars == <<stock, outcome, told>>

SaleInit ==
  /\ stock \in [Chairs -> Int]
  /\ outcome = [b \in Buyers |-> "open"]
  /\ told = [b \in Buyers |-> "nothing"]

Decide(b, o) ==
  /\ outcome[b] = "open"
  /\ outcome' = [outcome EXCEPT ![b] = o]
  /\ UNCHANGED told

Sell(b) ==
  /\ stock[Want[b]] > 0
  /\ stock' = [stock EXCEPT ![Want[b]] = @ - 1]
  /\ Decide(b, "sold")

Refuse(b) ==
  /\ stock[Want[b]] <= 0
  /\ Decide(b, "refused")
  /\ UNCHANGED stock

(* A request that failed before it took a unit: at once it is told so.     *)
Fail(b) ==
  /\ outcome[b] = "open"
  /\ outcome' = [outcome EXCEPT ![b] = "failed"]
  /\ UNCHANGED stock
  /\ told' \in {told, [told EXCEPT ![b] = "failure"]}

Answer(b, o, t) ==
  /\ outcome[b] = o
  /\ told[b] = "nothing"
  /\ told' = [told EXCEPT ![b] = t]
  /\ UNCHANGED <<stock, outcome>>

Tell(b) ==
  \/ Answer(b, "sold", "bought")
  \/ Answer(b, "refused", "not found")
  \/ \E o \in {"sold", "refused", "failed"} : Answer(b, o, "failure")

(* The server goes down: everyone who was waiting is told a failure, and   *)
(* a purchase not yet decided never will be.                               *)
Abort(S) ==
  /\ \A b \in S : told[b] = "nothing"
  /\ told' = [b \in Buyers |-> IF b \in S THEN "failure" ELSE told[b]]
  /\ outcome' = [b \in Buyers |->
                   IF b \in S /\ outcome[b] = "open" THEN "failed" ELSE outcome[b]]
  /\ UNCHANGED stock

(* Chairs of C are put on sale, restocked or withdrawn by other requests.  *)
Supply(C) ==
  /\ stock' \in [Chairs -> Int]
  /\ \A c \in Chairs \ C : stock'[c] = stock[c]
  /\ UNCHANGED <<outcome, told>>

SaleNext ==
  \/ \E b \in Buyers : Sell(b) \/ Refuse(b) \/ Fail(b) \/ Tell(b)
  \/ \E S \in SUBSET Buyers : Abort(S)
  \/ \E C \in SUBSET Chairs : Supply(C)

SaleSpec == SaleInit /\ [][SaleNext]_saleVars
=============================================================================
