------------------------------ MODULE LeadAccount ------------------------------
(***************************************************************************)
(* What the credit system promises a seller, with no request, ledger or     *)
(* database in sight (docs/LEADS.md, credit.service.ts): a number is shown   *)
(* only for a lead that was bought, a lead is bought once and for one credit *)
(* the seller has, a credit comes back only for a lead that was bought, and  *)
(* each grant of a month is given once.  LeadCredits implements it.          *)
(***************************************************************************)
EXTENDS Integers

CONSTANTS
    Sellers, Market, SellerOf,
    Allowances,   \* the sizes a monthly grant may have
    Movements,    \* packs, and what an administrator may add or take
    Months

VARIABLES
    balance,  \* credits of each seller
    bought,   \* the leads paid for
    shown,    \* the leads whose buyer the seller can call
    granted   \* the <<seller, kind, month>> already given

accountVars == <<balance, bought, shown, granted>>

Kinds == {"MONTHLY_GRANT", "ADMIN_ADJUST"}

Init ==
    /\ balance = [s \in Sellers |-> 0]
    /\ bought = {}
    /\ shown = {}
    /\ granted = {}

Credit(s, amount) ==
    /\ balance[s] + amount >= 0
    /\ balance' = [balance EXCEPT ![s] = @ + amount]

Buy(l) ==
    /\ l \notin bought
    /\ Credit(SellerOf[l], -1)
    /\ bought' = bought \cup {l}
    /\ shown' = shown \cup {l}
    /\ UNCHANGED granted

\* A flag was upheld; the lead stays bought and the number known.
Return(l) ==
    /\ l \in bought
    /\ Credit(SellerOf[l], 1)
    /\ UNCHANGED <<bought, shown, granted>>

\* A lead that moves on is no longer shown.
Hide(l) ==
    /\ l \in shown
    /\ shown' = shown \ {l}
    /\ UNCHANGED <<balance, bought, granted>>

Grant(s, kind, month) ==
    /\ <<s, kind, month>> \notin granted
    /\ granted' = granted \cup {<<s, kind, month>>}
    /\ \E amount \in Allowances : Credit(s, amount)
    /\ UNCHANGED <<bought, shown>>

Move(s) ==
    /\ \E amount \in Movements : Credit(s, amount)
    /\ UNCHANGED <<bought, shown, granted>>

Next ==
    \/ \E l \in Market : Buy(l) \/ Return(l) \/ Hide(l)
    \/ \E s \in Sellers :
          \/ Move(s)
          \/ \E kind \in Kinds, month \in Months : Grant(s, kind, month)

Spec == Init /\ [][Next]_accountVars
================================================================================
