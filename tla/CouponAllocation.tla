--------------------------- MODULE CouponAllocation ---------------------------
(***************************************************************************)
(* What a first-come coupon event promises, whatever strategy serves it:   *)
(* the winners are a list in the order the coupons were decided, nobody    *)
(* wins twice, there are never more winners than coupons, and the ledger   *)
(* (table coupon_issue) only ever holds winners.                           *)
(***************************************************************************)
EXTENDS Naturals, Sequences

CONSTANTS
    Users,      \* the people who may ask for a coupon
    TotalQty    \* coupon_event.total_qty

VARIABLES
    winners,    \* users in the order their coupons were granted
    recorded    \* users that have a row in the ledger

vars == << winners, recorded >>

Winners == { winners[i] : i \in DOMAIN winners }

Init == winners = << >> /\ recorded = {}

Grant(u) ==
    /\ u \notin Winners
    /\ Len(winners) < TotalQty
    /\ winners' = Append(winners, u)
    /\ UNCHANGED recorded

Record(u) ==
    /\ u \in Winners
    /\ recorded' = recorded \union {u}
    /\ UNCHANGED winners

\* The strategy decides and records in one transaction.
Issue(u) ==
    /\ u \notin Winners
    /\ Len(winners) < TotalQty
    /\ winners' = Append(winners, u)
    /\ recorded' = recorded \union {u}

Next == \E u \in Users : Grant(u) \/ Record(u) \/ Issue(u)

Spec == Init /\ [][Next]_vars

=============================================================================
