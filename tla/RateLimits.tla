------------------------------ MODULE RateLimits -------------------------------
(***************************************************************************)
(* The rate_limits table (hamroh/rate_limiter.py) as a function of its     *)
(* rows' keys <<user, bucket>>.  Each operator is one SQL statement; the   *)
(* statements of two callers interleave (Inbound, WebChannel).             *)
(***************************************************************************)
EXTENDS Naturals, Functions

CONSTANT Limit     \* HAMROH_RATE_LIMIT_PER_MIN

NoRows == [k \in {} |-> [count |-> 0, notified |-> FALSE]]

IsTable(limits, keys) ==
    /\ DOMAIN limits \subseteq keys
    /\ limits \in [DOMAIN limits -> [count : Nat, notified : BOOLEAN]]

\* INSERT ... ON CONFLICT DO UPDATE SET count = count + 1
Count(limits, key) ==
    LET old == IF key \in DOMAIN limits THEN limits[key] ELSE [count |-> 0, notified |-> FALSE]
    IN  [k \in DOMAIN limits \cup {key} |->
            IF k = key THEN [old EXCEPT !.count = @ + 1] ELSE limits[k]]

\* A plausible slip: the count before this message is compared.
OverAfter(limits, key) == limits[key].count > Limit + 1

Over(limits, key) == limits[key].count > Limit

\* UPDATE ... SET notice_sent = 1 WHERE ... notice_sent = 0 RETURNING 1 matches a row.
Notices(limits, key) == key \in DOMAIN limits /\ ~limits[key].notified

\* That UPDATE, and the DELETE of buckets more than two windows older.
FlipAndPrune(limits, key) ==
    LET flipped == IF key \in DOMAIN limits
                   THEN [limits EXCEPT ![key].notified = TRUE]
                   ELSE limits
    IN  Restrict(flipped, {k \in DOMAIN limits : k[2] + 2 >= key[2]})
================================================================================
