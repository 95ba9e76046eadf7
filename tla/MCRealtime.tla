----------------------------- MODULE MCRealtime -----------------------------
(* Model checking of Realtime: two hooks, a message that cannot be read, and    *)
(* budgets of what may happen.  Where the inbox is read the console gets three  *)
(* events, of which it keeps two; elsewhere the tenant of the first event has   *)
(* no member, and it is not created meanwhile.                                  *)
EXTENDS Realtime, TLC

CONSTANTS a, b, t1, t2, t3, bad

MCLog == <<t3, t2, bad, t1>>

MCOwners == {a :> {t1} @@ b :> {t1, t2}, a :> {t1} @@ b :> {t1, t2, t3}}

Budget(failures, crashes, reads, acts) ==
    ("failures" :> failures @@ "crashes" :> crashes @@ "reads" :> reads @@ "acts" :> acts)

MCBudgets == {Budget(1, 1, 0, 0), Budget(0, 1, 1, 0), Budget(0, 0, 0, 2)}

MCInit == Init /\ (t3 \in owned[b] <=> left["reads"] > 0)

MCNext == Next /\ \A c \in Clients : t3 \in owned'[c] <=> t3 \in owned[c]

MCSpec == MCInit /\ [][MCNext]_realtimeVars /\ Fairness
=============================================================================
