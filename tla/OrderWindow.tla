---------------------------- MODULE OrderWindow ----------------------------
(***************************************************************************)
(* The date arithmetic of MlOrdersSyncService: the [from, to] window of     *)
(* closing dates one synchronization pass reads.  Time is counted in ticks, *)
(* Hour ticks to the hour, so that instants inside an hour exist and        *)
(* flooring to the UTC hour loses something.                                *)
(***************************************************************************)
EXTENDS Integers

CONSTANTS
    Hour,            \* ticks in an hour (MILLISECONDS_PER_HOUR)
    InitialWindow,   \* ticks a first pass looks back (INITIAL_SYNC_WINDOW_DAYS)
    Overlap,         \* ticks re-read by the next pass (SYNC_WINDOW_OVERLAP_HOURS)
    NULL             \* SQL null

ASSUME WindowAssumption ==
    /\ Hour \in Nat \ {0}
    /\ InitialWindow \in Nat
    /\ Overlap \in Nat
    /\ NULL \notin Int
    /\ NULL \notin [from : Int, to : Int]

Nullable(S) == S \cup {NULL}

\* JavaScript's a ?? b
Coalesce(a, b) == IF a # NULL THEN a ELSE b

floorToUtcHour(t) == (t \div Hour) * Hour

\* Mutant: the next window starts from the current hour, not from the last boundary.
createOrderSyncWindowRecent(windowTo, last) ==
    [from |-> IF last = NULL THEN windowTo - InitialWindow
                             ELSE windowTo - Overlap,
     to   |-> windowTo]

createOrderSyncWindow(windowTo, last) ==
    [from |-> IF last = NULL THEN windowTo - InitialWindow
                             ELSE floorToUtcHour(last) - Overlap,
     to   |-> windowTo]
=============================================================================
