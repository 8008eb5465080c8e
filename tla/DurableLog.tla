----------------------------- MODULE DurableLog -----------------------------
(***************************************************************************)
(* What AION's memory promises on a medium that keeps what it is told: a   *)
(* log of memories of which all but the newest few survive a power cut, in *)
(* the order they were made, and which is brought up to date once the      *)
(* window of unsaved memories is full.                                     *)
(***************************************************************************)
EXTENDS Integers, Sequences

CONSTANTS
    Memories,   \* what may be remembered, each at most once
    Window      \* how many of the newest memories may be unsaved, at least 1

VARIABLES
    up,         \* the machine is running
    live,       \* the memories it has
    saved       \* the memories it would have after a power cut

logVars == <<up, live, saved>>

Unsaved == Len(live) - Len(saved)

LogInit ==
    /\ up = FALSE
    /\ live = <<>>
    /\ saved = <<>>

Start ==
    /\ ~up
    /\ up' = TRUE
    /\ live' = saved
    /\ UNCHANGED saved

Remember(m) ==
    /\ up
    /\ Unsaved < Window
    /\ live' = Append(live, m)
    /\ UNCHANGED <<up, saved>>

Sync ==
    /\ up
    /\ Unsaved = Window
    /\ saved' = live
    /\ UNCHANGED <<up, live>>

PowerCut ==
    /\ up
    /\ up' = FALSE
    /\ live' = <<>>
    /\ UNCHANGED saved

LogNext ==
    \/ Start
    \/ \E m \in Memories : Remember(m)
    \/ Sync
    \/ PowerCut

LogSpec == LogInit /\ [][LogNext]_logVars /\ WF_logVars(Sync)
=============================================================================
