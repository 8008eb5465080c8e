------------------------------ MODULE PageMap ------------------------------
(***************************************************************************)
(* What a caller of the virtual memory manager may rely on: a table from   *)
(* pages to entries in which an operation changes one page at once, and    *)
(* nothing else ever does.                                                 *)
(***************************************************************************)
CONSTANTS
    Slots,      \* the pages the hardware tells apart
    Entries,    \* what may be entered for one
    None,       \* no entry
    Absent(_)   \* the hardware faults on this entry

VARIABLE entry

MapInit == entry = [s \in Slots |-> None]

\* A page is given an entry the hardware accepts.
Establish(s, e) ==
    /\ ~ Absent(e)
    /\ entry' = [entry EXCEPT ![s] = e]

Remove(s) ==
    /\ ~ Absent(entry[s])
    /\ entry' = [entry EXCEPT ![s] = None]

\* What was there is put away, to come back by an Establish.
PutAway(s, e) ==
    /\ ~ Absent(entry[s])
    /\ Absent(e) /\ e # None
    /\ entry' = [entry EXCEPT ![s] = e]

MapNext ==
    \E s \in Slots :
        \/ \E e \in Entries : Establish(s, e) \/ PutAway(s, e)
        \/ Remove(s)

MapSpec == MapInit /\ [][MapNext]_entry
=============================================================================
