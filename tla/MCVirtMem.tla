----------------------------- MODULE MCVirtMem -----------------------------
(***************************************************************************)
(* Small machines for VirtMem: tables of two entries in three levels.      *)
(***************************************************************************)
EXTENDS VirtMem

Conventional(start, pages) ==
    [type |-> EFI_CONVENTIONAL_MEMORY, start |-> start, pages |-> pages]

MCSpan == <<1, 2, 4>>

\* Five frames above the low area, of which vmm_init takes three; two, so that
\* its calls of vmm_map fail; and none, so that it gives up.
MCMaps == {{Conventional(0, 7)}, {Conventional(0, 4)}, {Conventional(0, 2)}}

\* More than vmm_init needs.
MCAmple == {{Conventional(0, 10)}}
=============================================================================
