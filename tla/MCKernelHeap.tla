---------------------------- MODULE MCKernelHeap ----------------------------
(***************************************************************************)
(* Small machines for KernelHeap: two low frames, ten frames of bitmap,    *)
(* pages of four bytes, an alignment of two bytes.                         *)
(***************************************************************************)
EXTENDS KernelHeap

Region(type, start, pages) == [type |-> type, start |-> start, pages |-> pages]

MCReserved == 0     \* a type pmm_init does not take

\* No hole: the scans reach every frame.
MapWhole == {Region(7, 0, 4), Region(4, 4, 4)}

\* Holes below and above 2MB: six usable frames, two beyond the scans' bound.
MapHoles == {Region(7, 0, 1), Region(MCReserved, 1, 2), Region(3, 3, 3),
             Region(MCReserved, 6, 1), Region(7, 7, 2)}

\* A region that ends beyond the frames the bitmap tracks.
MapBeyond == {Region(7, 0, 4), Region(7, 6, 6)}

\* Exactly as many usable frames as the low area: the scans' range is empty.
MapTiny == {Region(7, 4, 2)}

MCMaps == {MapWhole, MapHoles, MapBeyond, MapTiny}
MCHoles == {MapHoles}
=============================================================================
