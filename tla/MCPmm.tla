-------------------------------- MODULE MCPmm --------------------------------
(* A machine scaled down to 4-byte pages and 3-bit bytes.  As with 4096    *)
(* and 8, a page has more bytes than a byte has bits, so the limit of the  *)
(* search lies past the bitmap.                                            *)
EXTENDS Pmm

(* A hole between two regions, with the bitmap inside the first; and a     *)
(* single region whose last page has no bit, because number_of_pages / 8   *)
(* rounds down.                                                            *)
TwoRegions == << [base |-> 1, pages |-> 3], [base |-> 5, pages |-> 4] >>
OneRegion  == << [base |-> 8, pages |-> 5] >>

ScaledMemMaps == {TwoRegions, OneRegion}
=============================================================================
