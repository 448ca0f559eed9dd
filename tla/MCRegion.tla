------------------------------ MODULE MCRegion ------------------------------
(***************************************************************************)
(* A region of four cells: an area can lie before, behind, inside, around  *)
(* and across another, touch it, be empty, and end at the last cell or     *)
(* behind it.                                                              *)
(***************************************************************************)
EXTENDS RegionReader

MCSegments == [vaddr : {0, 1, 3}, memsz : 0..3, filesz : 0..2, inFile : BOOLEAN]
MCSlack == {-1, 0, 1}
MCMaps == {<<>>, 0 :> TRUE, (0 :> TRUE) @@ (1 :> FALSE), 2 :> TRUE}
=============================================================================
