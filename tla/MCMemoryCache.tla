--------------------------- MODULE MCMemoryCache ---------------------------
(***************************************************************************)
(* Instances of MemoryCache for TLC.  "slice" takes half of the byte      *)
(* budget, "loaf" all of it and "feast" more than there is.                *)
(***************************************************************************)
EXTENDS MemoryCache

mcValues == {"slice", "loaf", "feast"}
mcSize   == [v \in mcValues |->
  CASE v = "slice" -> 2 [] v = "loaf" -> 4 [] OTHER -> 5]

symmetry == Permutations(Keys) \cup Permutations(Callers)
=============================================================================
