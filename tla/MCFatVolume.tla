---------------------------- MODULE MCFatVolume ----------------------------
(* Instances of FatVolume for TLC.                                         *)
EXTENDS FatVolume

Entry(k, n, c, o) == [kind |-> k, name |-> n, clust |-> c, len |-> 1, old |-> o]
Efi == Entry("dir", "efi", 4, FALSE)
Used(cs) == [c \in Clusters |-> IF c \in cs THEN EOC ELSE 0]
Zeros == [c \in Clusters |-> Cleared]
(* What was a directory before: an end mark, and a file before or behind it *)
(* whose cluster is now free.                                              *)
Relic == Entry("file", "b", 6, TRUE)
Before == [c \in Clusters |-> <<Relic, Blank("end")>>]
Behind == [c \in Clusters |-> <<Blank("end"), Relic>>]

(* An empty root and FSInfo in order; a full root and no FSInfo; a deleted *)
(* entry behind a file, and FSInfo short of free clusters without a hint.  *)
SomeVolumes ==
  {[fat |-> Used({Root}), dir |-> Cleared, old |-> Zeros,
    info |-> [there |-> TRUE, free |-> N - 3, next |-> N - 2]],
   [fat |-> Used({Root, 4, 5}), dir |-> <<Efi, Entry("file", "c", 5, FALSE)>>, old |-> Behind,
    info |-> [there |-> FALSE, free |-> 0, next |-> 0]],
   [fat |-> Used({Root, 4}), dir |-> <<Efi, Blank("deleted")>>, old |-> Before,
    info |-> [there |-> TRUE, free |-> 1, next |-> Unknown]]}
SomeRequests == {<<"a", 2>>, <<"b", 1>>, <<"a", 0>>, <<"efi", 1>>, <<"", 1>>}
=============================================================================
