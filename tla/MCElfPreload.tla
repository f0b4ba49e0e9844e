---------------------------- MODULE MCElfPreload ----------------------------
(***************************************************************************)
(* ElfPreload with files of up to two segments in the order of their       *)
(* addresses: aligned, adjacent or apart, with and without zeros, and one  *)
(* whose only segment is not aligned.                                      *)
(***************************************************************************)
EXTENDS ElfPreload

MCPlaces == 0 .. 19

Segment(a, z) == [load |-> TRUE, addr |-> a, filesz |-> z[1], memsz |-> z[2], beyond |-> FALSE]
Sizes   == {<<f, m>> \in (0 .. 9) \X (0 .. 9) : f \in {0, 1, m - 1, m, m + 1}}
Skipped == [Segment(0, <<4, 4>>) EXCEPT !.load = FALSE]

One == {<<Segment(a, z)>> : a \in {2, 3}, z \in Sizes}
Two == {<<Skipped, Segment(2, z), [Segment(a, y) EXCEPT !.beyond = beyond]>> :
          z \in {<<4, 4>>, <<3, 4>>, <<0, 4>>, <<3, 3>>}, a \in {6, 8},
          y \in {<<1, 1>>, <<2, 6>>, <<7, 7>>}, beyond \in BOOLEAN}

MCFiles ==
  [fault : {"none"}, entry : {2}, segments : One \cup Two]
    \cup [fault : Faults, entry : {2}, segments : Two]
=============================================================================
