---------------------------------- MODULE MCMldd --------------------------------
(***************************************************************************)
(* A raster of two by two cells: the upper left one flows to the other     *)
(* three, there are two ways down, and a flow back up.                     *)
(***************************************************************************)
EXTENDS Mldd

\* The directions of each cell: all inside, but for one.
Dirs(c) == CASE c = <<0, 0>> -> {2, 3, 6}
             [] c = <<0, 1>> -> {2}
             [] c = <<1, 0>> -> {6}
             [] c = <<1, 1>> -> {7, 9}

\* Ldds with the flow of one cell, and two with more.
MCLdds ==
  LET flows == UNION {{<<c, lc>> : lc \in Dirs(c)} : c \in Cells}
      ldd(f) == [c \in Cells |-> IF \E lc \in 1..9 : <<c, lc>> \in f
                                 THEN CHOOSE lc \in 1..9 : <<c, lc>> \in f ELSE Pit]
  IN {ldd({f}) : f \in flows} \cup
     {ldd({<< <<0, 0>>, 6>>, << <<0, 1>>, 2>>}), ldd({<< <<1, 0>>, 6>>, << <<1, 1>>, 7>>})}

MCStreams == {{}, MCLdds}

Few == {{}, {<<0, 0>>}, {<<1, 0>>}}
MCArgs == {[cells |-> {}, edges |-> {}],
           [cells |-> {}, edges |-> {<< <<0, 1>>, <<1, 1>> >>}],
           [cells |-> {<<0, 1>>}, edges |-> {}]}
================================================================================
