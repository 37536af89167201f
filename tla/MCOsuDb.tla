------------------------------- MODULE MCOsuDb -------------------------------
(* Three maps, of which one may go out of step with the index; every place a   *)
(* field nobody knows may take, three pairs of neighbours that swap, and       *)
(* another tag in the ratings: one departure from the layout at a time.        *)
EXTENDS OsuDb

MCNudges == {0, 5}
MCFirstOffsets == {<<0, 0, 0>>, <<5, 0, 5>>}
UnknownTag == 14
MCLayouts ==
  {l \in [floats : BOOLEAN, tag : {TagSingle, TagDouble, UnknownTag}, extra : 0..11,
          swapped : {0, 1, 2, 9}, number : {0, StringPresent}] :
     /\ l.floats \/ l.tag = TagSingle
     /\ Cardinality({l.tag, TagSingle}) + Cardinality({l.extra, 0}) + Cardinality({l.swapped, 0}) <= 4}
=============================================================================
