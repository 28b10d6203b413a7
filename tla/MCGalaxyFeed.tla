---------------------------- MODULE MCGalaxyFeed ----------------------------
(* GalaxyFeed on a few jobs and clock ticks; the .cfg files set the bounds. *)
EXTENDS GalaxyFeed

(* Pages of two that are read again with an overlap; pages of one that rely *)
(* on the id alone; and pages of one with an overlap, which are always      *)
(* crowded, where no reconciliation makes up for what a page leaves out.    *)
PagesOfTwo == {[batchSize |-> 2, overlap |-> 1]}
PagesOfOne == {[batchSize |-> 1, overlap |-> 0], [batchSize |-> 1, overlap |-> 1]}
AllPages == PagesOfTwo \cup PagesOfOne
=============================================================================
