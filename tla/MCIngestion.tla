---------------------------- MODULE MCIngestion ----------------------------
(***************************************************************************)
(* Ingestion on three items, of which a fetch takes two, written three     *)
(* times within three ticks, two of which share a coarser unit: writes can *)
(* share a tick or a unit, an item can fall behind the cursor that another *)
(* one moves.  Pages hold one item, so that a write can fall between any   *)
(* two.  On GitHub the third item is an issue; where a source has          *)
(* items without text, the first is one.                                   *)
(***************************************************************************)
EXTENDS Ingestion

OneToThree == 1 .. 3
OneToTwo   == 1 .. 2
Third      == {3}
First      == {1}
None       == {}
Both       == BOOLEAN
NotForced  == {FALSE}
AllSources == Source
OnlyGitHub == {"github"}
=============================================================================
