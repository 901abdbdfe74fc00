------------------------------ MODULE MCAtlas ------------------------------
(***************************************************************************)
(* Atlas with two types and two tables, in three scenes: two reads of      *)
(* tables while types are created, a signal comes and the secret is        *)
(* rotated; one read of tables with faults; one read of terms with faults. *)
(***************************************************************************)
EXTENDS Atlas, TLC

CONSTANTS r1, r2, t1, t2, x1, x2

VARIABLE scene

MCTypes == <<t1, t2>>
MCHolder == (x1 :> t1) @@ (x2 :> t2)

InScene ==
  CASE scene = "tables" -> troubles = 0 /\ accepted = 1 /\ \A r \in Reads : read[r].at \notin {"first", "cut"}
    [] scene = "addresses" -> read[r2].at = "idle" /\ read[r1].at # "first" /\ generation = 0
    [] scene = "terms" -> read[r2].at = "idle" /\ read[r1].at # "tables" /\ exists = {} /\ generation = 0

MCInit == AtlasInit /\ scene \in {"tables", "addresses", "terms"} /\ InScene

MCNext == AtlasNext /\ UNCHANGED scene /\ InScene'

MCSpec == MCInit /\ [][MCNext]_<<atlasVars, scene>>
=============================================================================
