------------------------------ MODULE MCLevels ------------------------------
(***************************************************************************)
(* Instances of Levels for TLC.                                            *)
(***************************************************************************)
EXTENDS LevelsProps

\* Sets that leave gaps between the keys of a table.
GappedKeys == {{1, 3}, {2}}
=============================================================================
