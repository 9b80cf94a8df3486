----------------------------- MODULE MCReadPath -----------------------------
(***************************************************************************)
(* Instances of ReadPath for TLC.                                          *)
(***************************************************************************)
EXTENDS ReadProps

\* Everything, and a range without the lower keys.
ScanRanges == {<<1, 3>>, <<3, 3>>}
=============================================================================
