---------------------------- MODULE MCFlushPath ----------------------------
(***************************************************************************)
(* Instances of FlushPath for TLC.                                         *)
(***************************************************************************)
EXTENDS FlushPath

\* Hashes of four keys that set all bits apart, share one, or collide.
HashSample == {<< <<0, 1>>, <<2, 1>>, <<1, 2>>, <<5, 4>> >>,
               << <<0, 1>>, <<1, 2>>, <<0, 1>>, <<1, 2>> >>,
               << <<5, 4>>, <<5, 4>>, <<0, 3>>, <<3, 3>> >>}
=============================================================================
