------------------------------- MODULE KVStore -------------------------------
(***************************************************************************)
(* What an InLog engine promises to its callers: a map from keys to the    *)
(* newest write of each key.  A crash may only cut off a suffix of the      *)
(* writes, and never one that was already synced.                          *)
(*                                                                         *)
(* `log' is the set of writes that have not been lost, ordered by their    *)
(* sequence number; `store' is what a reader sees; every write up to       *)
(* number `synced' survives any crash.                                     *)
(***************************************************************************)
EXTENDS Entries

CONSTANT MaxWrites    \* bound on the number of writes

VARIABLES log, store, synced

kvVars == <<log, store, synced>>

KVInit ==
    /\ log = {}
    /\ store = EmptyData
    /\ synced = 0

\* A write becomes the newest one of its key, durable at once or not yet.
KVWrite(k, op) ==
    \E s \in 1..MaxWrites :
        LET e == [key |-> k, seq |-> s, op |-> op]
        IN  /\ \A r \in log : r.seq < s
            /\ log' = log \cup {e}
            /\ store' = [store EXCEPT ![k] = e]
            /\ synced' \in {synced, s}

\* Everything written so far becomes durable.
KVSync ==
    /\ synced' \in synced..MaxWrites
    /\ UNCHANGED <<log, store>>

\* A crash keeps the writes up to m and nothing newer.
KVCrash ==
    \E m \in synced..MaxWrites :
        /\ log' = {r \in log : r.seq <= m}
        /\ store' = Replay(log')
        /\ synced' = m

KVNext ==
    \/ \E k \in Keys, op \in Ops : KVWrite(k, op)
    \/ KVSync
    \/ KVCrash

KVSpec == KVInit /\ [][KVNext]_kvVars
=============================================================================
