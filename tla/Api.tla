-------------------------------- MODULE Api --------------------------------
(***************************************************************************)
(* The HTTP handlers that change the store, on top of module Search: the   *)
(* ingestion of a request body in its three forms, and the key-value       *)
(* endpoints, which write to the very keys that the search engine keeps    *)
(* its documents and its index under.  One goroutine runs a handler to its *)
(* end; the client (lsmctl ingest) has its answer then.                    *)
(***************************************************************************)
EXTENDS Search

CONSTANTS
    Bodies,      \* request bodies: [form, recs, long], long: numbers of the long lines
    KVIds,       \* ids i whose key doc:<i> clients also write through the KV endpoints
    KVKeys,      \* index keys that they write there
    MaxRequests  \* bound

ASSUME ApiAssumption ==
    /\ \A b \in Bodies : b.form \in {"array", "lines", "object", "other"} /\ b.recs \in Seq(Records)
    /\ KVIds \subseteq Ids /\ MaxRequests \in Nat
    /\ \A k \in KVKeys : k = [kind |-> k.kind, val |-> k.val, ts |-> k.ts, id |-> k.id]
    /\ \A k \in KVKeys : \E r \in Records : k.id = r.id

VARIABLES
    requests,
    clientKeys   \* history: the index keys that clients have put
apiVars == <<searchVars, requests, clientKeys>>

\* bufio.Scanner stops at a line that is longer than its buffer; its error is not
\* looked at.
Readable(b) ==
    IF b.form # "lines" THEN b.recs
    ELSE SubSeq(b.recs, 1, CHOOSE n \in 0..Len(b.recs) :
                             /\ \A i \in 1..n : i \notin b.long
                             /\ n = Len(b.recs) \/ n + 1 \in b.long)

\* The body can be decoded: of an array that is said without a look at its records.
IsDecoded(b) ==
    /\ b.form # "other"
    /\ b.form # "array" => \A i \in 1..Len(Readable(b)) : IsValid(Readable(b)[i])

Free(c) == ingest[c].state # "running" /\ requests < MaxRequests /\ requests' = requests + 1

\* handleIngest: a body that cannot be decoded is refused.
HandleIngest(c) ==
    \E b \in Bodies :
        /\ Free(c)
        /\ IF IsDecoded(b) THEN BatchCall(c, b, Readable(b))
           ELSE /\ ingest' = [ingest EXCEPT ![c] = [Idle EXCEPT !.state = "refused", !.body = b]]
                /\ UNCHANGED <<docs, index, search, puts, versions, ingested, missing>>
        /\ UNCHANGED clientKeys

\* handleKV takes any key.  On doc:<i>, PUT stores bytes that are no record, and
\* DELETE a tombstone.
KVDoc(i, what) ==
    /\ docs' = [docs EXCEPT ![i] = what]
    /\ search' = Disturbed(i, what)
    /\ UNCHANGED <<index, missing, clientKeys>>

\* On a key of the search engine's index, PUT makes it and DELETE takes it away,
\* whatever documents there are.
KVIndex(k) ==
    /\ \/ index' = index \cup {k} /\ clientKeys' = clientKeys \cup {k} /\ UNCHANGED missing
       \/ index' = index \ {k} /\ missing' = missing \cup ({k} \cap index) /\ UNCHANGED clientKeys
    /\ search' = Unquiet
    /\ UNCHANGED docs

HandleKV(c) ==
    /\ Free(c)
    /\ \/ \E i \in KVIds, what \in {Garbage, NoRecord} : KVDoc(i, what)
       \/ \E k \in KVKeys : KVIndex(k)
    /\ ingest' = [ingest EXCEPT ![c] = Idle]
    /\ UNCHANGED <<puts, versions, ingested>>

\* What the handler answers, and the client reports: 200, or an error status.
Answer(c) == CASE ingest[c].state = "ok" -> "OK"
               [] ingest[c].state = "refused" -> "Bad Request"
               [] ingest[c].state = "failed" -> "Internal Server Error"
               [] OTHER -> "none"

Init == SearchInit /\ requests = 0 /\ clientKeys = {}

Next ==
    \/ \E c \in Ingesters :
         \/ HandleIngest(c)
         \/ HandleKV(c)
         \/ IngestStep(c) /\ UNCHANGED <<requests, clientKeys>>
    \/ \E s \in Searchers : SearchStep(s) /\ UNCHANGED <<requests, clientKeys>>

Spec == Init /\ [][Next]_apiVars
=============================================================================
