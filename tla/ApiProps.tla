------------------------------ MODULE ApiProps ------------------------------
(***************************************************************************)
(* What the ingestion, search and aggregation requests promise (module     *)
(* Api).                                                                   *)
(***************************************************************************)
EXTENDS Api

Done == {s \in Searchers : search[s].stage = "done"}

\* Every log that Search returns passes the filters as it stands, and each term of
\* the query is one of its message, or at least something in the term's index leads to
\* it: the key of a message that was ingested under its id (one that an overwritten
\* record has left, or another record's that has a colon in its id), or a key that a
\* client has put there.
HitsMatch ==
    \A s \in Done : \A r \in search[s].logs :
        LET q == search[s].q
            In(ts) == From(q) <= ts /\ ts <= To(q)
        IN  /\ r \in versions /\ PassesFilters(r, q)
            /\ \A t \in Tokens[q.text] :
                 \/ \E v \in versions : LastPart[v.id] = r.id /\ t \in Tokens[v.msg] /\ In(v.ts)
                 \/ \E k \in clientKeys : k.kind = "term" /\ k.val = t /\ LastPart[k.id] = r.id /\ In(k.ts)

\* Record r is one that query q asks for.  The filter does not mind the case of a
\* service's name, the index does.
IsAskedFor(r, q) ==
    /\ PassesFilters(r, q)
    /\ Tokens[q.text] \subseteq Tokens[r.msg]
    /\ Tokens[q.text] = {} /\ q.lvl = "" /\ q.svc # "" => r.svc = q.svc

\* The index keys that lead query q to record r: those of its terms, or else the one
\* of its level, of its service, or of its time.
KeysFor(r, q) ==
    IF Tokens[q.text] # {} THEN {IndexKey("term", t, r) : t \in Tokens[q.text]}
    ELSE IF q.lvl # "" THEN {IndexKey("lvl", r.lvl, r)}
    ELSE IF q.svc # "" THEN {IndexKey("svc", r.svc, r)}
    ELSE {IndexKey("time", "", r)}

\* Search owes q the record r: it is asked for, and of its keys none that leads q to
\* it was lost, by a failed Put, which Ingest does not report, or a client's DELETE.
IsOwed(r, q) ==
    IsAskedFor(r, q) /\ LastPart[r.id] = r.id /\ KeysFor(r, q) \cap missing = {}

\* What searcher s must find: such records whose Ingest had returned when it began, and
\* that have not been overwritten since.
Owed(s) == {r \in search[s].before : IsOwed(r, search[s].q)}

\* Search finds all of them, although other records are being ingested between its
\* scans and its fetches, and documents and index keys written by clients: a failed Put
\* of an index key hides a record from the searches that use that key, and from no other.
IngestedIsFound == \A s \in Done : Owed(s) \subseteq search[s].logs

\* The pages a client has been shown, one after another, are the newest matches in
\* their order, each of them once, as long as nothing was written since it began,
\* and no two matches have the same time.
PagesAreWhole ==
    \A s \in Done :
        LET S   == search[s]
            all == S.shown \o S.page
        IN  /\ S.kind = "search" /\ S.quiet
            /\ \A a, b \in S.logs : a.ts = b.ts => a = b
            => \E sorted \in Sorted(S.logs) :
                 all = SubSeq(sorted, 1, IF S.offset + Limit(S) > Len(sorted) THEN Len(sorted)
                                         ELSE S.offset + Limit(S))

\* A histogram counts every log it was given in one bucket, that of its time, and
\* under its level; and it was given every match that Search owed, unless more match
\* than Aggregate asks for (engine.go: `Query all matching logs without pagination
\* limit').
HistogramIsExact ==
    \A s \in Done :
        LET S      == search[s]
            logs   == ToSet(S.page)
            In(b)  == {r \in logs : b.ts <= r.ts /\ r.ts < b.ts + Interval}
        IN  S.kind = "histogram" =>
              /\ \A r \in logs : Cardinality({b \in S.buckets : r \in In(b)}) = 1
              /\ \A b \in S.buckets :
                   /\ b.count = Cardinality(In(b)) /\ b.count > 0
                   /\ \A l \in DOMAIN b.byLevel :
                        b.byLevel[l] = Cardinality({r \in In(b) : r.lvl = l})
              /\ Cardinality(S.logs) <= AggregateLimit => Owed(s) \subseteq logs

\* What a client is told of its batch is what was done with it: success means that
\* its records were ingested, up to a line that is too long to be read; of a batch that
\* was refused nothing was stored, and of one that failed exactly the records before
\* the one it failed at.
AnswersAreHonest ==
    \A c \in Ingesters :
        LET I       == ingest[c]
            FirstOf(n) == {Validated(I.body.recs[i]) : i \in 1..n}
        IN  /\ Answer(c) = "OK" =>
                 /\ I.count = Len(Readable(I.body))
                 /\ I.stored = FirstOf(I.count) /\ I.stored \subseteq ingested
            /\ Answer(c) = "Bad Request" => I.stored = {}
            /\ Answer(c) = "Internal Server Error" =>
                 I.count < Len(I.body.recs) /\ I.stored = FirstOf(I.count)
=============================================================================
