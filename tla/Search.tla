------------------------------- MODULE Search -------------------------------
(***************************************************************************)
(* The log search engine of pkg/search over the store: IngestBatch writes  *)
(* record after record, each as a document and then its index keys, one    *)
(* Put at a time; Search collects candidates from one index, fetches their *)
(* documents one by one, and sorts and cuts what passes the filters;       *)
(* Aggregate groups that by time.  Nothing locks these against each other. *)
(*                                                                         *)
(* An index key is [kind, val, ts, id].  Every Put, Get and Scan of the    *)
(* store is atomic here (module ReadPath is about Scan).                   *)
(***************************************************************************)
EXTENDS Integers, FiniteSets, Sequences, SequencesExt

CONSTANTS
    Records,     \* what clients send: [id, ts, lvl, svc, host, msg, fields]
    Queries,     \* what they ask: [text, lvl, svc, host, fields, from, to, limit]; 0 for none
    Tokens,      \* text -> its terms (Tokenize)
    Upper,       \* level -> the level in upper case
    Level,       \* level -> the same, its blanks trimmed first
    Fold,        \* service or host -> what strings.EqualFold compares
    LastPart,    \* id -> what is behind its last colon
    DefaultLimit, AggregateLimit, MaxTime, Interval,
    Ingesters, Searchers,
    MayFailPuts  \* how many Puts of the store may fail

ASSUME SearchAssumption ==
    /\ Records \subseteq [id : STRING, ts : 1..MaxTime, lvl : STRING, svc : STRING, host : STRING,
                          msg : DOMAIN Tokens, fields : SUBSET STRING]
    /\ \A r \in Records : IsFiniteSet(r.fields) /\ IsFiniteSet(Tokens[r.msg])
    /\ \A r \in Records : r.lvl # "" => Level[r.lvl] # ""
    /\ \A q \in Queries : q.from \in Nat /\ q.to \in Nat /\ q.limit \in Nat /\ q.text \in DOMAIN Tokens
    /\ DefaultLimit \in Nat \ {0} /\ AggregateLimit \in Nat \ {0} /\ Interval \in Nat \ {0}
    /\ Ingesters \cap Searchers = {}
    /\ MayFailPuts \in Nat

VARIABLES
    docs,       \* id -> the record stored under doc:<id>
    index,      \* the index keys stored
    ingest,     \* ingester -> its IngestBatch
    search,     \* searcher -> its Search or Aggregate
    puts,       \* Puts that have failed
    \* history
    versions,   \* every record ever stored as a document
    ingested,   \* records whose Ingest has returned nil
    missing     \* index keys that a failed Put has kept out, or a client's DELETE has taken

searchVars == <<docs, index, ingest, search, puts, versions, ingested, missing>>

NoRecord == [id |-> ""]
Garbage  == [id |-> "?"]     \* a document that is no record
Idle     == [state |-> "idle", body |-> <<>>, batch |-> <<>>, rec |-> NoRecord,
             todo |-> <<>>, count |-> 0, stored |-> {}]
NoSearch == [stage |-> "none", before |-> {}, quiet |-> FALSE]

Ids == {r.id : r \in Records} \cup {LastPart[r.id] : r \in Records}
-----------------------------------------------------------------------------
\* Records and index keys

IsValid(r) == r.msg # ""

\* Validate, of a valid record, fills in and normalises.  (Ids and times are given.)
Validated(r) == [r EXCEPT !.lvl = IF @ = "" THEN "INFO" ELSE Level[@],
                          !.svc = IF @ = "" THEN "default" ELSE @]

IndexKey(kind, val, r) == [kind |-> kind, val |-> val, ts |-> r.ts, id |-> r.id]

\* Mutant of IndexKeys: no key for the service.
IndexKeysButService(r) ==
    <<IndexKey("time", "", r), IndexKey("lvl", r.lvl, r)>>
      \o SetToSeq({IndexKey("term", t, r) : t \in Tokens[r.msg]})
      \o SetToSeq({IndexKey("fld", f, r) : f \in r.fields})

\* Ingest's Puts after the document's, the terms and fields in some order.
IndexKeys(r) ==
    <<IndexKey("time", "", r), IndexKey("lvl", r.lvl, r), IndexKey("svc", r.svc, r)>>
      \o SetToSeq({IndexKey("term", t, r) : t \in Tokens[r.msg]})
      \o SetToSeq({IndexKey("fld", f, r) : f \in r.fields})

From(q) == q.from
To(q)   == IF q.to = 0 THEN MaxTime ELSE q.to

\* Mutant of ScanPrefixIDs: the end of the time range is left out.
ScanPrefixBefore(kind, val, q) ==
    {LastPart[k.id] : k \in {j \in index : /\ j.kind = kind /\ j.val = val
                                           /\ From(q) <= j.ts /\ j.ts < To(q)}}

\* scanPrefixIDs: the ids of an index between two times.  The key is split at its
\* colons, also those of the id.
ScanPrefixIDs(kind, val, q) ==
    {LastPart[k.id] : k \in {j \in index : /\ j.kind = kind /\ j.val = val
                                           /\ From(q) <= j.ts /\ j.ts <= To(q)}}

SameFold(a, b) == Fold[a] = Fold[b]

\* The filters that Search applies to a document.  Of a query's level the blanks are
\* not trimmed.
PassesFilters(r, q) ==
    /\ q.lvl # "" => r.lvl = Upper[q.lvl]
    /\ q.svc # "" => SameFold(r.svc, q.svc)
    /\ q.host # "" => SameFold(r.host, q.host)
    /\ From(q) <= r.ts /\ r.ts <= To(q)
    /\ q.fields \subseteq r.fields
-----------------------------------------------------------------------------
\* What a change of the store by a Put of record r as document i means to the
\* searches under way (history only): it is not quiet any more, and a record that
\* is overwritten is none that must be found.
Disturbed(i, r) ==
    [s \in Searchers |->
        [search[s] EXCEPT !.quiet = FALSE, !.before = {b \in @ : b.id # i \/ b = r}]]

Unquiet == [s \in Searchers |-> [search[s] EXCEPT !.quiet = FALSE]]

MayFail(c) == puts < MayFailPuts /\ puts' = puts + 1

\* IngestBatch is called, by a handler that has decoded its body.
BatchCall(c, body, batch) ==
    /\ ingest[c].state # "running"
    /\ ingest' = [ingest EXCEPT ![c] = [Idle EXCEPT !.state = "running",
                                                    !.body = body, !.batch = batch]]
    /\ UNCHANGED <<docs, index, search, puts, versions, ingested, missing>>

Next1(c) == Validated(ingest[c].batch[1])
IsReady(c) == /\ ingest[c].state = "running" /\ ingest[c].batch # <<>>
              /\ ingest[c].rec = NoRecord

\* Ingest of the batch's next record stores its document.
IngestDoc(c) ==
    /\ IsReady(c) /\ IsValid(ingest[c].batch[1])
    /\ docs' = [docs EXCEPT ![Next1(c).id] = Next1(c)]
    /\ versions' = versions \cup {Next1(c)}
    /\ search' = Disturbed(Next1(c).id, Next1(c))
    /\ ingest' = [ingest EXCEPT ![c].rec = Next1(c), ![c].todo = IndexKeys(Next1(c)),
                                ![c].stored = @ \cup {Next1(c)}]
    /\ UNCHANGED <<index, puts, ingested, missing>>

\* Mutant of IngestFails: the record is left out and the batch goes on.
IngestFailsOn(c) ==
    /\ IsReady(c)
    /\ ~IsValid(ingest[c].batch[1]) /\ UNCHANGED puts
    /\ ingest' = [ingest EXCEPT ![c].batch = Tail(@), ![c].count = @ + 1]
    /\ UNCHANGED <<docs, index, search, versions, ingested, missing>>

\* A record that is not valid, or whose document cannot be put, ends the batch.
IngestFails(c) ==
    /\ IsReady(c)
    /\ IF IsValid(ingest[c].batch[1]) THEN MayFail(c) ELSE UNCHANGED puts
    /\ ingest' = [ingest EXCEPT ![c].state = "failed", ![c].batch = <<>>]
    /\ UNCHANGED <<docs, index, search, versions, ingested, missing>>

\* Mutant of IngestKey: the first error ends the record's index keys.
IngestKeyStops(c) ==
    /\ ingest[c].todo # <<>>
    /\ \/ /\ index' = index \cup {Head(ingest[c].todo)}
          /\ ingest' = [ingest EXCEPT ![c].todo = Tail(@)]
          /\ UNCHANGED <<puts, missing>>
       \/ /\ MayFail(c) /\ UNCHANGED index
          /\ ingest' = [ingest EXCEPT ![c].todo = <<>>]
          /\ missing' = missing \cup ({Head(ingest[c].todo)} \ index)
    /\ search' = Unquiet
    /\ UNCHANGED <<docs, versions, ingested>>

\* ... then its index keys; their errors are dropped.
IngestKey(c) ==
    /\ ingest[c].todo # <<>>
    /\ \/ /\ index' = index \cup {Head(ingest[c].todo)}
          /\ UNCHANGED <<puts, missing>>
       \/ /\ MayFail(c) /\ UNCHANGED index
          /\ missing' = missing \cup ({Head(ingest[c].todo)} \ index)
    /\ ingest' = [ingest EXCEPT ![c].todo = Tail(@)]
    /\ search' = Unquiet
    /\ UNCHANGED <<docs, versions, ingested>>

\* Ingest returns, and IngestBatch takes the next record.
IngestReturn(c) ==
    /\ ingest[c].rec # NoRecord /\ ingest[c].todo = <<>>
    /\ ingested' = ingested \cup {ingest[c].rec}
    /\ ingest' = [ingest EXCEPT ![c].rec = NoRecord, ![c].count = @ + 1, ![c].batch = Tail(@)]
    /\ UNCHANGED <<docs, index, search, puts, versions, missing>>

BatchReturn(c) ==
    /\ ingest[c].state = "running" /\ ingest[c].batch = <<>>
    /\ ingest' = [ingest EXCEPT ![c].state = "ok"]
    /\ UNCHANGED <<docs, index, search, puts, versions, ingested, missing>>
-----------------------------------------------------------------------------
\* Searching

\* Search takes the first index that the query can use: terms, level, service,
\* time.  Terms are scanned one after another.
Searching(q, kind, offset, shown, before, quiet) ==
    LET terms == Tokens[q.text]
    IN  [stage |-> IF terms # {} THEN "terms" ELSE "fetch",
         q |-> q, kind |-> kind, offset |-> offset, left |-> terms,
         ids |-> IF terms # {} THEN {}
                 ELSE IF q.lvl # "" THEN ScanPrefixIDs("lvl", Upper[q.lvl], q)
                 ELSE IF q.svc # "" THEN ScanPrefixIDs("svc", q.svc, q)
                 ELSE ScanPrefixIDs("time", "", q),
         logs |-> {}, page |-> <<>>, buckets |-> {},
         shown |-> shown, before |-> before, quiet |-> quiet]

Begin(s, sr) ==
    /\ search' = [search EXCEPT ![s] = sr]
    /\ UNCHANGED <<docs, index, ingest, puts, versions, ingested, missing>>

\* Search for the first page, or Aggregate; a searcher does it once.
SearchCall(s, q, kind) ==
    /\ search[s].stage = "none"
    /\ Begin(s, Searching(q, kind, 0, <<>>, {r \in ingested : docs[r.id] = r}, TRUE))

Limit(S) == IF S.kind = "histogram" THEN AggregateLimit
            ELSE IF S.q.limit = 0 THEN DefaultLimit ELSE S.q.limit

\* The client asks for the page behind the one it has, if there is one.
NextPage(s) ==
    LET S == search[s]
    IN  /\ S.stage = "done" /\ S.kind = "search"
        /\ S.offset + Limit(S) < Cardinality(S.logs)
        /\ Begin(s, Searching(S.q, S.kind, S.offset + Limit(S), S.shown \o S.page,
                              S.before, S.quiet))

\* Mutant of ScanTerm: one of the terms is enough.
ScanTermAny(s) ==
    LET S == search[s]
    IN  /\ S.stage = "terms"
        /\ \E t \in S.left :
             search' = [search EXCEPT ![s] =
               [S EXCEPT !.ids = @ \cup ScanPrefixIDs("term", t, S.q),
                         !.left = @ \ {t}, !.stage = IF S.left = {t} THEN "fetch" ELSE "terms"]]
        /\ UNCHANGED <<docs, index, ingest, puts, versions, ingested, missing>>

\* intersectTerms, one token: it stops as soon as nothing is common.
ScanTerm(s) ==
    LET S       == search[s]
        isFirst == S.left = Tokens[S.q.text]
    IN  /\ S.stage = "terms"
        /\ \E t \in S.left :
             LET found == ScanPrefixIDs("term", t, S.q)
                 ids   == IF isFirst THEN found ELSE S.ids \cap found
             IN  search' = [search EXCEPT ![s] =
                   [S EXCEPT !.ids = ids, !.left = @ \ {t},
                             !.stage = IF S.left = {t} \/ (~isFirst /\ ids = {})
                                       THEN "fetch" ELSE "terms"]]
        /\ UNCHANGED <<docs, index, ingest, puts, versions, ingested, missing>>

\* Fetch a candidate's document and filter it; one that is gone, or no record, is
\* passed over.
Fetch(s) ==
    LET S == search[s]
    IN  /\ S.stage = "fetch"
        /\ \E i \in S.ids :
             search' = [search EXCEPT ![s] =
               [S EXCEPT !.ids = @ \ {i},
                         !.logs = IF docs[i] \notin {NoRecord, Garbage} /\ PassesFilters(docs[i], S.q)
                                  THEN @ \cup {docs[i]} ELSE @]]
        /\ UNCHANGED <<docs, index, ingest, puts, versions, ingested, missing>>

\* Newest first; logs of one time in any order (sort.Slice is not stable).
Sorted(logs) == {s \in SetToSeqs(logs) : \A i, j \in 1..Len(s) : i < j => s[i].ts >= s[j].ts}

\* Mutant of Page: the page is one log short of its limit.
PageShort(s, offset, limit) ==
    LET end == IF offset + limit > Len(s) THEN Len(s) ELSE offset + limit - 1
    IN  SubSeq(s, offset + 1, end)

Page(s, offset, limit) ==
    LET end == IF offset + limit > Len(s) THEN Len(s) ELSE offset + limit
    IN  SubSeq(s, offset + 1, end)
-----------------------------------------------------------------------------
\* Aggregating

NoBucket(start) == [ts |-> start, count |-> 0, byLevel |-> [l \in {} |-> 0]]

\* Mutant of BucketStart: a time is rounded up.
BucketStartUp(log) == ((log.ts + Interval - 1) \div Interval) * Interval

BucketStart(log) == (log.ts \div Interval) * Interval

\* The loop of AggregateGroups: a log is counted in the bucket of its time, which is
\* made when it is the first there.
AddToBucket(buckets, log) ==
    LET start == BucketStart(log)
        Old   == {b \in buckets : b.ts = start}
        b     == IF Old = {} THEN NoBucket(start) ELSE CHOOSE x \in Old : TRUE
        lvls  == DOMAIN b.byLevel \cup {log.lvl}
        More(l) == (IF l \in DOMAIN b.byLevel THEN b.byLevel[l] ELSE 0) + (IF l = log.lvl THEN 1 ELSE 0)
    IN  (buckets \ Old) \cup {[ts |-> start, count |-> b.count + 1, byLevel |-> [l \in lvls |-> More(l)]]}

AggregateGroups(logs) ==
    LET After[n \in 0..Len(logs)] == IF n = 0 THEN {} ELSE AddToBucket(After[n - 1], logs[n])
    IN  After[Len(logs)]

\* Every candidate is fetched: sort, cut the page out, and for Aggregate group it.
SearchReturn(s) ==
    LET S == search[s]
    IN  /\ S.stage = "fetch" /\ S.ids = {}
        /\ \E sorted \in Sorted(S.logs) :
             LET page == Page(sorted, S.offset, Limit(S))
             IN  search' = [search EXCEPT ![s].stage = "done", ![s].page = page,
                              ![s].buckets = IF S.kind = "histogram" THEN AggregateGroups(page) ELSE {}]
        /\ UNCHANGED <<docs, index, ingest, puts, versions, ingested, missing>>
-----------------------------------------------------------------------------
SearchInit ==
    /\ docs = [i \in Ids |-> NoRecord]
    /\ index = {}
    /\ ingest = [c \in Ingesters |-> Idle]
    /\ search = [s \in Searchers |-> NoSearch]
    /\ puts = 0
    /\ versions = {} /\ ingested = {} /\ missing = {}

IngestStep(c) == IngestDoc(c) \/ IngestFails(c) \/ IngestKey(c) \/ IngestReturn(c) \/ BatchReturn(c)

SearchStep(s) ==
    \/ \E q \in Queries, kind \in {"search", "histogram"} : SearchCall(s, q, kind)
    \/ NextPage(s)
    \/ ScanTerm(s) \/ Fetch(s) \/ SearchReturn(s)
=============================================================================
