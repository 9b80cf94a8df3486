------------------------------ MODULE ApiProofs ------------------------------
(***************************************************************************)
(* What ingestion, search and aggregation promise holds for all records,   *)
(* queries and bodies, however many clients ingest, search, turn pages and *)
(* write keys, and however many Puts fail: all invariants of module        *)
(* ApiProps.                                                               *)
(***************************************************************************)
EXTENDS ApiProps, FiniteSetTheorems, NatLemmas, TLAPS

\* The records that Ingest stores, and the index keys it makes of one.
Storable == {Validated(r) : r \in Records}
KeysOf(v) == ToSet(IndexKeys(v))
Made      == UNION {KeysOf(v) : v \in versions}

\* The store holds nothing under doc:<id> but what was put there.
DocFacts ==
    /\ versions \subseteq Storable /\ ingested \subseteq versions /\ puts \in Nat
    /\ docs \in [Ids -> versions \cup {NoRecord, Garbage}]
    /\ \A i \in Ids : docs[i] \in versions => docs[i].id = i

\* IngestBatch, record by record: what is stored is what the records before the
\* next one say, and with a Put under way the document of that one.
FirstOf(I, n) == {Validated(I.body.recs[i]) : i \in 1..n}

BatchFacts(I) ==
    /\ DOMAIN I = {"state", "body", "batch", "rec", "todo", "count", "stored"}
    /\ I.state \in {"idle", "running", "ok", "failed", "refused"}
    /\ I.state # "running" => I.rec = NoRecord
    /\ I.rec = NoRecord => I.todo = <<>>
    /\ I.state = "refused" => I.stored = {}
    /\ I.state \in {"running", "ok", "failed"} =>
         /\ I.body \in Bodies /\ I.count \in 0..Len(Readable(I.body))
         /\ FirstOf(I, I.count) \subseteq ingested
         /\ I.stored = FirstOf(I, I.count) \cup (IF I.rec = NoRecord THEN {} ELSE {I.rec})
    /\ I.state = "running" =>
         /\ I.batch \in Seq(Records) /\ Len(I.batch) + I.count = Len(Readable(I.body))
         /\ \A i \in 1..Len(I.batch) : I.batch[i] = Readable(I.body)[I.count + i]
    /\ I.rec # NoRecord => I.batch # <<>> /\ I.rec = Validated(I.batch[1]) /\ I.rec \in versions
    /\ I.state = "ok" => I.count = Len(Readable(I.body))
    /\ I.state = "failed" => I.count < Len(Readable(I.body))

\* Index keys come after their documents, and all of them come, unless one is lost.
KeyFacts(I) ==
    /\ I.todo \in Seq(Made)
    /\ I.rec # NoRecord => KeysOf(I.rec) \subseteq index \cup missing \cup ToSet(I.todo)

IngestInv ==
    /\ DocFacts
    /\ DOMAIN ingest = Ingesters /\ \A c \in Ingesters : BatchFacts(ingest[c]) /\ KeyFacts(ingest[c])
    /\ index \subseteq Made \cup clientKeys /\ clientKeys \subseteq KVKeys
    /\ \A r \in ingested : KeysOf(r) \subseteq index \cup missing

\* An ingested message has the term t, and its index key leads to the id i; or a client
\* has put such a key.
Announced(i, t, q) ==
    \/ \E v \in versions : /\ LastPart[v.id] = i /\ t \in Tokens[v.msg]
                          /\ From(q) <= v.ts /\ v.ts <= To(q)
    \/ \E k \in clientKeys : /\ k.kind = "term" /\ k.val = t /\ LastPart[k.id] = i
                            /\ From(q) <= k.ts /\ k.ts <= To(q)

\* Candidates have all the terms that were scanned, and logs all terms.
HitFacts(S) ==
    /\ S.stage \in {"none", "terms", "fetch", "done"}
    /\ DOMAIN S = IF S.stage = "none" THEN {"stage", "before", "quiet"}
                  ELSE {"stage", "q", "kind", "offset", "left", "ids", "logs", "page", "buckets",
                        "shown", "before", "quiet"}
    /\ S.stage # "none" =>
         /\ S.q \in Queries /\ S.left \subseteq Tokens[S.q.text] /\ S.ids \subseteq Ids
         /\ \A i \in S.ids : \A t \in Tokens[S.q.text] \ S.left : Announced(i, t, S.q)
         /\ S.stage # "terms" /\ S.ids # {} => S.left = {}
         /\ \A r \in S.logs : /\ r \in versions /\ PassesFilters(r, S.q)
                             /\ \A t \in Tokens[S.q.text] : Announced(r.id, t, S.q)

\* No record that must be found is lost on the way from the index to the answer.
FindFacts(S) ==
    /\ \A r \in S.before : r \in ingested /\ docs[r.id] = r
    /\ S.stage # "none" =>
         \A r \in S.before : IsOwed(r, S.q) =>
            /\ S.stage = "terms" => S.left = Tokens[S.q.text] \/ r.id \in S.ids
            /\ S.stage = "fetch" => r.id \in S.ids \/ r \in S.logs
            /\ S.stage = "done" => r \in S.logs

SearchInv ==
    DOMAIN search = Searchers /\ \A s \in Searchers : HitFacts(search[s]) /\ FindFacts(search[s])

\* The inductive invariant.
ApiInv == IngestInv /\ SearchInv
-----------------------------------------------------------------------------
LEMMA SeqOfSet ==
    ASSUME NEW S, IsFiniteSet(S)
    PROVE  SetToSeq(S) \in Seq(S) /\ ToSet(SetToSeq(S)) = S
<1> DEFINE N == Cardinality(S)
           f == CHOOSE g \in [1..N -> S] : IsInjective(g)
<1>1. N \in Nat /\ ExistsBijection(1..N, S)
  BY FS_CardinalityType
<1>2. \E g \in [1..N -> S] : IsInjective(g)
  BY <1>1 DEF ExistsBijection, Bijection, Injection
<1>3. f \in [1..N -> S] /\ f \in Injection(1..N, S)
  BY <1>2 DEF Injection
<1>4. SetToSeq(S) = f
  BY DEF SetToSeq
<1> HIDE DEF f
<1>5. Cardinality(1..N) = N
  BY <1>1, FS_Interval
<1>6. f \in Surjection(1..N, S)
  BY <1>3, <1>5, FS_Injection
<1>7. \A x \in S : \E i \in 1..N : f[i] = x
  BY <1>6 DEF Surjection
<1> HIDE DEF N
<1> QED BY <1>1, <1>3, <1>4, <1>7 DEF ToSet

\* The image of a finite set is finite, here of terms and of fields.
LEMMA ImageFinite ==
    ASSUME NEW S, IsFiniteSet(S), NEW kind, NEW v
    PROVE  IsFiniteSet({IndexKey(kind, x, v) : x \in S})
<1> DEFINE T == {IndexKey(kind, x, v) : x \in S}
           f == [x \in S |-> IndexKey(kind, x, v)]
<1>1. f \in Surjection(S, T)
  BY DEF Surjection
<1> HIDE DEF f, T
<1>2. IsFiniteSet(T)
  BY <1>1, FS_Surjection
<1> QED BY <1>2 DEF T

LEMMA ConcatSet ==
    ASSUME NEW T, NEW s \in Seq(T), NEW u \in Seq(T)
    PROVE  s \o u \in Seq(T) /\ ToSet(s \o u) = ToSet(s) \cup ToSet(u)
<1>1. /\ s \o u \in Seq(T) /\ Len(s \o u) = Len(s) + Len(u) /\ Len(s) \in Nat /\ Len(u) \in Nat
      /\ \A i \in 1..Len(s) : (s \o u)[i] = s[i]
      /\ \A i \in 1..Len(u) : (s \o u)[Len(s) + i] = u[i]
  OBVIOUS
<1>2. \A w \in Seq(T) : DOMAIN w = 1..Len(w)
  OBVIOUS
<1>3. ASSUME NEW i \in 1..Len(s \o u) PROVE (s \o u)[i] \in ToSet(s) \cup ToSet(u)
  <2>1. CASE i \in 1..Len(s)
    BY <2>1, <1>1, <1>2 DEF ToSet
  <2>2. CASE i \notin 1..Len(s)
    <3>1. i - Len(s) \in 1..Len(u) /\ Len(s) + (i - Len(s)) = i
      BY <2>2, <1>1
    <3>2. (s \o u)[i] = u[i - Len(s)]
      BY <3>1, <1>1
    <3> QED BY <3>1, <3>2, <1>2 DEF ToSet
  <2> QED BY <2>1, <2>2
<1>4. ASSUME NEW i \in 1..Len(s) PROVE s[i] \in ToSet(s \o u)
  <2>1. i \in 1..Len(s \o u) /\ (s \o u)[i] = s[i]
    BY <1>1
  <2> QED BY <2>1, <1>1, <1>2 DEF ToSet
<1>5. ASSUME NEW i \in 1..Len(u) PROVE u[i] \in ToSet(s \o u)
  <2>1. Len(s) + i \in 1..Len(s \o u) /\ (s \o u)[Len(s) + i] = u[i]
    BY <1>1
  <2> QED BY <2>1, <1>1, <1>2 DEF ToSet
<1>6. ToSet(s) = {s[i] : i \in 1..Len(s)} /\ ToSet(u) = {u[i] : i \in 1..Len(u)}
      /\ ToSet(s \o u) = {(s \o u)[i] : i \in 1..Len(s \o u)}
  BY <1>1, <1>2 DEF ToSet
<1>7. ToSet(s \o u) \subseteq ToSet(s) \cup ToSet(u)
  BY <1>3, <1>6
<1>8. ToSet(s) \subseteq ToSet(s \o u) /\ ToSet(u) \subseteq ToSet(s \o u)
  <2> DEFINE X == ToSet(s \o u)
  <2>1. \A i \in 1..Len(s) : s[i] \in X
    BY <1>4
  <2>2. \A i \in 1..Len(u) : u[i] \in X
    BY <1>5
  <2> HIDE DEF X
  <2>3. ToSet(s) \subseteq X /\ ToSet(u) \subseteq X
    BY <2>1, <2>2, <1>6
  <2> QED BY <2>3 DEF X
<1>9. ToSet(s \o u) = ToSet(s) \cup ToSet(u)
  BY <1>7, <1>8
<1> QED BY <1>1, <1>9

\* Of a record there is a key for its time, level, service, terms and fields.
LEMMA IndexKeysAre ==
    ASSUME NEW v, IsFiniteSet(v.fields), IsFiniteSet(Tokens[v.msg])
    PROVE  /\ IndexKeys(v) \in Seq(KeysOf(v))
           /\ KeysOf(v) = {IndexKey("time", "", v), IndexKey("lvl", v.lvl, v), IndexKey("svc", v.svc, v)}
                           \cup {IndexKey("term", t, v) : t \in Tokens[v.msg]}
                           \cup {IndexKey("fld", f, v) : f \in v.fields}
<1> DEFINE A == {IndexKey("time", "", v), IndexKey("lvl", v.lvl, v), IndexKey("svc", v.svc, v)}
           B == {IndexKey("term", t, v) : t \in Tokens[v.msg]}
           C == {IndexKey("fld", f, v) : f \in v.fields}
           a == <<IndexKey("time", "", v), IndexKey("lvl", v.lvl, v), IndexKey("svc", v.svc, v)>>
           b == SetToSeq(B)
           c == SetToSeq(C)
           T == A \cup B \cup C
<1>1. IsFiniteSet(B) /\ IsFiniteSet(C)
  BY ImageFinite
<1>2. IndexKeys(v) = a \o b \o c
  BY DEF IndexKeys
<1>3. a \in Seq(A) /\ ToSet(a) = A
  <2>1. a \in Seq(A) /\ DOMAIN a = 1..3
    BY DEF IndexKey
  <2>2. 1..3 = {1, 2, 3}
    OBVIOUS
  <2>3. a[1] = IndexKey("time", "", v) /\ a[2] = IndexKey("lvl", v.lvl, v) /\ a[3] = IndexKey("svc", v.svc, v)
    OBVIOUS
  <2> HIDE DEF a
  <2>4. ToSet(a) = {a[i] : i \in {1, 2, 3}}
    BY <2>1, <2>2 DEF ToSet
  <2> QED BY <2>1, <2>3, <2>4
<1> HIDE DEF A, B, C, a
<1>4. b \in Seq(B) /\ ToSet(b) = B /\ c \in Seq(C) /\ ToSet(c) = C
  BY <1>1, SeqOfSet
<1> HIDE DEF b, c
<1>5. a \in Seq(T) /\ b \in Seq(T) /\ c \in Seq(T)
  BY <1>3, <1>4
<1> HIDE DEF T
<1> DEFINE ab == a \o b
<1>6. ab \in Seq(T) /\ ToSet(ab) = A \cup B
  BY <1>3, <1>4, <1>5, ConcatSet
<1>8. IndexKeys(v) = ab \o c
  BY <1>2
<1> HIDE DEF ab
<1>7. ab \o c \in Seq(T) /\ ToSet(ab \o c) = A \cup B \cup C
  BY <1>4, <1>5, <1>6, ConcatSet
<1> QED BY <1>7, <1>8 DEF KeysOf, T, A, B, C

\* Validate keeps the id, the time, the message and the fields.
LEMMA ValidatedFacts ==
    ASSUME NEW v \in Storable
    PROVE  /\ v.id \in Ids /\ LastPart[v.id] \in Ids /\ v.ts \in 1..MaxTime
           /\ IsFiniteSet(v.fields) /\ IsFiniteSet(Tokens[v.msg])
           /\ v # NoRecord /\ v # Garbage
<1>1. PICK r \in Records : v = Validated(r)
  BY DEF Storable
<1>2. /\ r \in [id : STRING, ts : 1..MaxTime, lvl : STRING, svc : STRING, host : STRING,
                 msg : DOMAIN Tokens, fields : SUBSET STRING]
      /\ IsFiniteSet(r.fields) /\ IsFiniteSet(Tokens[r.msg])
  BY SearchAssumption
<1>3. /\ v.id = r.id /\ v.ts = r.ts /\ v.msg = r.msg /\ v.fields = r.fields
      /\ DOMAIN v = {"id", "ts", "lvl", "svc", "host", "msg", "fields"}
  BY <1>1, <1>2 DEF Validated
<1>4. DOMAIN NoRecord = {"id"} /\ DOMAIN Garbage = {"id"}
  BY DEF NoRecord, Garbage
<1>5. r.id \in Ids /\ LastPart[r.id] \in Ids
  BY DEF Ids
<1> QED BY <1>2, <1>3, <1>4, <1>5

\* The readable lines of a body come first in it.
LEMMA ReadableFacts ==
    ASSUME NEW b \in Bodies
    PROVE  /\ Readable(b) \in Seq(Records) /\ Len(Readable(b)) \in Nat /\ Len(b.recs) \in Nat
           /\ Len(Readable(b)) <= Len(b.recs)
           /\ \A i \in 1..Len(Readable(b)) : Readable(b)[i] = b.recs[i]
<1> DEFINE n == CHOOSE m \in 0..Len(b.recs) : /\ \A i \in 1..m : i \notin b.long
                                              /\ m = Len(b.recs) \/ m + 1 \in b.long
<1>1. b.recs \in Seq(Records) /\ Len(b.recs) \in Nat
  BY ApiAssumption
<1>2. CASE b.form # "lines"
  BY <1>1, <1>2 DEF Readable
<1>3. CASE b.form = "lines"
  <2> DEFINE Ends == {m \in 0..Len(b.recs) : m = Len(b.recs) \/ m + 1 \in b.long}
  <2>1. Ends \in SUBSET Nat /\ Len(b.recs) \in Ends
    BY <1>1
  <2>2. PICK m \in Ends : \A k \in Ends : m <= k
    <3> HIDE DEF Ends
    <3> QED BY <2>1, MinExists
  <2>3. \A i \in 1..m : i \notin b.long
    <3> SUFFICES ASSUME NEW i \in 1..m, i \in b.long PROVE FALSE
      OBVIOUS
    <3>1. i - 1 \in Ends /\ m \in Nat
      BY <2>2, <1>1
    <3> QED BY <3>1, <2>2
  <2>4. \E k \in 0..Len(b.recs) : /\ \A i \in 1..k : i \notin b.long
                                  /\ k = Len(b.recs) \/ k + 1 \in b.long
    BY <2>2, <2>3
  <2>5. n \in 0..Len(b.recs)
    BY <2>4
  <2>6. Readable(b) = SubSeq(b.recs, 1, n)
    BY <1>3 DEF Readable
  <2> HIDE DEF n
  <2> QED BY <2>5, <2>6, <1>1
<1> QED BY <1>2, <1>3
-----------------------------------------------------------------------------
LEMMA HeadTail ==
    ASSUME NEW T, NEW s \in Seq(T), s # <<>>
    PROVE  /\ Head(s) \in T /\ Head(s) = s[1] /\ Tail(s) \in Seq(T) /\ ToSet(s) = {Head(s)} \cup ToSet(Tail(s))
           /\ Len(Tail(s)) = Len(s) - 1 /\ Len(s) \in Nat \ {0}
           /\ \A i \in 1..Len(Tail(s)) : Tail(s)[i] = s[i + 1]
<1>1. /\ Head(s) = s[1] /\ s[1] \in T /\ Tail(s) \in Seq(T) /\ Len(Tail(s)) = Len(s) - 1 /\ Len(s) \in Nat \ {0}
      /\ \A i \in 1..Len(Tail(s)) : Tail(s)[i] = s[i + 1]
  OBVIOUS
<1>2. ToSet(s) = {s[i] : i \in 1..Len(s)} /\ ToSet(Tail(s)) = {Tail(s)[i] : i \in 1..Len(Tail(s))}
  <2>1. \A u \in Seq(T) : DOMAIN u = 1..Len(u)
    OBVIOUS
  <2> QED BY <1>1, <2>1 DEF ToSet
<1>3. ASSUME NEW i \in 1..Len(s) PROVE s[i] \in {Head(s)} \cup ToSet(Tail(s))
  <2>1. CASE i = 1
    BY <2>1, <1>1
  <2>2. CASE i # 1
    <3>1. i - 1 \in 1..Len(Tail(s)) /\ (i - 1) + 1 = i
      BY <2>2, <1>1
    <3>2. Tail(s)[i - 1] = s[i]
      BY <3>1, <1>1
    <3> QED BY <3>1, <3>2, <1>2
  <2> QED BY <2>1, <2>2
<1>4. ASSUME NEW i \in 1..Len(Tail(s)) PROVE Tail(s)[i] \in ToSet(s)
  <2>1. i + 1 \in 1..Len(s)
    BY <1>1
  <2> QED BY <2>1, <1>1, <1>2
<1>5. Head(s) \in ToSet(s)
  BY <1>1, <1>2
<1>6. ToSet(s) \subseteq {Head(s)} \cup ToSet(Tail(s))
  BY <1>2, <1>3
<1>7. ToSet(Tail(s)) \subseteq ToSet(s)
  <2> DEFINE X == ToSet(s)
  <2>1. \A i \in 1..Len(Tail(s)) : Tail(s)[i] \in X
    BY <1>4
  <2> HIDE DEF X
  <2>2. ToSet(Tail(s)) \subseteq X
    BY <2>1, <1>2
  <2> QED BY <2>2 DEF X
<1> QED BY <1>1, <1>5, <1>6, <1>7

LEMMA SeqGrows == ASSUME NEW S, NEW T, S \subseteq T, NEW s \in Seq(S) PROVE s \in Seq(T)
OBVIOUS

\* What the other clients have in hand is not disturbed.
LEMMA OthersKeep ==
    ASSUME IngestInv, NEW d \in Ingesters, ingest'[d] = ingest[d], versions \subseteq versions',
           ingested \subseteq ingested', index \subseteq index' \cup missing', missing \subseteq missing'
    PROVE  (BatchFacts(ingest[d]) /\ KeyFacts(ingest[d]))'
<1>1. BatchFacts(ingest[d]) /\ KeyFacts(ingest[d])
  BY DEF IngestInv
<1>2. BatchFacts(ingest[d])'
  BY <1>1 DEF BatchFacts, FirstOf
<1>3. Made \subseteq Made'
  BY DEF Made
<1>4. ingest[d].todo \in Seq(Made')
  BY <1>1, <1>3, SeqGrows DEF KeyFacts
<1>5. KeyFacts(ingest[d])'
  BY <1>1, <1>4 DEF KeyFacts
<1> QED BY <1>2, <1>5

\* A step of client c.
LEMMA IngestStepInv ==
    ASSUME IngestInv, NEW c \in Ingesters, DocFacts', versions \subseteq versions',
           ingested \subseteq ingested', index \subseteq index' \cup missing', missing \subseteq missing',
           clientKeys \subseteq clientKeys', clientKeys' \subseteq KVKeys,
           DOMAIN ingest' = Ingesters, \A d \in Ingesters : d # c => ingest'[d] = ingest[d],
           (BatchFacts(ingest[c]) /\ KeyFacts(ingest[c]))',
           index' \subseteq Made \cup Made' \cup clientKeys',
           \A r \in ingested' \ ingested : KeysOf(r) \subseteq index' \cup missing'
    PROVE  IngestInv'
<1>1. \A d \in Ingesters : (BatchFacts(ingest[d]) /\ KeyFacts(ingest[d]))'
  BY OthersKeep
<1>2. Made \subseteq Made'
  BY DEF Made
<1>3. \A r \in ingested' : KeysOf(r) \subseteq index' \cup missing'
  BY DEF IngestInv
<1> QED BY <1>1, <1>2, <1>3 DEF IngestInv

LEMMA InitIngestInv == Init => IngestInv
<1> SUFFICES ASSUME Init PROVE IngestInv
  OBVIOUS
<1>1. /\ docs = [i \in Ids |-> NoRecord] /\ index = {} /\ ingest = [c \in Ingesters |-> Idle]
      /\ puts = 0 /\ versions = {} /\ ingested = {} /\ missing = {} /\ clientKeys = {}
  BY DEF Init, SearchInit
<1>2. BatchFacts(Idle) /\ KeyFacts(Idle)
  BY <1>1 DEF Idle, BatchFacts, KeyFacts, Made
<1> QED BY <1>1, <1>2 DEF IngestInv, DocFacts

LEMMA HandleIngestStep == ASSUME IngestInv, NEW c \in Ingesters, HandleIngest(c) PROVE IngestInv'
<1>1. PICK b \in Bodies :
        /\ UNCHANGED <<docs, index, puts, versions, ingested, missing, clientKeys>>
        /\ \/ ingest' = [ingest EXCEPT ![c] = [Idle EXCEPT !.state = "running", !.body = b, !.batch = Readable(b)]]
           \/ ingest' = [ingest EXCEPT ![c] = [Idle EXCEPT !.state = "refused", !.body = b]]
  BY DEF HandleIngest, BatchCall
<1>2. DOMAIN ingest' = Ingesters /\ \A d \in Ingesters : d # c => ingest'[d] = ingest[d]
  BY <1>1 DEF IngestInv
<1>3. DocFacts'
  BY <1>1 DEF IngestInv, DocFacts
<1>4. (BatchFacts(ingest[c]) /\ KeyFacts(ingest[c]))'
  <2>1. ingest'[c].rec = NoRecord /\ ingest'[c].todo = <<>> /\ ingest'[c].count = 0 /\ ingest'[c].stored = {}
        /\ ingest'[c].body = b
        /\ DOMAIN ingest'[c] = {"state", "body", "batch", "rec", "todo", "count", "stored"}
        /\ \/ ingest'[c].state = "running" /\ ingest'[c].batch = Readable(b)
           \/ ingest'[c].state = "refused"
    BY <1>1 DEF Idle, IngestInv
  <2>2. FirstOf(ingest'[c], 0) = {}
    BY DEF FirstOf
  <2>3. Readable(b) \in Seq(Records) /\ Len(Readable(b)) \in Nat
    BY ReadableFacts
  <2>4. BatchFacts(ingest[c])'
    BY <2>1, <2>2, <2>3 DEF BatchFacts, FirstOf
  <2>5. KeyFacts(ingest[c])'
    BY <2>1 DEF KeyFacts
  <2> QED BY <2>4, <2>5
<1>5. index' \subseteq Made \cup clientKeys /\ clientKeys \subseteq KVKeys
  BY <1>1 DEF IngestInv
<1> QED BY <1>1, <1>2, <1>3, <1>4, <1>5, IngestStepInv

LEMMA HandleKVStep == ASSUME IngestInv, NEW c \in Ingesters, HandleKV(c) PROVE IngestInv'
<1>1. ingest' = [ingest EXCEPT ![c] = Idle] /\ UNCHANGED <<puts, versions, ingested>>
  BY DEF HandleKV
<1>2. DOMAIN ingest' = Ingesters /\ \A d \in Ingesters : d # c => ingest'[d] = ingest[d]
  BY <1>1 DEF IngestInv
<1>3. DocFacts'
  <2>1. ASSUME NEW i \in KVIds, NEW what \in {Garbage, NoRecord}, KVDoc(i, what) PROVE DocFacts'
    <3>1. docs' = [docs EXCEPT ![i] = what]
      BY <2>1 DEF KVDoc
    <3>2. what \notin versions
      BY ValidatedFacts DEF IngestInv, DocFacts
    <3> QED BY <1>1, <3>1, <3>2 DEF IngestInv, DocFacts
  <2>2. ASSUME NEW k \in KVKeys, KVIndex(k) PROVE DocFacts'
    BY <1>1, <2>2 DEF KVIndex, IngestInv, DocFacts
  <2> QED BY <2>1, <2>2 DEF HandleKV
<1>5. /\ index \subseteq index' \cup missing' /\ missing \subseteq missing'
      /\ clientKeys \subseteq clientKeys' /\ clientKeys' \subseteq KVKeys
      /\ index' \subseteq Made \cup clientKeys'
  <2>1. index \subseteq Made \cup clientKeys /\ clientKeys \subseteq KVKeys
    BY DEF IngestInv
  <2>2. \/ UNCHANGED <<index, missing, clientKeys>>
        \/ \E k \in KVKeys :
             /\ index' = index \cup {k} /\ clientKeys' = clientKeys \cup {k} /\ missing' = missing
        \/ \E k \in KVKeys :
             /\ index' = index \ {k} /\ missing' = missing \cup ({k} \cap index) /\ clientKeys' = clientKeys
    BY DEF HandleKV, KVDoc, KVIndex
  <2> QED BY <2>1, <2>2
<1>4. (BatchFacts(ingest[c]) /\ KeyFacts(ingest[c]))'
  <2>1. ingest'[c] = Idle
    BY <1>1 DEF IngestInv
  <2> QED BY <2>1 DEF BatchFacts, KeyFacts, Idle
<1> QED BY <1>1, <1>2, <1>3, <1>4, <1>5, IngestStepInv

LEMMA IngestDocStep == ASSUME IngestInv, NEW c \in Ingesters, IngestDoc(c), UNCHANGED clientKeys PROVE IngestInv'
<1> DEFINE I == ingest[c]
           v == Next1(c)
<1>1. /\ I.state = "running" /\ I.batch # <<>> /\ I.rec = NoRecord
      /\ docs' = [docs EXCEPT ![v.id] = v] /\ versions' = versions \cup {v}
      /\ ingest' = [ingest EXCEPT ![c].rec = v, ![c].todo = IndexKeys(v), ![c].stored = @ \cup {v}]
      /\ UNCHANGED <<index, puts, ingested, missing, clientKeys>>
  BY DEF IngestDoc, IsReady
<1>2. BatchFacts(I) /\ DOMAIN ingest = Ingesters
  BY DEF IngestInv
<1>3. v \in Storable /\ v = Validated(I.batch[1])
  <2>1. I.batch \in Seq(Records)
    BY <1>1, <1>2 DEF BatchFacts
  <2>2. I.batch[1] \in Records
    BY <2>1, <1>1, HeadTail
  <2> QED BY <2>2 DEF Next1, Storable
<1> HIDE DEF v
<1>4. v.id \in Ids /\ IsFiniteSet(v.fields) /\ IsFiniteSet(Tokens[v.msg]) /\ v \notin {NoRecord, Garbage}
  BY <1>3, ValidatedFacts
<1>5. DocFacts'
  <2>1. NoRecord \notin versions' /\ Garbage \notin versions' /\ versions' \subseteq Storable
    BY <1>1, <1>3, ValidatedFacts DEF IngestInv, DocFacts
  <2>2. docs' \in [Ids -> versions' \cup {NoRecord, Garbage}]
    BY <1>1, <1>4 DEF IngestInv, DocFacts
  <2>3. ASSUME NEW i \in Ids, docs'[i] \in versions' PROVE docs'[i].id = i
    <3>1. CASE i = v.id
      BY <3>1, <1>1, <1>4 DEF IngestInv, DocFacts
    <3>2. CASE i # v.id
      <4>1. docs'[i] = docs[i] /\ docs[i] \in versions
        BY <3>2, <2>1, <2>3, <1>1 DEF IngestInv, DocFacts
      <4> QED BY <4>1 DEF IngestInv, DocFacts
    <3> QED BY <3>1, <3>2
  <2> QED BY <1>1, <2>1, <2>2, <2>3 DEF IngestInv, DocFacts
<1>6. DOMAIN ingest' = Ingesters /\ \A d \in Ingesters : d # c => ingest'[d] = ingest[d]
  BY <1>1, <1>2
<1>7. /\ DOMAIN ingest'[c] = DOMAIN I /\ ingest'[c].rec = v /\ ingest'[c].todo = IndexKeys(v)
      /\ ingest'[c].stored = I.stored \cup {v} /\ ingest'[c].state = I.state
      /\ ingest'[c].body = I.body /\ ingest'[c].batch = I.batch /\ ingest'[c].count = I.count
  BY <1>1, <1>2 DEF BatchFacts
<1>8. BatchFacts(ingest[c])'
  <2>1. FirstOf(ingest'[c], I.count) = FirstOf(I, I.count)
    BY <1>7 DEF FirstOf
  <2>2. (FirstOf(ingest[c], ingest[c].count))' = FirstOf(I, I.count)
    BY <2>1, <1>7 DEF FirstOf
  <2>3. v \in versions'
    BY <1>1
  <2>4. /\ FirstOf(I, I.count) \subseteq ingested /\ I.stored = FirstOf(I, I.count)
        /\ I.body \in Bodies /\ I.count \in 0..Len(Readable(I.body)) /\ I.batch \in Seq(Records)
        /\ Len(I.batch) + I.count = Len(Readable(I.body))
        /\ \A i \in 1..Len(I.batch) : I.batch[i] = Readable(I.body)[I.count + i]
    <3>1. I.stored = FirstOf(I, I.count) \cup {}
      BY <1>1, <1>2 DEF BatchFacts
    <3> QED BY <1>1, <1>2, <3>1 DEF BatchFacts
  <2>5. PICK J : J = ingest'[c]
    OBVIOUS
  <2>6. /\ DOMAIN J = DOMAIN I /\ J.rec = v /\ J.stored = I.stored \cup {v} /\ J.state = "running"
        /\ J.body = I.body /\ J.batch = I.batch /\ J.count = I.count /\ v # NoRecord
        /\ FirstOf(J, J.count)' = FirstOf(I, I.count) /\ ingested' = ingested
    BY <1>1, <1>4, <1>7, <2>2, <2>5
  <2>7. DOMAIN J = {"state", "body", "batch", "rec", "todo", "count", "stored"}
    BY <2>6, <1>2 DEF BatchFacts
  <2> HIDE DEF I
  <2>8. BatchFacts(J)'
    BY <1>1, <1>3, <2>3, <2>4, <2>6, <2>7 DEF BatchFacts
  <2> QED BY <2>5, <2>8 DEF BatchFacts
<1>9. KeyFacts(ingest[c])'
  <2>1. KeysOf(v) \subseteq Made'
    BY <1>1 DEF Made
  <2>2. IndexKeys(v) \in Seq(Made')
    BY <2>1, <1>4, IndexKeysAre, SeqGrows
  <2> QED BY <2>2, <1>7 DEF KeyFacts, KeysOf
<1>10. index' \subseteq Made \cup clientKeys /\ clientKeys \subseteq KVKeys
  BY <1>1 DEF IngestInv
<1> QED BY <1>1, <1>5, <1>6, <1>8, <1>9, <1>10, IngestStepInv
LEMMA IngestFailsStep == ASSUME IngestInv, NEW c \in Ingesters, IngestFails(c), UNCHANGED clientKeys PROVE IngestInv'
<1> DEFINE I == ingest[c]
<1>1. /\ I.state = "running" /\ I.batch # <<>> /\ I.rec = NoRecord
      /\ ingest' = [ingest EXCEPT ![c].state = "failed", ![c].batch = <<>>]
      /\ UNCHANGED <<docs, index, versions, ingested, missing, clientKeys>>
      /\ puts' = puts \/ puts' = puts + 1
  BY DEF IngestFails, IsReady, MayFail
<1>2. BatchFacts(I) /\ KeyFacts(I) /\ DOMAIN ingest = Ingesters /\ puts \in Nat
  BY DEF IngestInv, DocFacts
<1>3. DOMAIN ingest' = Ingesters /\ \A d \in Ingesters : d # c => ingest'[d] = ingest[d]
  BY <1>1, <1>2
<1>4. /\ DOMAIN ingest'[c] = DOMAIN I /\ ingest'[c].rec = NoRecord /\ ingest'[c].todo = I.todo
      /\ ingest'[c].stored = I.stored /\ ingest'[c].state = "failed"
      /\ ingest'[c].body = I.body /\ ingest'[c].count = I.count
  BY <1>1, <1>2 DEF BatchFacts
<1>5. DocFacts'
  BY <1>1, <1>2 DEF IngestInv, DocFacts
<1>6. I.count < Len(Readable(I.body))
  <2>1. I.batch \in Seq(Records) /\ Len(I.batch) + I.count = Len(Readable(I.body)) /\ I.body \in Bodies
    BY <1>1, <1>2 DEF BatchFacts
  <2>2. Len(I.batch) \in Nat \ {0}
    BY <2>1, <1>1, HeadTail
  <2>3. I.count \in Nat
    BY <1>1, <1>2 DEF BatchFacts
  <2> QED BY <2>1, <2>2, <2>3
<1>7. (FirstOf(ingest[c], ingest[c].count))' = FirstOf(I, I.count)
  BY <1>4 DEF FirstOf
<1>8. BatchFacts(ingest[c])'
  <2> HIDE DEF I
  <2> QED BY <1>1, <1>2, <1>4, <1>6, <1>7 DEF BatchFacts
<1>9. KeyFacts(ingest[c])'
  BY <1>1, <1>2, <1>4 DEF KeyFacts, Made
<1>10. index' \subseteq Made \cup clientKeys /\ clientKeys \subseteq KVKeys
  BY <1>1, <1>2 DEF IngestInv
<1> QED BY <1>1, <1>3, <1>5, <1>8, <1>9, <1>10, IngestStepInv

LEMMA IngestKeyStep == ASSUME IngestInv, NEW c \in Ingesters, IngestKey(c), UNCHANGED clientKeys PROVE IngestInv'
<1> DEFINE I == ingest[c]
<1>1. /\ I.todo # <<>>
      /\ \/ index' = index \cup {Head(I.todo)} /\ puts' = puts /\ missing' = missing
         \/ index' = index /\ puts' = puts + 1 /\ missing' = missing \cup ({Head(I.todo)} \ index)
      /\ ingest' = [ingest EXCEPT ![c].todo = Tail(@)]
      /\ UNCHANGED <<docs, versions, ingested, clientKeys>>
  BY DEF IngestKey, MayFail
<1>2. BatchFacts(I) /\ KeyFacts(I) /\ DOMAIN ingest = Ingesters /\ puts \in Nat
  BY DEF IngestInv, DocFacts
<1>3. DOMAIN ingest' = Ingesters /\ \A d \in Ingesters : d # c => ingest'[d] = ingest[d]
  BY <1>1, <1>2
<1>4. /\ DOMAIN ingest'[c] = DOMAIN I /\ ingest'[c].rec = I.rec /\ ingest'[c].todo = Tail(I.todo)
      /\ ingest'[c].stored = I.stored /\ ingest'[c].state = I.state /\ ingest'[c].batch = I.batch
      /\ ingest'[c].body = I.body /\ ingest'[c].count = I.count
  BY <1>1, <1>2 DEF BatchFacts
<1>5. DocFacts'
  BY <1>1, <1>2 DEF IngestInv, DocFacts
<1>6. I.rec # NoRecord
  BY <1>1, <1>2 DEF BatchFacts
<1>7. /\ Head(I.todo) \in Made /\ Tail(I.todo) \in Seq(Made)
      /\ ToSet(I.todo) = {Head(I.todo)} \cup ToSet(Tail(I.todo))
  BY <1>1, <1>2, HeadTail DEF KeyFacts
<1>8. BatchFacts(ingest[c])'
  <2>1. (FirstOf(ingest[c], ingest[c].count))' = FirstOf(I, I.count)
    BY <1>4 DEF FirstOf
  <2>2. versions' = versions /\ ingested' = ingested
    BY <1>1
  <2> HIDE DEF I
  <2> QED BY <1>2, <1>4, <1>6, <2>1, <2>2 DEF BatchFacts
<1>9. KeyFacts(ingest[c])'
  <2>1. Made' = Made
    BY <1>1 DEF Made
  <2>2. KeysOf(I.rec) \subseteq index' \cup missing' \cup ToSet(Tail(I.todo))
    BY <1>1, <1>2, <1>6, <1>7 DEF KeyFacts
  <2> QED BY <1>4, <1>7, <2>1, <2>2 DEF KeyFacts
<1>10. index' \subseteq Made \cup clientKeys /\ clientKeys \subseteq KVKeys
  BY <1>1, <1>7 DEF IngestInv
<1>11. index \subseteq index' /\ missing \subseteq missing' /\ versions \subseteq versions' /\ ingested \subseteq ingested' /\ ingested' \ ingested = {}
  BY <1>1
<1> QED BY <1>3, <1>5, <1>8, <1>9, <1>10, <1>11, IngestStepInv

LEMMA IngestReturnStep == ASSUME IngestInv, NEW c \in Ingesters, IngestReturn(c), UNCHANGED clientKeys PROVE IngestInv'
<1> DEFINE I == ingest[c]
<1>1. /\ I.rec # NoRecord /\ I.todo = <<>>
      /\ ingested' = ingested \cup {I.rec}
      /\ ingest' = [ingest EXCEPT ![c].rec = NoRecord, ![c].count = @ + 1, ![c].batch = Tail(@)]
      /\ UNCHANGED <<docs, index, puts, versions, missing, clientKeys>>
  BY DEF IngestReturn
<1>2. BatchFacts(I) /\ KeyFacts(I) /\ DOMAIN ingest = Ingesters
  BY DEF IngestInv
<1>3. DOMAIN ingest' = Ingesters /\ \A d \in Ingesters : d # c => ingest'[d] = ingest[d]
  BY <1>1, <1>2
<1>4. /\ DOMAIN ingest'[c] = DOMAIN I /\ ingest'[c].rec = NoRecord /\ ingest'[c].todo = <<>>
      /\ ingest'[c].stored = I.stored /\ ingest'[c].state = I.state /\ ingest'[c].batch = Tail(I.batch)
      /\ ingest'[c].body = I.body /\ ingest'[c].count = I.count + 1
  BY <1>1, <1>2 DEF BatchFacts
<1>5. DocFacts'
  BY <1>1, <1>2 DEF IngestInv, DocFacts, BatchFacts
<1>6. /\ I.state = "running" /\ I.batch # <<>> /\ I.rec = Validated(I.batch[1])
      /\ I.batch \in Seq(Records) /\ I.body \in Bodies /\ I.count \in Nat
      /\ Len(I.batch) + I.count = Len(Readable(I.body))
      /\ \A i \in 1..Len(I.batch) : I.batch[i] = Readable(I.body)[I.count + i]
  BY <1>1, <1>2 DEF BatchFacts
<1>7. /\ Tail(I.batch) \in Seq(Records) /\ Len(Tail(I.batch)) = Len(I.batch) - 1 /\ Len(I.batch) \in Nat \ {0}
      /\ \A i \in 1..Len(Tail(I.batch)) : Tail(I.batch)[i] = I.batch[i + 1]
  BY <1>6, HeadTail
<1>8. I.rec = Validated(I.body.recs[I.count + 1])
  <2>1. Readable(I.body)[I.count + 1] = I.body.recs[I.count + 1]
    <3>1. I.count + 1 \in 1..Len(Readable(I.body))
      BY <1>6, <1>7
    <3> QED BY <3>1, <1>6, ReadableFacts
  <2>2. I.batch[1] = Readable(I.body)[I.count + 1]
    BY <1>6, <1>7
  <2> QED BY <2>1, <2>2, <1>6
<1>9. FirstOf(I, I.count + 1) = FirstOf(I, I.count) \cup {I.rec}
  <2>1. 1..(I.count + 1) = (1..I.count) \cup {I.count + 1}
    BY <1>6
  <2> HIDE DEF I
  <2> QED BY <2>1, <1>8 DEF FirstOf
<1>10. (FirstOf(ingest[c], ingest[c].count))' = FirstOf(I, I.count) \cup {I.rec}
  BY <1>4, <1>9 DEF FirstOf
<1>11. /\ Len(Tail(I.batch)) + (I.count + 1) = Len(Readable(I.body))
       /\ \A i \in 1..Len(Tail(I.batch)) : Tail(I.batch)[i] = Readable(I.body)[I.count + 1 + i]
       /\ I.count + 1 \in 0..Len(Readable(I.body))
  <2> DEFINE n == Len(I.batch)
             k == I.count
             m == Len(Readable(I.body))
  <2>2. n \in Nat \ {0} /\ k \in Nat /\ n + k = m /\ Len(Tail(I.batch)) = n - 1
    BY <1>6, <1>7
  <2>3. (n - 1) + (k + 1) = m /\ k + 1 \in 0..m /\ \A i \in 1..(n - 1) : i + 1 \in 1..n /\ k + (i + 1) = k + 1 + i
    <3> HIDE DEF n, k, m
    <3> QED BY <2>2
  <2>1. ASSUME NEW i \in 1..Len(Tail(I.batch)) PROVE Tail(I.batch)[i] = Readable(I.body)[I.count + 1 + i]
    <3>1. i + 1 \in 1..Len(I.batch) /\ I.count + (i + 1) = I.count + 1 + i
      BY <2>2, <2>3
    <3>2. I.batch[i + 1] = Readable(I.body)[I.count + (i + 1)]
      BY <3>1, <1>6
    <3> QED BY <3>1, <3>2, <1>7
  <2> QED BY <2>1, <2>2, <2>3
<1>12. BatchFacts(ingest[c])'
  <2>1. I.stored = FirstOf(I, I.count) \cup {I.rec} /\ FirstOf(I, I.count) \subseteq ingested
    BY <1>1, <1>2, <1>6 DEF BatchFacts
  <2>2. DOMAIN I = {"state", "body", "batch", "rec", "todo", "count", "stored"}
    BY <1>2 DEF BatchFacts
  <2>3. PICK J : J = ingest'[c]
    OBVIOUS
  <2>4. /\ DOMAIN J = DOMAIN I /\ J.rec = NoRecord /\ J.todo = <<>> /\ J.stored = FirstOf(J, J.count)'
        /\ J.state = "running" /\ J.batch = Tail(I.batch) /\ J.body = I.body /\ J.count = I.count + 1
        /\ FirstOf(J, J.count)' \subseteq ingested'
    BY <1>1, <1>4, <1>6, <1>10, <2>1, <2>3
  <2> HIDE DEF I
  <2>5. BatchFacts(J)'
    BY <1>6, <1>7, <1>11, <2>2, <2>4 DEF BatchFacts
  <2> QED BY <2>3, <2>5 DEF BatchFacts
<1>13. KeyFacts(ingest[c])'
  BY <1>4 DEF KeyFacts
<1>14. KeysOf(I.rec) \subseteq index' \cup missing'
  BY <1>1, <1>2 DEF KeyFacts, ToSet
<1>15. index' \subseteq Made \cup clientKeys /\ clientKeys \subseteq KVKeys /\ ingested' \ ingested \subseteq {I.rec} /\ ingested \subseteq ingested'
  BY <1>1 DEF IngestInv
<1> QED BY <1>1, <1>3, <1>5, <1>12, <1>13, <1>14, <1>15, IngestStepInv

LEMMA BatchReturnStep == ASSUME IngestInv, NEW c \in Ingesters, BatchReturn(c), UNCHANGED clientKeys PROVE IngestInv'
<1> DEFINE I == ingest[c]
<1>1. /\ I.state = "running" /\ I.batch = <<>> /\ ingest' = [ingest EXCEPT ![c].state = "ok"]
      /\ UNCHANGED <<docs, index, puts, versions, ingested, missing, clientKeys>>
  BY DEF BatchReturn
<1>2. BatchFacts(I) /\ KeyFacts(I) /\ DOMAIN ingest = Ingesters
  BY DEF IngestInv
<1>3. DOMAIN ingest' = Ingesters /\ \A d \in Ingesters : d # c => ingest'[d] = ingest[d]
  BY <1>1, <1>2
<1>4. /\ DOMAIN ingest'[c] = DOMAIN I /\ ingest'[c].rec = I.rec /\ ingest'[c].todo = I.todo
      /\ ingest'[c].stored = I.stored /\ ingest'[c].state = "ok"
      /\ ingest'[c].body = I.body /\ ingest'[c].count = I.count
  BY <1>1, <1>2 DEF BatchFacts
<1>5. DocFacts'
  BY <1>1 DEF IngestInv, DocFacts
<1>6. I.rec = NoRecord /\ I.count = Len(Readable(I.body))
  BY <1>1, <1>2 DEF BatchFacts
<1>7. BatchFacts(ingest[c])'
  <2>1. (FirstOf(ingest[c], ingest[c].count))' = FirstOf(I, I.count)
    BY <1>4 DEF FirstOf
  <2> HIDE DEF I
  <2> QED BY <1>1, <1>2, <1>4, <1>6, <2>1 DEF BatchFacts
<1>8. KeyFacts(ingest[c])'
  BY <1>1, <1>2, <1>4 DEF KeyFacts, Made
<1>9. index' \subseteq Made \cup clientKeys /\ clientKeys \subseteq KVKeys
  BY <1>1 DEF IngestInv
<1> QED BY <1>1, <1>3, <1>5, <1>7, <1>8, <1>9, IngestStepInv

\* Searchers only read.
LEMMA QuietIngest ==
    ASSUME IngestInv, UNCHANGED <<docs, index, ingest, puts, versions, ingested, missing, clientKeys>>
    PROVE  IngestInv'
<1>1. DocFacts' /\ Made' = Made
  BY DEF IngestInv, DocFacts, Made
<1>2. \A d \in Ingesters : (BatchFacts(ingest[d]) /\ KeyFacts(ingest[d]))'
  BY OthersKeep
<1> QED BY <1>1, <1>2 DEF IngestInv

LEMMA SearchersRead ==
    ASSUME NEW s \in Searchers, SearchStep(s)
    PROVE  UNCHANGED <<docs, index, ingest, puts, versions, ingested, missing>>
<1>1. CASE \E q \in Queries, kind \in {"search", "histogram"} : SearchCall(s, q, kind)
  BY <1>1 DEF SearchCall, Begin
<1>2. CASE NextPage(s)
  BY <1>2 DEF NextPage, Begin
<1>3. CASE ScanTerm(s) \/ Fetch(s) \/ SearchReturn(s)
  BY <1>3 DEF ScanTerm, Fetch, SearchReturn
<1> QED BY <1>1, <1>2, <1>3 DEF SearchStep

LEMMA NextKeepsIngest == ASSUME IngestInv, [Next]_apiVars PROVE IngestInv'
<1>1. CASE UNCHANGED apiVars
  BY <1>1, QuietIngest DEF apiVars, searchVars
<1>2. ASSUME NEW c \in Ingesters, HandleIngest(c) \/ HandleKV(c) PROVE IngestInv'
  BY <1>2, HandleIngestStep, HandleKVStep
<1>3. ASSUME NEW c \in Ingesters, IngestStep(c), UNCHANGED clientKeys PROVE IngestInv'
  BY <1>3, IngestDocStep, IngestFailsStep, IngestKeyStep, IngestReturnStep, BatchReturnStep DEF IngestStep
<1>4. ASSUME NEW s \in Searchers, SearchStep(s), UNCHANGED clientKeys PROVE IngestInv'
  BY <1>4, QuietIngest, SearchersRead
<1> QED BY <1>1, <1>2, <1>3, <1>4 DEF Next
-----------------------------------------------------------------------------
\* A term's index leads to records that have the term, at a time that is asked for.
LEMMA ScanLeads ==
    ASSUME IngestInv, NEW kind, NEW val, NEW q, NEW i \in ScanPrefixIDs(kind, val, q)
    PROVE  i \in Ids /\ (kind = "term" => Announced(i, val, q))
<1>1. PICK k \in index : i = LastPart[k.id] /\ k.kind = kind /\ k.val = val /\ From(q) <= k.ts /\ k.ts <= To(q)
  BY DEF ScanPrefixIDs
<1>0. CASE k \in clientKeys
  <2>1. PICK r \in Records : k.id = r.id
    BY <1>0, ApiAssumption DEF IngestInv
  <2> QED BY <2>1, <1>0, <1>1 DEF Ids, Announced
<1> SUFFICES ASSUME k \notin clientKeys PROVE i \in Ids /\ (kind = "term" => Announced(i, val, q))
  BY <1>0
<1>2. PICK v \in versions : k \in KeysOf(v)
  BY DEF IngestInv, Made
<1>3. v \in Storable
  BY DEF IngestInv, DocFacts
<1>4. /\ LastPart[v.id] \in Ids
      /\ KeysOf(v) = {IndexKey("time", "", v), IndexKey("lvl", v.lvl, v), IndexKey("svc", v.svc, v)}
                     \cup {IndexKey("term", t, v) : t \in Tokens[v.msg]}
                     \cup {IndexKey("fld", f, v) : f \in v.fields}
  BY <1>3, ValidatedFacts, IndexKeysAre
<1>5. /\ k.id = v.id /\ k.ts = v.ts
      /\ k.kind = "term" => k.val \in Tokens[v.msg]
  <2>1. CASE k \in {IndexKey("time", "", v), IndexKey("lvl", v.lvl, v), IndexKey("svc", v.svc, v)}
    <3>1. \E x : k \in {IndexKey("time", x, v), IndexKey("lvl", x, v), IndexKey("svc", x, v)}
      BY <2>1
    <3>2. k.id = v.id /\ k.ts = v.ts /\ k.kind \in {"time", "lvl", "svc"}
      BY <3>1 DEF IndexKey
    <3> QED BY <3>2
  <2>2. CASE k \in {IndexKey("term", t, v) : t \in Tokens[v.msg]}
    <3>1. PICK t \in Tokens[v.msg] : k = IndexKey("term", t, v)
      BY <2>2
    <3> QED BY <3>1 DEF IndexKey
  <2>3. CASE k \in {IndexKey("fld", f, v) : f \in v.fields}
    <3>1. PICK f \in v.fields : k = IndexKey("fld", f, v)
      BY <2>3
    <3> QED BY <3>1 DEF IndexKey
  <2> QED BY <2>1, <2>2, <2>3, <1>2, <1>4
<1> QED BY <1>1, <1>4, <1>5 DEF Announced

\* A record whose keys are in the index is a candidate of each of them.
LEMMA ScanFinds ==
    ASSUME NEW r, NEW kind, NEW val, NEW q, IndexKey(kind, val, r) \in index,
           From(q) <= r.ts, r.ts <= To(q), LastPart[r.id] = r.id
    PROVE  r.id \in ScanPrefixIDs(kind, val, q)
<1> DEFINE k == IndexKey(kind, val, r)
<1>1. k.kind = kind /\ k.val = val /\ k.ts = r.ts /\ k.id = r.id
  BY DEF IndexKey
<1> HIDE DEF k
<1>2. k \in index
  BY DEF k
<1> QED BY <1>1, <1>2 DEF ScanPrefixIDs

\* The keys that lead to an ingested record are in the index, unless they were lost.
LEMMA IngestedKeys ==
    ASSUME IngestInv, NEW r \in ingested, NEW q, IsOwed(r, q)
    PROVE  KeysFor(r, q) \subseteq index
<1>1. r \in Storable /\ KeysOf(r) \subseteq index \cup missing
  BY DEF IngestInv, DocFacts
<1>2. KeysOf(r) = {IndexKey("time", "", r), IndexKey("lvl", r.lvl, r), IndexKey("svc", r.svc, r)}
                  \cup {IndexKey("term", t, r) : t \in Tokens[r.msg]}
                  \cup {IndexKey("fld", f, r) : f \in r.fields}
  BY <1>1, ValidatedFacts, IndexKeysAre
<1>3. Tokens[q.text] \subseteq Tokens[r.msg] /\ KeysFor(r, q) \cap missing = {}
  BY DEF IsOwed, IsAskedFor
<1>4. KeysFor(r, q) \subseteq KeysOf(r)
  BY <1>2, <1>3 DEF KeysFor
<1> QED BY <1>1, <1>3, <1>4

\* A search that begins.
LEMMA BeginFacts ==
    ASSUME IngestInv, NEW q \in Queries, NEW kind, NEW offset, NEW shown, NEW before, NEW quiet,
           \A r \in before : r \in ingested /\ docs[r.id] = r,
           NEW S, S = Searching(q, kind, offset, shown, before, quiet)
    PROVE  HitFacts(S) /\ FindFacts(S)
<1> DEFINE terms == Tokens[q.text]
<1>1. /\ S.stage = IF terms # {} THEN "terms" ELSE "fetch"
      /\ S.q = q /\ S.left = terms /\ S.logs = {} /\ S.before = before
      /\ DOMAIN S = {"stage", "q", "kind", "offset", "left", "ids", "logs", "page", "buckets",
                     "shown", "before", "quiet"}
      /\ S.ids = IF terms # {} THEN {}
                 ELSE IF q.lvl # "" THEN ScanPrefixIDs("lvl", Upper[q.lvl], q)
                 ELSE IF q.svc # "" THEN ScanPrefixIDs("svc", q.svc, q)
                 ELSE ScanPrefixIDs("time", "", q)
  BY DEF Searching
<1>2. S.ids \subseteq Ids
  <2>1. ScanPrefixIDs("lvl", Upper[q.lvl], q) \subseteq Ids
    BY ScanLeads
  <2>2. ScanPrefixIDs("svc", q.svc, q) \subseteq Ids
    BY ScanLeads
  <2>3. ScanPrefixIDs("time", "", q) \subseteq Ids
    BY ScanLeads
  <2> QED BY <2>1, <2>2, <2>3, <1>1
<1>3. HitFacts(S)
  BY <1>1, <1>2 DEF HitFacts
<1>4. ASSUME NEW r \in before, IsOwed(r, q), terms = {}
      PROVE  r.id \in S.ids
  <2>1. /\ From(q) <= r.ts /\ r.ts <= To(q)
        /\ q.lvl # "" => r.lvl = Upper[q.lvl]
        /\ q.lvl = "" /\ q.svc # "" => r.svc = q.svc
        /\ LastPart[r.id] = r.id
    BY <1>4 DEF IsOwed, IsAskedFor, PassesFilters
  <2>2. KeysFor(r, q) \subseteq index
    BY <1>4, IngestedKeys
  <2>3. CASE q.lvl # ""
    <3>1. r.id \in ScanPrefixIDs("lvl", Upper[q.lvl], q)
      BY <2>1, <2>2, <2>3, <1>4, ScanFinds DEF KeysFor
    <3> QED BY <3>1, <2>3, <1>1, <1>4
  <2>4. CASE q.lvl = "" /\ q.svc # ""
    <3>1. r.id \in ScanPrefixIDs("svc", q.svc, q)
      BY <2>1, <2>2, <2>4, <1>4, ScanFinds DEF KeysFor
    <3> QED BY <3>1, <2>4, <1>1, <1>4
  <2>5. CASE q.lvl = "" /\ q.svc = ""
    <3>1. r.id \in ScanPrefixIDs("time", "", q)
      BY <2>1, <2>2, <2>5, <1>4, ScanFinds DEF KeysFor
    <3> QED BY <3>1, <2>5, <1>1, <1>4
  <2> QED BY <2>3, <2>4, <2>5
<1>5. FindFacts(S)
  BY <1>1, <1>4 DEF FindFacts
<1> QED BY <1>3, <1>5

\* A step of searcher s, to T.
LEMMA SearcherStep ==
    ASSUME SearchInv, NEW s \in Searchers, NEW T, search' = [search EXCEPT ![s] = T],
           HitFacts(T), FindFacts(T), UNCHANGED <<docs, puts, versions, ingested, missing, clientKeys>>
    PROVE  SearchInv'
<1>1. /\ DOMAIN search' = Searchers /\ search'[s] = T
      /\ \A d \in Searchers : d # s => search'[d] = search[d]
  BY DEF SearchInv
<1>2. \A d \in Searchers : HitFacts(search'[d]) /\ FindFacts(search'[d])
  BY <1>1 DEF SearchInv
<1>3. \A d \in Searchers : HitFacts(search'[d]) => HitFacts(search[d])'
  BY DEF HitFacts, Announced
<1>4. \A d \in Searchers : FindFacts(search'[d]) => FindFacts(search[d])'
  BY DEF FindFacts, IsOwed
<1> QED BY <1>1, <1>2, <1>3, <1>4 DEF SearchInv

LEMMA ScanTermStep == ASSUME IngestInv, SearchInv, NEW s \in Searchers, ScanTerm(s), UNCHANGED clientKeys PROVE SearchInv'
<1> DEFINE S == search[s]
           isFirst == S.left = Tokens[S.q.text]
<1>1. S.stage = "terms" /\ UNCHANGED <<docs, puts, versions, ingested, missing, clientKeys>>
  BY DEF ScanTerm
<1>2. PICK t \in S.left :
        LET found == ScanPrefixIDs("term", t, S.q)
            ids   == IF isFirst THEN found ELSE S.ids \cap found
        IN  search' = [search EXCEPT ![s] =
              [S EXCEPT !.ids = ids, !.left = @ \ {t},
                        !.stage = IF S.left = {t} \/ (~isFirst /\ ids = {}) THEN "fetch" ELSE "terms"]]
  BY DEF ScanTerm
<1> DEFINE found == ScanPrefixIDs("term", t, S.q)
           ids   == IF isFirst THEN found ELSE S.ids \cap found
           T     == [S EXCEPT !.ids = ids, !.left = @ \ {t},
                              !.stage = IF S.left = {t} \/ (~isFirst /\ ids = {}) THEN "fetch" ELSE "terms"]
<1>3. HitFacts(S) /\ FindFacts(S)
  BY DEF SearchInv
<1>4. /\ DOMAIN T = DOMAIN S /\ T.ids = ids /\ T.left = S.left \ {t}
      /\ T.stage = IF S.left = {t} \/ (~isFirst /\ ids = {}) THEN "fetch" ELSE "terms"
      /\ T.q = S.q /\ T.logs = S.logs /\ T.before = S.before
  BY <1>1, <1>3 DEF HitFacts
<1>5. search' = [search EXCEPT ![s] = T]
  BY <1>2
<1>6. \A i \in found : i \in Ids /\ Announced(i, t, S.q)
  BY ScanLeads
<1>7. /\ S.q \in Queries /\ S.left \subseteq Tokens[S.q.text] /\ t \in Tokens[S.q.text]
      /\ \A i \in S.ids : \A u \in Tokens[S.q.text] \ S.left : Announced(i, u, S.q)
      /\ \A r \in S.logs : /\ r \in versions /\ PassesFilters(r, S.q)
                          /\ \A u \in Tokens[S.q.text] : Announced(r.id, u, S.q)
  BY <1>1, <1>3 DEF HitFacts
<1>8. ASSUME NEW r \in S.before, IsOwed(r, S.q)
      PROVE  r.id \in ids
  <2>1. r \in ingested /\ (isFirst \/ r.id \in S.ids)
    BY <1>1, <1>3, <1>8 DEF FindFacts
  <2>2. From(S.q) <= r.ts /\ r.ts <= To(S.q) /\ LastPart[r.id] = r.id
    BY <1>8 DEF IsOwed, IsAskedFor, PassesFilters
  <2>3. IndexKey("term", t, r) \in index
    <3>1. KeysFor(r, S.q) \subseteq index
      BY <2>1, <1>8, IngestedKeys
    <3>2. IndexKey("term", t, r) \in KeysFor(r, S.q)
      BY <1>7 DEF KeysFor
    <3> QED BY <3>1, <3>2
  <2>4. r.id \in found
    BY <2>2, <2>3, <1>8, ScanFinds
  <2> QED BY <2>1, <2>4
<1> HIDE DEF found, T
<1>9. ids \subseteq Ids /\ \A i \in ids : \A u \in Tokens[S.q.text] \ (S.left \ {t}) : Announced(i, u, S.q)
  <2>1. ASSUME NEW i \in ids, NEW u \in Tokens[S.q.text] \ (S.left \ {t}) PROVE Announced(i, u, S.q)
    <3>1. i \in found
      OBVIOUS
    <3>2. CASE u = t
      BY <3>1, <3>2, <1>6
    <3>3. CASE u # t
      <4>1. u \in Tokens[S.q.text] \ S.left /\ ~isFirst
        BY <3>3
      <4> QED BY <4>1, <1>7
    <3> QED BY <3>2, <3>3
  <2>2. ids \subseteq Ids
    BY <1>6
  <2> QED BY <2>1, <2>2
<1> HIDE DEF ids, isFirst, S
<1>10. HitFacts(T)
  BY <1>1, <1>3, <1>4, <1>7, <1>9 DEF HitFacts
<1>11. FindFacts(T)
  <2>1. \A r \in S.before : IsOwed(r, S.q) => r.id \in ids
    BY <1>8
  <2>2. \A r \in S.before : r \in ingested /\ docs[r.id] = r
    BY <1>3 DEF FindFacts
  <2> QED BY <1>4, <2>1, <2>2 DEF FindFacts
<1> QED BY <1>1, <1>5, <1>10, <1>11, SearcherStep

LEMMA FetchStep == ASSUME IngestInv, SearchInv, NEW s \in Searchers, Fetch(s), UNCHANGED clientKeys PROVE SearchInv'
<1> DEFINE S == search[s]
<1>1. S.stage = "fetch" /\ UNCHANGED <<docs, puts, versions, ingested, missing, clientKeys>>
  BY DEF Fetch
<1>2. PICK i \in S.ids :
        search' = [search EXCEPT ![s] =
          [S EXCEPT !.ids = @ \ {i},
                    !.logs = IF docs[i] \notin {NoRecord, Garbage} /\ PassesFilters(docs[i], S.q)
                             THEN @ \cup {docs[i]} ELSE @]]
  BY DEF Fetch
<1> DEFINE logs == IF docs[i] \notin {NoRecord, Garbage} /\ PassesFilters(docs[i], S.q)
                   THEN S.logs \cup {docs[i]} ELSE S.logs
           T == [S EXCEPT !.ids = @ \ {i}, !.logs = logs]
<1>3. HitFacts(S) /\ FindFacts(S)
  BY DEF SearchInv
<1>4. /\ DOMAIN T = DOMAIN S /\ T.ids = S.ids \ {i} /\ T.logs = logs /\ T.left = S.left
      /\ T.stage = "fetch" /\ T.q = S.q /\ T.before = S.before
  BY <1>1, <1>3 DEF HitFacts
<1>5. search' = [search EXCEPT ![s] = T]
  BY <1>2, <1>1, <1>3 DEF HitFacts
<1>6. /\ S.q \in Queries /\ S.left = {} /\ S.ids \subseteq Ids
      /\ \A j \in S.ids : \A u \in Tokens[S.q.text] : Announced(j, u, S.q)
      /\ \A r \in S.logs : /\ r \in versions /\ PassesFilters(r, S.q)
                          /\ \A u \in Tokens[S.q.text] : Announced(r.id, u, S.q)
  BY <1>1, <1>3 DEF HitFacts
<1>7. docs[i] \notin {NoRecord, Garbage} => docs[i] \in versions /\ docs[i].id = i
  BY <1>6 DEF IngestInv, DocFacts
<1>8. \A r \in logs : /\ r \in versions /\ PassesFilters(r, S.q)
                     /\ \A u \in Tokens[S.q.text] : Announced(r.id, u, S.q)
  BY <1>6, <1>7
<1>9. ASSUME NEW r \in S.before, IsOwed(r, S.q)
      PROVE  r.id \in S.ids \ {i} \/ r \in logs
  <2>1. r \in ingested /\ docs[r.id] = r /\ (r.id \in S.ids \/ r \in S.logs)
    BY <1>1, <1>3, <1>9 DEF FindFacts
  <2>2. r \notin {NoRecord, Garbage}
    BY <2>1, ValidatedFacts DEF IngestInv, DocFacts
  <2>3. PassesFilters(r, S.q)
    BY <1>9 DEF IsOwed, IsAskedFor
  <2> QED BY <2>1, <2>2, <2>3
<1> HIDE DEF T, logs, S
<1>10. HitFacts(T)
  BY <1>1, <1>3, <1>4, <1>6, <1>8 DEF HitFacts
<1>11. FindFacts(T)
  <2>1. \A r \in S.before : IsOwed(r, S.q) => r.id \in S.ids \ {i} \/ r \in logs
    BY <1>9
  <2>2. \A r \in S.before : r \in ingested /\ docs[r.id] = r
    BY <1>3 DEF FindFacts
  <2> QED BY <1>4, <2>1, <2>2 DEF FindFacts
<1> QED BY <1>1, <1>5, <1>10, <1>11, SearcherStep

LEMMA SearchReturnStep == ASSUME IngestInv, SearchInv, NEW s \in Searchers, SearchReturn(s), UNCHANGED clientKeys PROVE SearchInv'
<1> DEFINE S == search[s]
<1>1. S.stage = "fetch" /\ S.ids = {} /\ UNCHANGED <<docs, puts, versions, ingested, missing, clientKeys>>
  BY DEF SearchReturn
<1>2. PICK page, buckets :
        search' = [search EXCEPT ![s].stage = "done", ![s].page = page, ![s].buckets = buckets]
  BY DEF SearchReturn
<1> DEFINE T == [S EXCEPT !.stage = "done", !.page = page, !.buckets = buckets]
<1>3. HitFacts(S) /\ FindFacts(S)
  BY DEF SearchInv
<1>4. /\ DOMAIN T = DOMAIN S /\ T.ids = S.ids /\ T.logs = S.logs /\ T.left = S.left
      /\ T.stage = "done" /\ T.q = S.q /\ T.before = S.before
  BY <1>1, <1>3 DEF HitFacts
<1>5. search' = [search EXCEPT ![s] = T]
  BY <1>2
<1> HIDE DEF T, S
<1>6. HitFacts(T)
  BY <1>1, <1>3, <1>4 DEF HitFacts
<1>7. FindFacts(T)
  BY <1>1, <1>3, <1>4 DEF FindFacts
<1> QED BY <1>1, <1>5, <1>6, <1>7, SearcherStep

LEMMA BeginSteps ==
    ASSUME IngestInv, SearchInv, NEW s \in Searchers, UNCHANGED clientKeys,
           NextPage(s) \/ \E q \in Queries, kind \in {"search", "histogram"} : SearchCall(s, q, kind)
    PROVE  SearchInv'
<1>1. ASSUME NEW q \in Queries, NEW kind, SearchCall(s, q, kind) PROVE SearchInv'
  <2> DEFINE T == Searching(q, kind, 0, <<>>, {r \in ingested : docs[r.id] = r}, TRUE)
  <2>1. search' = [search EXCEPT ![s] = T] /\ UNCHANGED <<docs, puts, versions, ingested, missing, clientKeys>>
    BY <1>1 DEF SearchCall, Begin
  <2>2. HitFacts(T) /\ FindFacts(T)
    BY BeginFacts
  <2> HIDE DEF T
  <2> QED BY <2>1, <2>2, SearcherStep
<1>2. CASE NextPage(s)
  <2> DEFINE S == search[s]
             T == Searching(S.q, S.kind, S.offset + Limit(S), S.shown \o S.page, S.before, S.quiet)
  <2>1. /\ search' = [search EXCEPT ![s] = T] /\ UNCHANGED <<docs, puts, versions, ingested, missing, clientKeys>>
        /\ S.stage = "done"
    BY <1>2 DEF NextPage, Begin
  <2>2. S.q \in Queries /\ \A r \in S.before : r \in ingested /\ docs[r.id] = r
    BY <2>1 DEF SearchInv, HitFacts, FindFacts
  <2>3. HitFacts(T) /\ FindFacts(T)
    <3> HIDE DEF S
    <3> QED BY <2>2, BeginFacts
  <2> HIDE DEF T
  <2> QED BY <2>1, <2>3, SearcherStep
<1> QED BY <1>1, <1>2
-----------------------------------------------------------------------------
\* What a searcher has in hand stays good while others write: records that are
\* overwritten under it leave what it must find.
Undisturbed(S, T) ==
    /\ DOMAIN T = DOMAIN S /\ T.stage = S.stage /\ T.before \subseteq S.before
    /\ S.stage # "none" => T.q = S.q /\ T.left = S.left /\ T.ids = S.ids /\ T.logs = S.logs

LEMMA WriterKeeps ==
    ASSUME SearchInv, versions \subseteq versions', ingested \subseteq ingested', missing \subseteq missing',
           clientKeys \subseteq clientKeys',
           DOMAIN search' = Searchers,
           \A s \in Searchers : /\ Undisturbed(search[s], search'[s])
                                /\ \A r \in search'[s].before : docs'[r.id] = r
    PROVE  SearchInv'
<1> SUFFICES ASSUME NEW s \in Searchers PROVE HitFacts(search[s])' /\ FindFacts(search[s])'
  BY DEF SearchInv
<1> SUFFICES ASSUME NEW CONSTANT T, T = search'[s] PROVE HitFacts(search[s])' /\ FindFacts(search[s])'
  OBVIOUS
<1> DEFINE S == search[s]
<1>1. Undisturbed(S, T) /\ HitFacts(S) /\ FindFacts(S) /\ \A r \in T.before : docs'[r.id] = r
  BY DEF SearchInv
<1>2. ASSUME NEW CONSTANT i, NEW CONSTANT t, NEW CONSTANT q, Announced(i, t, q) PROVE Announced(i, t, q)'
  BY <1>2 DEF Announced
<1> HIDE DEF S
<1>3. HitFacts(T)
  BY <1>1 DEF HitFacts, Undisturbed
<1>4. HitFacts(T)'
  BY <1>2, <1>3 DEF HitFacts
<1>8. ASSUME NEW CONSTANT r, NEW CONSTANT q, IsOwed(r, q)' PROVE IsOwed(r, q)
  BY <1>8 DEF IsOwed
<1>5. FindFacts(T)'
  BY <1>1, <1>8 DEF FindFacts, Undisturbed
<1>6. HitFacts(T)' => HitFacts(search[s])'
  BY DEF HitFacts, Announced
<1>7. FindFacts(T)' => FindFacts(search[s])'
  BY DEF FindFacts, IsOwed
<1> QED BY <1>4, <1>5, <1>6, <1>7

\* ... of the index only: nothing is overwritten.
LEMMA UnquietKeeps ==
    ASSUME SearchInv, versions \subseteq versions', ingested \subseteq ingested', missing \subseteq missing',
           clientKeys \subseteq clientKeys',
           docs' = docs, search' = search \/ search' = Unquiet
    PROVE  SearchInv'
<1>1. DOMAIN search' = Searchers
  BY DEF SearchInv, Unquiet
<1>2. ASSUME NEW s \in Searchers
      PROVE  Undisturbed(search[s], search'[s]) /\ \A r \in search'[s].before : docs'[r.id] = r
  <2>1. HitFacts(search[s]) /\ FindFacts(search[s])
    BY DEF SearchInv
  <2>2. \/ search'[s] = search[s]
        \/ search'[s] = [search[s] EXCEPT !.quiet = FALSE]
    BY DEF Unquiet
  <2>3. Undisturbed(search[s], search'[s]) /\ search'[s].before = search[s].before
    BY <2>1, <2>2 DEF Undisturbed, HitFacts
  <2> QED BY <2>1, <2>3 DEF FindFacts
<1> QED BY <1>1, <1>2, WriterKeeps

\* ... of a document.
LEMMA DisturbedKeeps ==
    ASSUME SearchInv, NEW i \in DOMAIN docs, NEW what, docs' = [docs EXCEPT ![i] = what],
           search' = Disturbed(i, what), versions \subseteq versions',
           UNCHANGED <<ingested, missing, clientKeys>>
    PROVE  SearchInv'
<1>1. DOMAIN search' = Searchers
  BY DEF Disturbed
<1>2. ASSUME NEW s \in Searchers
      PROVE  Undisturbed(search[s], search'[s]) /\ \A r \in search'[s].before : docs'[r.id] = r
  <2>1. HitFacts(search[s]) /\ FindFacts(search[s])
    BY DEF SearchInv
  <2>2. search'[s] = [search[s] EXCEPT !.quiet = FALSE, !.before = {b \in @ : b.id # i \/ b = what}]
    BY DEF Disturbed
  <2>3. search'[s].before = {b \in search[s].before : b.id # i \/ b = what}
    BY <2>1, <2>2 DEF HitFacts
  <2>4. Undisturbed(search[s], search'[s])
    BY <2>1, <2>2 DEF Undisturbed, HitFacts
  <2>5. ASSUME NEW r \in search'[s].before PROVE docs'[r.id] = r
    <3>1. r \in search[s].before /\ docs[r.id] = r /\ (r.id # i \/ r = what)
      BY <2>1, <2>3 DEF FindFacts
    <3> QED BY <3>1
  <2> QED BY <2>4, <2>5
<1> QED BY <1>1, <1>2, WriterKeeps

LEMMA IngestersKeep ==
    ASSUME IngestInv, SearchInv, NEW c \in Ingesters, IngestStep(c), UNCHANGED clientKeys
    PROVE  SearchInv'
<1>3. CASE IngestDoc(c)
  <2> DEFINE v == Next1(c)
  <2>1. /\ docs' = [docs EXCEPT ![v.id] = v] /\ search' = Disturbed(v.id, v)
        /\ versions \subseteq versions' /\ UNCHANGED <<ingested, missing>>
        /\ ingest[c].state = "running" /\ ingest[c].batch # <<>>
    BY <1>3 DEF IngestDoc, IsReady
  <2>2. v.id \in DOMAIN docs
    <3>1. ingest[c].batch \in Seq(Records)
      BY <2>1 DEF IngestInv, BatchFacts
    <3>2. v \in Storable
      BY <3>1, <2>1, HeadTail DEF Next1, Storable
    <3> HIDE DEF v
    <3> QED BY <3>2, ValidatedFacts DEF IngestInv, DocFacts
  <2> HIDE DEF v
  <2> QED BY <2>1, <2>2, DisturbedKeeps
<1>4. CASE IngestFails(c)
  <2>1. UNCHANGED <<docs, search, versions, ingested, missing>>
    BY <1>4 DEF IngestFails
  <2> QED BY <2>1, UnquietKeeps
<1>5. CASE IngestKey(c)
  <2>1. search' = Unquiet /\ UNCHANGED <<docs, versions, ingested>> /\ missing \subseteq missing'
    BY <1>5 DEF IngestKey
  <2> QED BY <2>1, UnquietKeeps
<1>6. CASE IngestReturn(c)
  <2>1. UNCHANGED <<docs, search, versions, missing>> /\ ingested \subseteq ingested'
    BY <1>6 DEF IngestReturn
  <2> QED BY <2>1, UnquietKeeps
<1>7. CASE BatchReturn(c)
  BY <1>7, UnquietKeeps DEF BatchReturn
<1> QED BY <1>3, <1>4, <1>5, <1>6, <1>7 DEF IngestStep

LEMMA HandlersKeep ==
    ASSUME IngestInv, SearchInv, NEW c \in Ingesters, HandleIngest(c) \/ HandleKV(c)
    PROVE  SearchInv'
<1>1. CASE HandleIngest(c)
  BY <1>1, UnquietKeeps DEF HandleIngest, BatchCall
<1>2. ASSUME NEW i \in KVIds, NEW what, KVDoc(i, what), HandleKV(c) PROVE SearchInv'
  <2>1. /\ docs' = [docs EXCEPT ![i] = what] /\ search' = Disturbed(i, what)
        /\ UNCHANGED <<versions, ingested, missing, clientKeys>>
    BY <1>2 DEF HandleKV, KVDoc
  <2>2. i \in DOMAIN docs
    BY ApiAssumption DEF IngestInv, DocFacts
  <2> QED BY <2>1, <2>2, DisturbedKeeps
<1>3. ASSUME NEW k \in KVKeys, KVIndex(k), HandleKV(c) PROVE SearchInv'
  <2>1. /\ search' = Unquiet /\ UNCHANGED <<docs, versions, ingested>>
        /\ missing \subseteq missing' /\ clientKeys \subseteq clientKeys'
    BY <1>3 DEF HandleKV, KVIndex
  <2> QED BY <2>1, UnquietKeeps
<1> QED BY <1>1, <1>2, <1>3 DEF HandleKV

LEMMA InitSearchInv == Init => SearchInv
<1>1. HitFacts(NoSearch) /\ FindFacts(NoSearch)
  BY DEF NoSearch, HitFacts, FindFacts
<1> QED BY <1>1 DEF Init, SearchInit, SearchInv

LEMMA NextKeepsSearch == ASSUME IngestInv, SearchInv, [Next]_apiVars PROVE SearchInv'
<1>1. CASE UNCHANGED apiVars
  BY <1>1, UnquietKeeps DEF apiVars, searchVars
<1>2. ASSUME NEW s \in Searchers, SearchStep(s), UNCHANGED clientKeys PROVE SearchInv'
  BY <1>2, BeginSteps, ScanTermStep, FetchStep, SearchReturnStep DEF SearchStep
<1> QED BY <1>1, <1>2, IngestersKeep, HandlersKeep DEF Next
-----------------------------------------------------------------------------
\* The invariant holds in every state that clients, searches and failing Puts can
\* reach.
THEOREM ApiInvariance == Spec => []ApiInv
<1>1. Init => ApiInv
  BY InitIngestInv, InitSearchInv DEF ApiInv
<1>2. ApiInv /\ [Next]_apiVars => ApiInv'
  BY NextKeepsIngest, NextKeepsSearch DEF ApiInv
<1> QED BY <1>1, <1>2, PTL DEF Spec

\* What Search returns passes the query's filters as it stands, and every term of the
\* query is one of a message that was ingested under its id, or one whose key a client
\* has put (Engine.Search, which intersects terms in intersectTerms and filters
\* documents after it has got them).
THEOREM HitsAreMatches == Spec => []HitsMatch
<1>1. ApiInv => HitsMatch
  <2> SUFFICES ASSUME ApiInv, NEW s \in Done, NEW r \in search[s].logs
               PROVE  /\ r \in versions /\ PassesFilters(r, search[s].q)
                      /\ \A t \in Tokens[search[s].q.text] : Announced(r.id, t, search[s].q)
    BY DEF HitsMatch, Announced
  <2>1. HitFacts(search[s]) /\ search[s].stage = "done"
    BY DEF ApiInv, SearchInv, Done
  <2> QED BY <2>1 DEF HitFacts
<1> QED BY <1>1, ApiInvariance, PTL

\* A record whose Ingest had returned when the search began, and that nobody has
\* overwritten since, is found: no Put between the scans and the fetches of Search
\* can hide it, unless a key that the search goes by was lost, by a failed Put (of which
\* Engine.Ingest drops the error) or by handleKV.
THEOREM IngestedIsNeverMissed == Spec => []IngestedIsFound
<1>1. ApiInv => IngestedIsFound
  <2> SUFFICES ASSUME ApiInv, NEW s \in Done, NEW r \in search[s].before, IsOwed(r, search[s].q)
               PROVE  r \in search[s].logs
    BY DEF IngestedIsFound, Owed
  <2>1. FindFacts(search[s]) /\ search[s].stage = "done"
    BY DEF ApiInv, SearchInv, Done
  <2> QED BY <2>1 DEF FindFacts
<1> QED BY <1>1, ApiInvariance, PTL

\* The status a client gets for its batch is what was done with it (handleIngest and
\* Engine.IngestBatch): 200 for all records that could be read, 400 for none, 500 for
\* exactly those before the one that failed.
THEOREM AnswersAreTrue == Spec => []AnswersAreHonest
<1>1. ApiInv => AnswersAreHonest
  <2> SUFFICES ASSUME ApiInv, NEW c \in Ingesters
               PROVE  LET I == ingest[c]
                      IN  /\ Answer(c) = "OK" =>
                               /\ I.count = Len(Readable(I.body))
                               /\ I.stored = FirstOf(I, I.count) /\ I.stored \subseteq ingested
                          /\ Answer(c) = "Bad Request" => I.stored = {}
                          /\ Answer(c) = "Internal Server Error" =>
                               I.count < Len(I.body.recs) /\ I.stored = FirstOf(I, I.count)
    BY DEF AnswersAreHonest, FirstOf
  <2> DEFINE I == ingest[c]
  <2>1. BatchFacts(I)
    BY DEF ApiInv, IngestInv
  <2>2. /\ Answer(c) = "OK" => I.state = "ok"
        /\ Answer(c) = "Bad Request" => I.state = "refused"
        /\ Answer(c) = "Internal Server Error" => I.state = "failed"
    BY DEF Answer
  <2> HIDE DEF I
  <2>3. CASE I.state = "failed"
    <3>1. I.body \in Bodies /\ I.count \in 0..Len(Readable(I.body)) /\ I.count < Len(Readable(I.body))
      BY <2>1, <2>3 DEF BatchFacts
    <3>2. I.count < Len(I.body.recs)
      BY <3>1, ReadableFacts
    <3>3. I.stored = FirstOf(I, I.count)
      BY <2>1, <2>3 DEF BatchFacts
    <3> QED BY <3>2, <3>3, <2>2, <2>3 DEF I
  <2>4. CASE I.state # "failed"
    BY <2>1, <2>2, <2>4 DEF BatchFacts, I
  <2> QED BY <2>3, <2>4
<1> QED BY <1>1, ApiInvariance, PTL
-----------------------------------------------------------------------------
\* Grouping.  The logs of a bucket among the first n, and the buckets that they make.
InBucket(logs, n, b) == {i \in 1..n : BucketStart(logs[i]) = b}
LevelsIn(logs, n, b) == {logs[i].lvl : i \in InBucket(logs, n, b)}
OfLevel(logs, n, b, l) == {i \in InBucket(logs, n, b) : logs[i].lvl = l}
BucketOf(logs, n, b) ==
    [ts |-> b, count |-> Cardinality(InBucket(logs, n, b)),
     byLevel |-> [l \in LevelsIn(logs, n, b) |-> Cardinality(OfLevel(logs, n, b, l))]]
StartsOf(logs, n)  == {BucketStart(logs[i]) : i \in 1..n}
BucketsOf(logs, n) == {BucketOf(logs, n, b) : b \in StartsOf(logs, n)}

LEMMA CountsFinite ==
    ASSUME NEW logs, NEW n \in Nat, NEW b
    PROVE  IsFiniteSet(InBucket(logs, n, b)) /\ \A l : IsFiniteSet(OfLevel(logs, n, b, l))
<1>1. IsFiniteSet(1..n)
  BY FS_Interval
<1>2. InBucket(logs, n, b) \subseteq 1..n
  BY DEF InBucket
<1>3. IsFiniteSet(InBucket(logs, n, b))
  BY <1>1, <1>2, FS_Subset
<1>4. ASSUME NEW l PROVE IsFiniteSet(OfLevel(logs, n, b, l))
  <2>1. OfLevel(logs, n, b, l) \subseteq InBucket(logs, n, b)
    BY DEF OfLevel
  <2> QED BY <1>3, <2>1, FS_Subset
<1> QED BY <1>3, <1>4

\* What one more log changes: its own bucket, and no other.
OneMore(logs, n, start) ==
    /\ \A b : b # start => BucketOf(logs, n, b) = BucketOf(logs, n - 1, b)
    /\ StartsOf(logs, n) = StartsOf(logs, n - 1) \cup {start}
    /\ LevelsIn(logs, n, start) = LevelsIn(logs, n - 1, start) \cup {logs[n].lvl}
    /\ Cardinality(InBucket(logs, n, start)) = Cardinality(InBucket(logs, n - 1, start)) + 1
    /\ \A l : Cardinality(OfLevel(logs, n, start, l))
                = Cardinality(OfLevel(logs, n - 1, start, l)) + (IF l = logs[n].lvl THEN 1 ELSE 0)

LEMMA OneMoreLog ==
    ASSUME NEW logs, NEW n \in Nat \ {0}, NEW start, start = BucketStart(logs[n])
    PROVE  OneMore(logs, n, start)
<1>1. n - 1 \in Nat /\ 1..n = 1..(n - 1) \cup {n} /\ n \notin 1..(n - 1)
  OBVIOUS
<1>2. \A b : InBucket(logs, n, b) = InBucket(logs, n - 1, b) \cup (IF b = start THEN {n} ELSE {})
  BY <1>1 DEF InBucket
<1>3. \A l : OfLevel(logs, n, start, l)
               = OfLevel(logs, n - 1, start, l) \cup (IF l = logs[n].lvl THEN {n} ELSE {})
  BY <1>2 DEF OfLevel
<1>4. \A b : n \notin InBucket(logs, n - 1, b) /\ \A l : n \notin OfLevel(logs, n - 1, b, l)
  BY <1>1 DEF InBucket, OfLevel
<1>5. ASSUME NEW b, b # start PROVE BucketOf(logs, n, b) = BucketOf(logs, n - 1, b)
  <2>1. InBucket(logs, n, b) = InBucket(logs, n - 1, b)
    BY <1>2, <1>5
  <2> QED BY <2>1 DEF BucketOf, LevelsIn, OfLevel
<1>6. StartsOf(logs, n) = StartsOf(logs, n - 1) \cup {start}
  BY <1>1 DEF StartsOf
<1>7. LevelsIn(logs, n, start) = LevelsIn(logs, n - 1, start) \cup {logs[n].lvl}
  <2>1. InBucket(logs, n, start) = InBucket(logs, n - 1, start) \cup {n}
    BY <1>2
  <2> QED BY <2>1 DEF LevelsIn
<1>8. Cardinality(InBucket(logs, n, start)) = Cardinality(InBucket(logs, n - 1, start)) + 1
  <2>1. InBucket(logs, n, start) = InBucket(logs, n - 1, start) \cup {n}
    BY <1>2
  <2>2. IsFiniteSet(InBucket(logs, n - 1, start))
    BY <1>1, CountsFinite
  <2> QED BY <2>1, <2>2, <1>4, FS_AddElement
<1>9. ASSUME NEW l
      PROVE  Cardinality(OfLevel(logs, n, start, l))
               = Cardinality(OfLevel(logs, n - 1, start, l)) + (IF l = logs[n].lvl THEN 1 ELSE 0)
  <2>1. IsFiniteSet(OfLevel(logs, n - 1, start, l))
    BY <1>1, CountsFinite
  <2>2. Cardinality(OfLevel(logs, n - 1, start, l)) \in Nat
    BY <2>1, FS_CardinalityType
  <2>3. CASE l = logs[n].lvl
    <3>1. OfLevel(logs, n, start, l) = OfLevel(logs, n - 1, start, l) \cup {n}
      BY <1>3, <2>3
    <3>2. n \notin OfLevel(logs, n - 1, start, l)
      BY <1>4
    <3>3. Cardinality(OfLevel(logs, n, start, l)) = Cardinality(OfLevel(logs, n - 1, start, l)) + 1
      BY <3>1, <3>2, <2>1, FS_AddElement
    <3> QED BY <3>3, <2>3
  <2>4. CASE l # logs[n].lvl
    <3>1. OfLevel(logs, n, start, l) = OfLevel(logs, n - 1, start, l) \cup {}
      BY <1>3, <2>4
    <3> QED BY <3>1, <2>2, <2>4
  <2> QED BY <2>3, <2>4
<1> QED BY <1>5, <1>6, <1>7, <1>8, <1>9 DEF OneMore

\* The loop counts the next log in its bucket; one that is not there yet is as good as
\* one that is empty.
LEMMA AddToBucketIs ==
    ASSUME NEW logs, NEW n \in Nat \ {0}
    PROVE  AddToBucket(BucketsOf(logs, n - 1), logs[n]) = BucketsOf(logs, n)
<1> DEFINE start == BucketStart(logs[n])
           B     == BucketsOf(logs, n - 1)
           Old   == {b \in B : b.ts = start}
           b0    == IF Old = {} THEN NoBucket(start) ELSE CHOOSE x \in Old : TRUE
           new   == [ts |-> start, count |-> b0.count + 1,
                     byLevel |-> [l \in DOMAIN b0.byLevel \cup {logs[n].lvl} |->
                        (IF l \in DOMAIN b0.byLevel THEN b0.byLevel[l] ELSE 0)
                          + (IF l = logs[n].lvl THEN 1 ELSE 0)]]
<1>0. AddToBucket(B, logs[n]) = (B \ Old) \cup {new}
  BY DEF AddToBucket
<1>9. start = BucketStart(logs[n])
  OBVIOUS
<1> HIDE DEF start
<1>1. /\ \A b : b # start => BucketOf(logs, n, b) = BucketOf(logs, n - 1, b)
      /\ StartsOf(logs, n) = StartsOf(logs, n - 1) \cup {start}
      /\ LevelsIn(logs, n, start) = LevelsIn(logs, n - 1, start) \cup {logs[n].lvl}
      /\ Cardinality(InBucket(logs, n, start)) = Cardinality(InBucket(logs, n - 1, start)) + 1
      /\ \A l : Cardinality(OfLevel(logs, n, start, l))
                  = Cardinality(OfLevel(logs, n - 1, start, l)) + (IF l = logs[n].lvl THEN 1 ELSE 0)
  <2>1. OneMore(logs, n, start)
    BY <1>9, OneMoreLog
  <2> QED BY <2>1 DEF OneMore
<1>2. \A b, m : BucketOf(logs, m, b).ts = b
  BY DEF BucketOf
<1>3. Old = IF start \in StartsOf(logs, n - 1) THEN {BucketOf(logs, n - 1, start)} ELSE {}
  BY <1>2 DEF BucketsOf
<1>4. start \notin StartsOf(logs, n - 1) => InBucket(logs, n - 1, start) = {}
  BY DEF StartsOf, InBucket
<1>5. b0 = BucketOf(logs, n - 1, start)
  <2>1. CASE start \in StartsOf(logs, n - 1)
    <3> HIDE DEF Old
    <3> QED BY <2>1, <1>3
  <2>2. CASE start \notin StartsOf(logs, n - 1)
    <3>1. InBucket(logs, n - 1, start) = {} /\ LevelsIn(logs, n - 1, start) = {}
      BY <2>2, <1>4 DEF LevelsIn
    <3>2. BucketOf(logs, n - 1, start) = NoBucket(start)
      <4>1. Cardinality({}) = 0
        BY FS_EmptySet
      <4> DEFINE f == [l \in {} |-> 0]
                 g == [l \in LevelsIn(logs, n - 1, start) |-> Cardinality(OfLevel(logs, n - 1, start, l))]
      <4>2. f = g
        BY <3>1
      <4> HIDE DEF f, g
      <4> QED BY <3>1, <4>1, <4>2 DEF BucketOf, NoBucket, f, g
    <3> HIDE DEF Old
    <3> QED BY <2>2, <3>2, <1>3
  <2> QED BY <2>1, <2>2
<1> HIDE DEF b0
<1>6. new = BucketOf(logs, n, start)
  <2> DEFINE L0 == LevelsIn(logs, n - 1, start)
  <2>1. /\ b0.count = Cardinality(InBucket(logs, n - 1, start)) /\ DOMAIN b0.byLevel = L0
        /\ \A l \in L0 : b0.byLevel[l] = Cardinality(OfLevel(logs, n - 1, start, l))
    BY <1>5 DEF BucketOf
  <2>2. \A l : l \notin L0 => OfLevel(logs, n - 1, start, l) = {}
    BY DEF LevelsIn, OfLevel
  <2>3. Cardinality({}) = 0
    BY FS_EmptySet
  <2>4. \A l : (IF l \in L0 THEN b0.byLevel[l] ELSE 0) = Cardinality(OfLevel(logs, n - 1, start, l))
    BY <2>1, <2>2, <2>3
  <2> HIDE DEF L0
  <2>5. new.byLevel = [l \in L0 \cup {logs[n].lvl} |-> Cardinality(OfLevel(logs, n, start, l))]
    BY <2>1, <2>4, <1>1
  <2>6. L0 \cup {logs[n].lvl} = LevelsIn(logs, n, start)
    BY <1>1 DEF L0
  <2>7. b0.count + 1 = Cardinality(InBucket(logs, n, start))
    BY <2>1, <1>1
  <2> QED BY <2>5, <2>6, <2>7 DEF BucketOf
<1> HIDE DEF new
<1>7. B \ Old = {BucketOf(logs, n - 1, b) : b \in StartsOf(logs, n - 1) \ {start}}
  BY <1>2 DEF BucketsOf
<1>8. BucketsOf(logs, n) = {BucketOf(logs, n - 1, b) : b \in StartsOf(logs, n - 1) \ {start}}
                           \cup {BucketOf(logs, n, start)}
  BY <1>1 DEF BucketsOf
<1> QED BY <1>0, <1>6, <1>7, <1>8

\* AggregateGroups puts every log into the bucket of its time.
LEMMA GroupsAre ==
    ASSUME NEW logs, Len(logs) \in Nat
    PROVE  AggregateGroups(logs) = BucketsOf(logs, Len(logs))
<1> DEFINE N == Len(logs)
           G(n) == BucketsOf(logs, n)
           Sum(f, n) == IF n = 0 THEN {} ELSE AddToBucket(f[n - 1], logs[n])
           g == [n \in 0..N |-> G(n)]
           After == CHOOSE f : f = [n \in 0..N |-> Sum(f, n)]
           Wrong == {n \in 0..N : After[n] # G(n)}
<1>1. AggregateGroups(logs) = After[N]
  BY DEF AggregateGroups
<1>2. G(0) = {}
  <2>1. 1..0 = {}
    OBVIOUS
  <2> QED BY <2>1 DEF BucketsOf, StartsOf
<1>3. \A n \in 1..N : G(n) = AddToBucket(G(n - 1), logs[n])
  BY AddToBucketIs
<1> HIDE DEF N, G
<1>4. N \in Nat
  BY DEF N
<1>5. ASSUME NEW n \in 0..N PROVE g[n] = Sum(g, n)
  <2>1. CASE n = 0
    BY <2>1, <1>2, <1>4
  <2>2. CASE n # 0
    <3>1. n \in 1..N /\ n - 1 \in 0..N
      BY <2>2, <1>4
    <3> QED BY <3>1, <2>2, <1>3
  <2> QED BY <2>1, <2>2
<1>6. g = [n \in 0..N |-> Sum(g, n)]
  <2>1. g = [n \in 0..N |-> g[n]]
    OBVIOUS
  <2> HIDE DEF g, Sum
  <2> QED BY <2>1, <1>5
<1>7. After = [n \in 0..N |-> Sum(After, n)]
  <2> HIDE DEF g, Sum
  <2> QED BY <1>6
<1> HIDE DEF After, g
<1>8. \A n \in 0..N : After[n] = Sum(After, n)
  <2> HIDE DEF Sum
  <2> QED BY <1>7
<1>9. Wrong = {}
  <2> SUFFICES ASSUME Wrong # {} PROVE FALSE
    OBVIOUS
  <2>1. Wrong \in SUBSET Nat
    BY <1>4
  <2>2. PICK n \in Wrong : \A k \in Wrong : n <= k
    <3> HIDE DEF Wrong
    <3> QED BY <2>1, MinExists
  <2>3. n # 0
    BY <2>2, <1>2, <1>4, <1>8
  <2>4. n \in 1..N /\ n - 1 \in 0..N /\ n - 1 \notin Wrong
    <3>1. n \in 0..N /\ n - 1 \in Nat /\ ~(n <= n - 1)
      BY <2>3, <1>4
    <3>2. n - 1 \notin Wrong
      <4> HIDE DEF Wrong
      <4> QED BY <3>1, <2>2
    <3> QED BY <3>1, <3>2, <2>3, <1>4
  <2>5. After[n - 1] = G(n - 1) /\ After[n] = AddToBucket(After[n - 1], logs[n])
    BY <2>3, <2>4, <1>8
  <2>6. After[n] # G(n)
    BY <2>2
  <2> QED BY <2>4, <2>5, <2>6, <1>3
<1>10. N \in 0..N /\ N \notin Wrong
  BY <1>4, <1>9
<1> QED BY <1>1, <1>10 DEF N, G

\* A bucket has the times from its start to the next one's.
LEMMA BucketBounds ==
    ASSUME NEW a \in Nat, NEW b \in Nat, NEW w \in Nat \ {0}
    PROVE  LET start == (a \div w) * w
           IN  (b \div w) * w = start <=> start <= b /\ b < start + w
<1> DEFINE p == a \div w
           q == b \div w
<1>1. p \in Nat /\ q \in Nat /\ b = q * w + (b % w) /\ 0 <= b % w /\ b % w < w /\ b % w \in Nat
  OBVIOUS
<1> HIDE DEF p, q
<1>2. q * w <= b /\ b < q * w + w /\ q * w \in Nat /\ p * w \in Nat
  BY <1>1
<1>3. CASE q = p
  BY <1>2, <1>3 DEF p, q
<1>4. CASE q < p
  <2>1. PICK d \in Nat : p = q + 1 + d
    <3>1. p - q - 1 \in Nat /\ p = q + 1 + (p - q - 1)
      BY <1>1, <1>4
    <3> QED BY <3>1
  <2>2. p * w = q * w + w + d * w /\ d * w \in Nat
    BY <1>1, <2>1
  <2> QED BY <1>2, <2>2 DEF p, q
<1>5. CASE p < q
  <2>1. PICK d \in Nat : q = p + 1 + d
    <3>1. q - p - 1 \in Nat /\ q = p + 1 + (q - p - 1)
      BY <1>1, <1>5
    <3> QED BY <3>1
  <2>2. q * w = p * w + w + d * w /\ d * w \in Nat
    BY <1>1, <2>1
  <2> QED BY <1>2, <2>2 DEF p, q
<1> QED BY <1>1, <1>3, <1>4, <1>5

\* Different logs are counted once each.
LEMMA ImageOfDistinct ==
    ASSUME NEW logs, NEW I, IsFiniteSet(I), \A i, j \in I : i # j => logs[i] # logs[j]
    PROVE  Cardinality({logs[i] : i \in I}) = Cardinality(I)
<1> DEFINE T == {logs[i] : i \in I}
           f == [i \in I |-> logs[i]]
<1>1. f \in Surjection(I, T)
  BY DEF Surjection
<1>2. f \in Injection(I, T)
  BY DEF Injection, IsInjective
<1> HIDE DEF f, T
<1>3. Cardinality(T) = Cardinality(I)
  BY <1>1, <1>2, FS_Surjection
<1> QED BY <1>3 DEF T

\* The logs whose time is in the bucket that starts at b.
LogsIn(logs, b) == {r \in ToSet(logs) : b <= r.ts /\ r.ts < b + Interval}

DistinctLogs(logs) ==
    /\ logs \in Seq(Storable)
    /\ \A i, j \in 1..Len(logs) : i # j => logs[i] # logs[j]

LEMMA StorableTimes == \A r \in Storable : r.ts \in Nat
<1> SUFFICES ASSUME NEW r \in Storable PROVE r.ts \in Nat
  OBVIOUS
<1>1. r.ts \in 1..MaxTime
  BY ValidatedFacts
<1> QED BY <1>1

LEMMA BucketHas ==
    ASSUME NEW logs, DistinctLogs(logs), NEW start \in StartsOf(logs, Len(logs))
    PROVE  /\ LogsIn(logs, start) = {r \in ToSet(logs) : BucketStart(r) = start}
           /\ Cardinality(LogsIn(logs, start)) = Cardinality(InBucket(logs, Len(logs), start))
           /\ \A l : Cardinality({r \in LogsIn(logs, start) : r.lvl = l})
                       = Cardinality(OfLevel(logs, Len(logs), start, l))
           /\ Cardinality(LogsIn(logs, start)) > 0
<1> DEFINE N == Len(logs)
           I == InBucket(logs, N, start)
<1>1. /\ N \in Nat /\ ToSet(logs) = {logs[i] : i \in 1..N} /\ \A i \in 1..N : logs[i].ts \in Nat
      /\ \A i, j \in 1..N : i # j => logs[i] # logs[j]
  <2>1. N \in Nat /\ DOMAIN logs = 1..N /\ \A i \in 1..N : logs[i] \in Storable
    BY DEF DistinctLogs
  <2>2. \A i, j \in 1..N : i # j => logs[i] # logs[j]
    BY DEF DistinctLogs
  <2> HIDE DEF N
  <2> QED BY <2>1, <2>2, StorableTimes DEF ToSet
<1>2. I \subseteq 1..N /\ IsFiniteSet(I) /\ \A l : IsFiniteSet(OfLevel(logs, N, start, l))
  BY <1>1, CountsFinite DEF InBucket
<1>3. PICK k \in 1..N : start = BucketStart(logs[k])
  BY DEF StartsOf
<1>4. ASSUME NEW r \in ToSet(logs)
      PROVE  start <= r.ts /\ r.ts < start + Interval <=> BucketStart(r) = start
  <2>1. r.ts \in Nat /\ logs[k].ts \in Nat /\ Interval \in Nat \ {0}
    BY <1>1, SearchAssumption
  <2> QED BY <2>1, <1>3, BucketBounds DEF BucketStart
<1>5. LogsIn(logs, start) = {r \in ToSet(logs) : BucketStart(r) = start}
  BY <1>4 DEF LogsIn
<1>6. LogsIn(logs, start) = {logs[i] : i \in I}
  BY <1>1, <1>5 DEF InBucket
<1>7. \A i, j \in I : i # j => logs[i] # logs[j]
  BY <1>1, <1>2
<1>8. Cardinality(LogsIn(logs, start)) = Cardinality(I)
  BY <1>2, <1>6, <1>7, ImageOfDistinct
<1>9. ASSUME NEW l
      PROVE  Cardinality({r \in LogsIn(logs, start) : r.lvl = l}) = Cardinality(OfLevel(logs, N, start, l))
  <2> DEFINE J == OfLevel(logs, N, start, l)
  <2>1. J \subseteq I /\ {r \in LogsIn(logs, start) : r.lvl = l} = {logs[i] : i \in J}
    BY <1>6 DEF OfLevel
  <2>2. IsFiniteSet(J)
    BY <1>2
  <2> HIDE DEF I, J
  <2>3. Cardinality({logs[i] : i \in J}) = Cardinality(J)
    BY <1>7, <2>1, <2>2, ImageOfDistinct
  <2> QED BY <2>1, <2>3 DEF J
<1>10. Cardinality(I) > 0
  <2>1. k \in I
    BY <1>3 DEF InBucket
  <2>2. Cardinality(I) \in Nat /\ Cardinality(I) # 0
    <3> HIDE DEF I
    <3> QED BY <2>1, <1>2, FS_EmptySet, FS_CardinalityType
  <2> QED BY <2>2
<1> QED BY <1>5, <1>8, <1>9, <1>10

\* A histogram counts each log once, in the bucket of its time and under its level.
LEMMA GroupsAreExact ==
    ASSUME NEW logs, DistinctLogs(logs)
    PROVE  /\ \A r \in ToSet(logs) :
                Cardinality({b \in AggregateGroups(logs) : r \in LogsIn(logs, b.ts)}) = 1
           /\ \A b \in AggregateGroups(logs) :
                /\ b.count = Cardinality(LogsIn(logs, b.ts)) /\ b.count > 0
                /\ \A l \in DOMAIN b.byLevel :
                     b.byLevel[l] = Cardinality({r \in LogsIn(logs, b.ts) : r.lvl = l})
<1> DEFINE N == Len(logs)
           B == AggregateGroups(logs)
<1>1. /\ N \in Nat /\ ToSet(logs) = {logs[i] : i \in 1..N}
  <2>1. N \in Nat /\ DOMAIN logs = 1..N
    BY DEF DistinctLogs
  <2> HIDE DEF N
  <2> QED BY <2>1 DEF ToSet
<1>2. B = BucketsOf(logs, N)
  BY <1>1, GroupsAre
<1>3. \A b \in B : b.ts \in StartsOf(logs, N) /\ b = BucketOf(logs, N, b.ts)
  BY <1>2 DEF BucketsOf, BucketOf
<1> HIDE DEF B
<1>4. ASSUME NEW b \in B
      PROVE  /\ b.count = Cardinality(LogsIn(logs, b.ts)) /\ b.count > 0
             /\ \A l \in DOMAIN b.byLevel :
                  b.byLevel[l] = Cardinality({r \in LogsIn(logs, b.ts) : r.lvl = l})
  <2> DEFINE start == b.ts
  <2>1. start \in StartsOf(logs, N) /\ b = BucketOf(logs, N, start)
    BY <1>3
  <2> HIDE DEF start
  <2>2. /\ Cardinality(LogsIn(logs, start)) = Cardinality(InBucket(logs, N, start))
        /\ \A l : Cardinality({r \in LogsIn(logs, start) : r.lvl = l})
                    = Cardinality(OfLevel(logs, N, start, l))
        /\ Cardinality(LogsIn(logs, start)) > 0
    BY <2>1, BucketHas
  <2>3. /\ b.count = Cardinality(InBucket(logs, N, start))
        /\ \A l \in DOMAIN b.byLevel : b.byLevel[l] = Cardinality(OfLevel(logs, N, start, l))
    BY <2>1 DEF BucketOf
  <2> QED BY <2>2, <2>3 DEF start
<1>5. ASSUME NEW r \in ToSet(logs) PROVE Cardinality({b \in B : r \in LogsIn(logs, b.ts)}) = 1
  <2> DEFINE start == BucketStart(r)
             mine  == BucketOf(logs, N, start)
  <2>1. start \in StartsOf(logs, N)
    BY <1>1 DEF StartsOf
  <2>2. mine \in B /\ mine.ts = start
    BY <1>2, <2>1 DEF BucketsOf, BucketOf
  <2>3. ASSUME NEW b \in B PROVE r \in LogsIn(logs, b.ts) <=> b.ts = start
    <3>1. LogsIn(logs, b.ts) = {q \in ToSet(logs) : BucketStart(q) = b.ts}
      BY <1>3, BucketHas
    <3> QED BY <3>1
  <2> HIDE DEF start
  <2>4. {b \in B : r \in LogsIn(logs, b.ts)} = {mine}
    BY <1>3, <2>2, <2>3
  <2> HIDE DEF mine
  <2> QED BY <2>4, FS_Singleton
<1> QED BY <1>4, <1>5 DEF B
-----------------------------------------------------------------------------
\* Sorting and paging.

\* No two logs have the same time.
TimesDiffer(logs) == \A a, b \in logs : a.ts = b.ts => a = b

LEMMA SortedFacts ==
    ASSUME NEW A, IsFiniteSet(A), NEW s \in Sorted(A)
    PROVE  /\ s \in Seq(A) /\ Len(s) = Cardinality(A) /\ Len(s) \in Nat
           /\ s = [i \in 1..Len(s) |-> s[i]] /\ \A i \in 1..Len(s) : s[i] \in A
           /\ \A i, j \in 1..Len(s) : i # j => s[i] # s[j]
           /\ \A i, j \in 1..Len(s) : i < j => s[i].ts >= s[j].ts
           /\ \A x \in A : \E i \in 1..Len(s) : s[i] = x
<1> DEFINE N == Cardinality(A)
<1>1. N \in Nat
  BY FS_CardinalityType
<1>2. s \in [1..N -> A] /\ \A i, j \in 1..N : i # j => s[i] # s[j]
  BY DEF Sorted, SetToSeqs
<1>3. s \in Injection(1..N, A)
  BY <1>2 DEF Injection, IsInjective
<1>4. Cardinality(1..N) = N
  BY <1>1, FS_Interval
<1> HIDE DEF N
<1>5. s \in Surjection(1..N, A)
  BY <1>3, <1>4, FS_Injection DEF N
<1>6. \A x \in A : \E i \in 1..N : s[i] = x
  BY <1>5 DEF Surjection
<1>7. s \in Seq(A) /\ Len(s) = N
  BY <1>1, <1>2
<1>8. \A i, j \in 1..Len(s) : i < j => s[i].ts >= s[j].ts
  BY DEF Sorted
<1> QED BY <1>1, <1>2, <1>6, <1>7, <1>8 DEF N

\* Logs of different times have one order only, whatever sort.Slice does.
LEMMA SortedOnce ==
    ASSUME NEW A, IsFiniteSet(A), TimesDiffer(A), \A r \in A : r.ts \in Nat,
           NEW s \in Sorted(A), NEW u \in Sorted(A)
    PROVE  s = u
<1> DEFINE N == Len(s)
           Wrong == {i \in 1..N : s[i] # u[i]}
<1>1. /\ N \in Nat /\ Len(u) = N
      /\ s = [i \in 1..N |-> s[i]] /\ u = [i \in 1..N |-> u[i]]
      /\ \A i \in 1..N : s[i] \in A /\ u[i] \in A
      /\ \A i, j \in 1..N : i # j => s[i] # s[j] /\ u[i] # u[j]
      /\ \A i, j \in 1..N : i < j => s[i].ts >= s[j].ts /\ u[i].ts >= u[j].ts
      /\ \A x \in A : (\E i \in 1..N : s[i] = x) /\ (\E i \in 1..N : u[i] = x)
  <2>1. /\ Len(s) = Cardinality(A) /\ Len(s) \in Nat
        /\ s = [i \in 1..Len(s) |-> s[i]] /\ \A i \in 1..Len(s) : s[i] \in A
        /\ \A i, j \in 1..Len(s) : i # j => s[i] # s[j]
        /\ \A i, j \in 1..Len(s) : i < j => s[i].ts >= s[j].ts
        /\ \A x \in A : \E i \in 1..Len(s) : s[i] = x
    BY SortedFacts, ZenonT(30)
  <2>2. /\ Len(u) = Cardinality(A)
        /\ u = [i \in 1..Len(u) |-> u[i]] /\ \A i \in 1..Len(u) : u[i] \in A
        /\ \A i, j \in 1..Len(u) : i # j => u[i] # u[j]
        /\ \A i, j \in 1..Len(u) : i < j => u[i].ts >= u[j].ts
        /\ \A x \in A : \E i \in 1..Len(u) : u[i] = x
    BY SortedFacts, ZenonT(30)
  <2>3. Len(u) = N
    BY <2>1, <2>2
  <2> QED BY <2>1, <2>2, <2>3
<1> HIDE DEF N
<1>2. Wrong = {}
  <2> SUFFICES ASSUME Wrong # {} PROVE FALSE
    OBVIOUS
  <2>1. Wrong \in SUBSET Nat
    BY <1>1
  <2>2. PICK i \in Wrong : \A k \in Wrong : i <= k
    <3> HIDE DEF Wrong
    <3> QED BY <2>1, MinExists
  <2>3. i \in 1..N /\ s[i] # u[i] /\ \A k \in 1..N : k < i => s[k] = u[k]
    <3>1. \A k \in 1..N : k < i => k \notin Wrong
      <4>1. i \in 1..N
        OBVIOUS
      <4> HIDE DEF Wrong
      <4> QED BY <2>2, <4>1
    <3> QED BY <3>1
  <2> HIDE DEF Wrong
  <2>4. PICK j \in 1..N : u[j] = s[i]
    BY <2>3, <1>1
  <2>5. PICK k \in 1..N : s[k] = u[i]
    BY <2>3, <1>1
  <2>6. i < j
    <3>1. j # i
      BY <2>3, <2>4
    <3>2. ~(j < i)
      BY <2>3, <2>4, <3>1, <1>1
    <3> QED BY <3>1, <3>2, <2>3
  <2>7. i < k
    <3>1. k # i
      BY <2>3, <2>5
    <3>2. ~(k < i)
      BY <2>3, <2>5, <3>1, <1>1
    <3> QED BY <3>1, <3>2, <2>3
  <2>8. s[i].ts >= u[i].ts /\ u[i].ts >= s[i].ts
    BY <2>3, <2>4, <2>5, <2>6, <2>7, <1>1
  <2>9. s[i] \in A /\ u[i] \in A /\ s[i].ts \in Nat /\ u[i].ts \in Nat
    BY <2>3, <1>1
  <2> QED BY <2>3, <2>8, <2>9 DEF TimesDiffer
<1>3. \A i \in 1..N : s[i] = u[i]
  BY <1>2
<1> QED BY <1>1, <1>3

LEMMA ConcatFacts ==
    ASSUME NEW T, NEW s \in Seq(T), NEW u \in Seq(T)
    PROVE  /\ s \o u \in Seq(T) /\ Len(s \o u) = Len(s) + Len(u)
           /\ \A i \in 1..Len(s) : (s \o u)[i] = s[i]
           /\ \A i \in 1..Len(u) : (s \o u)[Len(s) + i] = u[i]
OBVIOUS

LEMMA PrefixFacts ==
    ASSUME NEW T, NEW s \in Seq(T), NEW n \in 0..Len(s)
    PROVE  /\ SubSeq(s, 1, n) \in Seq(T) /\ Len(SubSeq(s, 1, n)) = n
           /\ \A i \in 1..n : SubSeq(s, 1, n)[i] = s[i]
OBVIOUS

\* A page goes on where the pages before it end.
LEMMA PagesJoin ==
    ASSUME NEW T, NEW s \in Seq(T), NEW o \in Nat, NEW e \in Nat, o <= e, e <= Len(s)
    PROVE  SubSeq(s, 1, o) \o SubSeq(s, o + 1, e) = SubSeq(s, 1, e)
<1> DEFINE a == SubSeq(s, 1, o)
           b == SubSeq(s, o + 1, e)
           c == SubSeq(s, 1, e)
<1>1. /\ a \in Seq(T) /\ Len(a) = o /\ \A i \in 1..o : a[i] = s[i]
      /\ c \in Seq(T) /\ Len(c) = e /\ \A i \in 1..e : c[i] = s[i]
  OBVIOUS
<1>2. b \in Seq(T) /\ Len(b) = e - o /\ \A i \in 1..(e - o) : b[i] = s[o + i]
  OBVIOUS
<1> HIDE DEF a, b, c
<1>3. /\ a \o b \in Seq(T) /\ Len(a \o b) = e
      /\ \A i \in 1..Len(a) : (a \o b)[i] = a[i]
      /\ \A i \in 1..Len(b) : (a \o b)[Len(a) + i] = b[i]
  <2>1. a \in Seq(T) /\ b \in Seq(T)
    BY <1>1, <1>2
  <2>2. /\ a \o b \in Seq(T) /\ Len(a \o b) = Len(a) + Len(b)
        /\ \A i \in 1..Len(a) : (a \o b)[i] = a[i]
        /\ \A i \in 1..Len(b) : (a \o b)[Len(a) + i] = b[i]
    BY <2>1, ConcatFacts
  <2>3. Len(a) + Len(b) = e
    BY <1>1, <1>2
  <2> QED BY <2>2, <2>3
<1>4. ASSUME NEW i \in 1..e PROVE (a \o b)[i] = c[i]
  <2>1. CASE i \in 1..o
    <3>1. (a \o b)[i] = a[i] /\ a[i] = s[i]
      BY <2>1, <1>1, <1>3
    <3> QED BY <3>1, <1>1
  <2>2. CASE i \notin 1..o
    <3>1. i - o \in 1..(e - o) /\ o + (i - o) = i
      BY <2>2
    <3>2. (a \o b)[i] = b[i - o] /\ b[i - o] = s[i]
      BY <3>1, <1>1, <1>2, <1>3
    <3> QED BY <3>2, <1>1
  <2> QED BY <2>1, <2>2
<1>5. \A x, y \in Seq(T) : Len(x) = Len(y) /\ (\A i \in 1..Len(x) : x[i] = y[i]) => x = y
  OBVIOUS
<1>6. a \o b = c
  BY <1>1, <1>3, <1>4, <1>5
<1> QED BY <1>6 DEF a, b, c
-----------------------------------------------------------------------------
\* What a searcher has shown.  The first candidates of a query, those that have all the
\* terms of T, and the documents under ids that pass the filters.
FirstIds(q) ==
    IF q.lvl # "" THEN ScanPrefixIDs("lvl", Upper[q.lvl], q)
    ELSE IF q.svc # "" THEN ScanPrefixIDs("svc", q.svc, q)
    ELSE ScanPrefixIDs("time", "", q)
Common(T, q) == {i \in Ids : \A t \in T : i \in ScanPrefixIDs("term", t, q)}
Candidates(q) == IF Tokens[q.text] # {} THEN Common(Tokens[q.text], q) ELSE FirstIds(q)

Good(I, q) ==
    {docs[i] : i \in {j \in I : docs[j] \notin {NoRecord, Garbage} /\ PassesFilters(docs[j], q)}}
Matches(q) == Good(Candidates(q), q)

\* A page is a part of its logs in their order, a histogram's is the first.
PageFacts(S) ==
    S.stage # "none" =>
      /\ IsFiniteSet(S.logs) /\ S.offset \in Nat
      /\ S.kind = "histogram" => S.offset = 0
      /\ S.stage = "done" =>
           /\ S.ids = {}
           /\ \E sorted \in Sorted(S.logs) : S.page = Page(sorted, S.offset, Limit(S))
           /\ S.kind = "histogram" => S.buckets = AggregateGroups(S.page)

\* While nothing is written, a search collects what the query matches now, and what was
\* shown before are the newest of these.
QuietFacts(S) ==
    S.stage # "none" /\ S.quiet =>
      /\ S.stage = "terms" =>
           S.logs = {} /\ (S.left = Tokens[S.q.text] \/ S.ids = Common(Tokens[S.q.text] \ S.left, S.q))
      /\ S.stage # "terms" => S.logs \cup Good(S.ids, S.q) = Matches(S.q)
      /\ S.kind = "search" /\ TimesDiffer(Matches(S.q)) =>
           IF S.offset = 0 THEN S.shown = <<>>
           ELSE \E sorted \in Sorted(Matches(S.q)) :
                  S.offset < Len(sorted) /\ S.shown = SubSeq(sorted, 1, S.offset)

PageInv == \A s \in Searchers : PageFacts(search[s]) /\ QuietFacts(search[s])

\* The pages up to the one that is shown now.
SoFar(S, sorted) ==
    S.shown \o S.page = SubSeq(sorted, 1, IF S.offset + Limit(S) > Len(sorted) THEN Len(sorted)
                                          ELSE S.offset + Limit(S))

LEMMA LimitIs == ASSUME NEW S, S.q \in Queries PROVE Limit(S) \in Nat \ {0}
BY SearchAssumption DEF Limit

\* The page fits behind what was shown: both are parts of one order.
LEMMA PageFits ==
    ASSUME NEW S, PageFacts(S), QuietFacts(S), S.q \in Queries, S.logs \subseteq Storable,
           S.stage = "done", S.kind = "search", S.quiet, TimesDiffer(S.logs)
    PROVE  S.logs = Matches(S.q) /\ \E sorted \in Sorted(S.logs) : SoFar(S, sorted)
<1>1. /\ IsFiniteSet(S.logs) /\ S.offset \in Nat /\ S.ids = {}
  BY DEF PageFacts
<1>2. PICK sorted \in Sorted(S.logs) : S.page = Page(sorted, S.offset, Limit(S))
  BY DEF PageFacts
<1>3. S.logs = Matches(S.q)
  <2>1. S.logs \cup Good(S.ids, S.q) = Matches(S.q)
    BY DEF QuietFacts
  <2>2. Good({}, S.q) = {}
    BY DEF Good
  <2> QED BY <1>1, <2>1, <2>2
<1>4. sorted \in Seq(S.logs) /\ Len(sorted) \in Nat
  BY <1>1, SortedFacts
<1> DEFINE L == Limit(S)
           end == IF S.offset + L > Len(sorted) THEN Len(sorted) ELSE S.offset + L
<1>5. L \in Nat \ {0}
  BY LimitIs
<1>6. S.page = SubSeq(sorted, S.offset + 1, end)
  BY <1>2 DEF Page
<1>7. /\ S.offset = 0 => S.shown = <<>>
      /\ S.offset # 0 => S.offset < Len(sorted) /\ S.shown = SubSeq(sorted, 1, S.offset)
  <2>1. /\ S.offset = 0 => S.shown = <<>>
        /\ S.offset # 0 => \E u \in Sorted(S.logs) : S.offset < Len(u) /\ S.shown = SubSeq(u, 1, S.offset)
    BY <1>3 DEF QuietFacts
  <2>2. \A u \in Sorted(S.logs) : u = sorted
    BY <1>1, SortedOnce, StorableTimes
  <2> QED BY <2>1, <2>2
<1> HIDE DEF L
<1>8. S.shown \o S.page = SubSeq(sorted, 1, end)
  <2>1. S.shown = SubSeq(sorted, 1, S.offset) /\ S.offset <= Len(sorted)
    <3>1. CASE S.offset = 0
      <4>1. \A u \in Seq(S.logs) : SubSeq(u, 1, 0) = <<>>
        OBVIOUS
      <4>2. SubSeq(sorted, 1, 0) = <<>> /\ S.shown = <<>> /\ 0 <= Len(sorted)
        BY <3>1, <4>1, <1>4, <1>7
      <4> QED BY <3>1, <4>2
    <3>2. CASE S.offset # 0
      <4>1. S.offset < Len(sorted) => S.offset <= Len(sorted)
        BY <1>1, <1>4
      <4> QED BY <3>2, <4>1, <1>7, Zenon
    <3> QED BY <3>1, <3>2
  <2>2. end \in Nat /\ S.offset <= end /\ end <= Len(sorted)
    BY <2>1, <1>1, <1>4, <1>5
  <2> HIDE DEF end
  <2>3. SubSeq(sorted, 1, S.offset) \o SubSeq(sorted, S.offset + 1, end) = SubSeq(sorted, 1, end)
    BY <2>2, <1>1, <1>4, PagesJoin
  <2> QED BY <2>1, <2>3, <1>6, Zenon
<1>9. SoFar(S, sorted)
  BY <1>8 DEF SoFar, L
<1> QED BY <1>3, <1>9

LEMMA DoneLogs ==
    ASSUME NEW S, PageFacts(S), QuietFacts(S), S.stage = "done", S.quiet
    PROVE  S.logs = Matches(S.q)
<1>1. S.ids = {} /\ S.logs \cup Good(S.ids, S.q) = Matches(S.q)
  BY DEF PageFacts, QuietFacts
<1>2. Good({}, S.q) = {}
  BY DEF Good
<1> QED BY <1>1, <1>2

\* What is said of a searcher stays true while nothing is written.
LEMMA QuietStays ==
    ASSUME UNCHANGED <<docs, index>>, NEW CONSTANT S, QuietFacts(S)
    PROVE  QuietFacts(S)'
<1>1. ASSUME NEW CONSTANT T, NEW CONSTANT q PROVE Common(T, q)' = Common(T, q) /\ Good(T, q)' = Good(T, q)
  BY DEF Common, Good, ScanPrefixIDs
<1>2. ASSUME NEW CONSTANT q PROVE Candidates(q)' = Candidates(q)
  BY <1>1 DEF Candidates, FirstIds, ScanPrefixIDs
<1>3. ASSUME NEW CONSTANT q PROVE Matches(q)' = Matches(q)
  <2>1. ASSUME NEW CONSTANT I, Candidates(q) = I PROVE Matches(q)' = Matches(q)
    <3>1. Candidates(q)' = I /\ Good(I, q)' = Good(I, q)
      BY <1>1, <1>2, <2>1
    <3> QED BY <2>1, <3>1 DEF Matches, Good
  <2> QED BY <1>2, <1>1 DEF Matches, Good
<1> QED BY <1>1, <1>3 DEF QuietFacts

LEMMA PagesStep ==
    ASSUME SearchInv, PageInv, NEW s \in Searchers, NEW T, search' = [search EXCEPT ![s] = T],
           PageFacts(T), QuietFacts(T), UNCHANGED <<docs, index>>
    PROVE  PageInv'
<1>1. /\ search'[s] = T /\ \A d \in Searchers : d # s => search'[d] = search[d]
  BY DEF SearchInv
<1> SUFFICES ASSUME NEW d \in Searchers PROVE PageFacts(search[d])' /\ QuietFacts(search[d])'
  BY DEF PageInv
<1>2. PageFacts(search'[d]) /\ QuietFacts(search'[d])
  BY <1>1 DEF PageInv
<1> SUFFICES ASSUME NEW CONSTANT D, D = search'[d] PROVE PageFacts(search[d])' /\ QuietFacts(search[d])'
  OBVIOUS
<1>3. PageFacts(D) /\ QuietFacts(D)'
  BY <1>2, QuietStays
<1> QED BY <1>3 DEF PageFacts, QuietFacts

\* A search that begins has collected nothing, or the first candidates.
LEMMA BeginPages ==
    ASSUME NEW q, NEW kind, NEW offset \in Nat, NEW shown, NEW before, NEW quiet,
           kind = "histogram" => offset = 0,
           quiet /\ kind = "search" /\ TimesDiffer(Matches(q)) =>
             IF offset = 0 THEN shown = <<>>
             ELSE \E sorted \in Sorted(Matches(q)) :
                    offset < Len(sorted) /\ shown = SubSeq(sorted, 1, offset),
           NEW S, S = Searching(q, kind, offset, shown, before, quiet)
    PROVE  PageFacts(S) /\ QuietFacts(S)
<1>1. /\ S.stage = IF Tokens[q.text] # {} THEN "terms" ELSE "fetch"
      /\ S.q = q /\ S.left = Tokens[q.text] /\ S.logs = {} /\ S.quiet = quiet
      /\ S.kind = kind /\ S.offset = offset /\ S.shown = shown
      /\ S.ids = IF Tokens[q.text] # {} THEN {} ELSE FirstIds(q)
  BY DEF Searching, FirstIds
<1>2. IsFiniteSet({})
  BY FS_EmptySet
<1>3. PageFacts(S)
  BY <1>1, <1>2 DEF PageFacts
<1>4. S.stage # "terms" => S.logs \cup Good(S.ids, q) = Matches(q)
  BY <1>1 DEF Matches, Candidates
<1>5. QuietFacts(S)
  BY <1>1, <1>4 DEF QuietFacts
<1> QED BY <1>3, <1>5

LEMMA BeginKeepsPages ==
    ASSUME IngestInv, SearchInv, PageInv, NEW s \in Searchers,
           NextPage(s) \/ \E q \in Queries, kind \in {"search", "histogram"} : SearchCall(s, q, kind)
    PROVE  PageInv'
<1>1. ASSUME NEW q \in Queries, NEW kind \in {"search", "histogram"}, SearchCall(s, q, kind)
      PROVE  PageInv'
  <2> DEFINE T == Searching(q, kind, 0, <<>>, {r \in ingested : docs[r.id] = r}, TRUE)
  <2>1. search' = [search EXCEPT ![s] = T] /\ UNCHANGED <<docs, index>>
    BY <1>1 DEF SearchCall, Begin
  <2>2. PageFacts(T) /\ QuietFacts(T)
    BY BeginPages
  <2> HIDE DEF T
  <2> QED BY <2>1, <2>2, PagesStep
<1>2. CASE NextPage(s)
  <2> DEFINE S == search[s]
             next == S.offset + Limit(S)
             shown == S.shown \o S.page
             T == Searching(S.q, S.kind, next, shown, S.before, S.quiet)
  <2>1. /\ search' = [search EXCEPT ![s] = T] /\ UNCHANGED <<docs, index>>
        /\ S.stage = "done" /\ S.kind = "search" /\ next < Cardinality(S.logs)
    BY <1>2 DEF NextPage, Begin
  <2>2. HitFacts(S) /\ PageFacts(S) /\ QuietFacts(S)
    BY DEF SearchInv, PageInv
  <2> HIDE DEF S
  <2>3. S.q \in Queries /\ S.logs \subseteq Storable
    BY <2>1, <2>2 DEF HitFacts, IngestInv, DocFacts
  <2>4. IsFiniteSet(S.logs) /\ S.offset \in Nat /\ Limit(S) \in Nat \ {0} /\ next \in Nat \ {0}
    BY <2>1, <2>2, <2>3, LimitIs DEF PageFacts
  <2>5. ASSUME S.quiet, TimesDiffer(Matches(S.q))
        PROVE  \E sorted \in Sorted(Matches(S.q)) : next < Len(sorted) /\ shown = SubSeq(sorted, 1, next)
    <3>1. S.logs = Matches(S.q)
      BY <2>1, <2>2, <2>5, DoneLogs
    <3>2. PICK sorted \in Sorted(S.logs) : SoFar(S, sorted)
      BY <2>1, <2>2, <2>3, <2>5, <3>1, PageFits
    <3>3. Len(sorted) = Cardinality(S.logs) /\ Len(sorted) \in Nat
      BY <2>4, SortedFacts
    <3>4. next < Len(sorted) /\ ~(next > Len(sorted))
      BY <2>1, <2>4, <3>3
    <3>5. shown = SubSeq(sorted, 1, next)
      BY <3>2, <3>4 DEF SoFar
    <3> QED BY <3>1, <3>4, <3>5
  <2> HIDE DEF next, shown
  <2>6. PageFacts(T) /\ QuietFacts(T)
    BY <2>1, <2>4, <2>5, BeginPages
  <2> HIDE DEF T
  <2> QED BY <2>1, <2>6, PagesStep
<1> QED BY <1>1, <1>2

\* Terms narrow the candidates down, to what has all of them.
LEMMA ScanTermKeepsPages ==
    ASSUME IngestInv, SearchInv, PageInv, NEW s \in Searchers, ScanTerm(s)
    PROVE  PageInv'
<1> DEFINE S == search[s]
           q == S.q
           isFirst == S.left = Tokens[q.text]
<1>1. S.stage = "terms" /\ UNCHANGED <<docs, index>>
  BY DEF ScanTerm
<1>2. PICK t \in S.left :
        LET found == ScanPrefixIDs("term", t, q)
            ids   == IF isFirst THEN found ELSE S.ids \cap found
        IN  search' = [search EXCEPT ![s] =
              [S EXCEPT !.ids = ids, !.left = @ \ {t},
                        !.stage = IF S.left = {t} \/ (~isFirst /\ ids = {}) THEN "fetch" ELSE "terms"]]
  BY DEF ScanTerm
<1> DEFINE found == ScanPrefixIDs("term", t, q)
           ids   == IF isFirst THEN found ELSE S.ids \cap found
           T     == [S EXCEPT !.ids = ids, !.left = @ \ {t},
                              !.stage = IF S.left = {t} \/ (~isFirst /\ ids = {}) THEN "fetch" ELSE "terms"]
           done  == Tokens[q.text] \ (S.left \ {t})
<1>3. HitFacts(S) /\ PageFacts(S) /\ QuietFacts(S)
  BY DEF SearchInv, PageInv
<1>4. /\ T.ids = ids /\ T.left = S.left \ {t} /\ T.q = q /\ T.logs = S.logs
      /\ T.kind = S.kind /\ T.offset = S.offset /\ T.shown = S.shown /\ T.quiet = S.quiet
      /\ T.stage = IF S.left = {t} \/ (~isFirst /\ ids = {}) THEN "fetch" ELSE "terms"
  BY <1>1, <1>3 DEF HitFacts
<1>5. search' = [search EXCEPT ![s] = T]
  BY <1>2
<1>6. found \subseteq Ids
  BY ScanLeads
<1>7. S.left \subseteq Tokens[q.text] /\ t \in Tokens[q.text]
  BY <1>1, <1>3 DEF HitFacts
<1> HIDE DEF T
<1>8. S.quiet => S.logs = {} /\ ids = Common(done, q)
  <2> SUFFICES ASSUME S.quiet PROVE S.logs = {} /\ ids = Common(done, q)
    OBVIOUS
  <2>1. S.logs = {} /\ (isFirst \/ S.ids = Common(Tokens[q.text] \ S.left, q))
    BY <1>1, <1>3 DEF QuietFacts
  <2>2. CASE isFirst
    <3>1. done = {t}
      BY <1>7, <2>2
    <3> QED BY <2>1, <2>2, <3>1, <1>6 DEF Common
  <2>3. CASE ~isFirst
    <3>1. done = (Tokens[q.text] \ S.left) \cup {t}
      BY <1>7
    <3> QED BY <2>1, <2>3, <3>1 DEF Common
  <2> QED BY <2>1, <2>2, <2>3
<1>9. S.quiet /\ T.stage # "terms" => ids = Candidates(q)
  <2> SUFFICES ASSUME S.quiet, T.stage # "terms" PROVE ids = Common(Tokens[q.text], q)
    BY <1>7 DEF Candidates
  <2>1. CASE S.left = {t}
    <3>1. done = Tokens[q.text]
      BY <2>1
    <3> QED BY <1>8, <3>1
  <2>2. CASE ids = {}
    <3>1. Common(Tokens[q.text], q) \subseteq Common(done, q)
      BY DEF Common
    <3> QED BY <1>8, <2>2, <3>1
  <2> QED BY <1>4, <2>1, <2>2
<1> HIDE DEF ids, found, isFirst, S, q, done
<1>10. PageFacts(T)
  BY <1>1, <1>3, <1>4 DEF PageFacts
<1>11. QuietFacts(T)
  <2>1. /\ S.quiet /\ T.stage = "terms" => T.logs = {} /\ T.ids = Common(Tokens[T.q.text] \ T.left, T.q)
        /\ S.quiet /\ T.stage # "terms" => T.logs \cup Good(T.ids, T.q) = Matches(T.q)
    BY <1>4, <1>8, <1>9 DEF Matches, done
  <2>2. S.stage # "none"
    BY <1>1
  <2> QED BY <1>3, <1>4, <2>1, <2>2 DEF QuietFacts, q
<1> QED BY <1>1, <1>5, <1>10, <1>11, PagesStep

LEMMA FetchKeepsPages ==
    ASSUME SearchInv, PageInv, NEW s \in Searchers, Fetch(s)
    PROVE  PageInv'
<1> DEFINE S == search[s]
<1>1. S.stage = "fetch" /\ UNCHANGED <<docs, index>>
  BY DEF Fetch
<1>2. PICK i \in S.ids :
        search' = [search EXCEPT ![s] =
          [S EXCEPT !.ids = @ \ {i},
                    !.logs = IF docs[i] \notin {NoRecord, Garbage} /\ PassesFilters(docs[i], S.q)
                             THEN @ \cup {docs[i]} ELSE @]]
  BY DEF Fetch
<1> DEFINE logs == IF docs[i] \notin {NoRecord, Garbage} /\ PassesFilters(docs[i], S.q)
                   THEN S.logs \cup {docs[i]} ELSE S.logs
           T == [S EXCEPT !.ids = @ \ {i}, !.logs = logs]
<1>3. HitFacts(S) /\ PageFacts(S) /\ QuietFacts(S)
  BY DEF SearchInv, PageInv
<1>4. /\ T.ids = S.ids \ {i} /\ T.logs = logs /\ T.q = S.q /\ T.stage = "fetch"
      /\ T.kind = S.kind /\ T.offset = S.offset /\ T.shown = S.shown /\ T.quiet = S.quiet
  BY <1>1, <1>3 DEF HitFacts
<1>5. search' = [search EXCEPT ![s] = T]
  BY <1>2, <1>1, <1>3 DEF HitFacts
<1>6. logs \cup Good(S.ids \ {i}, S.q) = S.logs \cup Good(S.ids, S.q)
  BY DEF Good
<1> HIDE DEF S
<1>7. IsFiniteSet(logs)
  <2>1. IsFiniteSet(S.logs)
    BY <1>1, <1>3 DEF PageFacts
  <2> QED BY <2>1, FS_AddElement
<1> HIDE DEF T, logs
<1>8. PageFacts(T)
  BY <1>1, <1>3, <1>4, <1>7 DEF PageFacts
<1>9. QuietFacts(T)
  BY <1>1, <1>3, <1>4, <1>6 DEF QuietFacts
<1> QED BY <1>1, <1>5, <1>8, <1>9, PagesStep

LEMMA SearchReturnKeepsPages ==
    ASSUME SearchInv, PageInv, NEW s \in Searchers, SearchReturn(s)
    PROVE  PageInv'
<1> DEFINE S == search[s]
<1>1. S.stage = "fetch" /\ S.ids = {} /\ UNCHANGED <<docs, index>>
  BY DEF SearchReturn
<1>2. PICK sorted \in Sorted(S.logs) :
        LET page == Page(sorted, S.offset, Limit(S))
        IN  search' = [search EXCEPT ![s].stage = "done", ![s].page = page,
                         ![s].buckets = IF S.kind = "histogram" THEN AggregateGroups(page) ELSE {}]
  BY DEF SearchReturn
<1> DEFINE page == Page(sorted, S.offset, Limit(S))
           buckets == IF S.kind = "histogram" THEN AggregateGroups(page) ELSE {}
           T == [S EXCEPT !.stage = "done", !.page = page, !.buckets = buckets]
<1>3. HitFacts(S) /\ PageFacts(S) /\ QuietFacts(S)
  BY DEF SearchInv, PageInv
<1>4. /\ T.ids = S.ids /\ T.logs = S.logs /\ T.q = S.q /\ T.stage = "done"
      /\ T.kind = S.kind /\ T.offset = S.offset /\ T.shown = S.shown /\ T.quiet = S.quiet
      /\ T.page = page /\ T.buckets = buckets
  BY <1>1, <1>3 DEF HitFacts
<1>5. search' = [search EXCEPT ![s] = T]
  BY <1>2
<1>6. Limit(T) = Limit(S)
  BY <1>4 DEF Limit
<1> HIDE DEF T
<1>7. PageFacts(T)
  <2>1. T.page = Page(sorted, T.offset, Limit(T)) /\ sorted \in Sorted(T.logs)
    BY <1>4, <1>6
  <2>2. T.kind = "histogram" => T.buckets = AggregateGroups(T.page)
    BY <1>4
  <2> HIDE DEF S, page, buckets
  <2> QED BY <1>1, <1>3, <1>4, <2>1, <2>2 DEF PageFacts
<1> HIDE DEF S, page, buckets
<1>8. QuietFacts(T)
  BY <1>1, <1>3, <1>4 DEF QuietFacts
<1> QED BY <1>1, <1>5, <1>7, <1>8, PagesStep

\* After a write nothing is said of the pages but that they are parts of their logs.
LEMMA WriterEndsQuiet ==
    ASSUME NEW S, HitFacts(S), PageFacts(S), NEW before,
           NEW T, T = [S EXCEPT !.quiet = FALSE] \/ T = [S EXCEPT !.quiet = FALSE, !.before = before]
    PROVE  PageFacts(T) /\ ~T.quiet
<1>1. /\ T.stage = S.stage /\ T.quiet = FALSE
      /\ S.stage # "none" =>
           /\ T.ids = S.ids /\ T.logs = S.logs /\ T.q = S.q /\ T.kind = S.kind
           /\ T.offset = S.offset /\ T.page = S.page /\ T.buckets = S.buckets
  BY DEF HitFacts
<1>2. S.stage # "none" => Limit(T) = Limit(S)
  BY <1>1 DEF Limit
<1>3. PageFacts(T)
  BY <1>1, <1>2 DEF PageFacts
<1> QED BY <1>1, <1>3

LEMMA WriterKeepsPages ==
    ASSUME SearchInv, PageInv,
           \/ UNCHANGED <<docs, index, search>>
           \/ search' = Unquiet
           \/ \E i, r : search' = Disturbed(i, r)
    PROVE  PageInv'
<1>1. CASE UNCHANGED <<docs, index, search>>
  <2> SUFFICES ASSUME NEW d \in Searchers PROVE PageFacts(search[d])' /\ QuietFacts(search[d])'
    BY DEF PageInv
  <2> SUFFICES ASSUME NEW CONSTANT D, D = search'[d] PROVE PageFacts(search[d])' /\ QuietFacts(search[d])'
    OBVIOUS
  <2>1. PageFacts(D) /\ QuietFacts(D)
    BY <1>1 DEF PageInv
  <2>2. QuietFacts(D)'
    BY <1>1, <2>1, QuietStays
  <2> QED BY <2>1, <2>2 DEF PageFacts, QuietFacts
<1>2. ASSUME search' = Unquiet \/ \E i, r : search' = Disturbed(i, r) PROVE PageInv'
  <2> SUFFICES ASSUME NEW d \in Searchers PROVE PageFacts(search[d])' /\ QuietFacts(search[d])'
    BY DEF PageInv
  <2> SUFFICES ASSUME NEW CONSTANT D, D = search'[d] PROVE PageFacts(search[d])' /\ QuietFacts(search[d])'
    OBVIOUS
  <2>1. HitFacts(search[d]) /\ PageFacts(search[d])
    BY DEF SearchInv, PageInv
  <2>2. \/ D = [search[d] EXCEPT !.quiet = FALSE]
        \/ \E b : D = [search[d] EXCEPT !.quiet = FALSE, !.before = b]
    BY <1>2 DEF Unquiet, Disturbed
  <2>3. PageFacts(D) /\ ~D.quiet
    BY <2>1, <2>2, WriterEndsQuiet
  <2> QED BY <2>3 DEF PageFacts, QuietFacts
<1> QED BY <1>1, <1>2

LEMMA IngestersKeepPages ==
    ASSUME SearchInv, PageInv, NEW c \in Ingesters, HandleIngest(c) \/ HandleKV(c) \/ IngestStep(c)
    PROVE  PageInv'
<1>1. CASE HandleIngest(c)
  BY <1>1, WriterKeepsPages DEF HandleIngest, BatchCall
<1>2. CASE HandleKV(c)
  <2>1. search' = Unquiet \/ \E i, r : search' = Disturbed(i, r)
    BY <1>2 DEF HandleKV, KVDoc, KVIndex
  <2> QED BY <2>1, WriterKeepsPages
<1>3. CASE IngestDoc(c)
  <2>1. \E i, r : search' = Disturbed(i, r)
    BY <1>3 DEF IngestDoc
  <2> QED BY <2>1, WriterKeepsPages
<1>4. CASE IngestFails(c)
  BY <1>4, WriterKeepsPages DEF IngestFails
<1>5. CASE IngestKey(c)
  BY <1>5, WriterKeepsPages DEF IngestKey
<1>6. CASE IngestReturn(c)
  BY <1>6, WriterKeepsPages DEF IngestReturn
<1>7. CASE BatchReturn(c)
  BY <1>7, WriterKeepsPages DEF BatchReturn
<1> QED BY <1>1, <1>2, <1>3, <1>4, <1>5, <1>6, <1>7 DEF IngestStep

LEMMA NextKeepsPages == ASSUME IngestInv, SearchInv, PageInv, [Next]_apiVars PROVE PageInv'
<1>1. CASE UNCHANGED apiVars
  BY <1>1, WriterKeepsPages DEF apiVars, searchVars
<1>2. ASSUME NEW s \in Searchers, SearchStep(s) PROVE PageInv'
  BY <1>2, BeginKeepsPages, ScanTermKeepsPages, FetchKeepsPages, SearchReturnKeepsPages DEF SearchStep
<1> QED BY <1>1, <1>2, IngestersKeepPages DEF Next

\* What a search has collected, and what it has shown, is a part of the matches in their
\* one order, as long as nobody writes (Engine.Search with its offset and limit).
THEOREM PagesInvariance == Spec => []PageInv
<1>1. Init => PageInv
  BY DEF Init, SearchInit, NoSearch, PageInv, PageFacts, QuietFacts
<1>2. ApiInv /\ PageInv /\ [Next]_apiVars => PageInv'
  BY NextKeepsPages DEF ApiInv
<1> QED BY <1>1, <1>2, ApiInvariance, PTL DEF Spec

\* The pages that a client has asked for one after another are the newest matches,
\* each once and in order, if nothing was written since it began and no two matches have
\* the same time (Engine.Search sorts and cuts each page anew).
THEOREM PagesFitTogether == Spec => []PagesAreWhole
<1>1. ApiInv /\ PageInv => PagesAreWhole
  <2> SUFFICES ASSUME ApiInv, PageInv, NEW s \in Done, search[s].kind = "search", search[s].quiet,
                      TimesDiffer(search[s].logs)
               PROVE  \E sorted \in Sorted(search[s].logs) : SoFar(search[s], sorted)
    BY DEF PagesAreWhole, TimesDiffer, SoFar
  <2> DEFINE S == search[s]
  <2>1. HitFacts(S) /\ PageFacts(S) /\ QuietFacts(S) /\ S.stage = "done"
    BY DEF ApiInv, SearchInv, PageInv, Done
  <2>2. S.q \in Queries /\ S.logs \subseteq Storable
    BY <2>1 DEF HitFacts, ApiInv, IngestInv, DocFacts
  <2> HIDE DEF S
  <2>3. S.kind = "search" /\ S.quiet /\ TimesDiffer(S.logs)
    BY DEF S
  <2>4. \E sorted \in Sorted(S.logs) : SoFar(S, sorted)
    BY <2>1, <2>2, <2>3, PageFits
  <2> QED BY <2>4 DEF S
<1> QED BY <1>1, ApiInvariance, PagesInvariance, PTL

\* A histogram counts each log that it was given once, in the bucket of its time and
\* under its level, and is given all matches that a search owes unless they are more than
\* it asks for (AggregateGroups, and Engine.Aggregate with its limit).
THEOREM HistogramsCountOnce == Spec => []HistogramIsExact
<1>1. ApiInv /\ PageInv => HistogramIsExact
  <2> SUFFICES ASSUME ApiInv, PageInv, NEW s \in Done, search[s].kind = "histogram"
               PROVE  LET S    == search[s]
                          logs == S.page
                      IN  /\ \A r \in ToSet(logs) :
                               Cardinality({b \in S.buckets : r \in LogsIn(logs, b.ts)}) = 1
                          /\ \A b \in S.buckets :
                               /\ b.count = Cardinality(LogsIn(logs, b.ts)) /\ b.count > 0
                               /\ \A l \in DOMAIN b.byLevel :
                                    b.byLevel[l] = Cardinality({r \in LogsIn(logs, b.ts) : r.lvl = l})
                          /\ Cardinality(S.logs) <= AggregateLimit => Owed(s) \subseteq ToSet(logs)
    BY DEF HistogramIsExact, LogsIn
  <2> DEFINE S == search[s]
             logs == S.page
  <2>1. HitFacts(S) /\ FindFacts(S) /\ PageFacts(S) /\ S.stage = "done" /\ S.kind = "histogram"
    BY DEF ApiInv, SearchInv, PageInv, Done
  <2>2. S.logs \subseteq Storable /\ IsFiniteSet(S.logs) /\ S.offset = 0
    BY <2>1 DEF HitFacts, PageFacts, ApiInv, IngestInv, DocFacts
  <2>3. Limit(S) = AggregateLimit /\ AggregateLimit \in Nat \ {0}
    BY <2>1, SearchAssumption DEF Limit
  <2>4. PICK sorted \in Sorted(S.logs) : logs = Page(sorted, 0, AggregateLimit)
    BY <2>1, <2>2, <2>3 DEF PageFacts
  <2>5. S.buckets = AggregateGroups(logs)
    BY <2>1 DEF PageFacts
  <2>6. Owed(s) = {r \in S.before : IsOwed(r, S.q)}
    BY DEF Owed
  <2> HIDE DEF S, logs
  <2> DEFINE end == IF AggregateLimit > Len(sorted) THEN Len(sorted) ELSE AggregateLimit
  <2>7. /\ sorted \in Seq(S.logs) /\ Len(sorted) \in Nat /\ Len(sorted) = Cardinality(S.logs)
        /\ \A i, j \in 1..Len(sorted) : i # j => sorted[i] # sorted[j]
        /\ \A x \in S.logs : \E i \in 1..Len(sorted) : sorted[i] = x
    BY <2>2, SortedFacts
  <2>8. end \in 0..Len(sorted) /\ logs = SubSeq(sorted, 1, end)
    BY <2>3, <2>4, <2>7 DEF Page
  <2>9. logs \in Seq(S.logs) /\ Len(logs) = end /\ \A i \in 1..end : logs[i] = sorted[i]
    <3> HIDE DEF end
    <3> QED BY <2>7, <2>8, PrefixFacts, ZenonT(30)
  <2>10. DistinctLogs(logs)
    <3>1. logs \in Seq(Storable)
      BY <2>2, <2>9, SeqGrows
    <3>2. \A i \in 1..end : i \in 1..Len(sorted)
      BY <2>7, <2>8
    <3> HIDE DEF end
    <3> QED BY <2>7, <2>9, <3>1, <3>2 DEF DistinctLogs
  <2>11. Cardinality(S.logs) <= AggregateLimit => Owed(s) \subseteq ToSet(logs)
    <3> SUFFICES ASSUME Cardinality(S.logs) <= AggregateLimit PROVE Owed(s) \subseteq ToSet(logs)
      OBVIOUS
    <3>1. Owed(s) \subseteq S.logs
      BY <2>1, <2>6 DEF FindFacts
    <3>2. end = Len(sorted)
      BY <2>3, <2>7
    <3>3. DOMAIN logs = 1..end
      <4>1. \A u \in Seq(S.logs) : DOMAIN u = 1..Len(u)
        OBVIOUS
      <4> HIDE DEF end
      <4> QED BY <2>9, <4>1
    <3>4. S.logs \subseteq ToSet(logs)
      <4> HIDE DEF end
      <4> QED BY <2>7, <2>9, <3>2, <3>3 DEF ToSet
    <3> QED BY <3>1, <3>4
  <2>12. /\ \A r \in ToSet(logs) : Cardinality({b \in S.buckets : r \in LogsIn(logs, b.ts)}) = 1
         /\ \A b \in S.buckets :
              /\ b.count = Cardinality(LogsIn(logs, b.ts)) /\ b.count > 0
              /\ \A l \in DOMAIN b.byLevel :
                   b.byLevel[l] = Cardinality({r \in LogsIn(logs, b.ts) : r.lvl = l})
    BY <2>5, <2>10, GroupsAreExact
  <2> QED BY <2>11, <2>12 DEF S, logs
<1> QED BY <1>1, ApiInvariance, PagesInvariance, PTL
=============================================================================
