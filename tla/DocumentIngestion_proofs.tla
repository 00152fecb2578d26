----------------------- MODULE DocumentIngestion_proofs -----------------------
(***************************************************************************)
(* What holds of DocumentIngestion for every number of crawls, documents,  *)
(* files and permits.  The four invariants of the crawls stand on each     *)
(* other and on four more facts: a row not yet downloaded is blank, the    *)
(* fingerprints are those of the rows with a text, a crawl has no rows     *)
(* before its site has answered, and what a crawl took for known when it   *)
(* began lies in the list before its own rows, for good.                   *)
(***************************************************************************)
EXTENDS DocumentIngestion, FiniteSetTheorems, SequenceTheorems, TLAPS

\* A row whose download has not ended holds nothing.  (CrawledDocument)
Fresh ==
    \A i \in Rows : docs[i].status \in {"pending_download", "downloading"} =>
                        docs[i].hash = None /\ docs[i].content = None

\* The rows with a text are those with a fingerprint, and none is a duplicate.
\* (mark_processed and the fingerprint's save, in load)
Fingerprinted ==
    \A i \in Rows :
        /\ docs[i].content \in Texts <=> i \in fingerprints
        /\ docs[i].content \in Texts => docs[i].status # "duplicate"

\* Rows come with the site's answer, and only a crawl of some source has any.
Begun ==
    \A c \in Crawls :
        /\ phase[c] # "unborn" => jobs[c].source \in Sources
        /\ phase[c] \in {"unborn", "discovering"} => OwnRows(c) = {}

\* Each hash a crawl knows is that of a row listed before the crawl's own.
\* (_get_existing_hashes)
KnownHeld ==
    \A c \in Crawls : \A f \in known[c] :
        \E j \in ByFileHash(f) : \A i \in OwnRows(c) : j < i

IInv ==
    /\ TypeOK /\ Fresh /\ Fingerprinted /\ Begun /\ KnownHeld
    /\ OneFingerprintPerText /\ OriginalsHeld /\ JobsCountRows /\ PermitsReturned

-----------------------------------------------------------------------------
(* What the operators of the module return.                                *)

\* There is a first row in any set of rows.  The intervals below its members are
\* finite sets, among which the library gives a minimal one.
LEMMA FirstHolds ==
    ASSUME NEW S \in SUBSET Nat, S # {}
    PROVE  First(S) \in S /\ \A j \in S : First(S) <= j
<1> DEFINE Below == {0..i : i \in S}
<1>1. Below \subseteq FiniteSubsetsOf(Nat) /\ Below # {}
  <2>1. ASSUME NEW i \in S PROVE 0..i \in FiniteSubsetsOf(Nat)
    <3>1. IsFiniteSet(0..i)
      BY FS_Interval
    <3>2. 0..i \subseteq Nat
      OBVIOUS
    <3> QED
      BY <3>1, <3>2 DEF FiniteSubsetsOf
  <2> QED
    BY <2>1
<1>2. PICK b \in Below : \A a \in Below : ~(<<a, b>> \in StrictSubsetOrdering(Nat))
  <2> HIDE DEF Below
  <2> QED
    BY <1>1, FS_StrictSubsetOrderingWellFounded, WFMin
<1>3. PICK i \in S : b = 0..i
  BY <1>2
<1>4. ASSUME NEW j \in S, ~(i <= j) PROVE FALSE
  <2>1. i \in Nat /\ j \in Nat /\ j < i
    BY <1>4
  <2>2. /\ 0..j \subseteq 0..i /\ 0..j # 0..i
        /\ 0..j \in SUBSET Nat /\ 0..i \in SUBSET Nat
    BY <2>1
  <2>3. <<0..j, 0..i>> \in StrictSubsetOrdering(Nat)
    BY <2>2 DEF StrictSubsetOrdering
  <2> QED
    BY <1>2, <1>3, <2>3
<1> QED
  BY <1>4 DEF First

\* Any set of the numbers up to n is finite and has a size.
LEMMA NumbersFinite ==
    ASSUME NEW n \in Nat, NEW S \in SUBSET (1..n)
    PROVE  IsFiniteSet(S) /\ Cardinality(S) \in Nat
<1>1. IsFiniteSet(1..n)
  BY FS_Interval
<1>2. IsFiniteSet(S)
  BY <1>1, FS_Subset
<1> QED
  BY <1>2, FS_CardinalityType

\* The rows are numbered from one, and each is a document's.
LEMMA RowsTyped ==
    ASSUME docs \in Seq(Documents)
    PROVE  /\ Len(docs) \in Nat
           /\ Rows \subseteq Nat
           /\ docs \in [Rows -> Documents]
BY LenProperties DEF Rows

\* A list of as many documents as before is one again.
LEMMA SameLength ==
    ASSUME docs \in Seq(Documents), docs' \in [Rows -> Documents]
    PROVE  docs' \in Seq(Documents) /\ Len(docs') = Len(docs) /\ Rows' = Rows
<1>1. Len(docs) \in Nat /\ docs' \in [1..Len(docs) -> Documents]
  BY RowsTyped DEF Rows
<1>2. docs' \in Seq(Documents)
  BY <1>1, SeqDef
<1>3. Len(docs') = Len(docs)
  BY <1>1, <1>2
<1> QED
  BY <1>2, <1>3 DEF Rows

-----------------------------------------------------------------------------
(* The seven ways out of download_one, as one.                             *)

\* What a job adds to its counters for a row that became r.
Counts(old, new, r) ==
    /\ new.source = old.source
    /\ new.downloaded = IF r.hash = None THEN old.downloaded ELSE old.downloaded + 1
    /\ new.duplicate = IF r.status = "duplicate" THEN old.duplicate + 1 ELSE old.duplicate
    /\ new.failed >= IF r.status = "failed" /\ r.hash = None THEN old.failed + 1
                                                             ELSE old.failed

\* A row ends its download: no other row changes, its job counts what it became,
\* and the permit is given back.
Ends(i) ==
    /\ Holding(i)
    /\ docs' \in [Rows -> Documents]
    /\ \A k \in Rows \ {i} : docs'[k] = docs[k]
    /\ docs'[i].source = docs[i].source
    /\ docs'[i].crawl = docs[i].crawl
    /\ docs'[i].status \in {"processed", "failed", "duplicate"}
    /\ jobs' \in [Crawls -> CrawlJobs]
    /\ \A c \in Crawls \ {Job(i)} : jobs'[c] = jobs[c]
    /\ Counts(jobs[Job(i)], jobs'[Job(i)], docs'[i])
    /\ Release

RepeatsFile(i) ==
    /\ docs'[i].status = "duplicate" /\ docs'[i].hash = None /\ docs'[i].content = None
    /\ \E f \in known[Job(i)] : docs'[i].original = First(ByFileHash(f))
    /\ UNCHANGED fingerprints

RepeatsText(i) ==
    /\ docs'[i].status = "duplicate" /\ docs'[i].hash # None /\ docs'[i].content = None
    /\ \E t \in Texts :
           /\ ByContent(docs[i].source, t) # {}
           /\ docs'[i].original = First(ByContent(docs[i].source, t))
    /\ UNCHANGED fingerprints

BringsText(i) ==
    /\ docs'[i].status # "duplicate" /\ docs'[i].content \in Texts
    /\ ByContent(docs[i].source, docs'[i].content) = {}
    /\ fingerprints' = fingerprints \cup {i}

BringsNothing(i) ==
    /\ docs'[i].status # "duplicate" /\ docs'[i].content \notin Texts
    /\ UNCHANGED fingerprints

Outcome(i) ==
    Ends(i) /\ (RepeatsFile(i) \/ RepeatsText(i) \/ BringsText(i) \/ BringsNothing(i))

\* What an end of a download writes, as a row and a job.
LEMMA EndsAs ==
    ASSUME TypeOK, NEW i \in Rows, Holding(i), Release,
           NEW r \in Documents, docs' = [docs EXCEPT ![i] = r],
           r.source = docs[i].source, r.crawl = docs[i].crawl,
           r.status \in {"processed", "failed", "duplicate"},
           NEW j \in CrawlJobs, jobs' = [jobs EXCEPT ![Job(i)] = j],
           Counts(jobs[Job(i)], j, r)
    PROVE  Ends(i) /\ docs'[i] = r
<1>1. docs \in [Rows -> Documents] /\ jobs \in [Crawls -> CrawlJobs] /\ Job(i) \in Crawls
  BY RowsTyped DEF TypeOK, Documents, Job
<1>2. docs'[i] = r /\ docs' \in [Rows -> Documents] /\ \A k \in Rows \ {i} : docs'[k] = docs[k]
  BY <1>1
<1>3. /\ jobs'[Job(i)] = j /\ jobs' \in [Crawls -> CrawlJobs]
      /\ \A c \in Crawls \ {Job(i)} : jobs'[c] = jobs[c]
  BY <1>1
<1> QED
  BY <1>2, <1>3 DEF Ends

\* Each way out of download_one is one of four outcomes.
LEMMA Outcomes ==
    ASSUME TypeOK, Fresh, KnownHeld, NEW i \in Rows, EndDownload(i)
    PROVE  Outcome(i)
<1>1. docs[i] \in Documents /\ jobs[Job(i)] \in CrawlJobs /\ Job(i) \in Crawls
  <2>1. docs \in [Rows -> Documents] /\ jobs \in [Crawls -> CrawlJobs]
    BY RowsTyped DEF TypeOK
  <2> QED
    BY <2>1 DEF Documents, Job
<1>2. Holding(i) /\ Release
  BY DEF EndDownload, DownloadFails, FileKnown, FileLost, LoadNothing, EtlFails,
         LoadKnown, LoadNew, FileNew
<1>3. docs[i].hash = None /\ docs[i].content = None
  BY <1>2 DEF Fresh, Holding
<1>4. NoText \notin Texts /\ None \notin Files /\ None \notin Texts
  BY IngestionAssumption
<1>5. /\ jobs[Job(i)].downloaded \in Nat /\ jobs[Job(i)].duplicate \in Nat
      /\ jobs[Job(i)].failed \in Nat /\ jobs[Job(i)].failed + 2 \in Nat
      /\ jobs[Job(i)].downloaded + 1 \in Nat /\ jobs[Job(i)].duplicate + 1 \in Nat
  BY <1>1 DEF CrawlJobs
<1>6. CASE DownloadFails(i)
  <2> DEFINE r == [docs[i] EXCEPT !.status = "failed"]
             j == [jobs[Job(i)] EXCEPT !.failed = @ + 1]
  <2>1. docs' = [docs EXCEPT ![i] = r] /\ jobs' = [jobs EXCEPT ![Job(i)] = j]
    BY <1>6 DEF DownloadFails
  <2>2. /\ r \in Documents /\ r.source = docs[i].source /\ r.crawl = docs[i].crawl
        /\ r.status = "failed" /\ r.hash = None /\ r.content = None
    BY <1>1, <1>3 DEF Documents, Statuses
  <2>3. j \in CrawlJobs /\ Counts(jobs[Job(i)], j, r)
    <3>1. /\ j \in CrawlJobs /\ j.source = jobs[Job(i)].source
          /\ j.downloaded = jobs[Job(i)].downloaded
          /\ j.duplicate = jobs[Job(i)].duplicate
          /\ j.failed = jobs[Job(i)].failed + 1
      BY <1>1, <1>5 DEF CrawlJobs
    <3> HIDE DEF r, j
    <3> QED
      BY <1>4, <1>5, <2>2, <3>1 DEF Counts
  <2>4. Ends(i) /\ docs'[i] = r
    <3> HIDE DEF r, j
    <3> QED
      BY <1>2, <2>1, <2>2, <2>3, EndsAs
  <2>5. BringsNothing(i)
    <3> HIDE DEF r
    <3> QED
      BY <1>4, <1>6, <2>2, <2>4 DEF DownloadFails, BringsNothing
  <2> QED
    BY <2>4, <2>5 DEF Outcome
<1>7. ASSUME NEW f \in Files, FileKnown(i, f) PROVE Outcome(i)
  <2> DEFINE r == [docs[i] EXCEPT !.status = "duplicate", !.original = First(ByFileHash(f))]
             j == [jobs[Job(i)] EXCEPT !.duplicate = @ + 1]
  <2>1. docs' = [docs EXCEPT ![i] = r] /\ jobs' = [jobs EXCEPT ![Job(i)] = j]
    BY <1>7 DEF FileKnown
  <2>0. First(ByFileHash(f)) \in Nat
    <3>1. ByFileHash(f) # {}
      BY <1>1, <1>7 DEF FileKnown, KnownHeld
    <3>2. ByFileHash(f) \subseteq Nat
      BY RowsTyped DEF ByFileHash, TypeOK
    <3> QED
      BY <3>1, <3>2, FirstHolds
  <2>2. /\ r \in Documents /\ r.source = docs[i].source /\ r.crawl = docs[i].crawl
        /\ r.status = "duplicate" /\ r.hash = None /\ r.content = None
        /\ r.original = First(ByFileHash(f))
    BY <2>0, <1>1, <1>3 DEF Documents, Statuses
  <2>3. j \in CrawlJobs /\ Counts(jobs[Job(i)], j, r)
    <3>1. /\ j \in CrawlJobs /\ j.source = jobs[Job(i)].source
          /\ j.downloaded = jobs[Job(i)].downloaded
          /\ j.duplicate = jobs[Job(i)].duplicate + 1
          /\ j.failed = jobs[Job(i)].failed
      BY <1>1, <1>5 DEF CrawlJobs
    <3> HIDE DEF r, j
    <3> QED
      BY <1>4, <1>5, <2>2, <3>1 DEF Counts
  <2>4. Ends(i) /\ docs'[i] = r
    <3> HIDE DEF r, j
    <3> QED
      BY <1>2, <2>1, <2>2, <2>3, EndsAs
  <2>5. RepeatsFile(i)
    <3> HIDE DEF r
    <3> QED
      BY <1>4, <1>7, <2>2, <2>4 DEF FileKnown, RepeatsFile
  <2> QED
    BY <2>4, <2>5 DEF Outcome
<1>8. ASSUME NEW f \in Files, FileLost(i, f) PROVE Outcome(i)
  <2> DEFINE r == [docs[i] EXCEPT !.status = "failed", !.hash = f]
             j == [jobs[Job(i)] EXCEPT !.downloaded = @ + 1]
  <2>1. docs' = [docs EXCEPT ![i] = r] /\ jobs' = [jobs EXCEPT ![Job(i)] = j]
    BY <1>8 DEF FileLost
  <2>2. /\ r \in Documents /\ r.source = docs[i].source /\ r.crawl = docs[i].crawl
        /\ r.status = "failed" /\ r.hash = f /\ r.content = None
    BY <1>1, <1>3 DEF Documents, Statuses
  <2>3. j \in CrawlJobs /\ Counts(jobs[Job(i)], j, r)
    <3>1. /\ j \in CrawlJobs /\ j.source = jobs[Job(i)].source
          /\ j.downloaded = jobs[Job(i)].downloaded + 1
          /\ j.duplicate = jobs[Job(i)].duplicate
          /\ j.failed = jobs[Job(i)].failed
      BY <1>1, <1>5 DEF CrawlJobs
    <3> HIDE DEF r, j
    <3> QED
      BY <1>4, <1>5, <2>2, <3>1 DEF Counts
  <2>4. Ends(i) /\ docs'[i] = r
    <3> HIDE DEF r, j
    <3> QED
      BY <1>2, <2>1, <2>2, <2>3, EndsAs
  <2>5. BringsNothing(i)
    <3> HIDE DEF r
    <3> QED
      BY <1>4, <1>8, <2>2, <2>4 DEF FileLost, BringsNothing
  <2> QED
    BY <2>4, <2>5 DEF Outcome
<1>9. ASSUME NEW f \in Files, LoadNothing(i, f) PROVE Outcome(i)
  <2> DEFINE r == [docs[i] EXCEPT !.status = "processed", !.hash = f, !.content = NoText]
             j == [jobs[Job(i)] EXCEPT !.downloaded = @ + 1]
  <2>1. docs' = [docs EXCEPT ![i] = r] /\ jobs' = [jobs EXCEPT ![Job(i)] = j]
    BY <1>9 DEF LoadNothing
  <2>2. /\ r \in Documents /\ r.source = docs[i].source /\ r.crawl = docs[i].crawl
        /\ r.status = "processed" /\ r.hash = f /\ r.content = NoText
    BY <1>1, <1>3 DEF Documents, Statuses
  <2>3. j \in CrawlJobs /\ Counts(jobs[Job(i)], j, r)
    <3>1. /\ j \in CrawlJobs /\ j.source = jobs[Job(i)].source
          /\ j.downloaded = jobs[Job(i)].downloaded + 1
          /\ j.duplicate = jobs[Job(i)].duplicate
          /\ j.failed = jobs[Job(i)].failed
      BY <1>1, <1>5 DEF CrawlJobs
    <3> HIDE DEF r, j
    <3> QED
      BY <1>4, <1>5, <2>2, <3>1 DEF Counts
  <2>4. Ends(i) /\ docs'[i] = r
    <3> HIDE DEF r, j
    <3> QED
      BY <1>2, <2>1, <2>2, <2>3, EndsAs
  <2>5. BringsNothing(i)
    <3> HIDE DEF r
    <3> QED
      BY <1>4, <1>9, <2>2, <2>4 DEF LoadNothing, BringsNothing
  <2> QED
    BY <2>4, <2>5 DEF Outcome
<1>10. ASSUME NEW f \in Files, EtlFails(i, f) PROVE Outcome(i)
  <2> DEFINE r == [docs[i] EXCEPT !.status = "failed", !.hash = f]
             j == [jobs[Job(i)] EXCEPT !.downloaded = @ + 1, !.failed = @ + 2]
  <2>1. docs' = [docs EXCEPT ![i] = r] /\ jobs' = [jobs EXCEPT ![Job(i)] = j]
    BY <1>10 DEF EtlFails
  <2>2. /\ r \in Documents /\ r.source = docs[i].source /\ r.crawl = docs[i].crawl
        /\ r.status = "failed" /\ r.hash = f /\ r.content = None
    BY <1>1, <1>3 DEF Documents, Statuses
  <2>3. j \in CrawlJobs /\ Counts(jobs[Job(i)], j, r)
    <3>1. /\ j \in CrawlJobs /\ j.source = jobs[Job(i)].source
          /\ j.downloaded = jobs[Job(i)].downloaded + 1
          /\ j.duplicate = jobs[Job(i)].duplicate
          /\ j.failed = jobs[Job(i)].failed + 2
      BY <1>1, <1>5 DEF CrawlJobs
    <3> HIDE DEF r, j
    <3> QED
      BY <1>4, <1>5, <2>2, <3>1 DEF Counts
  <2>4. Ends(i) /\ docs'[i] = r
    <3> HIDE DEF r, j
    <3> QED
      BY <1>2, <2>1, <2>2, <2>3, EndsAs
  <2>5. BringsNothing(i)
    <3> HIDE DEF r
    <3> QED
      BY <1>4, <1>10, <2>2, <2>4 DEF EtlFails, BringsNothing
  <2> QED
    BY <2>4, <2>5 DEF Outcome
<1>11. ASSUME NEW f \in Files, NEW t \in Texts, LoadKnown(i, f, t) PROVE Outcome(i)
  <2> DEFINE r == [docs[i] EXCEPT !.status = "duplicate", !.hash = f,
                                  !.original = First(ByContent(docs[i].source, t))]
             j == [jobs[Job(i)] EXCEPT !.downloaded = @ + 1, !.duplicate = @ + 1]
  <2>1. docs' = [docs EXCEPT ![i] = r] /\ jobs' = [jobs EXCEPT ![Job(i)] = j]
    BY <1>11 DEF LoadKnown
  <2>0. First(ByContent(docs[i].source, t)) \in Nat
    <3>1. ByContent(docs[i].source, t) # {}
      BY <1>11 DEF LoadKnown
    <3>2. ByContent(docs[i].source, t) \subseteq Nat
      BY RowsTyped DEF ByContent, TypeOK
    <3> QED
      BY <3>1, <3>2, FirstHolds
  <2>2. /\ r \in Documents /\ r.source = docs[i].source /\ r.crawl = docs[i].crawl
        /\ r.status = "duplicate" /\ r.hash = f /\ r.content = None
        /\ r.original = First(ByContent(docs[i].source, t))
    BY <2>0, <1>1, <1>3 DEF Documents, Statuses
  <2>3. j \in CrawlJobs /\ Counts(jobs[Job(i)], j, r)
    <3>1. /\ j \in CrawlJobs /\ j.source = jobs[Job(i)].source
          /\ j.downloaded = jobs[Job(i)].downloaded + 1
          /\ j.duplicate = jobs[Job(i)].duplicate + 1
          /\ j.failed = jobs[Job(i)].failed
      BY <1>1, <1>5 DEF CrawlJobs
    <3> HIDE DEF r, j
    <3> QED
      BY <1>4, <1>5, <2>2, <3>1 DEF Counts
  <2>4. Ends(i) /\ docs'[i] = r
    <3> HIDE DEF r, j
    <3> QED
      BY <1>2, <2>1, <2>2, <2>3, EndsAs
  <2>5. RepeatsText(i)
    <3> HIDE DEF r
    <3> QED
      BY <1>4, <1>11, <2>2, <2>4 DEF LoadKnown, RepeatsText
  <2> QED
    BY <2>4, <2>5 DEF Outcome
<1>12. ASSUME NEW f \in Files, NEW t \in Texts, NEW w \in BOOLEAN, LoadNew(i, f, t, w) PROVE Outcome(i)
  <2> DEFINE r == [docs[i] EXCEPT !.status = IF w THEN "processed" ELSE "failed",
                                  !.hash = f, !.content = t]
             j == [jobs[Job(i)] EXCEPT !.downloaded = @ + 1,
                                       !.failed = IF w THEN @ ELSE @ + 2]
  <2>1. docs' = [docs EXCEPT ![i] = r] /\ jobs' = [jobs EXCEPT ![Job(i)] = j]
    BY <1>12 DEF LoadNew
  <2>0. (IF w THEN jobs[Job(i)].failed ELSE jobs[Job(i)].failed + 2) \in Nat
    BY <1>5
  <2>2. /\ r \in Documents /\ r.source = docs[i].source /\ r.crawl = docs[i].crawl
        /\ r.status \in {"processed", "failed"} /\ r.hash = f /\ r.content = t
    BY <1>1, <1>3 DEF Documents, Statuses
  <2>3. j \in CrawlJobs /\ Counts(jobs[Job(i)], j, r)
    <3>1. /\ j \in CrawlJobs /\ j.source = jobs[Job(i)].source
          /\ j.downloaded = jobs[Job(i)].downloaded + 1
          /\ j.duplicate = jobs[Job(i)].duplicate
          /\ j.failed = IF w THEN jobs[Job(i)].failed ELSE jobs[Job(i)].failed + 2
      BY <1>1, <1>5, <2>0 DEF CrawlJobs
    <3> HIDE DEF r, j
    <3> QED
      BY <1>4, <1>5, <2>2, <3>1 DEF Counts
  <2>4. Ends(i) /\ docs'[i] = r
    <3> HIDE DEF r, j
    <3> QED
      BY <1>2, <2>1, <2>2, <2>3, EndsAs
  <2>5. BringsText(i)
    <3> HIDE DEF r
    <3> QED
      BY <1>4, <1>12, <2>2, <2>4 DEF LoadNew, BringsText
  <2> QED
    BY <2>4, <2>5 DEF Outcome
<1> QED
  BY <1>6, <1>7, <1>8, <1>9, <1>10, <1>11, <1>12 DEF EndDownload

-----------------------------------------------------------------------------
(* What the end of a download keeps.                                       *)

Hashed(c) == {i \in OwnRows(c) : docs[i].hash # None}

Duplicates(c) == {i \in OwnRows(c) : docs[i].status = "duplicate"}

Undownloaded(c) == {i \in OwnRows(c) : docs[i].status = "failed" /\ docs[i].hash = None}

Held == {i \in Rows : Holding(i)}

\* No row moves to another crawl or source, and one download fewer is under way.
LEMMA EndsRow ==
    ASSUME TypeOK, NEW i \in Rows, Ends(i)
    PROVE  /\ docs' \in Seq(Documents) /\ Len(docs') = Len(docs) /\ Rows' = Rows
           /\ \A c : OwnRows(c)' = OwnRows(c)
           /\ \A k \in Rows : docs'[k].source = docs[k].source /\ docs'[k].crawl = docs[k].crawl
           /\ i \in Held /\ Held' = Held \ {i}
           /\ phase' = phase /\ known' = known /\ permits' = permits + 1
<1>1. docs' \in Seq(Documents) /\ Len(docs') = Len(docs) /\ Rows' = Rows
  BY SameLength DEF TypeOK, Ends
<1>2. \A k \in Rows : docs'[k].source = docs[k].source /\ docs'[k].crawl = docs[k].crawl
  BY DEF Ends
<1>3. phase' = phase /\ known' = known /\ permits' = permits + 1
  BY DEF Ends, Release
<1>4. \A k \in Rows : Holding(k)' <=> Holding(k) /\ k # i
  BY <1>2, <1>3 DEF Ends, Holding
<1>5. i \in Held /\ Held' = Held \ {i}
  BY <1>1, <1>4 DEF Ends, Held
<1>6. \A c : OwnRows(c)' = OwnRows(c)
  BY <1>1, <1>2 DEF OwnRows
<1> QED
  BY <1>1, <1>2, <1>3, <1>5, <1>6

\* The permit given back is one that was held.  (async with self._semaphore)
LEMMA EndsPermits ==
    ASSUME TypeOK, PermitsReturned, NEW i \in Rows, Ends(i)
    PROVE  PermitsReturned' /\ permits' \in 0..Concurrency
<1>1. i \in Held /\ Held' = Held \ {i} /\ permits' = permits + 1
  BY EndsRow
<1>2. IsFiniteSet(Held) /\ Cardinality(Held) \in Nat
  BY RowsTyped, NumbersFinite DEF TypeOK, Held, Rows
<1>3. Cardinality(Held') = Cardinality(Held) - 1 /\ Cardinality(Held') \in Nat
  BY <1>1, <1>2, FS_RemoveElement, FS_CardinalityType
<1>4. permits \in Nat /\ Concurrency \in Nat /\ permits + Cardinality(Held) = Concurrency
  BY IngestionAssumption DEF TypeOK, PermitsReturned, Held
<1>5. permits' + Cardinality(Held') = Concurrency /\ permits' \in 0..Concurrency
  BY <1>1, <1>2, <1>3, <1>4
<1> QED
  BY <1>5 DEF PermitsReturned, Held

\* A row that ends its download changes its job's counters as it changes the sets
\* they count.  (documents_downloaded, _duplicate, _failed)
LEMMA EndsCounts ==
    ASSUME TypeOK, Fresh, JobsCountRows, NEW i \in Rows, Ends(i)
    PROVE  JobsCountRows'
<1> SUFFICES ASSUME NEW c \in Crawls
             PROVE  /\ jobs'[c].downloaded = Cardinality(Hashed(c)')
                    /\ jobs'[c].duplicate = Cardinality(Duplicates(c)')
                    /\ jobs'[c].failed >= Cardinality(Undownloaded(c)')
  BY DEF JobsCountRows, Hashed, Duplicates, Undownloaded
<1>1. /\ jobs[c].downloaded = Cardinality(Hashed(c))
      /\ jobs[c].duplicate = Cardinality(Duplicates(c))
      /\ jobs[c].failed >= Cardinality(Undownloaded(c))
      /\ jobs[c].failed \in Nat
  BY DEF JobsCountRows, Hashed, Duplicates, Undownloaded, TypeOK, CrawlJobs
<1>2. OwnRows(c)' = OwnRows(c) /\ OwnRows(c) \subseteq Rows
  BY EndsRow DEF OwnRows
<1>3. \A S \in SUBSET Rows : IsFiniteSet(S) /\ Cardinality(S) \in Nat
  BY RowsTyped, NumbersFinite DEF TypeOK, Rows
<1>4. \A k \in Rows \ {i} : docs'[k] = docs[k]
  BY DEF Ends
<1>5. CASE c # Job(i)
  <2>1. jobs'[c] = jobs[c] /\ i \notin OwnRows(c)
    BY <1>5 DEF Ends, OwnRows, Job
  <2>2. Hashed(c)' = Hashed(c)
    BY <1>2, <1>4, <2>1 DEF Hashed
  <2>3. Duplicates(c)' = Duplicates(c)
    BY <1>2, <1>4, <2>1 DEF Duplicates
  <2>4. Undownloaded(c)' = Undownloaded(c)
    BY <1>2, <1>4, <2>1 DEF Undownloaded
  <2> QED
    BY <1>1, <2>1, <2>2, <2>3, <2>4
<1>6. CASE c = Job(i)
  <2>1. i \in OwnRows(c)
    BY <1>6 DEF OwnRows, Job
  <2>2. docs[i].status = "downloading" /\ docs[i].hash = None
    BY DEF Ends, Holding, Fresh
  <2>3. Counts(jobs[c], jobs'[c], docs'[i])
    BY <1>6 DEF Ends
  <2>4. jobs'[c].downloaded = Cardinality(Hashed(c)')
    <3>1. i \notin Hashed(c) /\ Hashed(c) \in SUBSET Rows
      BY <1>2, <2>2 DEF Hashed
    <3>2. Hashed(c)' = IF docs'[i].hash = None THEN Hashed(c) ELSE Hashed(c) \cup {i}
      BY <1>2, <1>4, <2>1, <2>2 DEF Hashed
    <3>3. Cardinality(Hashed(c) \cup {i}) = Cardinality(Hashed(c)) + 1
      BY <1>3, <3>1, FS_AddElement
    <3> QED
      BY <1>1, <2>3, <3>2, <3>3 DEF Counts
  <2>5. jobs'[c].duplicate = Cardinality(Duplicates(c)')
    <3>1. i \notin Duplicates(c) /\ Duplicates(c) \in SUBSET Rows
      BY <1>2, <2>2 DEF Duplicates
    <3>2. Duplicates(c)' = IF docs'[i].status = "duplicate" THEN Duplicates(c) \cup {i}
                                                            ELSE Duplicates(c)
      BY <1>2, <1>4, <2>1, <2>2 DEF Duplicates
    <3>3. Cardinality(Duplicates(c) \cup {i}) = Cardinality(Duplicates(c)) + 1
      BY <1>3, <3>1, FS_AddElement
    <3> QED
      BY <1>1, <2>3, <3>2, <3>3 DEF Counts
  <2>6. jobs'[c].failed >= Cardinality(Undownloaded(c)')
    <3>1. i \notin Undownloaded(c) /\ Undownloaded(c) \in SUBSET Rows
      BY <1>2, <2>2 DEF Undownloaded
    <3>2. Undownloaded(c)' = IF docs'[i].status = "failed" /\ docs'[i].hash = None
                             THEN Undownloaded(c) \cup {i} ELSE Undownloaded(c)
      BY <1>2, <1>4, <2>1, <2>2 DEF Undownloaded
    <3>3. /\ Cardinality(Undownloaded(c) \cup {i}) = Cardinality(Undownloaded(c)) + 1
          /\ Cardinality(Undownloaded(c)) \in Nat
      BY <1>3, <3>1, FS_AddElement
    <3>4. jobs'[c] \in CrawlJobs
      BY DEF Ends
    <3>5. jobs'[c].failed \in Nat
      BY <3>4 DEF CrawlJobs
    <3> QED
      BY <1>1, <2>3, <3>2, <3>3, <3>5 DEF Counts
  <2> QED
    BY <2>4, <2>5, <2>6
<1> QED
  BY <1>5, <1>6

\* A text that comes is new for its source, so its fingerprint is too.  (load)
LEMMA EndsFingerprints ==
    ASSUME TypeOK, Fresh, Fingerprinted, OneFingerprintPerText,
           NEW i \in Rows, Outcome(i)
    PROVE  fingerprints' \subseteq Rows' /\ Fingerprinted' /\ OneFingerprintPerText'
<1>1. /\ Rows' = Rows /\ fingerprints \subseteq Rows
      /\ \A k \in Rows : docs'[k].source = docs[k].source
      /\ \A k \in Rows \ {i} : docs'[k] = docs[k]
  BY EndsRow DEF Outcome, Ends, TypeOK
<1>2. docs[i].content = None /\ None \notin Texts
  BY IngestionAssumption DEF Fresh, Outcome, Ends, Holding
<1>3. i \notin fingerprints
  BY <1>2 DEF Fingerprinted
<1>4. CASE BringsText(i)
  <2>1. fingerprints' = fingerprints \cup {i} /\ docs'[i].content \in Texts
        /\ docs'[i].status # "duplicate"
    BY <1>4 DEF BringsText
  <2>2. \A k \in Rows : docs[k].source = docs[i].source => docs[k].content # docs'[i].content
    BY <1>4 DEF BringsText, ByContent
  <2>3. Fingerprinted'
    BY <1>1, <2>1 DEF Fingerprinted
  <2>4. OneFingerprintPerText'
    BY <1>1, <1>3, <2>1, <2>2 DEF OneFingerprintPerText
  <2> QED
    BY <1>1, <2>1, <2>3, <2>4
<1>5. CASE fingerprints' = fingerprints /\ docs'[i].content \notin Texts
  <2>1. Fingerprinted'
    BY <1>1, <1>3, <1>5 DEF Fingerprinted
  <2>2. OneFingerprintPerText'
    BY <1>1, <1>3, <1>5 DEF OneFingerprintPerText
  <2> QED
    BY <1>1, <1>5, <2>1, <2>2
<1> QED
  BY <1>2, <1>4, <1>5 DEF Outcome, RepeatsFile, RepeatsText, BringsNothing

\* What a duplicate repeats was complete before it, and stays.  (mark_duplicate)
LEMMA EndsOriginals ==
    ASSUME TypeOK, Fresh, Fingerprinted, KnownHeld, OriginalsHeld,
           NEW i \in Rows, Outcome(i)
    PROVE  OriginalsHeld' /\ KnownHeld'
<1>1. /\ Rows' = Rows /\ Rows \subseteq Nat
      /\ \A c : OwnRows(c)' = OwnRows(c)
      /\ \A k \in Rows : docs'[k].source = docs[k].source
      /\ \A k \in Rows \ {i} : docs'[k] = docs[k]
      /\ known' = known
  BY EndsRow, RowsTyped DEF Outcome, Ends, TypeOK
<1>2. docs[i].content = None /\ docs[i].hash = None /\ None \notin Texts
  BY IngestionAssumption DEF Fresh, Outcome, Ends, Holding
<1>3. known[Job(i)] \subseteq Files /\ None \notin Files
  <2>1. Job(i) \in Crawls
    BY RowsTyped DEF TypeOK, Documents, Job
  <2> QED
    BY <2>1, IngestionAssumption DEF TypeOK
<1>4. KnownHeld'
  <2> SUFFICES ASSUME NEW c \in Crawls, NEW f \in known[c]
               PROVE  \E j \in ByFileHash(f)' : \A k \in OwnRows(c)' : j < k
    BY <1>1 DEF KnownHeld
  <2>1. PICK j \in ByFileHash(f) : \A k \in OwnRows(c) : j < k
    BY DEF KnownHeld
  <2>2. f # None
    BY IngestionAssumption DEF TypeOK
  <2>3. j \in Rows /\ j # i /\ docs[j].hash = f
    BY <1>2, <2>2 DEF ByFileHash
  <2>4. j \in ByFileHash(f)'
    BY <1>1, <2>3 DEF ByFileHash
  <2> QED
    BY <1>1, <2>1, <2>4
<1>5. OriginalsHeld'
  <2> SUFFICES ASSUME NEW k \in Rows, docs'[k].status = "duplicate"
               PROVE  /\ docs'[k].original \in Rows \ {k}
                      /\ LET o == docs'[docs'[k].original]
                         IN  IF docs'[k].hash = None
                             THEN docs'[k].original < k /\ o.hash # None
                             ELSE /\ o.status # "duplicate" /\ o.content \in Texts
                                  /\ o.source = docs'[k].source
    BY <1>1 DEF OriginalsHeld
  <2>1. CASE k # i
    <3>1. docs'[k] = docs[k] /\ docs[k].status = "duplicate"
      BY <1>1, <2>1
    <3>2. docs[k].original \in Rows \ {k} /\ docs[k].original # i
      BY <1>2, <3>1 DEF OriginalsHeld
    <3>3. docs'[docs[k].original] = docs[docs[k].original]
      BY <1>1, <3>2
    <3> QED
      BY <3>1, <3>2, <3>3 DEF OriginalsHeld
  <2>2. CASE k = i /\ RepeatsFile(i)
    <3>1. PICK f \in known[Job(i)] : docs'[i].original = First(ByFileHash(f))
      BY <2>2 DEF RepeatsFile
    <3>2. PICK j \in ByFileHash(f) : \A m \in OwnRows(Job(i)) : j < m
      <4>1. Job(i) \in Crawls
        BY RowsTyped DEF TypeOK, Documents, Job
      <4> QED
        BY <4>1 DEF KnownHeld
    <3>3. First(ByFileHash(f)) \in ByFileHash(f) /\ First(ByFileHash(f)) <= j
      BY <1>1, <3>2, FirstHolds DEF ByFileHash
    <3>4. j < i
      BY <3>2 DEF OwnRows, Job
    <3> DEFINE o == First(ByFileHash(f))
    <3>5. o \in Rows /\ j \in Rows /\ docs[o].hash = f /\ f # None
      BY <1>3, <3>2, <3>3 DEF ByFileHash
    <3>6. o < i
      BY <1>1, <3>3, <3>4, <3>5
    <3> HIDE DEF o
    <3>7. docs'[o] = docs[o]
      BY <1>1, <3>5, <3>6
    <3>8. docs'[i].original = o
      BY <3>1 DEF o
    <3> QED
      BY <1>1, <2>2, <3>5, <3>6, <3>7, <3>8 DEF RepeatsFile
  <2>3. CASE k = i /\ RepeatsText(i)
    <3>1. PICK t \in Texts : /\ ByContent(docs[i].source, t) # {}
                             /\ docs'[i].original = First(ByContent(docs[i].source, t))
      BY <2>3 DEF RepeatsText
    <3> DEFINE o == First(ByContent(docs[i].source, t))
    <3>2. o \in ByContent(docs[i].source, t)
      BY <1>1, <3>1, FirstHolds DEF ByContent
    <3>3. o \in Rows /\ docs[o].content = t /\ docs[o].source = docs[i].source /\ o # i
      BY <1>2, <3>2 DEF ByContent
    <3>4. docs'[o] = docs[o] /\ docs[o].status # "duplicate"
      BY <1>1, <3>3 DEF Fingerprinted
    <3> HIDE DEF o
    <3>5. docs'[i].original = o
      BY <3>1 DEF o
    <3> QED
      BY <1>1, <2>3, <3>3, <3>4, <3>5 DEF RepeatsText
  <2> QED
    BY <2>1, <2>2, <2>3 DEF Outcome, BringsText, BringsNothing
<1> QED
  BY <1>4, <1>5

\* Every way out of download_one keeps the whole invariant.
LEMMA EndDownloadKeeps ==
    ASSUME IInv, NEW i \in Rows, EndDownload(i)
    PROVE  IInv'
<1>1. Outcome(i) /\ Ends(i)
  BY Outcomes DEF IInv, Outcome
<1>2. PermitsReturned' /\ permits' \in 0..Concurrency
  BY <1>1, EndsPermits DEF IInv
<1>3. JobsCountRows'
  BY <1>1, EndsCounts DEF IInv
<1>4. fingerprints' \subseteq Rows' /\ Fingerprinted' /\ OneFingerprintPerText'
  BY <1>1, EndsFingerprints DEF IInv
<1>5. OriginalsHeld' /\ KnownHeld'
  BY <1>1, EndsOriginals DEF IInv
<1>6. /\ docs' \in Seq(Documents) /\ Rows' = Rows
      /\ \A c : OwnRows(c)' = OwnRows(c)
      /\ phase' = phase /\ known' = known
  BY <1>1, EndsRow DEF IInv
<1>7. TypeOK'
  <2>1. /\ phase \in [Crawls -> {"unborn", "discovering", "downloading", "ended", "cancelled"}]
        /\ known \in [Crawls -> SUBSET Files]
    BY DEF IInv, TypeOK
  <2>2. jobs' \in [Crawls -> CrawlJobs]
    BY <1>1 DEF Ends
  <2> QED
    BY <1>2, <1>4, <1>6, <2>1, <2>2 DEF TypeOK
<1>8. Fresh'
  BY <1>1, <1>6 DEF IInv, Fresh, Ends
<1>9. Begun'
  <2>1. \A c \in Crawls : jobs'[c].source = jobs[c].source
    BY <1>1 DEF Ends, Counts
  <2> QED
    BY <1>6, <2>1 DEF IInv, Begun
<1> QED
  BY <1>2, <1>3, <1>4, <1>5, <1>7, <1>8, <1>9 DEF IInv

-----------------------------------------------------------------------------
(* What the steps outside download_one keep.                               *)

LEMMA InitIInv == Init => IInv
<1> SUFFICES ASSUME Init PROVE IInv
  OBVIOUS
<1>1. Rows = {} /\ docs \in Seq(Documents)
  BY DEF Init, Rows
<1>2. \A c : OwnRows(c) = {}
  BY <1>1 DEF OwnRows
<1>3. NoJob \in CrawlJobs
  BY DEF NoJob, CrawlJobs
<1>4. TypeOK
  BY <1>1, <1>3, IngestionAssumption DEF TypeOK, Init
<1>5. Fresh /\ Fingerprinted /\ OneFingerprintPerText /\ OriginalsHeld
  BY <1>1 DEF Init, Fresh, Fingerprinted, OneFingerprintPerText, OriginalsHeld
<1>6. Begun /\ KnownHeld
  BY <1>2 DEF Init, Begun, KnownHeld
<1>7. JobsCountRows
  <2>1. \A c : Hashed(c) = {} /\ Duplicates(c) = {} /\ Undownloaded(c) = {}
    BY <1>2 DEF Hashed, Duplicates, Undownloaded
  <2>2. \A c \in Crawls : jobs[c].downloaded = 0 /\ jobs[c].duplicate = 0 /\ jobs[c].failed = 0
    BY DEF Init, NoJob
  <2>3. \A c : /\ Cardinality(Hashed(c)) = 0 /\ Cardinality(Duplicates(c)) = 0
              /\ Cardinality(Undownloaded(c)) = 0
    BY <2>1, FS_EmptySet
  <2>4. \A c \in Crawls : /\ jobs[c].downloaded = Cardinality(Hashed(c))
                         /\ jobs[c].duplicate = Cardinality(Duplicates(c))
                         /\ jobs[c].failed >= Cardinality(Undownloaded(c))
    BY <2>2, <2>3
  <2> QED
    BY <2>4 DEF JobsCountRows, Hashed, Duplicates, Undownloaded
<1>8. PermitsReturned
  <2>1. Held = {}
    BY <1>1 DEF Held
  <2>2. Cardinality(Held) = 0
    BY <2>1, FS_EmptySet
  <2>3. permits + Cardinality(Held) = Concurrency
    BY <2>2, IngestionAssumption DEF Init
  <2> QED
    BY <2>3 DEF PermitsReturned, Held
<1> QED
  BY <1>4, <1>5, <1>6, <1>7, <1>8 DEF IInv

\* While no row changes, nothing that is said of rows alone does.
LEMMA RowsKept ==
    ASSUME IInv, docs' = docs, fingerprints' = fingerprints
    PROVE  /\ Rows' = Rows
           /\ \A c : OwnRows(c)' = OwnRows(c)
           /\ docs' \in Seq(Documents) /\ fingerprints' \subseteq Rows'
           /\ Fresh' /\ Fingerprinted' /\ OneFingerprintPerText' /\ OriginalsHeld'
BY DEF IInv, TypeOK, Rows, OwnRows, Fresh, Fingerprinted, OneFingerprintPerText, OriginalsHeld

\* A crawl begins with the hashes its source has, and no rows.  (crawl_source)
LEMMA StartCrawlKeeps ==
    ASSUME IInv, NEW c \in Crawls, NEW s \in Sources, NEW b \in BOOLEAN, StartCrawl(c, s, b)
    PROVE  IInv'
<1>1. /\ Rows' = Rows /\ \A d : OwnRows(d)' = OwnRows(d)
      /\ docs' \in Seq(Documents) /\ fingerprints' \subseteq Rows'
      /\ Fresh' /\ Fingerprinted' /\ OneFingerprintPerText' /\ OriginalsHeld'
  BY RowsKept DEF StartCrawl
<1>2. phase[c] = "unborn" /\ OwnRows(c) = {}
  <2>1. c >= c
    BY DEF Crawls
  <2> QED
    BY <2>1 DEF StartCrawl, IInv, Begun
<1> DEFINE j == [NoJob EXCEPT !.source = s, !.status = "running", !.scheduled = b]
<1>3. /\ j \in CrawlJobs /\ j.source = s
      /\ j.downloaded = 0 /\ j.duplicate = 0 /\ j.failed = 0
  BY DEF NoJob, CrawlJobs
<1>4. /\ jobs' = [jobs EXCEPT ![c] = j] /\ phase' = [phase EXCEPT ![c] = "discovering"]
      /\ known' = [known EXCEPT ![c] = HashesOf(s)] /\ permits' = permits /\ docs' = docs
  BY DEF StartCrawl
<1> HIDE DEF j
<1>5. /\ jobs \in [Crawls -> CrawlJobs] /\ known \in [Crawls -> SUBSET Files]
      /\ phase \in [Crawls -> {"unborn", "discovering", "downloading", "ended", "cancelled"}]
      /\ permits \in 0..Concurrency
  BY DEF IInv, TypeOK
<1>6. HashesOf(s) \subseteq Files
  BY RowsTyped DEF HashesOf, IInv, TypeOK, Documents
<1>7. TypeOK'
  BY <1>1, <1>3, <1>4, <1>5, <1>6 DEF TypeOK
<1>8. Begun'
  BY <1>1, <1>2, <1>3, <1>4, <1>5 DEF IInv, Begun
<1>9. KnownHeld'
  <2> SUFFICES ASSUME NEW d \in Crawls, NEW f \in known'[d]
               PROVE  \E k \in ByFileHash(f) : \A i \in OwnRows(d) : k < i
    BY <1>1, <1>4 DEF KnownHeld, ByFileHash
  <2>1. CASE d = c
    <3>1. f \in HashesOf(s)
      BY <1>4, <1>5, <2>1
    <3>2. PICK k \in Rows : docs[k].hash = f
      BY <3>1 DEF HashesOf
    <3> QED
      BY <1>2, <2>1, <3>2 DEF ByFileHash
  <2>2. CASE d # c
    BY <1>4, <1>5, <2>2 DEF IInv, KnownHeld
  <2> QED
    BY <2>1, <2>2
<1>10. JobsCountRows'
  <2> SUFFICES ASSUME NEW d \in Crawls
               PROVE  /\ jobs'[d].downloaded = Cardinality(Hashed(d))
                      /\ jobs'[d].duplicate = Cardinality(Duplicates(d))
                      /\ jobs'[d].failed >= Cardinality(Undownloaded(d))
    BY <1>1, <1>4 DEF JobsCountRows, Hashed, Duplicates, Undownloaded
  <2>1. CASE d = c
    <3>1. Hashed(c) = {} /\ Duplicates(c) = {} /\ Undownloaded(c) = {}
      BY <1>2 DEF Hashed, Duplicates, Undownloaded
    <3> QED
      BY <1>3, <1>4, <1>5, <2>1, <3>1, FS_EmptySet
  <2>2. CASE d # c
    BY <1>4, <1>5, <2>2 DEF IInv, JobsCountRows, Hashed, Duplicates, Undownloaded
  <2> QED
    BY <2>1, <2>2
<1>11. PermitsReturned'
  <2>1. \A i \in Rows : Holding(i)' <=> Holding(i)
    <3> SUFFICES ASSUME NEW i \in Rows PROVE Holding(i)' <=> Holding(i)
      OBVIOUS
    <3>1. docs[i].crawl \in Crawls
      BY RowsTyped DEF IInv, TypeOK, Documents
    <3>2. docs[i].crawl # c
      BY <1>2 DEF OwnRows
    <3> QED
      BY <1>4, <1>5, <3>1, <3>2 DEF Holding
  <2>2. Held' = Held
    BY <1>1, <2>1 DEF Held
  <2> QED
    BY <1>4, <2>2 DEF IInv, PermitsReturned, Held
<1> QED
  BY <1>1, <1>7, <1>8, <1>9, <1>10, <1>11 DEF IInv

\* The crawls whose phase changes have no download under way before or after, the
\* counters of no job change, and no row does.
LEMMA PhaseKeeps ==
    ASSUME IInv, UNCHANGED <<docs, fingerprints, known>>,
           phase' \in [Crawls -> {"unborn", "discovering", "downloading", "ended", "cancelled"}],
           jobs' \in [Crawls -> CrawlJobs],
           \A c \in Crawls :
               /\ phase'[c] # phase[c] => phase[c] # "unborn"
               /\ phase'[c] \in {"unborn", "discovering"} => phase'[c] = phase[c]
               /\ jobs'[c].source = jobs[c].source
               /\ jobs'[c].downloaded = jobs[c].downloaded
               /\ jobs'[c].duplicate = jobs[c].duplicate
               /\ jobs'[c].failed = jobs[c].failed,
           permits' \in Nat, permits' + Cardinality(Held') = Concurrency
    PROVE  IInv'
<1>1. /\ Rows' = Rows /\ \A d : OwnRows(d)' = OwnRows(d)
      /\ docs' \in Seq(Documents) /\ fingerprints' \subseteq Rows'
      /\ Fresh' /\ Fingerprinted' /\ OneFingerprintPerText' /\ OriginalsHeld'
  BY RowsKept
<1>2. Begun'
  BY <1>1 DEF IInv, Begun
<1>3. KnownHeld'
  BY <1>1 DEF IInv, KnownHeld, ByFileHash
<1>4. JobsCountRows'
  <2>1. \A c : /\ Hashed(c)' = Hashed(c) /\ Duplicates(c)' = Duplicates(c)
              /\ Undownloaded(c)' = Undownloaded(c)
    BY <1>1 DEF Hashed, Duplicates, Undownloaded
  <2> SUFFICES ASSUME NEW c \in Crawls
               PROVE  /\ jobs'[c].downloaded = Cardinality(Hashed(c)')
                      /\ jobs'[c].duplicate = Cardinality(Duplicates(c)')
                      /\ jobs'[c].failed >= Cardinality(Undownloaded(c)')
    BY DEF JobsCountRows, Hashed, Duplicates, Undownloaded
  <2>2. /\ jobs[c].downloaded = Cardinality(Hashed(c))
        /\ jobs[c].duplicate = Cardinality(Duplicates(c))
        /\ jobs[c].failed >= Cardinality(Undownloaded(c))
    BY DEF IInv, JobsCountRows, Hashed, Duplicates, Undownloaded
  <2> QED
    BY <2>1, <2>2
<1>5. PermitsReturned'
  BY DEF PermitsReturned, Held
<1>6. permits' \in 0..Concurrency
  <2>1. IsFiniteSet(Held') /\ Cardinality(Held') \in Nat
    <3>1. Held' \in SUBSET (1..Len(docs)) /\ Len(docs) \in Nat
      BY <1>1, RowsTyped DEF Held, Rows, IInv, TypeOK
    <3> QED
      BY <3>1, NumbersFinite
  <2> QED
    BY <2>1, IngestionAssumption
<1>7. TypeOK'
  BY <1>1, <1>6 DEF IInv, TypeOK
<1> QED
  BY <1>1, <1>2, <1>3, <1>4, <1>5, <1>7 DEF IInv

\* gather() returns only when no download of the crawl is under way, so its end
\* gives no permit back; a crawl whose listing failed has no rows at all.
LEMMA EndKeeps ==
    ASSUME IInv, NEW c \in Crawls, DiscoverFails(c) \/ Complete(c)
    PROVE  IInv'
<1>1. PICK s \in {"failed", "completed"} : jobs' = [jobs EXCEPT ![c].status = s]
  BY DEF DiscoverFails, Complete
<1>2. /\ phase[c] \in {"discovering", "downloading"}
      /\ phase' = [phase EXCEPT ![c] = "ended"]
      /\ UNCHANGED <<docs, fingerprints, known, permits>>
  BY DEF DiscoverFails, Complete
<1>3. /\ jobs \in [Crawls -> CrawlJobs] /\ permits \in Nat
      /\ phase \in [Crawls -> {"unborn", "discovering", "downloading", "ended", "cancelled"}]
  BY DEF IInv, TypeOK
<1>4. \A i \in Rows : ~(docs[i].crawl = c /\ Holding(i))
  BY DEF DiscoverFails, Complete, OwnRows, Holding
<1>5. Held' = Held
  <2>1. \A i \in Rows : docs[i].crawl \in Crawls
    BY RowsTyped DEF IInv, TypeOK, Documents
  <2>2. \A i \in Rows : Holding(i)' <=> Holding(i)
    BY <1>2, <1>3, <1>4, <2>1 DEF Holding
  <2> QED
    BY <1>2, <2>2 DEF Held, Rows
<1>6. permits' + Cardinality(Held') = Concurrency
  BY <1>2, <1>5 DEF IInv, PermitsReturned, Held
<1>7. jobs' \in [Crawls -> CrawlJobs]
  <2>1. [jobs[c] EXCEPT !.status = s] \in CrawlJobs
    BY <1>3 DEF CrawlJobs
  <2>2. jobs' = [jobs EXCEPT ![c] = [jobs[c] EXCEPT !.status = s]]
    BY <1>1
  <2> QED
    BY <1>3, <2>1, <2>2
<1>8. \A d \in Crawls :
         /\ jobs'[d].source = jobs[d].source
         /\ jobs'[d].downloaded = jobs[d].downloaded
         /\ jobs'[d].duplicate = jobs[d].duplicate
         /\ jobs'[d].failed = jobs[d].failed
  BY <1>1, <1>3 DEF CrawlJobs
<1>9. \A d \in Crawls :
         /\ phase'[d] # phase[d] => phase[d] # "unborn"
         /\ phase'[d] \in {"unborn", "discovering"} => phase'[d] = phase[d]
  BY <1>2, <1>3
<1>10. phase' \in [Crawls -> {"unborn", "discovering", "downloading", "ended", "cancelled"}]
  BY <1>2, <1>3
<1> QED
  BY <1>2, <1>3, <1>6, <1>7, <1>8, <1>9, <1>10, PhaseKeeps

\* stop() gives back the permits of the downloads it cancels, and only theirs.
LEMMA StopKeeps ==
    ASSUME IInv, Stop
    PROVE  IInv'
<1> DEFINE Lost == {i \in Rows : Holding(i) /\ Job(i) \in Cancelled}
<1>1. /\ phase' = [c \in Crawls |-> IF c \in Cancelled THEN "cancelled" ELSE phase[c]]
      /\ permits' = permits + Cardinality(Lost)
      /\ UNCHANGED <<docs, fingerprints, jobs, known>>
  BY DEF Stop
<1>2. /\ jobs \in [Crawls -> CrawlJobs] /\ permits \in Nat
      /\ phase \in [Crawls -> {"unborn", "discovering", "downloading", "ended", "cancelled"}]
  BY DEF IInv, TypeOK
<1>3. Held' = Held \ Lost
  <2>1. \A i \in Rows : docs[i].crawl \in Crawls
    BY RowsTyped DEF IInv, TypeOK, Documents
  <2>2. \A i \in Rows : Holding(i)' <=> Holding(i) /\ Job(i) \notin Cancelled
    BY <1>1, <2>1 DEF Holding, Job
  <2> QED
    BY <1>1, <2>2 DEF Held, Rows
<1>4. /\ IsFiniteSet(Held) /\ Cardinality(Held) \in Nat
      /\ Cardinality(Lost) \in Nat /\ Lost \subseteq Held
  <2>1. Held \in SUBSET (1..Len(docs)) /\ Lost \in SUBSET (1..Len(docs)) /\ Lost \subseteq Held
    BY DEF Held, Rows
  <2>2. Len(docs) \in Nat
    BY RowsTyped DEF IInv, TypeOK
  <2> QED
    BY <2>1, <2>2, NumbersFinite
<1> HIDE DEF Lost
<1>5. Cardinality(Held') = Cardinality(Held) - Cardinality(Lost)
  <2>1. Held \cap Lost = Lost
    BY <1>4
  <2>2. Cardinality(Held \ Lost) = Cardinality(Held) - Cardinality(Held \cap Lost)
    BY <1>4, FS_Difference
  <2> QED
    BY <1>3, <2>1, <2>2
<1>6. permits' \in Nat /\ permits' + Cardinality(Held') = Concurrency
  <2>1. permits + Cardinality(Held) = Concurrency
    BY DEF IInv, PermitsReturned, Held
  <2> QED
    BY <1>1, <1>2, <1>4, <1>5, <2>1
<1>7. \A c \in Crawls :
         /\ phase'[c] # phase[c] => phase[c] # "unborn"
         /\ phase'[c] \in {"unborn", "discovering"} => phase'[c] = phase[c]
  BY <1>1, <1>2 DEF Cancelled, InProgress
<1>8. phase' \in [Crawls -> {"unborn", "discovering", "downloading", "ended", "cancelled"}]
  BY <1>1, <1>2
<1> QED
  BY <1>1, <1>2, <1>6, <1>7, <1>8, PhaseKeeps

\* The rows of a listing come after the others, and are blank.
LEMMA DiscoverAppends ==
    ASSUME IInv, NEW c \in Crawls, NEW listing \in Listings, Discover(c, listing)
    PROVE  /\ docs' \in Seq(Documents) /\ Rows \subseteq Rows' /\ Rows' \subseteq Nat
           /\ \A i \in Rows : docs'[i] = docs[i]
           /\ \A i \in Rows' \ Rows :
                  /\ \A j \in Rows : j < i
                  /\ docs'[i].crawl = c /\ docs'[i].status = "pending_download"
                  /\ docs'[i].hash = None /\ docs'[i].content = None
<1> DEFINE kept == {k \in DOMAIN listing : ~Skipped(c, listing[k])}
<1>1. PICK new \in [1..Cardinality(kept) -> kept] :
          docs' = docs \o [k \in DOMAIN new |-> Row(c, listing[new[k]])]
  BY DEF Discover
<1>2. PICK n \in 0..Cardinality(ExternalIds) : listing \in [1..n -> ExternalIds]
  BY DEF Listings
<1>3. n \in Nat
  BY IngestionAssumption, FS_CardinalityType
<1>4. kept \in SUBSET (1..n)
  BY <1>2
<1> DEFINE m == Cardinality(kept)
<1>5. m \in Nat
  BY <1>3, <1>4, NumbersFinite
<1>6. jobs[c].source \in Sources
  BY DEF Discover, IInv, Begun
<1>7. \A e \in ExternalIds : Row(c, e) \in Documents
  BY <1>6 DEF Row, Documents, Statuses
<1> DEFINE more == [k \in 1..m |-> Row(c, listing[new[k]])]
<1> HIDE DEF kept, m
<1>8. \A k \in 1..m : listing[new[k]] \in ExternalIds
  BY <1>1, <1>2, <1>4 DEF m
<1>9. more \in Seq(Documents) /\ Len(more) = m
  <2>1. more \in [1..m -> Documents]
    BY <1>7, <1>8
  <2>2. more \in Seq(Documents)
    BY <1>5, <2>1, SeqDef
  <2> QED
    BY <1>5, <2>2
<1>10. docs' = docs \o more
  BY <1>1 DEF m
<1>11. docs \in Seq(Documents) /\ Len(docs) \in Nat
  BY RowsTyped DEF IInv, TypeOK
<1>12. \A k \in 1..m : /\ more[k].crawl = c /\ more[k].status = "pending_download"
                       /\ more[k].hash = None /\ more[k].content = None
  BY DEF Row
<1> HIDE DEF more
<1>13. /\ docs' \in Seq(Documents) /\ Len(docs') = Len(docs) + m
       /\ \A i \in 1..(Len(docs) + m) :
              docs'[i] = IF i <= Len(docs) THEN docs[i] ELSE more[i - Len(docs)]
  BY <1>9, <1>10, <1>11, ConcatProperties
<1>14. \A i \in Rows : docs'[i] = docs[i]
  BY <1>5, <1>11, <1>13 DEF Rows
<1>15. ASSUME NEW i \in Rows' \ Rows
       PROVE  /\ \A j \in Rows : j < i
              /\ docs'[i].crawl = c /\ docs'[i].status = "pending_download"
              /\ docs'[i].hash = None /\ docs'[i].content = None
  <2>1. i \in (Len(docs) + 1)..(Len(docs) + m)
    BY <1>5, <1>11, <1>13 DEF Rows
  <2>2. i - Len(docs) \in 1..m /\ docs'[i] = more[i - Len(docs)]
    BY <1>5, <1>11, <1>13, <2>1
  <2>3. \A j \in Rows : j < i
    BY <1>5, <1>11, <2>1 DEF Rows
  <2> QED
    BY <1>12, <2>2, <2>3
<1>16. Rows \subseteq Rows' /\ Rows' \subseteq Nat
  BY <1>5, <1>11, <1>13 DEF Rows
<1> QED
  BY <1>13, <1>14, <1>15, <1>16

\* The rows of a listing hold no permit and no hash, and no job counts them yet.
LEMMA DiscoverKeeps ==
    ASSUME IInv, NEW c \in Crawls, NEW listing \in Listings, Discover(c, listing)
    PROVE  IInv'
<1>1. /\ docs' \in Seq(Documents) /\ Rows \subseteq Rows' /\ Rows' \subseteq Nat
      /\ \A i \in Rows : docs'[i] = docs[i]
      /\ \A i \in Rows' \ Rows :
             /\ \A j \in Rows : j < i
             /\ docs'[i].crawl = c /\ docs'[i].status = "pending_download"
             /\ docs'[i].hash = None /\ docs'[i].content = None
  BY DiscoverAppends
<1>2. /\ phase[c] = "discovering"
      /\ jobs' = [jobs EXCEPT ![c].found = Len(listing)]
      /\ phase' = [phase EXCEPT ![c] = "downloading"]
      /\ UNCHANGED <<fingerprints, known, permits>>
  BY DEF Discover
<1>3. /\ jobs \in [Crawls -> CrawlJobs] /\ known \in [Crawls -> SUBSET Files]
      /\ phase \in [Crawls -> {"unborn", "discovering", "downloading", "ended", "cancelled"}]
      /\ permits \in 0..Concurrency /\ fingerprints \subseteq Rows
  BY DEF IInv, TypeOK
<1>4. OwnRows(c) = {}
  BY <1>2 DEF IInv, Begun
<1>5. \A d \in Crawls : d # c => OwnRows(d)' = OwnRows(d)
  BY <1>1 DEF OwnRows
<1>6. OwnRows(c)' \subseteq Rows' \ Rows
  BY <1>1, <1>4 DEF OwnRows
<1>7. None \notin Texts /\ None \notin Files
  BY IngestionAssumption
<1>8. TypeOK'
  <2>1. Len(listing) \in Nat
    <3>1. PICK n \in 0..Cardinality(ExternalIds) : listing \in [1..n -> ExternalIds]
      BY DEF Listings
    <3>2. n \in Nat
      BY IngestionAssumption, FS_CardinalityType
    <3>3. listing \in Seq(ExternalIds)
      BY <3>1, <3>2, SeqDef
    <3> QED
      BY <3>3, LenProperties
  <2>2. [jobs[c] EXCEPT !.found = Len(listing)] \in CrawlJobs
    BY <1>3, <2>1 DEF CrawlJobs
  <2>3. jobs' = [jobs EXCEPT ![c] = [jobs[c] EXCEPT !.found = Len(listing)]]
    BY <1>2
  <2>4. jobs' \in [Crawls -> CrawlJobs]
    BY <1>3, <2>2, <2>3
  <2> QED
    BY <1>1, <1>2, <1>3, <2>4 DEF TypeOK
<1>9. \A d \in Crawls :
         /\ jobs'[d].source = jobs[d].source
         /\ jobs'[d].downloaded = jobs[d].downloaded
         /\ jobs'[d].duplicate = jobs[d].duplicate
         /\ jobs'[d].failed = jobs[d].failed
  BY <1>2, <1>3 DEF CrawlJobs
<1>10. Fresh'
  BY <1>1 DEF IInv, Fresh
<1>11. Fingerprinted' /\ OneFingerprintPerText'
  <2>1. Fingerprinted'
    BY <1>1, <1>2, <1>3, <1>7 DEF IInv, Fingerprinted
  <2>2. OneFingerprintPerText'
    BY <1>1, <1>2, <1>3 DEF IInv, OneFingerprintPerText
  <2> QED
    BY <2>1, <2>2
<1>12. Begun'
  BY <1>2, <1>3, <1>5, <1>9 DEF IInv, Begun
<1>13. KnownHeld'
  <2> SUFFICES ASSUME NEW d \in Crawls, NEW f \in known[d]
               PROVE  \E j \in ByFileHash(f)' : \A i \in OwnRows(d)' : j < i
    BY <1>2 DEF KnownHeld
  <2>1. PICK j \in ByFileHash(f) : \A i \in OwnRows(d) : j < i
    BY DEF IInv, KnownHeld
  <2>2. j \in Rows /\ j \in ByFileHash(f)'
    BY <1>1, <2>1 DEF ByFileHash
  <2>3. \A i \in OwnRows(d)' : j < i
    BY <1>1, <1>5, <1>6, <2>1, <2>2
  <2> QED
    BY <2>2, <2>3
<1>14. OriginalsHeld'
  <2>1. ASSUME NEW k \in Rows, docs[k].status = "duplicate"
        PROVE  docs[k].original \in Rows \ {k} /\ docs'[docs[k].original] = docs[docs[k].original]
    BY <1>1, <2>1 DEF IInv, OriginalsHeld
  <2>2. \A k \in Rows' : docs'[k].status = "duplicate" => k \in Rows /\ docs'[k] = docs[k]
    BY <1>1
  <2> SUFFICES ASSUME NEW k \in Rows, docs[k].status = "duplicate", docs'[k] = docs[k]
               PROVE  /\ docs'[k].original \in Rows' \ {k}
                      /\ LET o == docs'[docs'[k].original]
                         IN  IF docs'[k].hash = None
                             THEN docs'[k].original < k /\ o.hash # None
                             ELSE /\ o.status # "duplicate" /\ o.content \in Texts
                                  /\ o.source = docs'[k].source
    BY <2>2 DEF OriginalsHeld
  <2>3. /\ docs[k].original \in Rows \ {k} /\ docs[k].original \in Rows' \ {k}
        /\ docs'[docs[k].original] = docs[docs[k].original]
    BY <1>1, <2>1
  <2> QED
    BY <2>3 DEF IInv, OriginalsHeld
<1>15. JobsCountRows'
  <2> SUFFICES ASSUME NEW d \in Crawls
               PROVE  /\ Hashed(d)' = Hashed(d) /\ Duplicates(d)' = Duplicates(d)
                      /\ Undownloaded(d)' = Undownloaded(d)
    BY <1>9 DEF IInv, JobsCountRows, Hashed, Duplicates, Undownloaded
  <2>1. CASE d = c
    BY <1>1, <1>4, <1>6, <2>1 DEF Hashed, Duplicates, Undownloaded
  <2>2. CASE d # c
    BY <1>1, <1>5, <2>2 DEF Hashed, Duplicates, Undownloaded, OwnRows
  <2> QED
    BY <2>1, <2>2
<1>16. PermitsReturned'
  <2>1. \A i \in Rows : docs[i].crawl \in Crawls /\ docs[i].crawl # c
    BY <1>4, RowsTyped DEF IInv, TypeOK, Documents, OwnRows
  <2>2. \A i \in Rows : Holding(i)' <=> Holding(i)
    BY <1>1, <1>2, <1>3, <2>1 DEF Holding
  <2>3. Held' = Held
    BY <1>1, <2>2 DEF Held, Holding
  <2> QED
    BY <1>2, <2>3 DEF IInv, PermitsReturned, Held
<1> QED
  BY <1>8, <1>10, <1>11, <1>12, <1>13, <1>14, <1>15, <1>16 DEF IInv

\* A download that begins takes one permit, and blank its row stays.
LEMMA BeginDownloadKeeps ==
    ASSUME IInv, NEW i \in Rows, BeginDownload(i)
    PROVE  IInv'
<1>1. /\ Waiting(i) /\ permits > 0 /\ permits' = permits - 1
      /\ UNCHANGED <<fingerprints, jobs, phase, known>>
  BY DEF BeginDownload
<1>2. /\ docs \in Seq(Documents) /\ docs \in [Rows -> Documents] /\ Rows \subseteq Nat
      /\ \A k \in Rows : docs[k] \in Documents
  BY RowsTyped DEF IInv, TypeOK
<1> DEFINE began == [docs[i] EXCEPT !.status = "downloading", !.shared = SamePath(i) # {}]
           beside(k) == [docs[k] EXCEPT !.shared = @ \/ k \in SamePath(i)]
<1>3. docs' = [k \in Rows |-> IF k = i THEN began ELSE beside(k)]
  BY DEF BeginDownload
<1>4. /\ began \in Documents /\ began.source = docs[i].source /\ began.crawl = docs[i].crawl
      /\ began.status = "downloading" /\ began.hash = docs[i].hash
      /\ began.content = docs[i].content
  <2>1. (SamePath(i) # {}) \in BOOLEAN
    OBVIOUS
  <2> QED
    BY <1>2, <2>1 DEF Documents, Statuses
<1>5. ASSUME NEW k \in Rows
      PROVE  /\ beside(k) \in Documents
             /\ beside(k).source = docs[k].source /\ beside(k).crawl = docs[k].crawl
             /\ beside(k).status = docs[k].status /\ beside(k).hash = docs[k].hash
             /\ beside(k).content = docs[k].content /\ beside(k).original = docs[k].original
  <2>1. (docs[k].shared \/ k \in SamePath(i)) \in BOOLEAN
    OBVIOUS
  <2> QED
    BY <1>2, <2>1 DEF Documents
<1> HIDE DEF began, beside
<1>6. docs' \in [Rows -> Documents]
  BY <1>3, <1>4, <1>5
<1>7. docs' \in Seq(Documents) /\ Rows' = Rows
  BY <1>2, <1>6, SameLength
<1>8. docs[i].status = "pending_download"
  BY <1>1 DEF Waiting
<1>9. /\ docs'[i].status = "downloading"
      /\ \A k \in Rows \ {i} : /\ docs'[k].status = docs[k].status
                               /\ docs'[k].original = docs[k].original
      /\ \A k \in Rows : /\ docs'[k].source = docs[k].source /\ docs'[k].crawl = docs[k].crawl
                         /\ docs'[k].hash = docs[k].hash /\ docs'[k].content = docs[k].content
  BY <1>3, <1>4, <1>5
<1>10. \A c : OwnRows(c)' = OwnRows(c)
  BY <1>7, <1>9 DEF OwnRows
<1>11. Held' = Held \cup {i} /\ i \notin Held
  <2>1. Holding(i)' /\ ~Holding(i)
    BY <1>1, <1>8, <1>9 DEF Holding, Waiting
  <2>2. \A k \in Rows \ {i} : Holding(k)' <=> Holding(k)
    BY <1>1, <1>9 DEF Holding
  <2> QED
    BY <1>7, <2>1, <2>2 DEF Held
<1>12. PermitsReturned' /\ permits' \in 0..Concurrency
  <2>1. IsFiniteSet(Held) /\ Cardinality(Held) \in Nat
    BY RowsTyped, NumbersFinite DEF Held, Rows, IInv, TypeOK
  <2>2. Cardinality(Held') = Cardinality(Held) + 1
    BY <1>11, <2>1, FS_AddElement
  <2>3. permits \in Nat /\ permits + Cardinality(Held) = Concurrency /\ Concurrency \in Nat
    BY IngestionAssumption DEF IInv, TypeOK, PermitsReturned, Held
  <2>4. permits' + Cardinality(Held') = Concurrency /\ permits' \in 0..Concurrency
    BY <1>1, <2>1, <2>2, <2>3
  <2> QED
    BY <2>4 DEF PermitsReturned, Held
<1>13. TypeOK'
  BY <1>1, <1>7, <1>12 DEF IInv, TypeOK
<1>14. Fresh'
  BY <1>7, <1>8, <1>9 DEF IInv, Fresh
<1>15. Fingerprinted' /\ OneFingerprintPerText'
  <2>1. Fingerprinted'
    BY <1>1, <1>7, <1>9 DEF IInv, Fingerprinted
  <2>2. fingerprints \subseteq Rows
    BY DEF IInv, TypeOK
  <2>3. OneFingerprintPerText'
    BY <1>1, <1>9, <2>2 DEF IInv, OneFingerprintPerText
  <2> QED
    BY <2>1, <2>3
<1>16. Begun'
  BY <1>1, <1>10 DEF IInv, Begun
<1>17. KnownHeld'
  <2>1. \A f : ByFileHash(f)' = ByFileHash(f)
    BY <1>7, <1>9 DEF ByFileHash
  <2> QED
    BY <1>1, <1>10, <2>1 DEF IInv, KnownHeld
<1>18. OriginalsHeld'
  <2> SUFFICES ASSUME NEW k \in Rows \ {i}, docs[k].status = "duplicate"
               PROVE  /\ docs[k].original \in Rows \ {k}
                      /\ LET o == docs'[docs[k].original]
                         IN  IF docs[k].hash = None
                             THEN docs[k].original < k /\ o.hash # None
                             ELSE /\ o.status # "duplicate" /\ o.content \in Texts
                                  /\ o.source = docs[k].source
    BY <1>7, <1>9 DEF OriginalsHeld
  <2>1. docs[k].original \in Rows \ {k}
    BY DEF IInv, OriginalsHeld
  <2>2. docs'[docs[k].original].status # "duplicate" <=> docs[docs[k].original].status # "duplicate"
    BY <1>8, <1>9, <2>1
  <2> QED
    BY <1>9, <2>1, <2>2 DEF IInv, OriginalsHeld
<1>19. JobsCountRows'
  <2>1. ASSUME NEW c \in Crawls
        PROVE  /\ Hashed(c)' = Hashed(c) /\ Duplicates(c)' = Duplicates(c)
               /\ Undownloaded(c)' = Undownloaded(c)
    <3>1. OwnRows(c) \subseteq Rows
      BY DEF OwnRows
    <3> QED
      BY <1>8, <1>9, <1>10, <3>1 DEF Hashed, Duplicates, Undownloaded
  <2> QED
    BY <1>1, <2>1 DEF IInv, JobsCountRows, Hashed, Duplicates, Undownloaded
<1> QED
  BY <1>12, <1>13, <1>14, <1>15, <1>16, <1>17, <1>18, <1>19 DEF IInv

-----------------------------------------------------------------------------
(* The theorems.                                                           *)

LEMMA StepIInv == IInv /\ [Next]_vars => IInv'
<1> SUFFICES ASSUME IInv, [Next]_vars PROVE IInv'
  OBVIOUS
<1>1. ASSUME NEW c \in Crawls, NEW s \in Sources, NEW b \in BOOLEAN, StartCrawl(c, s, b)
      PROVE  IInv'
  BY <1>1, StartCrawlKeeps
<1>2. ASSUME NEW c \in Crawls, NEW listing \in Listings, Discover(c, listing) PROVE IInv'
  BY <1>2, DiscoverKeeps
<1>3. ASSUME NEW c \in Crawls, DiscoverFails(c) \/ Complete(c) PROVE IInv'
  BY <1>3, EndKeeps
<1>4. ASSUME NEW i \in Rows, BeginDownload(i) PROVE IInv'
  BY <1>4, BeginDownloadKeeps
<1>5. ASSUME NEW i \in Rows, EndDownload(i) PROVE IInv'
  BY <1>5, EndDownloadKeeps
<1>6. CASE Stop
  BY <1>6, StopKeeps
<1>7. CASE UNCHANGED vars
  <2>1. /\ jobs \in [Crawls -> CrawlJobs] /\ permits \in Nat
        /\ phase \in [Crawls -> {"unborn", "discovering", "downloading", "ended", "cancelled"}]
    BY DEF IInv, TypeOK
  <2>2. Held' = Held
    BY <1>7 DEF vars, Held, Rows, Holding
  <2>3. permits' + Cardinality(Held') = Concurrency
    BY <1>7, <2>2 DEF vars, IInv, PermitsReturned, Held
  <2> QED
    BY <1>7, <2>1, <2>3, PhaseKeeps DEF vars
<1> QED
  BY <1>1, <1>2, <1>3, <1>4, <1>5, <1>6, <1>7 DEF Next

\* The four invariants of the crawls and what they rest on hold of every run, for
\* every number of crawls and permits.  (crawl_source, download_one, load, stop)
THEOREM Invariance == Spec => []IInv
BY InitIInv, StepIInv, PTL DEF Spec

\* Rows, jobs and the semaphore keep to their domains; the semaphore never has
\* more permits than it was made with.  (asyncio.Semaphore)
THEOREM TypeCorrect == Spec => []TypeOK
<1>1. IInv => TypeOK
  BY DEF IInv
<1> QED
  BY <1>1, Invariance, PTL

\* Crawls of one source, however they overlap, give a text one fingerprint.  (load)
THEOREM TextsFingerprintedOnce == Spec => []OneFingerprintPerText
<1>1. IInv => OneFingerprintPerText
  BY DEF IInv
<1> QED
  BY <1>1, Invariance, PTL

\* A duplicate points to a row that holds what it repeats.  (mark_duplicate)
THEOREM OriginalsStayHeld == Spec => []OriginalsHeld
<1>1. IInv => OriginalsHeld
  BY DEF IInv
<1> QED
  BY <1>1, Invariance, PTL

\* A job's counters agree with its rows at every moment.  (CrawlJob)
THEOREM JobsAlwaysCount == Spec => []JobsCountRows
<1>1. IInv => JobsCountRows
  BY DEF IInv
<1> QED
  BY <1>1, Invariance, PTL

\* No permit leaks, however a download ends and whatever stop() cancels.
\* (async with self._semaphore)
THEOREM PermitsAlwaysReturned == Spec => []PermitsReturned
<1>1. IInv => PermitsReturned
  BY DEF IInv
<1> QED
  BY <1>1, Invariance, PTL
=============================================================================
