-------------------------- MODULE DocumentIngestion --------------------------
(***************************************************************************)
(* Crawls of the regulators' sites: CrawlerService.crawl_source with the   *)
(* ETLService it calls for every file, over the in-memory repositories of  *)
(* ingestion/infrastructure/repositories/in_memory.py, as the CLI and the  *)
(* integration tests build them.                                           *)
(*                                                                         *)
(* The scheduler starts one crawl of a source at a time, requests start    *)
(* any number, and all crawls share one semaphore, one list of documents   *)
(* and one directory of files named after the external identifier.  A      *)
(* crawl is suspended in the site's listing, at the semaphore and in a     *)
(* download; what it does between two of these is one step.  Stored rows   *)
(* are live objects: a change is seen at once, saved or not.               *)
(***************************************************************************)
EXTENDS Integers, FiniteSets, Sequences

CONSTANTS
    Sources,      \* CrawlSourceType
    ExternalIds,  \* the documents a site may list
    Files,        \* the files a site may serve, by their sha256
    Texts,        \* the texts in them, by their content hash
    TextOf,       \* TextOf[f]: the text of file f, NoText when none can be extracted
    Concurrency,  \* the permits of the semaphore, 4 in the code
    MaxCrawls,    \* the crawls that may ever be started
    NoText,       \* the empty string in the code
    None

ASSUME IngestionAssumption ==
    /\ IsFiniteSet(ExternalIds)
    /\ Concurrency \in Nat \ {0}
    /\ MaxCrawls \in Nat
    /\ NoText \notin Texts
    /\ None \notin Files \cup Texts \cup {NoText}
    /\ TextOf \in [Files -> Texts \cup {NoText}]

Crawls == 1..MaxCrawls  \* in the order of their start

VARIABLES
    docs,          \* the rows of the document repository, in the order of insertion
    fingerprints,  \* the rows that have a fingerprint
    jobs,          \* jobs[c]: the CrawlJob of crawl c
    phase,         \* phase[c]: where crawl_source is suspended
    known,         \* known[c]: existing_hashes
    permits        \* what is left of the semaphore

vars == <<docs, fingerprints, jobs, phase, known, permits>>

Row(c, e) ==
    [source |-> jobs[c].source, ext |-> e, crawl |-> c, status |-> "pending_download",
     hash |-> None, content |-> None, original |-> 0, shared |-> FALSE]

-----------------------------------------------------------------------------
(* Look-ups of the repository.                                             *)

Rows == 1..Len(docs)

First(S) == CHOOSE i \in S : \A j \in S : i <= j

\* get_by_external_id and get_by_file_hash return the row inserted first, the
\* latter of any source.
ByExternalId(s, e) == {i \in Rows : docs[i].source = s /\ docs[i].ext = e}

ByFileHash(f) == {i \in Rows : docs[i].hash = f}

ByContent_Processed(s, t) ==
    {i \in Rows : docs[i].source = s /\ docs[i].content = t /\ docs[i].status = "processed"}

ByContent(s, t) == {i \in Rows : docs[i].source = s /\ docs[i].content = t}

\* _get_existing_hashes.
HashesOf(s) == {docs[i].hash : i \in {j \in Rows : docs[j].source = s}} \ {None}

\* The row that counts is the first of its identifier, whatever later rows hold.
Skipped(c, e) ==
    LET rows == ByExternalId(jobs[c].source, e)
    IN  rows # {} /\ docs[First(rows)].hash \in known[c]

-----------------------------------------------------------------------------
NoJob == [source |-> None, status |-> "unborn", scheduled |-> FALSE,
          found |-> 0, downloaded |-> 0, failed |-> 0, duplicate |-> 0]

Init ==
    /\ docs = << >>
    /\ fingerprints = {}
    /\ jobs = [c \in Crawls |-> NoJob]
    /\ phase = [c \in Crawls |-> "unborn"]
    /\ known = [c \in Crawls |-> {}]
    /\ permits = Concurrency

InProgress(c) == phase[c] \in {"discovering", "downloading"}

\* The scheduler's job of a source has max_instances 1; a request starts its own.
StartCrawl(c, s, scheduled) ==
    /\ \A b \in Crawls : phase[b] = "unborn" <=> b >= c
    /\ scheduled => \A b \in Crawls :
                        ~(InProgress(b) /\ jobs[b].scheduled /\ jobs[b].source = s)
    /\ jobs' = [jobs EXCEPT ![c] = [NoJob EXCEPT !.source = s, !.status = "running",
                                                 !.scheduled = scheduled]]
    /\ phase' = [phase EXCEPT ![c] = "discovering"]
    /\ known' = [known EXCEPT ![c] = HashesOf(s)]
    /\ UNCHANGED <<docs, fingerprints, permits>>

Listings == {l \in UNION {[1..n -> ExternalIds] : n \in 0..Cardinality(ExternalIds)} :
                \A j, k \in DOMAIN l : l[j] = l[k] => j = k}

\* The site lists its documents; those not skipped get a row and a coroutine each,
\* in the order of the listing.
Discover(c, listing) ==
    /\ phase[c] = "discovering"
    /\ LET kept == {k \in DOMAIN listing : ~Skipped(c, listing[k])}
       IN  \E new \in [1..Cardinality(kept) -> kept] :
               /\ \A j, k \in DOMAIN new : j < k => new[j] < new[k]
               /\ docs' = docs \o [k \in DOMAIN new |-> Row(c, listing[new[k]])]
    /\ jobs' = [jobs EXCEPT ![c].found = Len(listing)]
    /\ phase' = [phase EXCEPT ![c] = "downloading"]
    /\ UNCHANGED <<fingerprints, known, permits>>

DiscoverFails(c) ==
    /\ phase[c] = "discovering"
    /\ jobs' = [jobs EXCEPT ![c].status = "failed"]
    /\ phase' = [phase EXCEPT ![c] = "ended"]
    /\ UNCHANGED <<docs, fingerprints, known, permits>>

-----------------------------------------------------------------------------
(* download_one.                                                           *)

Waiting(i) == docs[i].status = "pending_download" /\ phase[docs[i].crawl] = "downloading"

Holding(i) == docs[i].status = "downloading" /\ phase[docs[i].crawl] = "downloading"

\* Another download of the same identifier writes to the same path.
SamePath(i) ==
    {j \in Rows \ {i} : Holding(j) /\ docs[j].source = docs[i].source /\ docs[j].ext = docs[i].ext}

\* The semaphore serves its waiters in turn.
BeginDownload(i) ==
    /\ Waiting(i)
    /\ \A j \in 1..(i - 1) : ~Waiting(j)
    /\ permits > 0
    /\ permits' = permits - 1
    /\ docs' = [j \in Rows |->
                  IF j = i
                  THEN [docs[i] EXCEPT !.status = "downloading", !.shared = SamePath(i) # {}]
                  ELSE [docs[j] EXCEPT !.shared = @ \/ j \in SamePath(i)]]
    /\ UNCHANGED <<fingerprints, jobs, phase, known>>

Job(i) == docs[i].crawl

Release_Kept == UNCHANGED <<permits, phase, known>>

Release_Twice == permits' = permits + 2 /\ UNCHANGED <<phase, known>>

\* `async with`: on every way out of download_one.
Release == permits' = permits + 1 /\ UNCHANGED <<phase, known>>

\* The retries of the crawler are exhausted, or it raised something else.
DownloadFails(i) ==
    /\ Holding(i)
    /\ docs' = [docs EXCEPT ![i].status = "failed"]
    /\ jobs' = [jobs EXCEPT ![Job(i)].failed = @ + 1]
    /\ Release
    /\ UNCHANGED fingerprints

\* A file the source had when the crawl began: the row keeps no hash of its own.
FileKnown(i, f) ==
    /\ Holding(i)
    /\ f \in known[Job(i)]
    /\ docs' = [docs EXCEPT ![i].status = "duplicate", ![i].original = First(ByFileHash(f))]
    /\ jobs' = [jobs EXCEPT ![Job(i)].duplicate = @ + 1]
    /\ Release
    /\ UNCHANGED fingerprints

\* Any other file is marked as downloaded and goes through etl_pipeline.
FileNew(i, f) == Holding(i) /\ f \notin known[Job(i)]

\* What is on the disk by then may come from a download that shared the path.
TextRead(i, f) == IF docs[i].shared THEN Texts \cup {NoText} ELSE {TextOf[f]}

\* etl_pipeline finds no file: failed, and counted only as downloaded.
FileLost(i, f) ==
    /\ FileNew(i, f)
    /\ docs[i].shared
    /\ docs' = [docs EXCEPT ![i].status = "failed", ![i].hash = f]
    /\ jobs' = [jobs EXCEPT ![Job(i)].downloaded = @ + 1]
    /\ Release
    /\ UNCHANGED fingerprints

\* load() without a text.
LoadNothing(i, f) ==
    /\ FileNew(i, f)
    /\ NoText \in TextRead(i, f)
    /\ docs' = [docs EXCEPT ![i].status = "processed", ![i].hash = f, ![i].content = NoText]
    /\ jobs' = [jobs EXCEPT ![Job(i)].downloaded = @ + 1]
    /\ Release
    /\ UNCHANGED fingerprints

LoadKnown_Uncounted(i, f, t) ==
    /\ FileNew(i, f)
    /\ t \in TextRead(i, f) \ {NoText}
    /\ ByContent(docs[i].source, t) # {}
    /\ docs' = [docs EXCEPT ![i].status = "duplicate", ![i].hash = f,
                            ![i].original = First(ByContent(docs[i].source, t))]
    /\ jobs' = [jobs EXCEPT ![Job(i)].downloaded = @ + 1]
    /\ Release
    /\ UNCHANGED fingerprints

LoadKnown_Hashed(i, f, t) ==
    /\ FileNew(i, f)
    /\ t \in TextRead(i, f) \ {NoText}
    /\ ByContent(docs[i].source, t) # {}
    /\ docs' = [docs EXCEPT ![i].status = "duplicate", ![i].hash = f, ![i].content = t,
                            ![i].original = First(ByContent(docs[i].source, t))]
    /\ jobs' = [jobs EXCEPT ![Job(i)].downloaded = @ + 1, ![Job(i)].duplicate = @ + 1]
    /\ Release
    /\ UNCHANGED fingerprints

\* load() of a text the source has: the row keeps the hash of its file.
LoadKnown(i, f, t) ==
    /\ FileNew(i, f)
    /\ t \in TextRead(i, f) \ {NoText}
    /\ ByContent(docs[i].source, t) # {}
    /\ docs' = [docs EXCEPT ![i].status = "duplicate", ![i].hash = f,
                            ![i].original = First(ByContent(docs[i].source, t))]
    /\ jobs' = [jobs EXCEPT ![Job(i)].downloaded = @ + 1, ![Job(i)].duplicate = @ + 1]
    /\ Release
    /\ UNCHANGED fingerprints

\* load() of a new text; writing the text file is its last step and may fail, which
\* both etl_pipeline and download_one count.
LoadNew(i, f, t, written) ==
    /\ FileNew(i, f)
    /\ t \in TextRead(i, f) \ {NoText}
    /\ ByContent(docs[i].source, t) = {}
    /\ fingerprints' = fingerprints \cup {i}
    /\ docs' = [docs EXCEPT ![i].status = IF written THEN "processed" ELSE "failed",
                            ![i].hash = f, ![i].content = t]
    /\ jobs' = [jobs EXCEPT ![Job(i)].downloaded = @ + 1,
                            ![Job(i)].failed = IF written THEN @ ELSE @ + 2]
    /\ Release

\* The file cannot be read or its text cannot be encoded: counted twice as well.
EtlFails(i, f) ==
    /\ FileNew(i, f)
    /\ docs' = [docs EXCEPT ![i].status = "failed", ![i].hash = f]
    /\ jobs' = [jobs EXCEPT ![Job(i)].downloaded = @ + 1, ![Job(i)].failed = @ + 2]
    /\ Release
    /\ UNCHANGED fingerprints

EndDownload(i) ==
    \/ DownloadFails(i)
    \/ \E f \in Files :
        \/ FileKnown(i, f)
        \/ FileLost(i, f)
        \/ LoadNothing(i, f)
        \/ EtlFails(i, f)
        \/ \E t \in Texts : LoadKnown(i, f, t) \/ \E w \in BOOLEAN : LoadNew(i, f, t, w)

-----------------------------------------------------------------------------
OwnRows(c) == {i \in Rows : docs[i].crawl = c}

\* As if the end of the gather were that of documents processed, so that a failed one
\* kept its crawl waiting.
Complete_AllProcessed(c) ==
    /\ phase[c] = "downloading"
    /\ \A i \in OwnRows(c) : docs[i].status \in {"processed", "duplicate"}
    /\ jobs' = [jobs EXCEPT ![c].status = "completed"]
    /\ phase' = [phase EXCEPT ![c] = "ended"]
    /\ UNCHANGED <<docs, fingerprints, known, permits>>

\* gather() has all its results.
Complete(c) ==
    /\ phase[c] = "downloading"
    /\ \A i \in OwnRows(c) : docs[i].status \notin {"pending_download", "downloading"}
    /\ jobs' = [jobs EXCEPT ![c].status = "completed"]
    /\ phase' = [phase EXCEPT ![c] = "ended"]
    /\ UNCHANGED <<docs, fingerprints, known, permits>>

\* SchedulerService.stop() cancels the crawls the scheduler started.  CancelledError
\* is no Exception: jobs and rows stay as they are, permits are given back.
Cancelled == {c \in Crawls : InProgress(c) /\ jobs[c].scheduled}

Stop ==
    /\ Cancelled # {}
    /\ phase' = [c \in Crawls |-> IF c \in Cancelled THEN "cancelled" ELSE phase[c]]
    /\ permits' = permits + Cardinality({i \in Rows : Holding(i) /\ Job(i) \in Cancelled})
    /\ UNCHANGED <<docs, fingerprints, jobs, known>>

Next ==
    \/ \E c \in Crawls :
        \/ \E s \in Sources, b \in BOOLEAN : StartCrawl(c, s, b)
        \/ \E listing \in Listings : Discover(c, listing)
        \/ DiscoverFails(c)
        \/ Complete(c)
    \/ \E i \in Rows : BeginDownload(i) \/ EndDownload(i)
    \/ Stop

Spec == Init /\ [][Next]_vars

MaxRows == MaxCrawls * Cardinality(ExternalIds)

\* The site answers or the client's timeouts and retries run out; nothing makes a
\* crawl start or stop.
Fairness ==
    /\ \A c \in Crawls :
        /\ WF_vars(DiscoverFails(c) \/ \E listing \in Listings : Discover(c, listing))
        /\ WF_vars(Complete(c))
    /\ \A i \in 1..MaxRows : WF_vars(i \in Rows /\ (BeginDownload(i) \/ EndDownload(i)))

FairSpec == Spec /\ Fairness

-----------------------------------------------------------------------------
(* Properties.                                                             *)

Statuses == {"pending_download", "downloading", "processed", "failed", "duplicate"}

Documents == [source : Sources, ext : ExternalIds, crawl : Crawls, status : Statuses,
              hash : Files \cup {None}, content : Texts \cup {NoText, None},
              original : Nat, shared : BOOLEAN]

CrawlJobs == [source : Sources \cup {None},
              status : {"unborn", "running", "completed", "failed"},
              scheduled : BOOLEAN, found : Nat, downloaded : Nat,
              failed : Nat, duplicate : Nat]

\* Rows, jobs and the semaphore keep to their domains.
TypeOK ==
    /\ docs \in Seq(Documents)
    /\ fingerprints \subseteq Rows
    /\ jobs \in [Crawls -> CrawlJobs]
    /\ phase \in [Crawls -> {"unborn", "discovering", "downloading", "ended", "cancelled"}]
    /\ known \in [Crawls -> SUBSET Files]
    /\ permits \in 0..Concurrency

\* However crawls of one source overlap, each text gets one fingerprint, also when
\* the row that has it failed later.
\* (ETLService.load: look-up and mark_processed in one step)
OneFingerprintPerText ==
    \A i, j \in fingerprints :
        docs[i].source = docs[j].source /\ docs[i].content = docs[j].content => i = j

\* The original of a row found to repeat a text has that text and is no duplicate,
\* be it inserted later; the original of one found to repeat a file came earlier.  So
\* following originals never comes back.  (mark_duplicate in crawl_source and load)
OriginalsHeld ==
    \A i \in Rows : docs[i].status = "duplicate" =>
        /\ docs[i].original \in Rows \ {i}
        /\ LET o == docs[docs[i].original]
           IN  IF docs[i].hash = None
               THEN docs[i].original < i /\ o.hash # None
               ELSE o.status # "duplicate" /\ o.content \in Texts /\ o.source = docs[i].source

\* A job's counters agree with its rows at every moment, of a cancelled crawl too:
\* downloads with the hashes, duplicates with the rows so marked, and no failed
\* download is missing from the failures.  (documents_downloaded, _duplicate, _failed)
JobsCountRows ==
    \A c \in Crawls :
        /\ jobs[c].downloaded = Cardinality({i \in OwnRows(c) : docs[i].hash # None})
        /\ jobs[c].duplicate = Cardinality({i \in OwnRows(c) : docs[i].status = "duplicate"})
        /\ jobs[c].failed >= Cardinality({i \in OwnRows(c) :
                                docs[i].status = "failed" /\ docs[i].hash = None})

\* The permits held are those of the downloads in progress: none leaks with a
\* failure, a duplicate or a cancellation.  (async with self._semaphore)
PermitsReturned == permits + Cardinality({i \in Rows : Holding(i)}) = Concurrency

\* Every crawl ends, with one permit for all of them.  (gather, self._semaphore)
CrawlsEnd == \A c \in Crawls : InProgress(c) ~> ~InProgress(c)
=============================================================================
