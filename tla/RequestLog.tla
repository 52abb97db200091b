----------------------------- MODULE RequestLog -----------------------------
(***************************************************************************)
(* The request log (gateway/request-log.ts, shutdown() in server.ts): what *)
(* is added is buffered, written to SQLite by a timer and pruned to the    *)
(* newest rows; it is read page by page while that goes on, and the        *)
(* process may be told to stop, or crash, and boots again.                 *)
(***************************************************************************)
EXTENDS Integers, FiniteSets, SequencesExt

CONSTANTS MaxLogEntries, \* MAX_LOG_ENTRIES
          PageLimit,     \* the limit of the pages that are read
          MaxFlying,     \* bound: requests in flight at once
          MaxAdded,      \* bound: entries added in all
          MaxBoots       \* bound: starts of the process

ASSUME RequestLogAssumption ==
    /\ MaxLogEntries \in Nat \ {0} /\ PageLimit \in Nat \ {0}
    /\ MaxFlying \in Nat /\ MaxAdded \in Nat /\ MaxBoots \in Nat

VARIABLES mode,     \* "up", "draining" after SIGTERM, or "down"
          flying,   \* requests that will be logged when they end
          pending,  \* the buffer, oldest first
          db,       \* the rows of request_logs
          nextSeq,
          stats,    \* the counters of /v1/status
          reader,   \* a client that reads the log page by page
          added,    \* history: entries added so far, which numbers their ids
          boots     \* history: starts so far

vars == <<mode, flying, pending, db, nextSeq, stats, reader, added, boots>>

Entry == [id : Nat, seq : Nat, ok : BOOLEAN]

NoReader == [reading |-> FALSE, before |-> -1, got |-> <<>>, start |-> {}]

-----------------------------------------------------------------------------
(* What SQLite does.                                                       *)

\* ORDER BY seq DESC; SeqsInOrder says that no two rows share a seq.
Newer(rows, e) == {f \in rows : f.seq > e.seq}
NewestFirst(rows) == [i \in 1 .. Cardinality(rows) |->
                         CHOOSE e \in rows : Cardinality(Newer(rows, e)) = i - 1]

FirstOf(s, n) == SubSeq(s, 1, IF Len(s) < n THEN Len(s) ELSE n)

\* pruneStmt
Pruned(rows) == ToSet(FirstOf(NewestFirst(rows), MaxLogEntries))

\* Mutant: the next number is that of the newest row.
ReusesSeq(rows) ==
    IF rows = {} THEN 0
    ELSE (CHOOSE e \in rows : \A f \in rows : f.seq <= e.seq).seq

\* COALESCE(MAX(seq), -1) + 1
SeqAfter(rows) ==
    IF rows = {} THEN 0
    ELSE (CHOOSE e \in rows : \A f \in rows : f.seq <= e.seq).seq + 1

\* hydrateStats()
Hydrated(rows) == [success |-> Cardinality({e \in rows : e.ok}),
                   failed  |-> Cardinality({e \in rows : ~e.ok})]

\* No database yet, and the process not started.
Init == /\ mode = "down"
        /\ flying = 0
        /\ pending = <<>>
        /\ db = {}
        /\ nextSeq = 0
        /\ stats = Hydrated({})
        /\ reader = NoReader
        /\ added = 0
        /\ boots = 0

-----------------------------------------------------------------------------
(* Writing.                                                                *)

Arrive == /\ mode = "up"
          /\ flying < MaxFlying
          /\ flying' = flying + 1
          /\ UNCHANGED <<mode, pending, db, nextSeq, stats, reader, added, boots>>

\* A request ends: add(), which keeps the newest of the buffer.
Add(ok) ==
    LET entry == [id |-> added + 1, seq |-> nextSeq, ok |-> ok]
        longer == Append(pending, entry)
    IN  /\ mode # "down"
        /\ flying > 0
        /\ added < MaxAdded
        /\ flying' = flying - 1
        /\ pending' = IF Len(longer) > MaxLogEntries THEN Tail(longer) ELSE longer
        /\ nextSeq' = nextSeq + 1
        /\ stats' = IF ok THEN [stats EXCEPT !.success = @ + 1]
                    ELSE [stats EXCEPT !.failed = @ + 1]
        /\ added' = added + 1
        /\ UNCHANGED <<mode, db, reader, boots>>

\* Mutant: the buffer makes room for the batch by itself.
FlushedAnew == /\ db' = IF pending = <<>> THEN db ELSE ToSet(pending)
               /\ pending' = <<>>

\* flush(): one transaction that inserts the batch and prunes.
Flushed == /\ db' = IF pending = <<>> THEN db ELSE Pruned(db \cup ToSet(pending))
           /\ pending' = <<>>

Flush == /\ mode # "down"
         /\ Flushed
         /\ UNCHANGED <<mode, flying, nextSeq, stats, reader, added, boots>>

\* SIGTERM: one last flush, whose failure is swallowed, and the server drains.
Sigterm ==
    /\ mode = "up"
    /\ mode' = "draining"
    /\ \/ Flushed
       \/ pending' = <<>> /\ UNCHANGED db
    /\ UNCHANGED <<flying, nextSeq, stats, reader, added, boots>>

\* The process ends with what it had in memory.
Stopped == /\ mode' = "down"
           /\ flying' = 0
           /\ pending' = <<>>
           /\ UNCHANGED <<db, nextSeq, stats, reader, added, boots>>

\* process.exit(), once the connections are drained or after 8 s.
Exit == mode = "draining" /\ Stopped

\* A kill, or a flush that fails in the timer and that nothing catches.
Crash == mode # "down" /\ Stopped

\* The constructor, and the server that comes up with it.
Boot == /\ mode = "down"
        /\ boots < MaxBoots
        /\ mode' = "up"
        /\ nextSeq' = SeqAfter(db)
        /\ stats' = Hydrated(db)
        /\ boots' = boots + 1
        /\ UNCHANGED <<flying, pending, db, reader, added>>

-----------------------------------------------------------------------------
(* Reading.  before = -1 stands for no cursor.                             *)

Below(rows, before) ==
    IF before = -1 THEN rows ELSE {e \in rows : e.seq < before}

\* Mutant: the rows are only read when the buffer gave nothing.
PageOfOne(limit, before) ==
    LET buffered == FirstOf(NewestFirst(Below(ToSet(pending), before)), limit)
    IN  IF buffered # <<>> THEN buffered
        ELSE FirstOf(NewestFirst(Below(db, before)), limit)

\* getPage(): the buffer first, then the rows below what it gave.
Page(limit, before) ==
    LET buffered == FirstOf(NewestFirst(Below(ToSet(pending), before)), limit)
        cursor == IF buffered = <<>> THEN before ELSE Last(buffered).seq
    IN  buffered \o FirstOf(NewestFirst(Below(db, cursor)), limit - Len(buffered))

\* getRecent()
Recent(limit) ==
    LET buffered == FirstOf(NewestFirst(ToSet(pending)), limit)
    IN  buffered \o FirstOf(NewestFirst(db), limit - Len(buffered))

Retained == ToSet(pending) \cup db

\* GET /v1/status/requests: the first page, or the one after the last.  A page
\* with fewer entries than its limit is the last: its nextBefore is null.
ReadPage ==
    LET from == IF reader.reading THEN reader ELSE [NoReader EXCEPT !.start = Retained]
        page == Page(PageLimit, from.before)
    IN  /\ mode # "down"
        /\ reader' = [reading |-> Len(page) = PageLimit,
                      before  |-> IF page = <<>> THEN from.before ELSE Last(page).seq,
                      got     |-> from.got \o page,
                      start   |-> from.start]
        /\ UNCHANGED <<mode, flying, pending, db, nextSeq, stats, added, boots>>

Next ==
    \/ Arrive
    \/ \E ok \in BOOLEAN : Add(ok)
    \/ Flush
    \/ Sigterm
    \/ Exit
    \/ Crash
    \/ Boot
    \/ ReadPage

Spec == Init /\ [][Next]_vars
-----------------------------------------------------------------------------
TypeOK ==
    /\ mode \in {"up", "draining", "down"}
    /\ flying \in 0 .. MaxFlying
    /\ pending \in Seq(Entry) /\ Len(pending) <= MaxLogEntries
    /\ db \subseteq Entry /\ Cardinality(db) <= MaxLogEntries
    /\ nextSeq \in Nat
    /\ stats \in [success : Nat, failed : Nat]
    /\ reader \in [reading : BOOLEAN, before : Nat \cup {-1}, got : Seq(Entry),
                   start : SUBSET Entry]
    /\ added \in Nat /\ boots \in Nat

\* Across restarts that lose the end of the log, the numbers stay unique among
\* the entries that are left, follow the order the entries were added in, and
\* the next one is above them all (nextSeq, hydration).
SeqsInOrder ==
    /\ \A e, f \in Retained : e.seq < f.seq <=> e.id < f.id
    /\ mode # "down" => \A e \in Retained : e.seq < nextSeq

\* While the process runs an entry leaves the log only when MaxLogEntries newer
\* ones are left in it (backpressure in add, prune in flush); the flush of a
\* SIGTERM may fail.
LosesOldest ==
    [][mode' = mode =>
          \A e \in Retained \ Retained' :
             Cardinality(Newer(Retained', e)) >= MaxLogEntries]_vars

\* Whoever follows nextBefore from page to page gets no entry twice, and them
\* in order, whatever is added, flushed or lost between the pages (getPage).
PagesDescend ==
    \A i, j \in DOMAIN reader.got :
       i < j => /\ reader.got[i].seq > reader.got[j].seq
                /\ reader.got[i].id # reader.got[j].id

\* "Show all retained logs (up to 500)": and at the last page has had every entry
\* that was in the log at the first one and still is.
ShowsAllRetained ==
    ~reader.reading =>
       reader.start \cap Retained \subseteq ToSet(reader.got)

\* The status page's recent requests are the first page of the log.
RecentIsFirstPage ==
    \A limit \in 1 .. MaxLogEntries : Recent(limit) = Page(limit, -1)

\* What readers of the log get, in pages and at a glance.
PagesFaithful == PagesDescend /\ ShowsAllRetained /\ RecentIsFirstPage

\* "hydrated from DB": at no time, and after no restart, do the counters show fewer
\* requests of a status than the log still holds (add, hydrateStats).
CountersCoverLog ==
    mode # "down" =>
       /\ stats.success >= Cardinality({e \in Retained : e.ok})
       /\ stats.failed >= Cardinality({e \in Retained : ~e.ok})

\* The type invariant with the numbering and the counters.
LogInv == TypeOK /\ SeqsInOrder /\ CountersCoverLog

\* "Final flush is sync, awaits write before exit": a process that drains its
\* connections and exits leaves nothing unwritten.
ExitLosesNothing == [][Exit /\ flying = 0 => pending = <<>>]_vars
=============================================================================
