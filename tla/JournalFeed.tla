----------------------------- MODULE JournalFeed -----------------------------
(***************************************************************************)
(* The audit journal and the clients that follow it.  Entries are appended *)
(* in transactions, one command or one step of a Turn at a time, and get   *)
(* consecutive positions.  A watcher asks for the entries after a cursor   *)
(* that match its filter: the Hub scans the journal in batches, each batch *)
(* a query of its own, until the page is full or the journal ends, and     *)
(* returns a cursor from which the watcher asks again.  A watch that finds *)
(* nothing waits for a notification or for its deadline.                   *)
(***************************************************************************)
EXTENDS Naturals, Sequences, SequencesExt

CONSTANTS
    Limit,       \* entries of a page
    ScanBatch,   \* entries of one query (256 in the code)
    MaxBytes,    \* bytes of a page's entries
    Sizes,       \* the sizes an entry may have
    MaxEntries,  \* bound on the journal
    MaxAppend    \* bound on the entries of one transaction

\* What the constants must satisfy; every instance assumes it.
PageHoldsAnEntry ==
    /\ Limit \in Nat \ {0} /\ ScanBatch \in Nat \ {0}
    /\ \A s \in Sizes : s <= MaxBytes

VARIABLES
    journal,    \* journal_entries: whether the watcher's filter matches, and the size
    phase,      \* of the watch: "begin", "scan", "wait" or "answered"
    notified,   \* a notification came since the watch enabled it
    expired,    \* the watch's deadline is over
    scan,       \* the page being built
    query,      \* the cursor the watch reads from
    page,       \* the page the watcher was answered with
    got         \* positions the watcher has received, in order

vars == <<journal, phase, notified, expired, scan, query, page, got>>

Matches(i) == journal[i].match
EmptyScan(after) == [cursor |-> after, taken |-> << >>, bytes |-> 0, full |-> FALSE]
Page(s, more) == [entries |-> s.taken, cursor |-> s.cursor, more |-> more]

Init ==
    /\ journal = << >> /\ phase = "begin" /\ notified = FALSE /\ expired = FALSE
    /\ scan = EmptyScan(0) /\ query = 0 /\ page = Page(EmptyScan(0), FALSE)
    /\ got = << >>

--------------------
(* The journal.                                                            *)

\* append_journal_entries_in: all the entries of a command, or none.
AppendEntries ==
    /\ \E k \in 1..MaxAppend :
         /\ Len(journal) + k <= MaxEntries
         /\ \E es \in [1..k -> [match : BOOLEAN, size : Sizes]] : journal' = journal \o es
    /\ UNCHANGED <<phase, notified, expired, scan, query, page, got>>

\* dispatch notifies after the commit of a command, and after reads too; the steps
\* of a Turn are committed without.
Notify ==
    /\ ~notified /\ notified' = TRUE
    /\ UNCHANGED <<journal, phase, expired, scan, query, page, got>>

--------------------
(* poll_journal_entries and journal_entries_page.                          *)

\* The notification is enabled before the journal is read.
BeginScan ==
    /\ phase = "begin"
    /\ phase' = "scan" /\ notified' = FALSE
    /\ scan' = EmptyScan(query)
    /\ UNCHANGED <<journal, expired, query, page, got>>

Bytes(s, i) == s.bytes + (IF s.taken = << >> THEN 0 ELSE 1) + journal[i].size

\* (The page is full as soon as it holds Limit entries.)
FullAtLimit(s, i) ==
    \/ Len(s.taken) = Limit
    \/ Matches(i) /\ Bytes(s, i) > MaxBytes

IgnoresBytes(s, i) == Matches(i) /\ Len(s.taken) = Limit

NoRoom(s, i) == Matches(i) /\ (Len(s.taken) = Limit \/ Bytes(s, i) > MaxBytes)

\* (A match that does not fit is passed over, like an unrelated entry.)
SkipsWhatDoesNotFit(s, i) ==
    IF s.full THEN s
    ELSE IF NoRoom(s, i) THEN [s EXCEPT !.cursor = i]
    ELSE IF Matches(i)
    THEN [s EXCEPT !.taken = Append(@, i), !.cursor = i, !.bytes = Bytes(s, i)]
    ELSE [s EXCEPT !.cursor = i]

\* One entry: a match is taken if there is room and ends the page if there is none;
\* any other entry only moves the cursor.
ScanEntry(s, i) ==
    IF s.full THEN s
    ELSE IF NoRoom(s, i) THEN [s EXCEPT !.full = TRUE]
    ELSE IF Matches(i)
    THEN [s EXCEPT !.taken = Append(@, i), !.cursor = i, !.bytes = Bytes(s, i)]
    ELSE [s EXCEPT !.cursor = i]

\* journal_entries_after: the next ScanBatch positions.
Batch(after) ==
    LET n == IF after + ScanBatch <= Len(journal) THEN ScanBatch ELSE Len(journal) - after
    IN [k \in 1..n |-> after + k]

\* A page with entries, or any page after the deadline, is the answer; an empty one
\* still moves the cursor.
Answer(p) ==
    IF p.entries # << >> \/ expired
    THEN phase' = "answered" /\ page' = p /\ UNCHANGED query
    ELSE phase' = "wait" /\ query' = p.cursor /\ UNCHANGED page

\* One query and what it adds.  The page ends when it is full or when the batch was
\* short of ScanBatch entries.
ScanBatchOnce ==
    /\ phase = "scan"
    /\ LET done == FoldLeft(ScanEntry, scan, Batch(scan.cursor)) IN
       /\ scan' = done
       /\ \/ done.full /\ Answer(Page(done, TRUE))
          \/ ~done.full /\ Len(Batch(scan.cursor)) < ScanBatch /\ Answer(Page(done, FALSE))
          \/ ~done.full /\ Len(Batch(scan.cursor)) = ScanBatch /\ UNCHANGED <<phase, page, query>>
    /\ UNCHANGED <<journal, notified, expired, got>>

Deadline ==
    /\ phase # "answered" /\ ~expired
    /\ expired' = TRUE
    /\ UNCHANGED <<journal, phase, notified, scan, query, page, got>>

WaitsForNotify ==
    /\ phase = "wait" /\ notified
    /\ phase' = "begin"
    /\ UNCHANGED <<journal, notified, expired, scan, query, page, got>>

\* An empty page is followed by a wait for a notification or the deadline.
Wait ==
    /\ phase = "wait"
    /\ notified \/ expired
    /\ phase' = "begin"
    /\ UNCHANGED <<journal, notified, expired, scan, query, page, got>>

\* The watcher takes the page and asks again from its cursor.
Receive ==
    /\ phase = "answered"
    /\ got' = got \o page.entries
    /\ query' = page.cursor
    /\ phase' = "begin" /\ expired' = FALSE
    /\ UNCHANGED <<journal, notified, scan, page>>

Next == AppendEntries \/ Notify \/ BeginScan \/ ScanBatchOnce \/ Deadline \/ Wait \/ Receive

\* The Hub scans, the watcher asks again, and deadlines pass.
Fairness ==
    WF_vars(BeginScan \/ ScanBatchOnce \/ Wait \/ Receive) /\ WF_vars(Deadline)

Spec == Init /\ [][Next]_vars /\ Fairness

--------------------
MatchesUpTo(n) == SelectSeq([i \in 1..n |-> i], Matches)

\* Every variable keeps its type, and no page is larger than its limits.
TypeOK ==
    /\ phase \in {"begin", "scan", "wait", "answered"}
    /\ query \in 0..Len(journal) /\ scan.cursor \in 0..Len(journal)
    /\ scan.bytes <= MaxBytes /\ Len(scan.taken) <= Limit
    /\ page.cursor \in 0..Len(journal)

\* "so the returned cursor can safely advance past unrelated events without skipping
\* a future match": what a watcher has received is exactly the matching entries
\* up to its cursor, each once and in order, whatever is appended while it reads.
NothingSkipped == got = MatchesUpTo(query)

\* "`has_more` describes the filtered result set": a page that announces more is
\* followed by a match.
MoreMeansAMatch ==
    (phase = "answered" /\ page.more) => \E i \in (page.cursor + 1)..Len(journal) : Matches(i)

\* A matching entry reaches the watcher, also when it is committed by work that
\* notifies nobody.
EveryMatchArrives ==
    \A i \in 1..MaxEntries : (i <= Len(journal) /\ Matches(i)) ~> (\E k \in DOMAIN got : got[k] = i)
=============================================================================
