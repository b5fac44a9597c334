----------------------------- MODULE SessionLog -----------------------------
(***************************************************************************)
(* The timeline of one Session: table session_entries and the columns      *)
(* sessions.leaf_entry_id and turns.completed_at (mews-store/src/          *)
(* sessions.rs), the active context read from it and the pages in which    *)
(* clients read it.                                                        *)
(*                                                                         *)
(* An entry's id is its position, which is also its sequence number.       *)
(* Contextual entries (user message, assistant response, tool result,      *)
(* compaction) form a tree through their parent; the leaf selects one      *)
(* branch.  Side entries hang off the leaf and never move it.              *)
(*                                                                         *)
(* A store operation is one transaction and one action, except the two     *)
(* that read the timeline before they open their transaction               *)
(* (append_message, append_context_compaction): each is a read action and  *)
(* a write action, and other connections write in between.                 *)
(***************************************************************************)
EXTENDS Integers, FiniteSets, SequencesExt

CONSTANTS
  MaxEntries,   \* bound on the entries of the Session
  MaxTurns,     \* bound on the Turns of the Session
  Keys,         \* idempotency keys of observations
  Limit,        \* the largest number of items of one page
  Readers,      \* which of the clients page and history read
  None          \* SQL NULL, Option::None

\* What the constants must satisfy; every instance assumes it.
ReadersAssumption == Readers \subseteq {"entries", "messages"}
BoundsAssumption == {MaxEntries, MaxTurns} \subseteq Nat /\ Limit \in Nat \ {0}

VARIABLES
  entries,      \* table session_entries, in the order of sequence
  leaf,         \* sessions.leaf_entry_id, 0 for NULL
  turn,         \* number of the last accepted Turn
  running,      \* the last accepted Turn has no completed_at
  intent,       \* a connection between the read and the write of an operation
  refused,      \* keys of observations whose insert met a unique index
  page,         \* a client reading all entries page by page
  history       \* a client reading the active messages page by page

log == <<entries, leaf, turn, running, refused>>
vars == <<log, intent, page, history>>

Contextual == {"user", "assistant", "tool_result", "compaction"}
Side == {"turn_started", "tool_started", "reasoning", "observation", "turn_ended"}
Ids == 1..MaxEntries
TurnKey == {<<"turn", t>> : t \in 1..MaxTurns}

Entry == [kind : Contextual \cup Side, parent : 0..MaxEntries, turn : 0..MaxTurns,
          key : Keys \cup TurnKey \cup {None}, kept : 0..MaxEntries]
Reader == [after : 0..MaxEntries, seen : Seq(Nat), done : BOOLEAN]

TypeOK ==
  /\ entries \in Seq(Entry) /\ Len(entries) <= MaxEntries
  /\ leaf \in 0..Len(entries)
  /\ turn \in 0..MaxTurns /\ running \in BOOLEAN
  /\ intent \in [op : {"none", "message", "compaction"}, at : 0..MaxEntries]
  /\ refused \subseteq Keys \cup {None}
  /\ page.after \in 0..MaxEntries /\ page.done \in BOOLEAN
  /\ history.after \in Nat /\ history.moved \in BOOLEAN

Idle == [op |-> "none", at |-> 0]

Init ==
  /\ entries = <<>> /\ leaf = 0
  /\ turn = 0 /\ running = FALSE
  /\ intent = Idle
  /\ refused = {}
  /\ page = [after |-> 0, seen |-> <<>>, done |-> FALSE]
  /\ history = [after |-> 0, seen |-> <<>>, moved |-> FALSE]

--------------------
(* Reading the timeline.                                                   *)

\* The chain of parents of entry e in the timeline es, e included.
Branch(es, e) ==
  LET up[i \in 0..Len(es)] == IF i = 0 THEN {} ELSE {i} \cup up[es[i].parent]
  IN  up[e]

\* A mutant: the boundary itself is summarised away.
ApplyLatestCompactionOffByOne(es, chain) ==
  LET found == {i \in 1..Len(chain) : es[chain[i]].kind = "compaction"}
      c == Max(found)
      first == {i \in 1..Len(chain) : chain[i] = es[chain[c]].kept}
  IN  IF found = {} \/ first = {} THEN chain
      ELSE <<chain[c]>> \o SubSeq(chain, Max(first) + 1, c - 1)
             \o SubSeq(chain, c + 1, Len(chain))

\* The latest compaction of a branch comes first, then what it kept, then
\* what followed it.  A boundary outside the branch hides nothing.
ApplyLatestCompaction(es, chain) ==
  LET found == {i \in 1..Len(chain) : es[chain[i]].kind = "compaction"}
      c == Max(found)
      first == {i \in 1..Len(chain) : chain[i] = es[chain[c]].kept}
  IN  IF found = {} \/ first = {} THEN chain
      ELSE <<chain[c]>> \o SubSeq(chain, Max(first), c - 1)
             \o SubSeq(chain, c + 1, Len(chain))

\* ORDER BY sequence: the i-th entry has i entries up to it.
BySequence(ids) ==
  [i \in 1..Cardinality(ids) |-> CHOOSE e \in ids : Cardinality({d \in ids : d <= e}) = i]

\* active_entries: the branch of the leaf ORDER BY sequence, compacted.
ActiveEntries(es, e) == ApplyLatestCompaction(es, BySequence(Branch(es, e)))

\* portable_history: an assistant response is one message per block (a text and
\* a tool call here), the other contextual entries are one message each.
PortableHistory(es, chain) ==
  FlattenSeq([i \in 1..Len(chain) |->
     IF es[chain[i]].kind = "assistant" THEN <<chain[i], chain[i]>> ELSE <<chain[i]>>])

ActiveMessages == PortableHistory(entries, ActiveEntries(entries, leaf))

--------------------
(* Writing the timeline.                                                   *)

\* A mutant: side entries advance the leaf too.
NewLeafAlways(es, id, kind) == id

\* Only a contextual entry advances the leaf.
NewLeaf(es, id, kind) == IF kind \in Contextual THEN id ELSE leaf

\* The timeline es with one more entry under parent p.
With(es, p, kind, t, key, kept) ==
  Append(es, [kind |-> kind, parent |-> p, turn |-> t, key |-> key, kept |-> kept])

Room(n) == Len(entries) + n <= MaxEntries

\* append_session_entry: the new entry hangs off the current leaf.
AppendEntry(kind, t, key, kept) ==
  /\ Room(1)
  /\ entries' = With(entries, leaf, kind, t, key, kept)
  /\ leaf' = NewLeaf(entries, Len(entries) + 1, kind)

\* accept_turn_idempotent, TurnAccepted: the Turn and its user message.
AcceptTurn ==
  /\ ~running /\ turn < MaxTurns
  /\ AppendEntry("user", 0, None, 0)
  /\ turn' = turn + 1 /\ running' = TRUE
  /\ UNCHANGED <<intent, refused, page, history>>

\* record_turn_harness, TurnStarted.
TurnStarted ==
  /\ running
  /\ \A i \in 1..Len(entries) : ~(entries[i].kind = "turn_started" /\ entries[i].turn = turn)
  /\ AppendEntry("turn_started", turn, None, 0)
  /\ UNCHANGED <<turn, running, intent, refused, page, history>>

\* append_assistant_response_with_tool_calls: the response and a side entry
\* for a call accepted from it, which hangs off the response.
AppendAssistantResponse(calls) ==
  /\ running
  /\ Room(1 + calls)
  /\ LET first == With(entries, leaf, "assistant", turn, None, 0)
         id == Len(entries) + 1
     IN  /\ entries' = IF calls = 0 THEN first
                       ELSE With(first, id, "tool_started", turn, None, 0)
         /\ leaf' = id
  /\ UNCHANGED <<turn, running, intent, refused, page, history>>

\* append_tool_requested: a call requested outside a response.
AppendToolRequested ==
  /\ running
  /\ AppendEntry("tool_started", turn, None, 0)
  /\ UNCHANGED <<turn, running, intent, refused, page, history>>

\* append_tool_result.
AppendToolResult ==
  /\ running
  /\ AppendEntry("tool_result", turn, None, 0)
  /\ UNCHANGED <<turn, running, intent, refused, page, history>>

\* finish_turn and the other ends of a Turn.
TurnEnded ==
  /\ running
  /\ AppendEntry("turn_ended", turn, None, 0)
  /\ running' = FALSE
  /\ UNCHANGED <<turn, intent, refused, page, history>>

--------------------
(* Observations.                                                           *)

\* record_journal_entry: an event of a Turn without a correlation id is
\* correlated with its Turn.
CorrelationId(key, t) == IF key = None THEN <<"turn", t>> ELSE key

\* A mutant: the key is looked up in the Turn alone.
ObservationExistsInTurn(key) ==
  key # None /\ \E i \in 1..Len(entries) : entries[i].key = key /\ entries[i].turn = turn

\* observation_exists.
ObservationExists(key) == key # None /\ \E i \in 1..Len(entries) : entries[i].key = key

\* The unique index acp_observation_idempotency.
KeyFree(key) == \A i \in 1..Len(entries) : entries[i].key # key

\* A key already recorded is a success that writes nothing.  Otherwise the key
\* of the entry is the correlation id of its event, and an insert that meets
\* the unique index fails.
RecordObservation(kind, key) ==
  /\ ~ObservationExists(key)
  /\ IF KeyFree(CorrelationId(key, turn))
       THEN /\ AppendEntry(kind, turn, CorrelationId(key, turn), 0)
            /\ UNCHANGED refused
       ELSE /\ refused' = refused \cup {key}
            /\ UNCHANGED <<entries, leaf>>
  /\ UNCHANGED <<turn, running, intent, page, history>>

\* append_reasoning, of a running Turn.
AppendReasoning(key) == running /\ RecordObservation("reasoning", key)

\* append_harness_observations, of a running Turn.
AppendHarnessObservation(key) == running /\ RecordObservation("observation", key)

\* append_acp_observation, which does not ask whether the Turn has ended.
AppendAcpObservation(key) == turn > 0 /\ RecordObservation("observation", key)

--------------------
(* Messages, branches and compaction.                                      *)

\* append_message reads the leaf before its transaction.
ReadLeaf ==
  /\ intent = Idle
  /\ intent' = [op |-> "message", at |-> leaf]
  /\ UNCHANGED <<log, page, history>>

\* A mutant: the expected leaf is used as the parent without being compared.
AppendMessageUnchecked ==
  /\ intent.op = "message"
  /\ Room(1)
  /\ entries' = With(entries, intent.at, "user", 0, None, 0)
  /\ leaf' = Len(entries) + 1
  /\ intent' = Idle
  /\ UNCHANGED <<turn, running, refused, page, history>>

\* append_message_checked: a leaf that has moved is a LeafConflict.
AppendMessageChecked ==
  /\ intent.op = "message"
  /\ IF leaf = intent.at THEN AppendEntry("user", 0, None, 0)
                         ELSE UNCHANGED <<entries, leaf>>
  /\ intent' = Idle
  /\ UNCHANGED <<turn, running, refused, page, history>>

\* append_context_compaction looks for its boundary in the active entries
\* before its transaction.
CheckBoundary(kept) ==
  /\ intent = Idle
  /\ kept \in Range(ActiveEntries(entries, leaf))
  /\ intent' = [op |-> "compaction", at |-> kept]
  /\ UNCHANGED <<log, page, history>>

AppendContextCompaction ==
  /\ intent.op = "compaction"
  /\ AppendEntry("compaction", 0, None, intent.at)
  /\ history' = [history EXCEPT !.moved = TRUE]
  /\ intent' = Idle
  /\ UNCHANGED <<turn, running, refused, page>>

\* A mutant: the new leaf is not looked up.
SetSessionLeafAnywhere(new) ==
  /\ new # leaf
  /\ leaf' = new
  /\ history' = [history EXCEPT !.moved = TRUE]
  /\ UNCHANGED <<entries, turn, running, intent, refused, page>>

\* set_session_leaf_checked: NULL or a contextual entry of the Session.
SetSessionLeaf(new) ==
  /\ new = 0 \/ (new \in 1..Len(entries) /\ entries[new].kind \in Contextual)
  /\ new # leaf
  /\ leaf' = new
  /\ history' = [history EXCEPT !.moved = TRUE]
  /\ UNCHANGED <<entries, turn, running, intent, refused, page>>

--------------------
(* Pages.                                                                  *)

\* A mutant: the cursor is the item that was left for the next page.
PageNextSkips(rest, n) == rest[n] + 1

\* The cursor after a page of n of the items in rest: the last one it holds.
PageNext(rest, n) == rest[n]

\* session_entries_page: up to Limit entries after the cursor, fewer when the
\* payload limit cuts the page short, at least one when there is one.
SessionEntriesPage(n) ==
  LET rest == [i \in 1..(Len(entries) - page.after) |-> page.after + i]
  IN  /\ "entries" \in Readers /\ ~page.done
      /\ n \in IF rest = <<>> THEN {0} ELSE 1..Min({Limit, Len(rest)})
      /\ page' = [after |-> IF n < Len(rest) THEN PageNext(rest, n) ELSE page.after,
                  seen |-> page.seen \o SubSeq(rest, 1, n),
                  done |-> n = Len(rest)]
      /\ UNCHANGED <<log, intent, history>>

\* A mutant: the cursor is the sequence of the entry behind the message.
ActiveMessagesPageByEntry(n) ==
  LET all == ActiveMessages
      rest == [i \in 1..(Len(all) - history.after) |-> history.after + i]
  IN  /\ "messages" \in Readers
      /\ ~history.moved /\ history.after < Len(all)
      /\ n \in 1..Min({Limit, Len(rest)})
      /\ history' = [history EXCEPT
                       !.after = all[rest[n]],
                       !.seen = @ \o [i \in 1..n |-> all[rest[i]]]]
      /\ UNCHANGED <<log, intent, page>>

\* active_messages_page: the cursor is a position among the active messages.
ActiveMessagesPage(n) ==
  LET all == ActiveMessages
      rest == [i \in 1..(Len(all) - history.after) |-> history.after + i]
  IN  /\ "messages" \in Readers
      /\ ~history.moved /\ history.after < Len(all)
      /\ n \in 1..Min({Limit, Len(rest)})
      /\ history' = [history EXCEPT
                       !.after = PageNext(rest, n),
                       !.seen = @ \o [i \in 1..n |-> all[rest[i]]]]
      /\ UNCHANGED <<log, intent, page>>

--------------------

Next ==
  \/ AcceptTurn
  \/ TurnStarted
  \/ \E calls \in 0..1 : AppendAssistantResponse(calls)
  \/ AppendToolRequested
  \/ AppendToolResult
  \/ TurnEnded
  \/ \E key \in Keys \cup {None} :
       AppendReasoning(key) \/ AppendHarnessObservation(key) \/ AppendAcpObservation(key)
  \/ ReadLeaf
  \/ AppendMessageChecked
  \/ \E kept \in Ids : CheckBoundary(kept)
  \/ AppendContextCompaction
  \/ \E new \in 0..MaxEntries : SetSessionLeaf(new)
  \/ \E n \in 0..Limit : SessionEntriesPage(n) \/ ActiveMessagesPage(n)

Spec == Init /\ [][Next]_vars

--------------------
(* Properties.                                                             *)

\* What the model is shown is a branch of contextual entries: whatever side
\* entries were recorded while a response, a result or a branch change was on
\* its way, no branch ever runs through one, and the leaf is never one.
BranchesAreContextual ==
  /\ leaf # 0 => entries[leaf].kind \in Contextual
  /\ \A i \in 1..Len(entries) :
       entries[i].parent # 0 =>
         entries[i].parent < i /\ entries[entries[i].parent].kind \in Contextual

\* A compaction hides only what lies before its boundary: every entry of the
\* branch from the boundary on is in the active context once, in order, even
\* when the branch was changed between the check of the boundary and the
\* append, and the active context is never empty while the branch is not.
CompactionHidesOnlyThePast ==
  LET active == ActiveEntries(entries, leaf)
      branch == Branch(entries, leaf)
      latest == Max({0} \cup {i \in branch : entries[i].kind = "compaction"})
      kept == IF latest # 0 /\ entries[latest].kept \in branch
                THEN entries[latest].kept ELSE 0
  IN  /\ Cardinality(Range(active)) = Len(active)
      /\ Range(active) = {i \in branch : i >= kept}

\* An observation with a key is never refused: one that was recorded before, in
\* this or in an earlier Turn (context_dispatched:<session>), is accepted as done.
RepeatedObservationsAccepted == refused \subseteq {None}

\* A message appended by a caller that read the leaf before its transaction
\* continues the branch that is active when it commits: it never forks off a
\* branch that was left in between, nor off an entry that got a sibling.
MessagesContinueTheBranch ==
  [][leaf' # leaf /\ Len(entries') > Len(entries)
       => leaf \in Branch(entries', leaf') \cup {0}]_vars

\* A client that follows the cursors reads every entry once, in order, however
\* writers and page limits cut the pages, and is done only at the end.
EntryPagesAreComplete ==
  page.seen = [i \in 1..Len(page.seen) |-> i]

\* The same for the active messages, as long as the branch only grows.
HistoryPagesAreComplete ==
  ~history.moved => IsPrefix(history.seen, ActiveMessages)

\* "General correlation metadata is provenance and must not impose entry
\* uniqueness for the whole Turn" (sessions.rs): an observation without a key
\* is never refused because its Turn has another one.
CorrelationImposesNoUniqueness == None \notin refused
=============================================================================
